\* Three tables, one worker, no crash and no restart: an upgrade alone decides.
SPECIFICATION SchemaSpec
CONSTANTS
    Tables = {"agents", "audits", "secret_vault"}
    Workers = {w1}
    MaxCrashes = 0
    MaxRestarts = 0
INVARIANTS UpgradeInitialises
