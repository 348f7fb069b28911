\* Two workers: the check of the cancel handler and its commit straddle a completion.
SPECIFICATION FairSpec
CONSTANTS
    Audits = {a1}
    Workers = {w1, w2}
    Clients = {c1}
    NoWorker = NoWorker
    NoAudit = NoAudit
    ForeignKeys = FALSE
    MaxRestarts = 0
    MaxDbErrors = 0
PROPERTIES SettledIsFinal
\* The system may stop: every id is used and nobody sends a request.
CHECK_DEADLOCK FALSE
