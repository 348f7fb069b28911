\* Two workers on a database that enforces foreign keys.
SPECIFICATION FairSpec
CONSTANTS
    Audits = {a1, a2}
    Workers = {w1, w2}
    Clients = {c1}
    NoWorker = NoWorker
    NoAudit = NoAudit
    ForeignKeys = TRUE
    MaxRestarts = 0
    MaxDbErrors = 0
PROPERTIES EveryTaskFinishes EarlyCancelHonoured
\* The system may stop: every id is used and nobody sends a request.
CHECK_DEADLOCK FALSE
