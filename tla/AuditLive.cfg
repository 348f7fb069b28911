\* One worker, no faults: what the engine promises when nothing goes wrong.
SPECIFICATION FairSpec
CONSTANTS
    Audits = {a1, a2}
    Workers = {w1}
    Clients = {c1, c2}
    NoWorker = NoWorker
    NoAudit = NoAudit
    ForeignKeys = FALSE
    MaxRestarts = 0
    MaxDbErrors = 0
PROPERTIES SettledIsFinal EveryTaskSettles ImplementsFairLifecycle
\* The system may stop: every id is used and nobody sends a request.
CHECK_DEADLOCK FALSE
