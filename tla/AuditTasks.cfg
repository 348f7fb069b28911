\* Two workers interleaving on the database, one crash, one database error.
SPECIFICATION Spec
CONSTANTS
    Audits = {a1, a2}
    Workers = {w1, w2}
    Clients = {c1, c2}
    NoWorker = NoWorker
    NoAudit = NoAudit
    ForeignKeys = FALSE
    MaxRestarts = 1
    MaxDbErrors = 1
SYMMETRY MCSymmetry
INVARIANTS TypeOK RowsAgree StampsTell EndedRunnerSettles
PROPERTIES DeletedStaysDeleted ImplementsLifecycle
\* The system may stop: every id is used and nobody sends a request.
CHECK_DEADLOCK FALSE
