\* Two workers create the same name at once; no faults, no empty value.
SPECIFICATION Spec
CONSTANTS
    Requests = {r1, r2}
    Workers = {w1, w2}
    NoWorker = NoWorker
    Names = {n1}
    Values = {v1}
    Empty = Empty
    NoRow = NoRow
    MaxRestarts = 0
    MaxDbErrors = 0
INVARIANTS LoggedSuccessHappened
CHECK_DEADLOCK FALSE
