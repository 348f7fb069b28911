\* Three requests on two workers, one restart and one database error.
SPECIFICATION Spec
CONSTANTS
    Requests = {r1, r2, r3}
    Workers = {w1, w2}
    NoWorker = NoWorker
    Names = {n1, n2}
    Values = {v1, Empty}
    Empty = Empty
    NoRow = NoRow
    MaxRestarts = 1
    MaxDbErrors = 1
SYMMETRY MCSymmetry
INVARIANTS EveryChangeHasAnAuthor AnswersAreAccountable
PROPERTIES ImplementsContract
CHECK_DEADLOCK FALSE
