\* Three requests on two workers, a window that slides, one restart and one error.
SPECIFICATION Spec
CONSTANTS
    Requests = {r1, r2, r3}
    Workers = {w1, w2}
    NoWorker = NoWorker
    k1 = k1
    k2 = k2
    k3 = k3
    Keys = {k1, k2, k3}
    NoKey = NoKey
    InitialKeys = {k1}
    AdminKeys = {k1}
    Limit <- MCLimit
    ExpiresAt <- MCExpiresAt
    Never = Never
    Window = 2
    MaxClock = 2
    MaxRestarts = 1
    MaxDbErrors = 1
SYMMETRY MCSymmetry
INVARIANTS WindowBound KeyChangesAreLogged
PROPERTIES ImplementsContract
\* The system may stop: every request was made.
CHECK_DEADLOCK FALSE
