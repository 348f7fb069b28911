\* Three loops and two callers of stop(); one audit, two clients, two faults; three
\* tables, two workers, one crash, one restart.
SPECIFICATION MCSpec
CONSTANTS
    Loops = {l1, l2, l3}
    NoLoop = NoLoop
    Callers = {c1, c2}
    MaxErrors = 2
    Audits = {a1}
    Clients = {c1, c2}
    NoAudit = NoAudit
    MaxRetries = 3
    MaxFaults = 2
    Tables = {"agents", "audits", "secret_vault"}
    Workers = {w1, w2}
    MaxCrashes = 1
    MaxRestarts = 1
    Scores = {10, 30, 31}
    Threshold = 20
    AlertHours = 1
    TrendHours = 2
    MaxAudits = 3
    MaxClock = 3
    Counts <- MCCounts
INVARIANTS RunningHasLoop SoleLoop RetriedJobTells StartedWorkerServes TransactionalStartupLeavesNoGap StampedIsThere AlertMatchesTrend ShortByRoundingOnly CategoriesRepresented
PROPERTIES AlertStands StoppedComesToRest RunningKeepsBeating EveryJobEnds CeleryImplementsLifecycle
\* A part may stop: every task is created, every job has ended, nobody calls.
CHECK_DEADLOCK FALSE
