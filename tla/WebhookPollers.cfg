\* Two pollers on the same rows: what survives without a lock.
SPECIFICATION FairSpec
CONSTANTS
    NumDeliveries = 1
    Stuck = {1}
    Pollers = {p1, p2}
    Admins = {a1, a2}
    MaxRetries = 3
    Backoff <- CodeBackoff
    MaxSendTime = 2
    Null = Null
    MaxRequeues = 2
    MaxAborts = 1
PROPERTIES EveryDeliverySettles
