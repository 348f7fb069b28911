\* One poller with the schedule of the code.
SPECIFICATION FairSpec
CONSTANTS
    NumDeliveries = 2
    Stuck = {1}
    Pollers = {p1}
    Admins = {a1}
    MaxRetries = 5
    Backoff <- CodeBackoff
    MaxSendTime = 2
    Null = Null
    MaxRequeues = 1
    MaxAborts = 1
INVARIANTS DeliveredWasAccepted DeadLetterEarned
PROPERTIES ImplementsContract EveryDeliverySettles
