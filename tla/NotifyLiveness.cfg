SPECIFICATION FairSpec
CONSTANTS
    Jobs = {j1}
    Users = {u1, u2}
    NotifyWorkers = {n1}
    RetryWorkers = {r1}
    MaxRetries = 1
    ChanCap = 1
    DeadLetterCap = 2
    MaxRestarts = 1
    MaxFaults = 0
    None = None
PROPERTIES DeliveryResolved WorkersReturn
CHECK_DEADLOCK FALSE
