SPECIFICATION FairSpec
CONSTANTS
    Jobs = {j1}
    Users = {u1}
    NotifyWorkers = {n1}
    RetryWorkers = {r1}
    MaxRetries = 0
    ChanCap = 1
    DeadLetterCap = 2
    MaxRestarts = 1
    MaxFaults = 0
    None = None
PROPERTIES JobLeavesProcessing
CHECK_DEADLOCK FALSE
