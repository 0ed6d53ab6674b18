SPECIFICATION FairSpec
CONSTANTS
    Jobs = {j1}
    Users = {u1}
    Verifiers = {v1}
    Extractors = {x1}
    NotifyWorkers = {n1}
    RetryWorkers = {r1}
    QueueCap = 1
    ChanCap = 1
    DeadLetterCap = 2
    MaxRetries = 0
    Near <- MCNear
    Legacy = {}
    Short = {}
    Garbled = {}
    Kind <- MCKind
    MaxRestarts = 0
    MaxFaults = 0
    None = None
PROPERTIES SettledJobsDecided
CHECK_DEADLOCK FALSE
