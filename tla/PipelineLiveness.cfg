SPECIFICATION FairSpec
CONSTANTS
    Jobs = {j1, j2}
    Users = {u1}
    Verifiers = {v1}
    Extractors = {x1, x2}
    NotifyWorkers = {n1}
    RetryWorkers = {r1}
    QueueCap = 1
    ChanCap = 1
    DeadLetterCap = 2
    MaxRetries = 1
    Near <- MCNear
    Legacy = {j2}
    Short = {j2}
    Garbled = {}
    Kind <- MCKind
    MaxRestarts = 1
    MaxFaults = 0
    None = None
PROPERTIES AcceptedReportDelivered StoredJobsExtracted
CHECK_DEADLOCK FALSE
