SPECIFICATION Spec
CONSTANTS
    Jobs = {j1, j2}
    Users = {u1}
    Verifiers = {v1}
    Extractors = {x1, x2}
    NotifyWorkers = {n1}
    RetryWorkers = {r1}
    QueueCap = 1
    ChanCap = 1
    DeadLetterCap = 2
    MaxRetries = 1
    Near <- MCNear
    Legacy = {j2}
    Short = {}
    Garbled = {j2}
    Kind <- MCKind
    MaxRestarts = 1
    MaxFaults = 1
    None = None
SYMMETRY Symmetry
INVARIANTS IntakeUnhindered
PROPERTIES IntakeKept
CHECK_DEADLOCK FALSE
