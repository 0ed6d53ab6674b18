SPECIFICATION Spec
CONSTANTS
    Jobs = {j1, j2, j3}
    Users = {u1, u2}
    Verifiers = {v1, v2}
    Extractors = {x1, x2}
    QueueCap = 1
    Legacy = {j2, j3}
    FarJobs = {}
    Unlocated = {j3}
    Short = {}
    Garbled = {j2}
    Near <- MCNear
    Kind <- MCKind
    MaxRestarts = 2
    MaxFaults = 1
    None = None
SYMMETRY Symmetry
INVARIANTS TypeOK NoLostJob OnePublisher VerifiedOnly
PROPERTIES FinishedStays
CHECK_DEADLOCK FALSE
