SPECIFICATION Spec
CONSTANTS
    Jobs = {j1}
    Users = {u1, u2}
    NotifyWorkers = {n1}
    RetryWorkers = {r1, r2}
    MaxRetries = 2
    ChanCap = 2
    DeadLetterCap = 2
    MaxRestarts = 1
    MaxFaults = 1
    None = None
SYMMETRY Symmetry
INVARIANTS TypeOK ClosedForAReason RetryClaimExclusive NoLostWakeup NoStrandedRow VerdictAgrees FinalizerPending
PROPERTIES KeepsContract ClosedForever
CHECK_DEADLOCK FALSE
