SPECIFICATION FairSpec
CONSTANTS
    NumStages = 3
    Workers = {w1, w2}
    Handlers = {h1}
    Targets = {1, 2}
    Cap <- MCCap
    DeadCap = 2
    MaxSends = 3
    MaxPanics = 1
    CanForce = TRUE
INVARIANTS TypeOK NoSendOnClosed CleanMeansDrained
PROPERTIES MainReturns DrainEnds
CHECK_DEADLOCK FALSE
