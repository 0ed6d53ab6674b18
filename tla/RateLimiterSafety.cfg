SPECIFICATION Spec
CONSTANTS
    Ips = {a1, a2}
    Requests = {r1, r2}
    Limiters = {l1, l2, l3}
    None = None
    Full = 2
    Cost = 1
    InactiveAfter = 3
    MaxStall = 1
    MaxTime = 4
SYMMETRY Symmetry
INVARIANTS TypeOK HeldIsCurrent WithinBudget
PROPERTIES FollowsBuckets
CHECK_DEADLOCK FALSE
