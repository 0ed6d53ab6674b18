SPECIFICATION Spec
CONSTANTS
    Clients = {c1, c2}
    Names = {n1, n2}
    Emails = {e1, e2}
    Passwords = {p1, p2}
    Secrets = {s1, s2}
    None = None
    Lifetime = 1
    MaxId = 2
    MaxLogins = 2
    MaxTime = 1
    MaxFaults = 1
    MaxRestarts = 1
SYMMETRY Symmetry
INVARIANTS TypeOK OneAccountEach CreatedCanLogin
PROPERTIES ServedIsLoggedIn
CHECK_DEADLOCK FALSE
