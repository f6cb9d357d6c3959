\* Two requests sharing one upstream that goes down and comes back, under fairness.
SPECIFICATION FairSpec
CONSTANTS
    b1 = b1
    b2 = b2
    a1 = a1
    a2 = a2
    Requests = {r1, r2}
    Backends <- OneBackend
    Addrs = {a1}
    AddrOf <- OneAddrOf
    InitialTable = {b1}
    Conns = {c1, c2}
    FAILURE_THRESHOLD = 1
    MaxFlips = 2
    None = None
PROPERTIES CallsEnd NotLockedOut
CHECK_DEADLOCK TRUE
