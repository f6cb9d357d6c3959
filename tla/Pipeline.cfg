\* Two requests over two addresses; a reload moves the table from one to the other.
SPECIFICATION Spec
CONSTANTS
    b1 = b1
    b2 = b2
    a1 = a1
    a2 = a2
    Requests = {r1, r2}
    Backends <- ReloadBackends
    Addrs = {a1, a2}
    AddrOf <- ReloadAddrOf
    InitialTable = {b1}
    Conns = {c1, c2, c3}
    FAILURE_THRESHOLD = 1
    MaxFlips = 1
    None = None
SYMMETRY Symmetry
INVARIANTS TypeOK GuardBalance OneExchange PoolBounded EffectsMatchReply SenderOwned
CHECK_DEADLOCK TRUE
