\* One task bans one address twice; the second ban meets the sweep of the first.
SPECIFICATION Spec
CONSTANTS
    V4 <- OneV4
    V6 = {}
    Tasks = {k1}
    BanDuration = 1
    MaxEntries = 1
    LittleEndian = TRUE
    None = None
    MaxBans = 2
    LastBan = 1
    MaxTime = 3
INVARIANT BanHolds
CHECK_DEADLOCK TRUE
