\* A little-endian host blocks one of two addresses.
SPECIFICATION Spec
CONSTANTS
    V4 <- TwoV4
    V6 = {}
    Tasks = {k1}
    BanDuration = 1
    MaxEntries = 1
    LittleEndian = TRUE
    None = None
    MaxBans = 2
    LastBan = 1
    MaxTime = 3
INVARIANT BlockedIsDropped
CHECK_DEADLOCK TRUE
