\* Two tasks, two IPv4 addresses competing for one kernel entry, one IPv6 address.
SPECIFICATION FairSpec
CONSTANTS
    V4 <- TwoV4
    V6 = {v6}
    Tasks = {k1, k2}
    BanDuration = 1
    MaxEntries = 1
    LittleEndian = TRUE
    None = None
    MaxBans = 3
    LastBan = 1
    MaxTime = 3
INVARIANTS NoOrphanBlock UnbackedOnlyByRace
PROPERTIES BlocksLifted
CHECK_DEADLOCK TRUE
