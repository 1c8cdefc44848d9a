SPECIFICATION LiveSpec
CONSTANTS
    s1 = s1
    s2 = s2
    Serials = {s1, s2}
    Jobs = {1, 2, 3}
    Apps <- AppsHere
    MaxObjects = 2
    DiskMayFail = TRUE
INVARIANTS TypeOK LoggedUnlessOverlapped TwoAtOnceOnlyIfMissed
PROPERTIES DamageExplained DamageStays EveryJobEnds
