SPECIFICATION Spec
CONSTANTS
    j1 = j1
    j2 = j2
    j3 = j3
    j4 = j4
    Jobs = {j1, j2, j3, j4}
    Requests = {r1}
    Nil = Nil
    Hole = Hole
    Seeds <- MCSeeds
    ProfileOf <- MCProfileOf
    Directories <- MCDirectories
    MailWorks = TRUE
    PsMayFail = FALSE
PROPERTIES
    StopAllStops
