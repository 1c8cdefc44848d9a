SPECIFICATION SystemSpec
CONSTANTS
    Names = {"old", "oldhand"}
    Scheds = {"x"}
    Served = {"profile", "release", "group"}
    Nil = Nil
    Template = Template
    SavesMayFail = FALSE
    SavesMayTear = FALSE
    MaxTimers = 0
    Pages = {p1}
    Stripped <- MCStripped
    MaxAsks = 3
    MaxStarts = 2
    ProfileNames = {"old"}
    Crowds = {{"release", "group"}, {"profile"}}
CONSTRAINT Budget
INVARIANTS MapMatchesFile
PROPERTIES RestartKeepsRecords PagesSeeACatalog ReleasesAreACatalog GroupsAreACatalog
CHECK_DEADLOCK FALSE
