SPECIFICATION Spec
CONSTANTS
    Names = {n1, n2}
    Scheds = {s1}
    Served = {"profile"}
    Nil = Nil
    Template = Template
    SavesMayFail = FALSE
    SavesMayTear = FALSE
    MaxTimers = 2
SYMMETRY Symmetry
INVARIANTS
    ListedIsStored
    AlarmOwned
PROPERTIES
    SingleWritesKeepOthers
