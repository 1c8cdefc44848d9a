SPECIFICATION Spec
CONSTANTS
    Names = {n1}
    Scheds = {s1}
    Served = {"profile", "release", "group"}
    Nil = Nil
    Template = Template
    SavesMayFail = TRUE
    SavesMayTear = TRUE
    MaxTimers = 2
SYMMETRY Symmetry
INVARIANTS
    TypeOK
PROPERTIES
    NoSilentReset
