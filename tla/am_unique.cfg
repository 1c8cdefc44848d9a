SPECIFICATION Spec
CONSTANTS
    Names = {n1, n2, n3}
    Scheds = {s1}
    Served = {"profile"}
    Nil = Nil
    Template = Template
    SavesMayFail = FALSE
    SavesMayTear = FALSE
    MaxTimers = 1
SYMMETRY Symmetry
INVARIANTS
    UniqueNames
