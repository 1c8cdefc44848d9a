SPECIFICATION Spec
CONSTANTS
    Names = {"old", "oldhand"}
    Scheds = {"x"}
    Nil = Nil
    Pages = {p1, p2}
    Stripped <- MCStripped
    MaxAsks = 4
    MaxStarts = 2
SYMMETRY Windows
INVARIANTS TypeOK TruthUntilTheNextRequest OldListExplained
PROPERTY OddNamesStay
CHECK_DEADLOCK FALSE
