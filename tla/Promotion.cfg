\* Six commands of two processes, two of which may die at any write.
SPECIFICATION Spec
CONSTANTS
    d1 = d1  d2 = d2  p1 = p1  p2 = p2  absent = absent  original = original
    Decision = {d1, d2}
    Process = {p1, p2}
    Tuple <- TupleOf
    Order <- OwnedInOrder
    Ledger = "ledger"
    NewPaths = {"envelope"}
    DefaultOwned = {"envelope", "ledger"}
    Absent = absent
    Original = original
    ResolveFirst = TRUE
    MaxCommands = 6
    MaxCrashes = 2
SYMMETRY Symmetry
INVARIANTS WholeOrNothing CommittedStays
PROPERTIES ResolvedIsFinal
CHECK_DEADLOCK FALSE
