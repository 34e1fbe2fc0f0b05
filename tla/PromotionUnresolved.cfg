\* New work is accepted while the journal of a dead process is pending.
SPECIFICATION Spec
CONSTANTS
    d1 = d1  d2 = d2  p1 = p1  p2 = p2  absent = absent  original = original
    Decision = {d1, d2}
    Process = {p1, p2}
    Tuple <- TupleOf
    Order <- OwnedInOrder
    Ledger = "ledger"
    NewPaths = {"envelope"}
    DefaultOwned = {"envelope", "ledger"}
    Absent = absent
    Original = original
    ResolveFirst = FALSE
    MaxCommands = 4
    MaxCrashes = 1
SYMMETRY Symmetry
INVARIANTS CommittedStays
CHECK_DEADLOCK FALSE
