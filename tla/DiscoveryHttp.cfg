SPECIFICATION Spec
CONSTANTS
    f = f
    g = g
    a = a
    b = b
    Fetches = {f, g}
    Origins = {a, b}
    Sizes = {1}
    Configurations <- NarrowOrWide
INVARIANTS LedgerExact SlotsSuffice OpenAdmitsNobody
PROPERTY FetchEnds
CHECK_DEADLOCK FALSE
