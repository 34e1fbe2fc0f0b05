\* Three pulls of two postings while the board changes once.
SPECIFICATION Spec
CONSTANTS
    p1 = p1  p2 = p2  p3 = p3  j1 = j1  j2 = j2  h1 = h1  h2 = h2
    Pull = {p1, p2, p3}
    Job = {j1, j2}
    Hash = {h1, h2}
    MaxChanges = 1
SYMMETRY Symmetry
INVARIANTS PullsWhole HistoryExplains ClosedWithinScope
PROPERTIES ListLeavesScope
CHECK_DEADLOCK FALSE
