\* Two processes that may write the route at the same time, and a third attempt after them.
SPECIFICATION MCSpec
CONSTANTS
    r1 = r1  r2 = r2  r3 = r3
    j1 = j1  j2 = j2  j3 = j3
    h1 = h1  h2 = h2
    Run = {r1, r2, r3}
    Job = {j1, j2, j3}
    Hash = {h1, h2}
    BatchSize = 2
    Snapshots <- ThreeJobs
    MaxWriters = 2
INVARIANTS TypeOK RowsFollowHistory ClosedOnlyBySuccess LedgerConsistent
PROPERTIES SuccessLeavesOwnSnapshot TerminalRunsFrozen RunsEnd ImplementsCatalogue
CHECK_DEADLOCK FALSE
