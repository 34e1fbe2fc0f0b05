SPECIFICATION Spec
CONSTANTS
    p = p
    q = q
    old = old
    new = new
    Publishers = {p, q}
    Bundles = {old, new}
    Listed <- ListedFiles
    MaxEntries = 2
    MaxExpected = 1
    MaxCommands = 2
INVARIANTS VerifiedIsPublished PublishedAsPlanned
PROPERTY CommandEnds
CHECK_DEADLOCK FALSE
