\* Two processes open, purge, write, fail and are killed.
SPECIFICATION ScrubFairSpec
CONSTANTS
    p1 = p1  p2 = p2  k1 = k1  k2 = k2  old = old  http = http  pull = pull
    NoProcess = NoProcess
    Process = {p1, p2}
    Key = {k1, k2}
    Legacy = {old}
    Namespace = {http, pull}
    NamespaceOf <- Namespaces
    MaxGeneration = 4
    MaxFailures = 2
INVARIANTS ScrubTypeOK ScrubbedMeansGone
PROPERTIES SuccessIsClean EventuallyScrubbed
CHECK_DEADLOCK FALSE
