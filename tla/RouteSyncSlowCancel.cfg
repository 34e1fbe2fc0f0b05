\* The documented promise that every attempt is finished, with fetches that unwind slowly.
SPECIFICATION FairSpec
CONSTANTS
    a = a  b = b  c = c
    fresh = fresh  deferred = deferred  lacking = lacking
    d1 = d1  d2 = d2  d3 = d3  d4 = d4
    pa = pa  pb = pb  NoRoute = NoRoute
    Selected = {a, b, c}
    Skips = {fresh, deferred, lacking}
    Duplicates <- FourDuplicates
    KeyOf <- Keys
    ProviderOf <- Providers
    ProviderLimit <- Limits
    Concurrency = 2
    Situations <- SlowSituation
INVARIANTS NoneLeftPending
CHECK_DEADLOCK FALSE
