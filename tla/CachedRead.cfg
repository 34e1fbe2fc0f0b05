SPECIFICATION MCSpec
CONSTANTS
    a = a  b = b  c = c  r = r
    shared = shared  single = single  refresher = refresher
    sync = sync  other = other
    NoEntry = NoEntry
    Nobody = Nobody
    Caller = {a, b, c, r}
    Requester = {shared, single, refresher}
    Loop = {sync, other}
    Via <- ViaOf
    Home <- HomeOf
    Refreshing = {r}
    Keep <- KeepOf
    MaxTries = 2
    MaxVersion = 2
INVARIANTS AnswersExplained SingleFlight
PROPERTIES ReadsEnd
CHECK_DEADLOCK FALSE
