\* Two syncs of four sources: two share a domain, one is denied, one has no adapter; and one route probe.
SPECIFICATION Spec
CONSTANTS
    w = w  x = x  y = y  z = z  a1 = a1  a2 = a2  b1 = b1  da = da  db = db
    NoDomain = NoDomain
    Sources = {w, x, y, z}
    Denied = {w}
    Unadapted = {z}
    Boards = {a1, a2, b1}
    Domains = {da, db}
    Listings <- SiteListings
    Concurrency = 2
    MaxSyncs = 2
    MaxProbes = 1
INVARIANTS TablesConsistent FreshIsComplete
PROPERTIES DeletedWhenUnlisted
CHECK_DEADLOCK FALSE
