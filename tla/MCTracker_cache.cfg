SPECIFICATION FairSpec
CONSTANTS
    Trackers   = {k1, k2}
    PacketIDs  = {p1}
    TenantIDs  = {t1}
    Actors     = {a1}
    None       = None
    MaxVersion = 3
    MaxLate    = 1
INVARIANTS
    CacheIsPast
PROPERTIES
    CommandsReturn
