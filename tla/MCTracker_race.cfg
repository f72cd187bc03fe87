SPECIFICATION Spec
CONSTANTS
    Trackers   = {k1, k2}
    PacketIDs  = {p1, p2}
    TenantIDs  = {t1}
    Actors     = {a1}
    None       = None
    MaxVersion = 3
    MaxLate    = 0
SYMMETRY Symmetry
VIEW View
INVARIANTS
    TypeOK
    LogReplays
    CommittedOnTop
    AcknowledgedApart
    LinksAgree
PROPERTIES
    WrittenOnce
