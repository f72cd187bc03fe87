SPECIFICATION BoundedSpec
CONSTANTS
    PacketIDs   = {p1, p2}
    TenantIDs   = {t1, t2}
    Actors      = {a1}
    None        = None
    Instances   = {i1, i2}
    DraftIDs    = {d1, d2}
    Bodies      = {b1}
    Incomplete  = Incomplete
    MaxVersions = 2
    MaxLate     = 1
    MaxEvents   = 5
SYMMETRY Symmetry
VIEW View
CHECK_DEADLOCK FALSE
INVARIANTS
    AuthoringTypeOK
    FrozenAsSeen
    IssuedDraftIsPacket
    LineageStaysInTenant
PROPERTIES
    IssuedDraftStays
