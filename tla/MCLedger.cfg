SPECIFICATION BoundedSpec
CONSTANTS
    PacketIDs  = {p1, p2, p3}
    TenantIDs  = {t1}
    Actors     = {a1}
    None       = None
    MaxEvents  = 7
SYMMETRY Symmetry
CHECK_DEADLOCK FALSE
INVARIANTS
    TypeOK
    LinksAgree
    LineageIsFounded
    OneOpenPerLineage
    ExportIsAMoment
    UnclaimedIsTakeable
VIEW View
