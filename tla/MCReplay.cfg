SPECIFICATION Spec
CONSTANTS
    PacketIDs = {p1, p2}
    TenantIDs = {t1}
    Actors    = {a1}
    None      = None
    MaxLength = 6
SYMMETRY Symmetry
INVARIANTS
    ReplayIsProject
    WellFormedStream
CHECK_DEADLOCK FALSE
