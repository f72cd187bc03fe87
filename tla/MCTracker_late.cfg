SPECIFICATION Spec
CONSTANTS
    Trackers   = {k1}
    PacketIDs  = {p1, p2}
    TenantIDs  = {t1}
    Actors     = {a1}
    None       = None
    MaxVersion = 4
    MaxLate    = 1
SYMMETRY Symmetry
VIEW View
INVARIANTS
    MutationsAreWhole
PROPERTIES
    ClosedIsFinal
    ImplementsLedger
