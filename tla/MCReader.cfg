SPECIFICATION Spec
CONSTANTS
    Life     = 3
    Timeout  = 1
    Fresh    = 1
    None        = None
    Unavailable = Unavailable
    Failure     = Failure
INVARIANTS
    TypeOK
    SnapshotIsHeld
    ReadyHasSnapshot
    HealthyAnswers
PROPERTIES
    PacketsStayShown
    Recovers
