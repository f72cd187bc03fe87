SPECIFICATION Spec
CONSTANTS
    Instances = {i1}
    Copies = {1, 2, 3, 4, 5, 6, 7, 8, 9, 10, 11, 12}
    None = None
    RenewalAge = 1
    MaxChanges = 1
    MaxStops = 0
    MaxLost = 0
    MaxDeploys = 0
VIEW View
INVARIANT SettledIsCurrent
\* The bounds end the behaviour.
CHECK_DEADLOCK FALSE
