SPECIFICATION UndisturbedSpec
CONSTANTS
    Instances = {i1, i2}
    Copies = {1, 2, 3, 4, 5, 6, 7, 8, 9, 10, 11, 12, 13, 14, 15, 16, 17, 18, 19}
    None = None
    RenewalAge = 1
    MaxChanges = 2
    MaxStops = 0
    MaxLost = 0
    MaxDeploys = 0
VIEW View
PROPERTY ConvergesIfVisited
\* The bounds end the behaviour.
CHECK_DEADLOCK FALSE
