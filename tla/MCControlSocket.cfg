SPECIFICATION Spec
CONSTANTS
    Instances = {g1, g2}
    MaxStarts = 2
    MaxCrashes = 0
    MaxFaults = 0
SYMMETRY Symmetry
CHECK_DEADLOCK FALSE
INVARIANT
    RunningIsReachable
