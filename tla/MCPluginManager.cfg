SPECIFICATION MCFairSpec
CONSTANTS
    Tags = {t1, t2}
    InitialDelay = 2
    MaximumDelay = 7
    Timeout = 1
    MaxFailures = 4
    MaxRemovals = 2
    Libraries = {"modbus.so", "copy.so", "can.so"}
    MaxLoads = 3
INVARIANTS
    GoodMeansConnected
    StatesAgree
    BackoffIsExponential
    NothingLeaks
    FramesSurvive
PROPERTIES
    Reconnects
    StartAllIsAtomic
