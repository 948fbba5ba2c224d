SPECIFICATION FairSpec
CONSTANTS
    Timers <- MCTimers
    Fds = {5, 6, 7}
    MaxTasks = 3
    MaxFaults = 1
    MaxWord = 7
    BytesPerKibibyte = 2
    CpuLines <- MCCpuLines
    MemoryInfos <- MCMemoryInfos
CHECK_DEADLOCK FALSE
INVARIANTS
    SchedulerAgrees
    ReadyMeansServing
    MetricsAreTrue
PROPERTIES
    QuietAfterStop
    TimersAreServed
    ShutdownCompletes
