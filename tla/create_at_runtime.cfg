SPECIFICATION SchedulerSpec
CONSTANTS
    TickMod = 8
    MaxTasks = 3
    MaxPriority = 2
    Priorities <- MCPriorities
    Delays = {1, 3}
    Objects = {}
    Bits = {}
    Creators <- MCAnyThread
    NULL = NULL
INVARIANT HighestReadyRuns
