SPECIFICATION SchedulerFairSpec
CONSTANTS
    TickMod = 8
    MaxTasks = 3
    MaxPriority = 1
    Priorities <- MCEqualPriorities
    Delays = {1, 3}
    Objects = {}
    Bits = {}
    Creators <- MCBootOnly
    NULL = NULL
INVARIANT NoOverdueWaiter
PROPERTIES
    TimeoutAtDeadline
    RoundRobin
    SleepersWake
