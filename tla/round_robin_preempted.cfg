SPECIFICATION SchedulerFairSpec
CONSTANTS
    TickMod = 4
    MaxTasks = 3
    MaxPriority = 1
    Priorities <- MCTwoLevels
    Delays = {1}
    Objects = {}
    Bits = {}
    Creators <- MCBootOnly
    NULL = NULL
PROPERTY RoundRobin
