SPECIFICATION Spec
CONSTANTS
    TickMod = 4
    MaxTasks = 3
    MaxPriority = 1
    Priorities <- MCPriorities
    Delays = {1}
    FlagTimeouts = {1, 3}
    Objects = {f}
    FlagObjects = {f}
    FlagRequests <- MCRequests
    Bits = {1, 2}
    Creators <- MCBootOnly
    NULL = NULL
INVARIANTS
    FlagsTypeOK
    NoSatisfiedWaiter
    ResultAnswersRequest
PROPERTY EventsReachATask
VIEW MCView
