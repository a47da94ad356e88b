SPECIFICATION Spec
CONSTANTS
    TickMod = 4
    MaxTasks = 3
    MaxPriority = 1
    Priorities <- MCPriorities
    Delays = {1}
    TakeTimeouts = {0, 1, 3}
    Objects = {b, c}
    BinarySemaphores = {b}
    CountingSemaphores = {c}
    MaxCounts = {2}
    Bits = {}
    Creators <- MCBootOnly
    NULL = NULL
INVARIANTS
    SemaphoreTypeOK
    NoTokenWithWaiter
    TokensConserved
VIEW MCView
