SPECIFICATION Spec
CONSTANTS
    TickMod = 4
    MaxTasks = 3
    MaxPriority = 1
    Priorities <- MCPriorities
    Delays = {1}
    QueueTimeouts = {1, 3}
    Objects = {q}
    Queues = {q}
    Capacity <- MCCapacity
    Items = {x}
    Bits = {}
    Creators <- MCBootOnly
    NULL = NULL
INVARIANT NoLostWakeup
VIEW MCView
