SPECIFICATION Spec
CONSTANTS
    TickMod = 6
    MaxTasks = 2
    MaxPriority = 1
    Priorities <- MCTwoTasks
    Delays = {1}
    QueueTimeouts = {2, 5}
    Objects = {q}
    Queues = {q}
    Capacity <- MCCapacity
    Items = {x, y}
    Bits = {}
    Creators <- MCBootOnly
    NULL = NULL
PROPERTY QueueIsFifo
INVARIANTS
    RingConsistent
    OriginalDeadlineKept
VIEW MCView
