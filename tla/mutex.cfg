SPECIFICATION Spec
CONSTANTS
    TickMod = 4
    MaxTasks = 3
    MaxPriority = 2
    Priorities <- MCPriorities
    Delays = {1}
    LockTimeouts = {1, 3}
    Objects = {m1, m2}
    Mutexes = {m1, m2}
    Bits = {}
    Creators <- MCBootOnly
    NULL = NULL
INVARIANTS
    MutexTypeOK
    OwnersKnow
    WaitersHaveOwner
    OwnerOutranksWaiters
    PrioritiesRestored
    HighestReadyRuns
    ScannerFindsNothing
VIEW MCView
