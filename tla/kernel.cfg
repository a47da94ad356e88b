SPECIFICATION TracedSpec
CONSTANTS
    TickMod = 4
    MaxTasks = 4
    MaxPriority = 1
    Priorities <- MCRising
    Delays = {1}
    Objects = {}
    Bits = {}
    Creators <- MCAnyThread
    NULL = NULL
    TraceUsers = {1}
    TraceCapacity = 3
    CounterMod = 5
VIEW TraceView
INVARIANTS
    SchedulerTypeOK
    RunningIsCurrent
    SwitchNeverTraps
    SleepEndsByTimeout
    CallsConsistent
    SnapshotIsNewest
    TraceTellsStates
    ScannerBlamesOnlyCreation
PROPERTY TraceIsBoundedLog
