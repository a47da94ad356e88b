SPECIFICATION StackSpec
CONSTANTS
    TickMod = 4
    MaxTasks = 2
    MaxPriority = 1
    Priorities <- MCPriorities
    Delays = {1}
    Objects = {}
    Bits = {}
    Creators <- MCBootOnly
    NULL = NULL
    AddressWords = 36
    RamStart = 2
    MinStack = 8
    GuardWords = 3
    HardwareFrame = 2
    SoftwareFrame = 2
    StackConfigs <- MCStackConfigs
    MaxLocals = 1
    AlikeWords = {6, 7, 15}
VIEW StackView
INVARIANTS
    WatermarkApproximates
    OverflowNeverSilent
    StacksPassScan
    CrashRecordsTrue
