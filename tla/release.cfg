SPECIFICATION ReleaseSpec
CONSTANTS
    TickMod = 6
    MaxTasks = 3
    MaxPriority = 2
    Priorities <- MCPriorities
    Delays = {1, 2}
    QueueTimeouts = {5}
    Objects = {q}
    Queues = {q}
    Capacity <- MCCapacity
    Items = {0, 1}
    Bits = {}
    Creators <- MCBootOnly
    NULL = NULL
    TheQueue = q
    ProducerPeriod = 2
    PollTicks = 1
    LineBytes = 2
    Answers = {0, 1}
    PeripheralClock = 16000000
    BaudRate = 115200
    MaxUint = 2147483647
INVARIANTS
    UartLosesNothing
    MessagesConserved
    MonitorSeesBalance
PROPERTIES
    DemoDelivers
    BytesFetched
