SPECIFICATION FairSpec
CONSTANTS
    Task = {idle, a, b}
    Idle = idle
    KernelTask = {}
    Signalled = {a, b}
    SlotCount = 3
    SchedTick = 2
    Millis = {}
    TickMod = 100
    MaxTick = 100
PROPERTY RunsEnd
CHECK_DEADLOCK FALSE
