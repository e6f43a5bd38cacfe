SPECIFICATION Spec
CONSTANTS
    Task = {idle, t1, t2, t3}
    Idle = idle
    NULL = null
    KernelTask = {}
    CounterSize = 8
    MaxInflight = 1
INVARIANT AllWaitingQueued
CHECK_DEADLOCK FALSE
