\* Scheduler: two tasks beside idle, one of them a kernel task.  The other instances
\* are described in the module.
CONSTANTS
    Task = {idle, t1, t2}
    Idle = idle
    NULL = null
    KernelTask = {t1}
    CounterSize = 8
    MaxInflight = 2
    a = a
    b = b
    c = c
SPECIFICATION AllSpec
INVARIANTS TypeOK OnlyCurrentRuns WaitersExact LivesExact HandlersNest
PROPERTIES TimeoutsExact
