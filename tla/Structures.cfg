\* Ring buffer: three slots, so that the pointers wrap with it partly filled.
\* Queues: three tasks beside idle.  Pages: 9 of which 3 are reserved, so that
\* blocks of every order exist and one buddy lies beyond the end of memory.
\* Dictionary: three keys, tables that grow once and tables that are full.
\* The other instances are described in the module.
CONSTANTS
    Capacity = 3
    Value = {v1, v2}
    Task = {idle, t1, t2, t3}
    Idle = idle
    NULL = null
    CounterSize = 8
    BUDDY_MAX_ORDER = 2
    pmm_total_pages = 9
    Reserved = {0, 1, 2}
    MaxRefs = 2
    Key = {k1, k2, k3}
    Item = {i1, i2}
    Null = null
    DICT_GROW_COUNT = 2
    MaxEntries = 2
SPECIFICATION AllSpec
INVARIANTS TypeOK DictOK KeyboardReady PipelinesClean PathsExact VolumeExact CopiesCurrent
PROPERTIES ImplementsFifo ImplementsMap MovesAreFifo PagesExact Returns
