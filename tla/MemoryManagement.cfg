\* Memory: two tasks; an image of one read-only page, a heap of at most two pages, one
\* stack page; five frames, so that a fork and a copy fit when the heap is small, and
\* the pool runs empty when it is not.  The other
\* instances are described in the module.
CONSTANTS
    Frame = {f1, f2, f3, f4, f5}
    NoFrame = noframe
    Task = {1, 2}
    Loaded = {0}
    ReadOnly = {0}
    HeapStart = 1
    HeapPages = 2
    Stack = {5}
    MaxRefs = 3
    Image = image
    Zero = zero
    Junk = junk
    Unmapped = unmapped
    Stored = {a}
    kdir = kdir
    udir = udir
    nopt = nopt
SYMMETRY Symmetric
SPECIFICATION AllSpec
INVARIANTS TypeOK RefcountExact WritableIsPrivate HeapMapped EnvironmentExact
PROPERTIES PrivateMemory KernelHeapExact
CHECK_DEADLOCK FALSE
