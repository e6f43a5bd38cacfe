----------------------------- MODULE KernelHeap -----------------------------
(***************************************************************************)
(* kmalloc, kfree and krealloc (kernel/memory/kmalloc.c) over the slab      *)
(* allocator (kernel/memory/slab.c) over the regions of Vmm.  A request up  *)
(* to KMALLOC_SLAB_THRESHOLD is served from the slabs of its size class,    *)
(* a larger one from pages of its own that begin with a header.  Each call  *)
(* runs under kmalloc_lock with interrupts disabled: one step.              *)
(*                                                                          *)
(* A slab is named by its page.  heap.slabs[p] is the slab_t at the start   *)
(* of page p (cache 0: the magic number is not there), heap.caches[c] the   *)
(* three lists of class c, heap.header[p] the size in the header of a large *)
(* block at p (0: no magic number).  Pointers are byte addresses.           *)
(***************************************************************************)
EXTENDS Vmm

CONSTANTS PAGE_SIZE, SlabMeta, HeaderSize,      \* sizeof(slab_t), sizeof(kmalloc_header_t)
          SLAB_SIZE_CLASSES, SLAB_MAX_SIZE, FewObjects, LargeObject,
          Sizes,                                \* sizes that are asked for
          ConfigSize, CellBufferSize,           \* the first block in either display mode
          MaxResizes                            \* bound: krealloc in place of large blocks

KMALLOC_SLAB_THRESHOLD == SLAB_MAX_SIZE

HeapAssumption ==
    /\ {PAGE_SIZE, SlabMeta, HeaderSize, SLAB_MAX_SIZE, FewObjects, LargeObject} \subseteq Nat \ {0}
    /\ \A i \in DOMAIN SLAB_SIZE_CLASSES : SLAB_SIZE_CLASSES[i] <= SLAB_MAX_SIZE
    /\ Sizes \subseteq Nat \ {0} /\ {ConfigSize, CellBufferSize} \subseteq Sizes
    /\ ConfigSize <= SLAB_MAX_SIZE /\ CellBufferSize > SLAB_MAX_SIZE /\ MaxResizes \in Nat

VARIABLES
    heap,           \* the record described above, with field vmm
    live,           \* observation: pointer -> size asked for, of the blocks in use
    usage,          \* kmalloc_stats.current_usage
    balance,        \* kmalloc_stats.total_allocated - total_freed
    resizes,        \* large blocks that krealloc resized in place
    rgbmode,        \* the display mode terminal_detect_mode found
    dirs,           \* page directories in existence
    split,          \* observation: tables made while a directory without them existed
    stray           \* tables of the heap pages a call missed in the current directory
vars == <<heap, live, usage, balance, resizes, rgbmode, dirs, split, stray>>

Cache == DOMAIN SLAB_SIZE_CLASSES
List == {"empty", "partial", "full"}
NoSlab == [cache |-> 0, free |-> <<>>, list |-> "empty"]

calculate_slab_pages(size) ==
    IF (PAGE_SIZE - SlabMeta) \div size >= FewObjects \/ size >= LargeObject THEN 1 ELSE 2

calculate_objects_per_slab(size, pages) == (pages * PAGE_SIZE - SlabMeta) \div size
SlabPages(c) == calculate_slab_pages(SLAB_SIZE_CLASSES[c])
NumObjects(c) == calculate_objects_per_slab(SLAB_SIZE_CLASSES[c], SlabPages(c))

\* init_cache for every class, after vmm_init.
slab_init == [vmm |-> vmm_init,
              slabs |-> [p \in HeapPage |-> NoSlab],
              caches |-> [c \in Cache |-> [l \in List |-> <<>>]],
              header |-> [p \in HeapPage |-> 0]]

\* The smallest class that fits, 0 when there is none.
slab_find_cache(size) ==
    LET fit == {c \in Cache : size <= SLAB_SIZE_CLASSES[c]}
    IN  IF size > SLAB_MAX_SIZE \/ fit = {} THEN 0 ELSE Min(fit)

PAGE_ALIGN_UP(size) == (size + PAGE_SIZE - 1) \div PAGE_SIZE
LargePages(size) == PAGE_ALIGN_UP(size + HeaderSize)

----------------------------------------------------------------------------
(* Slabs.                                                                   *)

ObjectAddress(p, c, k) == p * PAGE_SIZE + SlabMeta + (k - 1) * SLAB_SIZE_CLASSES[c]

\* slab_create_slab; the objects are threaded so that the last one comes first.
NewSlab(c, n) == [cache |-> c, free |-> [k \in 1..n |-> n + 1 - k], list |-> "empty"]

AddSlab(h, c, r) ==
    IF r.addr = 0 THEN [h EXCEPT !.vmm = r.v]
    ELSE [h EXCEPT !.vmm = r.v, !.slabs[r.addr] = NewSlab(c, NumObjects(c)),
                   !.caches[c]["empty"] = <<r.addr>> \o @]

slab_create_slab(h, c) == AddSlab(h, c, vmm_alloc(h.vmm, SlabPages(c)))

ListFor(s) == IF s.free = <<>> THEN "full"
              ELSE IF Len(s.free) = NumObjects(s.cache) THEN "empty" ELSE "partial"

\* Mutant: the slab stays in its old list, too.
StaysInOldList(h, p) ==
    LET s == h.slabs[p]
        target == ListFor(s)
    IN  IF s.list = target THEN h
        ELSE [h EXCEPT !.caches[s.cache][target] = <<p>> \o @, !.slabs[p].list = target]

\* slab_update_lists: to the head of the list its count of free objects asks for.
slab_update_lists(h, p) ==
    LET s == h.slabs[p]
        target == ListFor(s)
    IN  IF s.list = target THEN h
        ELSE [h EXCEPT !.caches[s.cache][s.list] = SelectSeq(@, LAMBDA q : q # p),
                       !.caches[s.cache][target] = <<p>> \o @,
                       !.slabs[p].list = target]

\* The slab slab_alloc takes an object from: a partial one before an empty one.
Chosen(h, c) == IF h.caches[c]["partial"] # <<>> THEN Head(h.caches[c]["partial"])
                ELSE IF h.caches[c]["empty"] # <<>> THEN Head(h.caches[c]["empty"]) ELSE 0

TakeObject(h, c, p) ==
    IF p = 0 THEN [h |-> h, ptr |-> 0]
    ELSE [h |-> slab_update_lists([h EXCEPT !.slabs[p].free = Tail(@)], p),
          ptr |-> ObjectAddress(p, c, Head(h.slabs[p].free))]

TakeFrom(h, c) == TakeObject(h, c, Chosen(h, c))

slab_alloc(h, c) == TakeFrom(IF Chosen(h, c) = 0 THEN slab_create_slab(h, c) ELSE h, c)

\* slab_get_slab: the page ptr lies in, if a slab begins there; 0 otherwise.
slab_get_slab(h, ptr) ==
    LET p == ptr \div PAGE_SIZE
        c == h.slabs[p].cache
        start == p * PAGE_SIZE + SlabMeta
    IN  IF c = 0 THEN 0
        ELSE IF ptr < start \/ ptr >= start + NumObjects(c) * SLAB_SIZE_CLASSES[c] THEN 0 ELSE p

ObjectAt(h, p, ptr) ==
    1 + (ptr - p * PAGE_SIZE - SlabMeta) \div SLAB_SIZE_CLASSES[h.slabs[p].cache]

slab_destroy_slab(h, p) ==
    LET c == h.slabs[p].cache
    IN  [h EXCEPT !.caches[c][ListFor(h.slabs[p])] = SelectSeq(@, LAMBDA q : q # p),
                  !.slabs[p] = NoSlab,
                  !.vmm = vmm_free(@, p, SlabPages(c))]

\* The policy at the end of slab_free: destroy the second slab of the empty list.
Surplus(h, p) ==
    LET empty == h.caches[h.slabs[p].cache]["empty"]
    IN  /\ Len(h.slabs[p].free) = NumObjects(h.slabs[p].cache)
        /\ empty # <<>> /\ Head(empty) # p
        /\ Len(empty) >= 2 /\ empty[2] = p

\* slab_free of an object of slab p; a second free of the same object is refused.
Shrunk(h, p) == IF Surplus(h, p) THEN slab_destroy_slab(h, p) ELSE h

slab_free(h, p, ptr) ==
    IF ObjectAt(h, p, ptr) \in ToSet(h.slabs[p].free) THEN h
    ELSE Shrunk(slab_update_lists([h EXCEPT !.slabs[p].free = <<ObjectAt(h, p, ptr)>> \o @], p), p)

----------------------------------------------------------------------------
(* kmalloc, kfree, krealloc.                                                *)

\* What the statistics count for a request of that size.
Counted(size) == IF size <= KMALLOC_SLAB_THRESHOLD THEN SLAB_SIZE_CLASSES[slab_find_cache(size)]
                                                    ELSE size

LargeBlock(h, size, r) ==
    IF r.addr = 0 THEN [h |-> [h EXCEPT !.vmm = r.v], ptr |-> 0]
    ELSE [h |-> [h EXCEPT !.vmm = r.v, !.header[r.addr] = size], ptr |-> r.addr * PAGE_SIZE + HeaderSize]

kmalloc_flags(h, size) ==
    IF size <= KMALLOC_SLAB_THRESHOLD
    THEN IF slab_find_cache(size) = 0 THEN [h |-> h, ptr |-> 0]
         ELSE slab_alloc(h, slab_find_cache(size))
    ELSE LargeBlock(h, size, vmm_alloc(h.vmm, LargePages(size)))

\* The page a large block begins at.
HeaderPage(ptr) == (ptr - HeaderSize) \div PAGE_SIZE

kmalloc_size(h, ptr) == LET p == slab_get_slab(h, ptr)
                        IN  IF p # 0 THEN SLAB_SIZE_CLASSES[h.slabs[p].cache]
                            ELSE h.header[HeaderPage(ptr)]

\* kfree of a block in use.
FreeLarge(h, p) ==
    IF h.header[p] = 0 THEN h
    ELSE [h EXCEPT !.header[p] = 0, !.vmm = vmm_free(@, p, LargePages(h.header[p]))]

Freed(h, ptr) ==
    IF slab_get_slab(h, ptr) # 0 THEN slab_free(h, slab_get_slab(h, ptr), ptr) ELSE FreeLarge(h, HeaderPage(ptr))

Less(n, size) == IF n >= size THEN n - size ELSE 0

Init == /\ heap = slab_init /\ live = <<>>
        /\ usage = 0 /\ balance = 0 /\ resizes = 0
        /\ rgbmode \in BOOLEAN
        /\ dirs = {KernelDir} /\ split = {} /\ stray = {}

\* The heap's first block: terminal_init takes the display configuration, and gives
\* it back, or the cell buffer, which it keeps for ever.
FirstSize == IF rgbmode THEN ConfigSize ELSE CellBufferSize
Kept == IF rgbmode THEN {} ELSE {VMM_KERNEL_HEAP * PAGE_SIZE + HeaderSize}

\* The slabs that stand beside slab p in its list.
Beside(h, p) ==
    IF h.slabs[p].cache = 0 THEN {}
    ELSE LET list == h.caches[h.slabs[p].cache][h.slabs[p].list]
         IN  {list[i] : i \in {j \in DOMAIN list : \E k \in {j - 1, j + 1} \cap DOMAIN list : list[k] = p}}

\* The pages a call that leads from h to g reads and writes in the slab it works on, and
\* in those it links with it or unlinks from it.
SlabReads(h, g) ==
    UNION {LET c == Max({h.slabs[p].cache, g.slabs[p].cache})
           IN  (p .. p + SlabPages(c) - 1)
               \cup (IF h.slabs[p].list = g.slabs[p].list /\ g.slabs[p].cache # 0 THEN {}
                     ELSE Beside(h, p) \cup Beside(g, p)) :
           p \in {q \in HeapPage : h.slabs[q] # g.slabs[q]}}

\* Where slab_get_slab and kmalloc_size look.
BlockReads(h, ptr) == {ptr \div PAGE_SIZE} \cup IF slab_get_slab(h, ptr) # 0 THEN {} ELSE {HeaderPage(ptr)}

\* A large block is unmapped page by page: those that are not mapped keep their frames.
FreeReads(h, ptr) ==
    BlockReads(h, ptr)
    \cup IF slab_get_slab(h, ptr) # 0 THEN SlabReads(h, Freed(h, ptr))
         ELSE HeaderPage(ptr) .. HeaderPage(ptr) + LargePages(kmalloc_size(h, ptr)) - 1

Unreached(v, pages) == {TableOf(q) : q \in {r \in pages : ~IsMapped(v, r)}}

\* A table missing in the current directory: the call ends in a page fault, or leaves
\* frames behind.  What comes after that is not followed.
Strays(v, pages) == /\ Unreached(v, pages) # {} /\ stray' = Unreached(v, pages)
                    /\ UNCHANGED <<heap, live, usage, balance, resizes, rgbmode, dirs, split>>

\* The call reaches its pages and leaves the heap as h.
Leaves(v, pages, h) ==
    /\ Unreached(v, pages) = {} /\ UNCHANGED <<stray, rgbmode, dirs>>
    /\ heap' = h
    /\ split' = split \cup {t \in Tables : /\ heap.vmm.tables[heap.vmm.dir][t] # h.vmm.tables[heap.vmm.dir][t]
                                          /\ dirs # {heap.vmm.dir}}

kmalloc(size) ==
    /\ stray = {} /\ heap = slab_init => size = FirstSize
    /\ \E r \in {kmalloc_flags(heap, size)} : \E reads \in {SlabReads(heap, r.h)} :
        \/ Strays(r.h.vmm, reads)
        \/ /\ Leaves(r.h.vmm, reads, r.h)
           /\ live' = IF r.ptr = 0 THEN live ELSE live @@ (r.ptr :> size)
           /\ usage' = IF r.ptr = 0 THEN usage ELSE usage + Counted(size)
           /\ balance' = IF r.ptr = 0 THEN balance ELSE balance + Counted(size)
           /\ UNCHANGED resizes

kfree(ptr) ==
    LET size == kmalloc_size(heap, ptr)
        reads == FreeReads(heap, ptr)
    IN  /\ stray = {}
        /\ \/ Strays(heap.vmm, reads)
           \/ /\ Leaves(heap.vmm, reads, Freed(heap, ptr))
              /\ live' = [q \in DOMAIN live \ {ptr} |-> live[q]]
              /\ usage' = Less(usage, size)
              /\ balance' = balance - size
              /\ UNCHANGED resizes

\* krealloc keeps the block when the new size still fits in it.
FitsInPlace(ptr, size) ==
    LET p == slab_get_slab(heap, ptr)
    IN  IF p # 0 THEN size <= SLAB_SIZE_CLASSES[heap.slabs[p].cache]
        ELSE LargePages(kmalloc_size(heap, ptr)) = LargePages(size)

ReallocInPlace(ptr, size) ==
    LET large == slab_get_slab(heap, ptr) = 0
        new == IF large THEN [heap EXCEPT !.header[HeaderPage(ptr)] = size] ELSE heap
    IN  /\ FitsInPlace(ptr, size)
        /\ large => resizes < MaxResizes
        /\ \/ Strays(heap.vmm, BlockReads(heap, ptr))
           \/ /\ Leaves(heap.vmm, BlockReads(heap, ptr), new)
              /\ live' = [live EXCEPT ![ptr] = size]
              /\ resizes' = IF large THEN resizes + 1 ELSE resizes
              /\ UNCHANGED <<usage, balance>>

\* ... and otherwise takes a new block, copies and frees the old one.
ReallocMoves(ptr, size) ==
    /\ ~FitsInPlace(ptr, size)
    /\ \E r \in {kmalloc_flags(heap, size)} :
       \E reads \in {SlabReads(heap, r.h) \cup (IF r.ptr = 0 THEN BlockReads(heap, ptr) ELSE FreeReads(r.h, ptr))} :
        \/ Strays(r.h.vmm, reads)
        \/ /\ Leaves(r.h.vmm, reads, IF r.ptr = 0 THEN r.h ELSE Freed(r.h, ptr))
           /\ IF r.ptr = 0 THEN UNCHANGED <<live, usage, balance>>
              ELSE /\ live' = [q \in DOMAIN live \ {ptr} |-> live[q]] @@ (r.ptr :> size)
                   /\ usage' = Less(usage + Counted(size), kmalloc_size(heap, ptr))
                   /\ balance' = balance + Counted(size) - kmalloc_size(heap, ptr)
           /\ UNCHANGED resizes

krealloc(ptr, size) == /\ stray = {} /\ size # live[ptr]
                       /\ ReallocInPlace(ptr, size) \/ ReallocMoves(ptr, size)

Others == UNCHANGED <<live, usage, balance, resizes, rgbmode, split, stray>>

\* A directory is made for a new task from the current one (an earlier directory of
\* that name has gone with its task, and no directory holds a table it created).
CloneDirectory(d) ==
    LET v == heap.vmm
    IN  /\ stray = {} /\ heap # slab_init /\ d \notin {KernelDir, v.dir}
        /\ \A e \in Dir \ {d}, t \in Tables : v.tables[e][t] # d
        /\ heap' = [heap EXCEPT !.vmm = paging_clone_directory(
                       [v EXCEPT !.mapped = {m \in @ : m[1] # d}], v.dir, d)]
        /\ dirs' = dirs \cup {d}
        /\ Others

SwitchDirectory(d) == /\ stray = {} /\ d \in dirs \ {heap.vmm.dir}
                      /\ heap' = [heap EXCEPT !.vmm = paging_switch_directory(@, d)]
                      /\ UNCHANGED dirs /\ Others

Freeable == DOMAIN live \ Kept

Next == \/ \E size \in Sizes : kmalloc(size)
        \/ \E ptr \in Freeable : kfree(ptr)
        \/ \E ptr \in Freeable, size \in Sizes : krealloc(ptr, size)
        \/ \E d \in Dir : CloneDirectory(d) \/ SwitchDirectory(d)

Spec == Init /\ [][Next]_vars

----------------------------------------------------------------------------
(* Properties.                                                              *)

\* The types of the state: lists of heap pages, counts in their ranges.
TypeOK == /\ heap.vmm.pool \in 0..Frames /\ heap.vmm.dir \in dirs
          /\ heap.vmm.page_index \in 0..VMM_REGIONS_PER_PAGE
          /\ \A c \in Cache, l \in List : heap.caches[c][l] \in Seq(HeapPage)
          /\ \A p \in HeapPage : heap.slabs[p].cache \in Cache \cup {0}
          /\ usage \in Nat /\ balance \in Int /\ dirs \subseteq Dir

\* ImplementsBlocks: through splitting, merging, slabs changing lists, failures and
\* krealloc, every block handed out is disjoint from every block in use and from the
\* slab_t's and headers.
Blocks == INSTANCE HeapBlocks WITH
    blocks <- {<<ptr, live[ptr]>> : ptr \in DOMAIN live},
    records <- {<<p * PAGE_SIZE, SlabMeta>> : p \in {q \in HeapPage : heap.slabs[q].cache # 0}}
          \cup {<<p * PAGE_SIZE, HeaderSize>> : p \in {q \in HeapPage : heap.header[q] # 0}}
ImplementsBlocks == Blocks!HSpec

\* The regions tile the address space in order, two free regions of the heap never
\* stand side by side, and the free user region never merges with the heap (which
\* would make vmm_alloc pass over the heap for ever).
RegionsTile ==
    LET r == heap.vmm.regions
    IN  /\ r[1].start = VMM_KERNEL_START /\ Last(r).end = VMM_KERNEL_END
        /\ \A i \in 1 .. Len(r) - 1 : /\ r[i].start < r[i].end /\ r[i].end = r[i + 1].start
                                      /\ r[i].is_free /\ r[i + 1].is_free => r[i].end = VMM_KERNEL_HEAP
        /\ \A i \in DOMAIN r : r[i].start < VMM_USER_END => r[i].end <= VMM_USER_END

\* Every descriptor taken from the dedicated page is in the list or on the free
\* list, so vmm_alloc never runs out of them with room left.
DescriptorsExact == heap.vmm.page_index - heap.vmm.spare = Dedicated(heap.vmm.regions)

\* No frame is lost, whatever failed on the way: a page is mapped if and only if it is
\* in a used region, for every table that was not made behind the back of another
\* directory; and if all of them are of this kind, a frame is free, a page table, or
\* under one of these pages.
FramesExact ==
    LET v == heap.vmm
        used == {p \in HeapPage : \A i \in vmm_find_region(v, p) : ~v.regions[i].is_free}
    IN  /\ \A p \in HeapPage : TableOf(p) \notin split => (p \in {m[2] : m \in v.mapped} <=> p \in used)
        /\ split = {} => v.pool + Cardinality(used)
                           + Cardinality({t \in Tables : v.tables[KernelDir][t] # NoTable}) = Frames

\* A block in use can be reached from every directory, and no call misses a page of the
\* heap in the directory it runs in, unless the page's table was made while there was
\* another directory: paging_get_page_table enters it in the current directory only.
SharedHeap ==
    /\ stray \subseteq split
    /\ \A ptr \in DOMAIN live, d \in dirs :
         LET p == ptr \div PAGE_SIZE
         IN  TableOf(p) \notin split => <<heap.vmm.tables[d][TableOf(p)], p>> \in heap.vmm.mapped

\* Every slab is in exactly one list of its cache, the one for its number of free
\* objects, so slab_alloc finds a free object whenever its cache has one.
SlabListsExact ==
    \A c \in Cache, l \in List :
        LET list == heap.caches[c][l]
        IN  /\ IsInjective(list)
            /\ ToSet(list) = {p \in HeapPage : /\ heap.slabs[p].cache = c
                                               /\ ListFor(heap.slabs[p]) = l}

\* Unless krealloc resized a large block in place, current_usage and the difference
\* of the totals are the memory really in use.
UsageExact ==
    resizes = 0 =>
        LET inUse == FoldSet(LAMBDA ptr, n : n + kmalloc_size(heap, ptr), 0, DOMAIN live)
        IN  usage = inUse /\ balance = inUse
=============================================================================
