--------------------------------- MODULE Vmm ---------------------------------
(***************************************************************************)
(* The virtual memory manager of the kernel's heap                          *)
(* (kernel/memory/vmm.c) over the page tables of the current directory      *)
(* (arch/i386/paging/paging.c).  Addresses are page numbers.                *)
(*                                                                          *)
(* A state v of the manager is a record: the sorted list of regions, the    *)
(* descriptors taken from the dedicated page and those on its free list,    *)
(* the number of free frames, and the page tables.  A page table belongs to *)
(* the directory that created it and may be entered in others: v.tables[d]  *)
(* names for every table index the creator of the table entered in d, and   *)
(* v.mapped holds <<creator, page>>.                                        *)
(***************************************************************************)
EXTENDS Integers, Sequences, SequencesExt, TLC

CONSTANTS VMM_KERNEL_START, VMM_USER_START, VMM_USER_END, VMM_KERNEL_HEAP, VMM_KERNEL_END,
          VMM_REGIONS_PER_PAGE,     \* descriptors in the dedicated page
          PagesPerTable,            \* heap pages that one page table covers
          Frames,                   \* free frames once the kernel has booted
          Dir, KernelDir, NoTable

VmmAssumption ==
    /\ VMM_KERNEL_START < VMM_USER_START /\ VMM_USER_START < VMM_USER_END
    /\ VMM_USER_END <= VMM_KERNEL_HEAP /\ VMM_KERNEL_HEAP < VMM_KERNEL_END
    /\ {VMM_REGIONS_PER_PAGE, PagesPerTable, Frames} \subseteq Nat \ {0}
    /\ KernelDir \in Dir /\ NoTable \notin Dir

HeapPage == VMM_KERNEL_HEAP .. VMM_KERNEL_END - 1
TableOf(p) == (p - VMM_KERNEL_HEAP) \div PagesPerTable
Tables == {TableOf(p) : p \in HeapPage}

is_kernel_address(a) == \/ VMM_KERNEL_START <= a /\ a < VMM_USER_START
                        \/ VMM_KERNEL_HEAP <= a /\ a < VMM_KERNEL_END

Region(start, end, is_free, bootstrap) ==
    [start |-> start, end |-> end, is_free |-> is_free, bootstrap |-> bootstrap]

vmm_insert_region(list, r) ==
    InsertAt(list, 1 + Len(SelectSeq(list, LAMBDA c : c.start < r.start)), r)

\* The three descriptors of the bootstrap pool, then the dedicated page.
vmm_init ==
    LET kernel == vmm_insert_region(<<>>, Region(VMM_KERNEL_START, VMM_USER_START, FALSE, TRUE))
        user == vmm_insert_region(kernel, Region(VMM_USER_START, VMM_USER_END, TRUE, TRUE))
    IN  [regions |-> vmm_insert_region(user, Region(VMM_KERNEL_HEAP, VMM_KERNEL_END, TRUE, TRUE)),
         page_index |-> 0, spare |-> 0, pool |-> Frames,
         tables |-> [d \in Dir |-> [t \in Tables |-> NoTable]],
         mapped |-> {}, dir |-> KernelDir]

----------------------------------------------------------------------------
(* Page tables.                                                             *)

MapsTo(v, p) == v.tables[v.dir][TableOf(p)]

\* paging_get_physical_address of the current directory finds a frame.
IsMapped(v, p) == <<MapsTo(v, p), p>> \in v.mapped

\* pmm_alloc_page and paging_map_page for one page of vmm_alloc's loop; a page
\* table that is missing in the current directory takes a second frame.
MapPage(s, p) ==
    IF ~s.ok \/ s.v.pool = 0 THEN [s EXCEPT !.ok = FALSE]
    ELSE IF MapsTo(s.v, p) # NoTable
         THEN [s EXCEPT !.v.pool = @ - 1, !.v.mapped = @ \cup {<<MapsTo(s.v, p), p>>}, !.n = @ + 1]
         ELSE IF s.v.pool = 1 THEN [s EXCEPT !.ok = FALSE]
              ELSE [s EXCEPT !.v.pool = @ - 2,
                             !.v.tables[s.v.dir][TableOf(p)] = s.v.dir,
                             !.v.mapped = @ \cup {<<s.v.dir, p>>}, !.n = @ + 1]

\* vmm_unmap_region: the pages the current directory maps give back their frames.
vmm_unmap_region(v, pages) ==
    [v EXCEPT !.pool = @ + Cardinality({p \in pages : IsMapped(v, p)}),
              !.mapped = @ \ {<<MapsTo(v, p), p>> : p \in pages}]

----------------------------------------------------------------------------
(* Regions.                                                                 *)

vmm_find_region(v, a) ==
    {i \in DOMAIN v.regions : v.regions[i].start <= a /\ a < v.regions[i].end}

Joined(done, r) ==
    IF done # <<>> /\ Last(done).is_free /\ r.is_free /\ Last(done).end = r.start
    THEN [done EXCEPT ![Len(done)].end = r.end]
    ELSE Append(done, r)

Dedicated(list) == Len(SelectSeq(list, LAMBDA r : ~r.bootstrap))

\* Descriptors of the dedicated page go to the free list, those of the bootstrap
\* pool are never used again.
vmm_merge_free_regions(v) ==
    [v EXCEPT !.regions = FoldLeft(Joined, <<>>, @),
              !.spare = @ + Dedicated(v.regions) - Dedicated(FoldLeft(Joined, <<>>, v.regions))]

CanCreateRegion(v) == v.spare > 0 \/ v.page_index < VMM_REGIONS_PER_PAGE

vmm_create_region(v) ==
    IF v.spare > 0 THEN [v EXCEPT !.spare = @ - 1] ELSE [v EXCEPT !.page_index = @ + 1]

vmm_split_region(v, i, at) ==
    [vmm_create_region(v) EXCEPT
        !.regions = InsertAt([@ EXCEPT ![i].end = at], i + 1, Region(at, @[i].end, @[i].is_free, FALSE))]

\* The region that contains a is marked free and the free regions are merged.
Release(v, a) ==
    vmm_merge_free_regions([v EXCEPT !.regions =
        [i \in DOMAIN @ |-> IF i \in vmm_find_region(v, a) THEN [@[i] EXCEPT !.is_free = TRUE]
                                                           ELSE @[i]]])

Fits(r, n) == r.is_free /\ r.end - r.start >= n /\ is_kernel_address(r.start)

FitsAt(v, n) == {i \in DOMAIN v.regions : Fits(v.regions[i], n)}
Larger(r, n) == r.end - r.start > n

\* One frame for each of the n pages from a on; s.n of them are mapped, s.ok if all.
MapPages(v, a, n) == FoldLeft(MapPage, [v |-> v, ok |-> TRUE, n |-> 0], [k \in 1..n |-> a + k - 1])

\* What vmm_alloc returns once it has tried to map: when the frames or the tables ran
\* out everything is undone.  addr 0 is NULL.
Mapped(s, a) == IF s.ok THEN [v |-> s.v, addr |-> a]
                ELSE [v |-> Release(vmm_unmap_region(s.v, a .. a + s.n - 1), a), addr |-> 0]

\* Region i is marked used, split if it is larger than n.
Taken(v, i, n) ==
    [(IF Larger(v.regions[i], n) THEN vmm_split_region(v, i, v.regions[i].start + n) ELSE v)
        EXCEPT !.regions[i].is_free = FALSE]

AllocFrom(v, i, n) ==
    IF Larger(v.regions[i], n) /\ ~CanCreateRegion(v) THEN [v |-> v, addr |-> 0]
    ELSE Mapped(MapPages(Taken(v, i, n), v.regions[i].start, n), v.regions[i].start)

\* vmm_alloc for the kernel (the only kind of request the kernel makes): the first
\* region that fits.
vmm_alloc(v, n) ==
    IF FitsAt(v, n) = {} THEN [v |-> v, addr |-> 0] ELSE AllocFrom(v, Min(FitsAt(v, n)), n)

\* vmm_free: refused unless a used region of exactly n pages is there.
vmm_free(v, a, n) ==
    IF \E i \in vmm_find_region(v, a) : ~v.regions[i].is_free /\ v.regions[i].end - v.regions[i].start = n
    THEN Release(vmm_unmap_region(v, a .. a + n - 1), a)
    ELSE v

----------------------------------------------------------------------------
(* Directories.                                                             *)

\* paging_clone_directory: the tables of the kernel's heap are entered in the copy.
HeapEntries(v, src) == v.tables[src]
paging_clone_directory(v, src, dst) == [v EXCEPT !.tables[dst] = HeapEntries(v, src)]

paging_switch_directory(v, d) == [v EXCEPT !.dir = d]
=============================================================================
