------------------------------- MODULE Buddy -------------------------------
(***************************************************************************)
(* kernel/memory/pmm.c: the buddy allocator of physical pages.  A page is  *)
(* its index.  The free lists, linked through the free pages themselves,   *)
(* are sequences (head first); the status map is the set of its one bits.  *)
(* pmm_lock makes each call one step.                                      *)
(***************************************************************************)
EXTENDS Naturals, Sequences, FiniteSets, FiniteSetsExt, SequencesExt

CONSTANTS BUDDY_MAX_ORDER,
          pmm_total_pages,
          Reserved,     \* the pages buddy_reserve_region marks at boot
          Regions,      \* the type 1 entries of the memory map: <<first, end>>
          MaxRefs       \* bound on the references to one page

Page  == 0..(pmm_total_pages - 1)
Order == 0..BUDDY_MAX_ORDER

VARIABLES order_map,    \* page -> order, meaningful for the first page of a block
          allocated,    \* the pages whose status bit is set
          refcount_map, free_lists, used_pages, alloc_count

vars == <<order_map, allocated, refcount_map, free_lists, used_pages, alloc_count>>

\* The pages of the block of order o that starts at p.
Block(p, o) == p..(p + 2^o - 1)

\* page ^ (1 << order)
buddy_get_buddy_page(page, order) ==
    IF (page \div 2^order) % 2 = 0 THEN page + 2^order ELSE page - 2^order

\* The least order whose blocks have count pages, at most BUDDY_MAX_ORDER.
buddy_calculate_order(count) == Min({o \in Order : 2^o >= count \/ o = BUDDY_MAX_ORDER})

----------------------------------------------------------------------------
\* buddy_add_region: the largest order that fits at page, is aligned and covers
\* no reserved page.
LargestFit(page, end) ==
    Max({o \in Order : \/ o = 0
                       \/ /\ page + 2^o <= end /\ page % 2^o = 0
                          /\ Block(page, o) \subseteq Page \ Reserved})

\* One round of its loop; "at" is where the next block starts.
AddBlock(acc, page, end) ==
    IF page < acc.at \/ page \in Reserved THEN acc
    ELSE LET o == LargestFit(page, end)
         IN  [at    |-> page + 2^o,
              order |-> [acc.order EXCEPT ![page] = o],
              lists |-> [acc.lists EXCEPT ![o] = Cons(page, @)]]

buddy_add_region(acc, region) ==
    FoldLeft(LAMBDA a, i : AddBlock(a, region[1] + i - 1, region[2]), [acc EXCEPT !.at = region[1]],
             [i \in 1..(region[2] - region[1]) |-> i])

\* pmm_init: all metadata zero, the reserved pages marked, then the regions added.
Booted == FoldLeft(buddy_add_region,
                   [at |-> 0, order |-> [p \in Page |-> 0], lists |-> [o \in Order |-> <<>>]],
                   Regions)

pmm_init == /\ order_map = Booted.order
            /\ free_lists = Booted.lists
            /\ allocated = Reserved
            /\ refcount_map = [p \in Page |-> 0]
            /\ used_pages = Cardinality(Reserved)
            /\ alloc_count = [o \in Order |-> 0]

----------------------------------------------------------------------------
\* The orders of the free blocks that a request of order o can use.
Usable(o) == {k \in o..BUDDY_MAX_ORDER : free_lists[k] # <<>>}

CountAlloc(o) == /\ used_pages' = used_pages + 2^o
                 /\ alloc_count' = [alloc_count EXCEPT ![o] = @ + 1]

\* buddy_alloc_order with buddy_split_block: the first block of the least order
\* that has one; the upper half of every split goes to the front of its list.
buddy_alloc_order(o) ==
    /\ Usable(o) # {}
    /\ LET k == Min(Usable(o))
           page == Head(free_lists[k])
           upper == {j \in Order : o <= j /\ j < k}
       IN  /\ free_lists' = [j \in Order |-> IF j = k THEN Tail(free_lists[j])
                                             ELSE IF j \in upper THEN Cons(page + 2^j, free_lists[j])
                                             ELSE free_lists[j]]
           /\ order_map' = [p \in Page |-> IF p = page THEN o
                                           ELSE IF \E j \in upper : p = page + 2^j
                                                THEN CHOOSE j \in upper : p = page + 2^j
                                                ELSE order_map[p]]
           /\ allocated' = (allocated \ {page + 2^j : j \in upper}) \cup {page}
           /\ refcount_map' = [p \in Page |-> IF p \in Block(page, o) THEN 1 ELSE refcount_map[p]]
    /\ CountAlloc(o)

----------------------------------------------------------------------------
\* Where the block around page of order j starts.
Base(page, j) == page - (page % 2^j)

StopsOnlyAtUsed(page, j) ==
    LET buddy == buddy_get_buddy_page(Base(page, j), j)
    IN  j = BUDDY_MAX_ORDER \/ buddy >= pmm_total_pages \/ buddy \in allocated

\* The exits of buddy_coalesce's loop, page's own block being already marked free.
CoalesceStops(page, j) ==
    LET buddy == buddy_get_buddy_page(Base(page, j), j)
    IN  \/ j = BUDDY_MAX_ORDER
        \/ buddy >= pmm_total_pages
        \/ buddy \in allocated
        \/ order_map[buddy] # j

\* buddy_free_order on a block in use that nobody else references, with
\* buddy_coalesce: the free buddies of orders o..top-1 leave their lists.
FreeBlock(page) ==
    LET o      == order_map[page]
        top    == Min({j \in Order : j >= o /\ CoalesceStops(page, j)})
        merged == {j \in Order : o <= j /\ j < top}
        start  == Base(page, top)
        lists  == [j \in Order |-> IF j \in merged
                                   THEN Remove(free_lists[j], buddy_get_buddy_page(Base(page, j), j))
                                   ELSE free_lists[j]]
    IN  /\ allocated' = allocated \ {page}
        /\ refcount_map' = [p \in Page |-> IF p \in Block(page, o) THEN 0 ELSE refcount_map[p]]
        /\ used_pages' = used_pages - 2^o
        /\ alloc_count' = [alloc_count EXCEPT ![o] = IF @ > 0 THEN @ - 1 ELSE @]
        /\ order_map' = [p \in Page |->
                            LET at == {j \in merged : Base(page, j + 1) = p}
                            IN  IF at = {} THEN order_map[p] ELSE Max(at) + 1]
        /\ free_lists' = [lists EXCEPT ![top] = Cons(start, @)]

\* buddy_free_order returns early while a page of the block is shared.
Shared(page) == \E p \in Block(page, order_map[page]) : refcount_map[p] > 1

\* The first pages of the blocks that callers of the allocator have.
Held == allocated \ Reserved

\* pmm_free_page, pmm_free_pages and pmm_free_order: the order is the stored one.
pmm_free_page(page) ==
    /\ page \in Held
    /\ IF Shared(page) THEN UNCHANGED vars ELSE FreeBlock(page)

pmm_alloc_pages(count) == buddy_alloc_order(buddy_calculate_order(count))

\* A copy-on-write clone takes one more reference to a single page.
pmm_inc_refcount(page) ==
    /\ page \in Held /\ order_map[page] = 0
    /\ refcount_map[page] < MaxRefs
    /\ refcount_map' = [refcount_map EXCEPT ![page] = @ + 1]
    /\ UNCHANGED <<order_map, allocated, free_lists, used_pages, alloc_count>>

\* paging.c gives up a reference with pmm_dec_refcount and, when it was the
\* last one, calls pmm_free_page.
pmm_dec_refcount(page) ==
    /\ page \in Held /\ order_map[page] = 0
    /\ IF refcount_map[page] = 1 THEN FreeBlock(page)
       ELSE /\ refcount_map' = [refcount_map EXCEPT ![page] = @ - 1]
            /\ UNCHANGED <<order_map, allocated, free_lists, used_pages, alloc_count>>

Next == \/ \E count \in 1..2^BUDDY_MAX_ORDER : pmm_alloc_pages(count)
        \/ \E page \in Page : \/ pmm_free_page(page)
                              \/ pmm_inc_refcount(page)
                              \/ pmm_dec_refcount(page)

Spec == pmm_init /\ [][Next]_vars

----------------------------------------------------------------------------
FreeBlocks == {<<p, o>> \in Page \X Order : Contains(free_lists[o], p)}
HeldBlocks == {<<p, order_map[p]>> : p \in Held}
AvailablePages == UNION {r[1]..(r[2] - 1) : r \in ToSet(Regions)} \ Reserved

\* Partition: the free blocks and the blocks in use are disjoint and together are
\* exactly the available pages, whatever was split and merged before; a free
\* block is in one list once, is aligned, and its order and status say so.
Partition ==
    /\ \A b, c \in FreeBlocks \cup HeldBlocks :
          b # c => Block(b[1], b[2]) \cap Block(c[1], c[2]) = {}
    /\ UNION {Block(b[1], b[2]) : b \in FreeBlocks \cup HeldBlocks} = AvailablePages
    /\ \A b \in FreeBlocks : /\ b[1] % 2^b[2] = 0
                             /\ order_map[b[1]] = b[2] /\ b[1] \notin allocated
    /\ \A o \in Order : IsInjective(free_lists[o])

\* MaximallyMerged: buddy_coalesce leaves no two buddies free beside each other,
\* so memory does not stay fragmented once it has been freed.
MaximallyMerged ==
    \A b \in FreeBlocks : b[2] < BUDDY_MAX_ORDER =>
        <<buddy_get_buddy_page(b[1], b[2]), b[2]>> \notin FreeBlocks

\* CountsExact: pmm_used_pages and buddy_alloc_count are the pages and the
\* blocks really in use, so the guard against underflow is never needed.
CountsExact ==
    /\ used_pages = Cardinality(Reserved)
                    + Cardinality(UNION {Block(b[1], b[2]) : b \in HeldBlocks})
    /\ \A o \in Order : alloc_count[o] = Cardinality({b \in HeldBlocks : b[2] = o})

\* ImplementsPool: no page is handed out while someone references it, and the
\* reference counts change only as those of a pool of single frames.
Pool == INSTANCE PageAllocator WITH Frame <- Page, refs <- refcount_map
ImplementsPool == Pool!PoolSpec
=============================================================================
