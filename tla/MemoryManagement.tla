------------------------- MODULE MemoryManagement --------------------------
(***************************************************************************)
(* Memory, side by side: the page tables of tasks (CowMemory, which this   *)
(* module extends), the kernel's heap, and a process's heap with its       *)
(* environment.  A behaviour uses one of them ("subject").                 *)
(***************************************************************************)
EXTENDS CowMemory, TLC

CONSTANTS kdir, udir, nopt    \* page directories, and no page table

VARIABLES subject,
          heap, live, usage, balance, resizes, rgbmode, dirs, split, stray,
          user_heap, environ, argv, user_live, env, fault, calls

----------------------------------------------------------------------------
\* A heap of five pages under six frames, two page directories, a table for every
\* three pages, slabs of two size classes.
H == INSTANCE KernelHeap WITH
    VMM_KERNEL_START <- 1, VMM_USER_START <- 2, VMM_USER_END <- 3, VMM_KERNEL_HEAP <- 3, VMM_KERNEL_END <- 8,
    VMM_REGIONS_PER_PAGE <- 3, PagesPerTable <- 3, Frames <- 6, Dir <- {kdir, udir}, KernelDir <- kdir, NoTable <- nopt,
    PAGE_SIZE <- 8, SlabMeta <- 2, HeaderSize <- 1, SLAB_SIZE_CLASSES <- <<3, 4>>, SLAB_MAX_SIZE <- 5,
    FewObjects <- 1, LargeObject <- 4, Sizes <- {2, 4, 5, 9}, ConfigSize <- 2, CellBufferSize <- 9, MaxResizes <- 1

\* Pages of eight bytes; frames for no page, for two pages, and for more than heap_max
\* allows; two names; sizes and addresses modulo 64, so that calloc asks for 49 and 63 bytes too.
E == INSTANCE Environ WITH
    HeaderSize <- 1, MIN_ALLOC <- 2, PAGE_SIZE <- 8, HeapBase <- 8, HeapMax <- 28, Word <- 64, Sizes <- {0, 1, 7, 9},
    Name <- {"a", "b"}, Value <- {1, 2}, Argc <- 3, Limits <- {8, 24, 40}, MaxCalls <- 4,
    heap <- user_heap, live <- user_live

ASSUME H!HeapAssumption /\ H!VmmAssumption

\* Frames are interchangeable: nothing in CowMemory orders or names them.
Symmetric == Permutations(Frame)

----------------------------------------------------------------------------
heapVars == <<heap, live, usage, balance, resizes, rgbmode, dirs, split, stray>>
userVars == <<user_heap, environ, argv, user_live, env, fault, calls>>
AllVars == <<subject, vars, heapVars, userVars>>

\* The variables of a heap that is not the subject are 0; the memory of tasks then
\* keeps an initial state.
NoHeap == /\ heap = 0 /\ live = 0 /\ usage = 0 /\ balance = 0 /\ resizes = 0 /\ rgbmode = 0
          /\ dirs = 0 /\ split = 0 /\ stray = 0
NoUser == /\ user_heap = 0 /\ environ = 0 /\ argv = 0 /\ user_live = 0 /\ env = 0
          /\ fault = 0 /\ calls = 0

AllInit == /\ Init
           /\ \/ subject = "memory" /\ NoHeap /\ NoUser
              \/ subject = "heap" /\ H!Init /\ NoUser
              \/ subject = "environ" /\ NoHeap /\ E!Init
           /\ subject # "memory" => \A t, u \in Task : state[t] = "live" => t =< u

AllNext == \/ subject = "memory" /\ Next /\ UNCHANGED <<subject, heapVars, userVars>>
           \/ subject = "heap" /\ H!Next /\ UNCHANGED <<subject, vars, userVars>>
           \/ subject = "environ" /\ E!Next /\ UNCHANGED <<subject, vars, heapVars>>

AllSpec == AllInit /\ [][AllNext]_AllVars

----------------------------------------------------------------------------
\* kmalloc, krealloc and kfree hand out disjoint blocks; the VMM's regions tile the
\* address space, and no frame or region descriptor is lost; a block can be reached from
\* every page directory; every slab is in the list for its number of free objects; the
\* statistics are the memory really in use (the properties of KernelHeap, and the
\* abstract HeapBlocks).
KernelHeapExact ==
    /\ [](subject = "heap" => /\ H!TypeOK /\ H!RegionsTile /\ H!DescriptorsExact /\ H!FramesExact
                              /\ H!SharedHeap /\ H!SlabListsExact /\ H!UsageExact)
    /\ (subject = "heap" => H!Blocks!HInit)
    /\ [][subject = "heap" => H!Blocks!Exchange]_heapVars

\* The headers of malloc tile a process's heap and its used blocks are those the process
\* and its environment hold; getenv returns the value a variable was given last; the
\* array environ points to is never freed under it; malloc leaves the heap only after
\* the very first sbrk failed or for a request beyond heap_max (HeapTiled, LiveExact, EnvironExact, EnvironHeld,
\* FaultOnlyStarved in Environ).
EnvironmentExact == subject = "environ" => /\ E!HeapTiled /\ E!LiveExact /\ E!EnvironExact
                                           /\ E!EnvironHeld /\ E!FaultOnlyStarved
=============================================================================
