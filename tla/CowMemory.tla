----------------------------- MODULE CowMemory -----------------------------
(***************************************************************************)
(* User memory: the page tables of paging.c with copy on write, fork, exec *)
(* and exit as far as they change them, and sys_brk.  Frames come from the *)
(* pool of PageAllocator, which Buddy implements.  System calls and page   *)
(* faults run with interrupts off: each is one step.  Frame holds the      *)
(* frames of user pages; directories, page tables and the kernel's own     *)
(* memory come from the same pool, so a call that needs one of those may   *)
(* find the pool empty at any time.                                        *)
(***************************************************************************)
EXTENDS Naturals, FiniteSets, FiniteSetsExt, Functions

CONSTANTS Frame, NoFrame,
          Task,             \* address spaces
          Loaded, ReadOnly, \* the pages of an image's segments; those without PAGE_WRITE
          HeapStart, HeapPages,     \* the heap's first page and its most pages
          Stack,
          MaxRefs,          \* bound on the references to one frame
          Image, Zero, Junk, Unmapped, Stored   \* contents of a page

Heap   == HeapStart..(HeapStart + HeapPages - 1)
VPage  == Loaded \cup Heap \cup Stack
Value  == {Image, Zero, Junk} \cup Stored

\* Program breaks are counted in half pages from the start of the heap.
Break  == 0..(2 * HeapPages)

\* PAGE_ALIGN_UP
PageUp(brk) == (brk + 1) \div 2

ASSUME LayoutAssumption ==
    /\ IsFiniteSet(Task) /\ IsFiniteSet(Loaded) /\ IsFiniteSet(Stack)
    /\ HeapStart \in Nat /\ HeapPages \in Nat /\ VPage \subseteq Nat
    /\ NoFrame \notin Frame /\ Unmapped \notin Value
    /\ Loaded \cap Heap = {} /\ Loaded \cap Stack = {} /\ Heap \cap Stack = {}
    /\ ReadOnly \subseteq Loaded

VARIABLES
    state,          \* per task: "none", "live" or "zombie"
    frame,          \* task -> page -> the frame of its entry, NoFrame if not present
    rw, cow,        \* task -> the pages whose entry has the bit set
    heap_end,       \* task -> program break
    refs,           \* frame -> reference count in the pool
    content,        \* frame -> what it holds
    refused,        \* frame -> how often sys_brk failed to free it
    halted          \* abort(), or a page fault nothing recovers from

vars == <<state, frame, rw, cow, heap_end, refs, content, refused, halted>>

Mapped(t) == {v \in VPage : frame[t][v] # NoFrame}
Free      == {f \in Frame : refs[f] = 0}

NoPages == [v \in VPage |-> NoFrame]

\* elf_create_task for the first user task.
Init == \E t \in Task, g \in Injection(Loaded \cup Stack, Frame) :
    /\ state = [u \in Task |-> IF u = t THEN "live" ELSE "none"]
    /\ frame = [u \in Task |-> IF u = t THEN [v \in VPage |-> IF v \in DOMAIN g THEN g[v] ELSE NoFrame]
                                        ELSE NoPages]
    /\ rw = [u \in Task |-> IF u = t THEN DOMAIN g \ ReadOnly ELSE {}]
    /\ cow = [u \in Task |-> {}]
    /\ heap_end = [u \in Task |-> 0]
    /\ refs = [f \in Frame |-> IF f \in Range(g) THEN 1 ELSE 0]
    /\ content = [f \in Frame |-> IF \E v \in Loaded : g[v] = f THEN Image
                                  ELSE IF \E v \in Stack : g[v] = f THEN Zero ELSE Junk]
    /\ refused = [f \in Frame |-> 0]
    /\ halted = FALSE

Halt == halted' = TRUE /\ UNCHANGED <<state, frame, rw, cow, heap_end, refs, content, refused>>

----------------------------------------------------------------------------
\* A store that the page tables allow.
Store(t, v, x) ==
    /\ v \in rw[t]
    /\ content' = [content EXCEPT ![frame[t][v]] = x]
    /\ UNCHANGED <<state, frame, rw, cow, heap_end, refs, refused, halted>>

KeepsReference(old, new) == [refs EXCEPT ![new] = 1]

\* pmm_alloc_page for the copy, pmm_dec_refcount of the original.
CopyRefs(old, new) == [refs EXCEPT ![new] = 1, ![old] = @ - 1]

NotCopied(old, new) == [content EXCEPT ![old] = IF refs[old] = 1 THEN Junk ELSE @]

\* memcpy to the copy; the original is freed with its last reference.
CopyContent(old, new) == [content EXCEPT ![new] = content[old],
                                         ![old] = IF refs[old] = 1 THEN Junk ELSE @]

\* A write fault on a copy-on-write page, also when no other task shares it.
paging_handle_page_fault_cow(t, v) ==
    /\ v \in cow[t]
    /\ \/ Halt       \* no frame left
       \/ /\ \E f \in Free :
                LET old == frame[t][v]
                IN  /\ frame' = [frame EXCEPT ![t][v] = f]
                    /\ refs' = CopyRefs(old, f)
                    /\ content' = CopyContent(old, f)
          /\ rw' = [rw EXCEPT ![t] = @ \cup {v}] /\ cow' = [cow EXCEPT ![t] = @ \ {v}]
          /\ UNCHANGED <<state, heap_end, refused, halted>>

\* Any other fault stops the machine.
UnrecoverableFault(t, v) == v \notin rw[t] \cup cow[t] /\ Halt

----------------------------------------------------------------------------
StaysWritable(p, shared) == rw[p]

\* The parent's entries of the shared pages become read-only.
WriteProtect(p, shared) == rw[p] \ shared

\* task_fork with paging_clone_directory: stack pages are copied, every other
\* page is shared, read-only and copy-on-write in both tasks from now on.
task_fork(p, c) ==
    /\ state[p] = "live" /\ state[c] = "none"
    /\ \E g \in Injection(Stack, Free) :
          LET shared == Mapped(p) \ Stack
          IN  /\ \A v \in shared : refs[frame[p][v]] < MaxRefs
              /\ frame' = [frame EXCEPT ![c] = [v \in VPage |-> IF v \in Stack THEN g[v] ELSE frame[p][v]]]
              /\ rw' = [rw EXCEPT ![p] = WriteProtect(p, shared), ![c] = Stack]
              /\ cow' = [cow EXCEPT ![p] = @ \cup shared, ![c] = shared]
              /\ refs' = [f \in Frame |-> IF f \in Range(g) THEN 1
                                          ELSE IF \E v \in shared : frame[p][v] = f THEN refs[f] + 1
                                          ELSE refs[f]]
              /\ content' = [f \in Frame |-> IF f \in Range(g)
                                             THEN content[frame[p][CHOOSE v \in Stack : g[v] = f]]
                                             ELSE content[f]]
    /\ state' = [state EXCEPT ![c] = "live"]
    /\ heap_end' = [heap_end EXCEPT ![c] = heap_end[p]]
    /\ UNCHANGED <<refused, halted>>

\* Without a frame for a page table, the directory or a stack page it aborts.
ForkAborts(p, c) == state[p] = "live" /\ state[c] = "none" /\ Halt

----------------------------------------------------------------------------
\* paging_free_user_pages: a copy-on-write page loses a reference, a private one
\* is freed (pmm_free_page leaves a page alone that has two or more).
paging_free_user_pages(t) ==
    [f \in Frame |-> LET V == {v \in VPage : frame[t][v] = f}
                     IN  IF V = {} THEN refs[f]
                         ELSE IF V \cap cow[t] # {} THEN refs[f] - 1
                         ELSE IF refs[f] > 1 THEN refs[f] ELSE 0]

\* What the frames hold when those in F have been given back to the pool.
Released(F) == [f \in Frame |-> IF f \in F THEN Junk ELSE content[f]]

\* task_exit, and task_destroy by the task that collects it.
task_exit(t) ==
    /\ state[t] = "live" /\ state' = [state EXCEPT ![t] = "zombie"]
    /\ UNCHANGED <<frame, rw, cow, heap_end, refs, content, refused, halted>>

task_destroy(t) ==
    /\ state[t] = "zombie"
    /\ refs' = paging_free_user_pages(t)
    /\ content' = Released({f \in Frame : refs'[f] = 0})
    /\ frame' = [frame EXCEPT ![t] = NoPages]
    /\ rw' = [rw EXCEPT ![t] = {}] /\ cow' = [cow EXCEPT ![t] = {}]
    /\ heap_end' = [heap_end EXCEPT ![t] = 0]
    /\ state' = [state EXCEPT ![t] = "none"]
    /\ UNCHANGED <<refused, halted>>

\* task_exec: the new directory and stack, then the segments; the old memory is
\* freed when all of it is in place.  When elf_load_segments runs out of frames,
\* what was built is freed again and nothing has changed.  Zero is the content of
\* a fresh stack, with the arguments that task_push_args puts there.
task_exec(t) ==
    /\ state[t] = "live"
    /\ \E g \in Injection(Loaded \cup Stack, Free) :
          LET kept == paging_free_user_pages(t)
          IN  /\ refs' = [f \in Frame |-> IF f \in Range(g) THEN 1 ELSE kept[f]]
              /\ content' = [f \in Frame |-> IF \E v \in Loaded : g[v] = f THEN Image
                                             ELSE IF f \in Range(g) THEN Zero
                                             ELSE IF kept[f] = 0 THEN Junk ELSE content[f]]
              /\ frame' = [frame EXCEPT ![t] = [v \in VPage |-> IF v \in DOMAIN g THEN g[v] ELSE NoFrame]]
    /\ rw' = [rw EXCEPT ![t] = (Loaded \cup Stack) \ ReadOnly]
    /\ cow' = [cow EXCEPT ![t] = {}]
    /\ heap_end' = [heap_end EXCEPT ![t] = 0]
    /\ UNCHANGED <<state, refused, halted>>

\* Its paging_clone_directory aborts when the pool is empty.
ExecAborts(t) == state[t] = "live" /\ Halt

----------------------------------------------------------------------------
HeapRange(from, to) == (HeapStart + from)..(HeapStart + to - 1)

\* sys_brk growing the heap: zeroed pages, mapped one by one.  Out of frames, it
\* unmaps and frees them again and the break stays.
BrkGrows(t, addr) ==
    LET from == PageUp(heap_end[t])
        to   == PageUp(addr)
        V    == HeapRange(from, to)
    IN  /\ to > from
        /\ \E g \in Injection(V, Free) :
              /\ frame' = [frame EXCEPT ![t] = [v \in VPage |-> IF v \in V THEN g[v] ELSE @[v]]]
              /\ refs' = [f \in Frame |-> IF f \in Range(g) THEN 1 ELSE refs[f]]
              /\ content' = [f \in Frame |-> IF f \in Range(g) THEN Zero ELSE content[f]]
        /\ rw' = [rw EXCEPT ![t] = @ \cup V]
        /\ heap_end' = [heap_end EXCEPT ![t] = addr]
        /\ UNCHANGED <<state, cow, refused, halted>>

StopsBeforeFirstPage(t, V) == (V \cap Mapped(t)) \ {HeapStart}

\* The pages a shrinking heap gives up.
GivenUp(t, V) == V \cap Mapped(t)

\* sys_brk shrinking the heap: each page is unmapped and pmm_free_page is called,
\* which does nothing while the frame has two or more references.
BrkShrinks(t, addr) ==
    LET V == GivenUp(t, HeapRange(PageUp(addr), PageUp(heap_end[t])))
        F == {frame[t][v] : v \in V}
        shared == {f \in F : refs[f] > 1}
    IN  /\ PageUp(addr) < PageUp(heap_end[t])
        /\ frame' = [frame EXCEPT ![t] = [v \in VPage |-> IF v \in V THEN NoFrame ELSE @[v]]]
        /\ rw' = [rw EXCEPT ![t] = @ \ V] /\ cow' = [cow EXCEPT ![t] = @ \ V]
        /\ refs' = [f \in Frame |-> IF f \in F \ shared THEN 0 ELSE refs[f]]
        /\ content' = Released(F \ shared)
        /\ refused' = [f \in Frame |-> IF f \in shared THEN refused[f] + 1 ELSE refused[f]]
        /\ heap_end' = [heap_end EXCEPT ![t] = addr]
        /\ UNCHANGED <<state, halted>>

NoLimit(addr) == TRUE

\* addr <= heap_max, else -ENOMEM
WithinLimit(addr) == addr \in Break

\* A break in the same page changes nothing: not even heap_end.
sys_brk(t, addr) == /\ state[t] = "live" /\ WithinLimit(addr)
                    /\ BrkGrows(t, addr) \/ BrkShrinks(t, addr)

----------------------------------------------------------------------------
Next == /\ ~halted
        /\ \E t \in Task :
              \/ /\ state[t] = "live"
                 /\ \E v \in VPage : \/ \E x \in Stored : Store(t, v, x)
                                     \/ paging_handle_page_fault_cow(t, v)
                                     \/ UnrecoverableFault(t, v)
              \/ \E c \in Task : task_fork(t, c) \/ ForkAborts(t, c)
              \/ task_exit(t) \/ task_destroy(t)
              \/ task_exec(t) \/ ExecAborts(t)
              \/ \E addr \in 0..(2 * HeapPages + 1) : sys_brk(t, addr)

Spec == Init /\ [][Next]_vars

----------------------------------------------------------------------------
\* The type invariant of the page tables and of the pool's counts.
TypeOK == /\ state \in [Task -> {"none", "live", "zombie"}]
          /\ frame \in [Task -> [VPage -> Frame \cup {NoFrame}]]
          /\ rw \in [Task -> SUBSET VPage] /\ cow \in [Task -> SUBSET VPage]
          /\ heap_end \in [Task -> Break]
          /\ refs \in [Frame -> Nat] /\ refused \in [Frame -> Nat]
          /\ content \in [Frame -> Value] /\ halted \in BOOLEAN

Entries(f) == {e \in Task \X VPage : frame[e[1]][e[2]] = f}

\* RefcountExact: the count of a frame is the number of page table entries that
\* point to it, plus one for every time sys_brk dropped an entry of a shared
\* frame (those references are never given back).
RefcountExact == \A f \in Frame : refs[f] = Cardinality(Entries(f)) + refused[f]

\* WritableIsPrivate: a frame that some task can write without a fault is in no
\* other page table entry, whatever forks, faults and exits came before.
WritableIsPrivate ==
    \A t \in Task : \A v \in rw[t] :
        /\ frame[t][v] # NoFrame
        /\ Entries(frame[t][v]) = {<<t, v>>} /\ refs[frame[t][v]] = 1

\* HeapMapped: the mapped heap pages are those below the program break, also
\* after a growth that ran out of frames.
HeapMapped == \A t \in Task : \A v \in Heap : v \in Mapped(t) <=> 2 * (v - HeapStart) < heap_end[t]

\* PrivateMemory: seen through the page tables every task has memory of its own;
\* what it holds changes only by the task's own stores, exec and brk.
Memory == [t \in Task |-> [v \in VPage |-> IF frame[t][v] = NoFrame THEN Unmapped ELSE content[frame[t][v]]]]
Spaces == INSTANCE AddressSpaces WITH Value <- Stored, mem <- Memory
PrivateMemory == Spaces!MemSpec
=============================================================================
