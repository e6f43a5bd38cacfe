-------------------------- MODULE CowMemoryProofs --------------------------
(***************************************************************************)
(* For every number of tasks, pages and frames: the reference counts are   *)
(* exact, a writable frame is in one page table entry, the heap is mapped  *)
(* up to the break, and every task has memory of its own.                  *)
(***************************************************************************)
EXTENDS CowMemory, FiniteSetTheorems, TLAPS

USE LayoutAssumption

Table == [VPage -> Frame \cup {NoFrame}]

\* A page table that holds no frame twice; the frame is in one of its entries.
OneEach(g) == \A v, w \in VPage : g[v] = g[w] /\ g[v] # NoFrame => v = w
Uses(g, f) == \E v \in VPage : g[v] = f
EntriesOf(fr, f) == {e \in Task \X VPage : fr[e[1]][e[2]] = f}

\* There are finitely many page table entries.
LEMMA EntriesFinite ==
    ASSUME NEW fr, NEW f
    PROVE  IsFiniteSet(EntriesOf(fr, f)) /\ Cardinality(EntriesOf(fr, f)) \in Nat
<1>1. IsFiniteSet(Heap)
  BY FS_Interval DEF Heap
<1>2. IsFiniteSet(Loaded \cup Heap)
  BY <1>1, FS_Union, Zenon
<1>3. IsFiniteSet(VPage)
  BY <1>2, FS_Union, Zenon DEF VPage
<1>4. IsFiniteSet(Task \X VPage)
  BY <1>3, FS_Product
<1>5. EntriesOf(fr, f) \subseteq Task \X VPage
  BY DEF EntriesOf
<1>6. IsFiniteSet(EntriesOf(fr, f))
  BY <1>4, <1>5, FS_Subset
<1> QED
  BY <1>6, FS_CardinalityType

\* An entry, as a pair.
LEMMA EntryOf ==
    ASSUME NEW fr, NEW f, NEW t \in Task, NEW v \in VPage
    PROVE  <<t, v>> \in EntriesOf(fr, f) <=> fr[t][v] = f
<1>1. <<t, v>>[1] = t /\ <<t, v>>[2] = v /\ <<t, v>> \in Task \X VPage
  OBVIOUS
<1> QED
  BY <1>1 DEF EntriesOf

\* A new page table for one task changes the number of entries with f by one for
\* its old and by one for its new table, when each holds a frame at most once.
LEMMA TableStep ==
    ASSUME NEW fr \in [Task -> Table], NEW new \in [Task -> Table], NEW t \in Task,
           \A u \in Task : u # t => new[u] = fr[u],
           OneEach(fr[t]), OneEach(new[t]), NEW f \in Frame
    PROVE  Cardinality(EntriesOf(new, f)) =
             Cardinality(EntriesOf(fr, f)) + (IF Uses(new[t], f) THEN 1 ELSE 0)
                                           - (IF Uses(fr[t], f) THEN 1 ELSE 0)
<1> DEFINE Rest(x) == {e \in EntriesOf(x, f) : e[1] # t}
<1>1. ASSUME NEW x \in [Task -> Table], OneEach(x[t])
      PROVE  /\ Cardinality(Rest(x)) \in Nat
             /\ Cardinality(EntriesOf(x, f)) =
                  Cardinality(Rest(x)) + (IF Uses(x[t], f) THEN 1 ELSE 0)
  <2>1. IsFiniteSet(Rest(x)) /\ Cardinality(Rest(x)) \in Nat
    <3>1. IsFiniteSet(Rest(x))
      BY EntriesFinite, FS_Subset, Zenon
    <3> QED
      BY <3>1, FS_CardinalityType, Zenon
  <2>2. CASE ~Uses(x[t], f)
    <3>1. EntriesOf(x, f) = Rest(x)
      BY <2>2, Zenon DEF EntriesOf, Uses
    <3> HIDE DEF Rest
    <3> QED
      BY <2>1, <2>2, <3>1, SMTT(60)
  <2>3. CASE Uses(x[t], f)
    <3>1. PICK v \in VPage : x[t][v] = f
      BY <2>3 DEF Uses
    <3>2. <<t, v>> \in EntriesOf(x, f)
      BY <3>1, EntryOf
    <3>3. ASSUME NEW e \in EntriesOf(x, f), e[1] = t
          PROVE  e = <<t, v>>
      <4>1. e[2] \in VPage /\ x[t][e[2]] = f /\ e = <<e[1], e[2]>>
        BY <3>3 DEF EntriesOf
      <4>2. e[2] = v
        BY <1>1, <3>1, <4>1 DEF OneEach
      <4> QED
        BY <3>3, <4>1, <4>2
    <3>4. <<t, v>> \notin Rest(x)
      OBVIOUS
    <3>5. EntriesOf(x, f) = Rest(x) \cup {<<t, v>>}
      BY <3>2, <3>3
    <3> HIDE DEF Rest
    <3>6. Cardinality(Rest(x) \cup {<<t, v>>}) = Cardinality(Rest(x)) + 1
      BY <2>1, <3>4, FS_AddElement, Zenon
    <3> QED
      BY <2>1, <2>3, <3>5, <3>6
  <2> QED
    BY <2>1, <2>2, <2>3, Zenon
<1>3. Rest(new) = Rest(fr)
  BY DEF EntriesOf
<1>4. /\ Cardinality(Rest(fr)) \in Nat
      /\ Cardinality(EntriesOf(fr, f)) = Cardinality(Rest(fr)) + (IF Uses(fr[t], f) THEN 1 ELSE 0)
  BY <1>1
<1>5. Cardinality(EntriesOf(new, f)) = Cardinality(Rest(new)) + (IF Uses(new[t], f) THEN 1 ELSE 0)
  BY <1>1
<1> HIDE DEF Rest
<1> QED
  BY <1>3, <1>4, <1>5, SMTT(60)

\* Exact counts of a page table fr: rf counts its entries, and rs more.
Exact(fr, rf, rs) == \A f \in Frame : rf[f] = Cardinality(EntriesOf(fr, f)) + rs[f]

\* A mapped frame has a reference; one with a single reference has one entry.
LEMMA MappedCounts ==
    ASSUME NEW fr \in [Task -> Table], NEW rf \in [Frame -> Nat], NEW rs \in [Frame -> Nat],
           Exact(fr, rf, rs), NEW t \in Task, NEW v \in VPage, fr[t][v] # NoFrame
    PROVE  /\ fr[t][v] \in Frame
           /\ rf[fr[t][v]] >= 1
           /\ rf[fr[t][v]] = 1 => /\ EntriesOf(fr, fr[t][v]) = {<<t, v>>}
                                  /\ rs[fr[t][v]] = 0
<1> DEFINE f == fr[t][v]
           E == EntriesOf(fr, f)
<1>1. f \in Frame
  BY DEF Table
<1>2. <<t, v>> \in E
  BY EntryOf
<1>3. IsFiniteSet(E) /\ Cardinality(E) \in Nat
  BY EntriesFinite
<1>4. rf[f] = Cardinality(E) + rs[f] /\ rs[f] \in Nat
  BY <1>1 DEF Exact
<1> HIDE DEF E, f
<1>5. /\ IsFiniteSet(E \ {<<t, v>>})
      /\ Cardinality(E \ {<<t, v>>}) = Cardinality(E) - 1
  BY <1>2, <1>3, FS_RemoveElement, Zenon
<1>6. Cardinality(E \ {<<t, v>>}) \in Nat
  BY <1>5, FS_CardinalityType
<1>7. Cardinality(E) >= 1
  BY <1>3, <1>5, <1>6, SMTT(60)
<1>8. ASSUME Cardinality(E) = 1 PROVE E = {<<t, v>>}
  <2>1. E \ {<<t, v>>} = {}
    BY <1>5, <1>8, FS_EmptySet, SMTT(60)
  <2> QED
    BY <1>2, <2>1
<1>9. rf[f] >= 1 /\ (rf[f] = 1 => E = {<<t, v>>} /\ rs[f] = 0)
  BY <1>3, <1>4, <1>7, <1>8, SMTT(60)
<1> QED
  BY <1>1, <1>9 DEF f, E

----------------------------------------------------------------------------
\* The inductive invariant.  A task has no frame in two of its pages.  A page that
\* is not copy-on-write holds the only reference to its frame; that is what lets
\* fork share it, exec and exit free it, and a store go through.
TableOK(t) ==
    /\ OneEach(frame[t])
    /\ \A v \in VPage : v \in rw[t] \cup cow[t] => frame[t][v] # NoFrame
    /\ rw[t] \cap cow[t] = {} /\ cow[t] \cap Stack = {}
    /\ \A v \in VPage : frame[t][v] # NoFrame /\ v \notin cow[t] => refs[frame[t][v]] = 1
    /\ state[t] = "none" => frame[t] = NoPages /\ heap_end[t] = 0
    /\ state[t] = "live" => \A v \in Loaded \cup Stack : frame[t][v] # NoFrame
    /\ \A v \in Heap : frame[t][v] # NoFrame <=> 2 * (v - HeapStart) < heap_end[t]

IInv == TypeOK /\ Exact(frame, refs, refused) /\ \A t \in Task : TableOK(t)

\* What the invariant says about the frames that are mapped and those that are free.
LEMMA Counts ==
    ASSUME IInv
    PROVE  /\ \A t \in Task, v \in VPage : frame[t][v] # NoFrame =>
                /\ frame[t][v] \in Frame /\ refs[frame[t][v]] \in Nat /\ refs[frame[t][v]] >= 1
           /\ \A t, u \in Task, v, w \in VPage :
                frame[t][v] # NoFrame /\ refs[frame[t][v]] = 1 /\ frame[u][w] = frame[t][v]
                  => u = t /\ w = v
           /\ \A f \in Free, t \in Task, v \in VPage : frame[t][v] # f
<1>0. /\ frame \in [Task -> Table] /\ refs \in [Frame -> Nat] /\ refused \in [Frame -> Nat]
      /\ Exact(frame, refs, refused)
  BY Zenon DEF IInv, TypeOK, Table
<1>1. ASSUME NEW t \in Task, NEW v \in VPage, frame[t][v] # NoFrame
      PROVE  /\ frame[t][v] \in Frame /\ refs[frame[t][v]] >= 1
             /\ refs[frame[t][v]] = 1 => EntriesOf(frame, frame[t][v]) = {<<t, v>>}
  BY <1>0, <1>1, MappedCounts, SMTT(60)
<1>2. ASSUME NEW t \in Task, NEW u \in Task, NEW v \in VPage, NEW w \in VPage,
             frame[t][v] # NoFrame, refs[frame[t][v]] = 1, frame[u][w] = frame[t][v]
      PROVE  u = t /\ w = v
  <2>1. EntriesOf(frame, frame[t][v]) = {<<t, v>>}
    BY <1>1, <1>2, Zenon
  <2>2. <<u, w>> \in EntriesOf(frame, frame[t][v])
    BY <1>2, EntryOf, Zenon
  <2> QED
    BY <2>1, <2>2, SMTT(60)
<1>3. ASSUME NEW f \in Free, NEW t \in Task, NEW v \in VPage
      PROVE  frame[t][v] # f
  BY <1>1 DEF Free
<1> QED
  BY <1>0, <1>1, <1>2, <1>3, SMTT(60)

\* One bit of arithmetic: the pages below a break.
LEMMA PagesBelow ==
    ASSUME NEW brk \in Break, NEW n \in Nat
    PROVE  2 * n < brk <=> n < PageUp(brk)
  BY DEF Break, PageUp

\* Freeing a task's pages takes back exactly its references.
LEMMA FreeUserPages ==
    ASSUME IInv, NEW t \in Task
    PROVE  /\ paging_free_user_pages(t) \in [Frame -> Nat]
           /\ \A f \in Frame : paging_free_user_pages(t)[f] =
                                 refs[f] - (IF Uses(frame[t], f) THEN 1 ELSE 0)
<1> SUFFICES ASSUME NEW f \in Frame
             PROVE  /\ paging_free_user_pages(t)[f] =
                          refs[f] - (IF Uses(frame[t], f) THEN 1 ELSE 0)
                    /\ paging_free_user_pages(t)[f] \in Nat
  BY DEF paging_free_user_pages
<1>0. refs \in [Frame -> Nat] /\ TableOK(t)
  BY DEF IInv, TypeOK
<1> DEFINE V == {v \in VPage : frame[t][v] = f}
<1>1. paging_free_user_pages(t)[f] = IF V = {} THEN refs[f]
                         ELSE IF V \cap cow[t] # {} THEN refs[f] - 1
                         ELSE IF refs[f] > 1 THEN refs[f] ELSE 0
  BY DEF paging_free_user_pages
<1>2. CASE V = {}
  BY <1>0, <1>1, <1>2, SMTT(60) DEF Uses
<1>3. CASE V # {}
  <2>1. PICK v \in VPage : frame[t][v] = f
    BY <1>3, Zenon
  <2>2. refs[f] >= 1 /\ Uses(frame[t], f)
    BY <2>1, Counts DEF Uses
  <2>3. V \cap cow[t] = {} => refs[f] = 1
    BY <1>0, <2>1 DEF TableOK
  <2> HIDE DEF V
  <2> QED
    BY <1>0, <1>1, <1>3, <2>2, <2>3, SMTT(60)
<1> QED
  BY <1>2, <1>3, Zenon

\* The first user task.
LEMMA InitIInv == Init => IInv
<1> SUFFICES ASSUME Init PROVE IInv
  OBVIOUS
<1>i. PICK t \in Task, g \in Injection(Loaded \cup Stack, Frame) :
          /\ state = [u \in Task |-> IF u = t THEN "live" ELSE "none"]
          /\ frame = [u \in Task |-> IF u = t
                        THEN [v \in VPage |-> IF v \in DOMAIN g THEN g[v] ELSE NoFrame]
                        ELSE NoPages]
          /\ rw = [u \in Task |-> IF u = t THEN DOMAIN g \ ReadOnly ELSE {}]
          /\ cow = [u \in Task |-> {}]
          /\ heap_end = [u \in Task |-> 0]
          /\ refs = [f \in Frame |-> IF f \in Range(g) THEN 1 ELSE 0]
          /\ content = [f \in Frame |-> IF \E v \in Loaded : g[v] = f THEN Image
                                        ELSE IF \E v \in Stack : g[v] = f THEN Zero ELSE Junk]
          /\ refused = [f \in Frame |-> 0]
          /\ halted = FALSE
  BY Zenon DEF Init
<1> DEFINE none == [u \in Task |-> NoPages]
           tab == [v \in VPage |-> IF v \in DOMAIN g THEN g[v] ELSE NoFrame]
<1>1. /\ g \in [Loaded \cup Stack -> Frame] /\ DOMAIN g = Loaded \cup Stack
      /\ \A v, w \in DOMAIN g : g[v] = g[w] => v = w
  BY DEF Injection, IsInjective
<1>2. /\ none \in [Task -> Table] /\ tab \in Table /\ frame = [none EXCEPT ![t] = tab]
      /\ none[t] = NoPages
  BY <1>i, <1>1, Zenon DEF Table, NoPages
<1>3. OneEach(tab) /\ OneEach(NoPages)
  BY <1>1 DEF OneEach, NoPages
<1>4. DOMAIN g \subseteq VPage
  BY <1>1 DEF VPage
<1>5. ASSUME NEW f \in Frame
      PROVE  /\ Cardinality(EntriesOf(none, f)) = 0 /\ ~Uses(NoPages, f)
             /\ Uses(tab, f) <=> f \in Range(g)
  <2>1. EntriesOf(none, f) = {}
    BY DEF EntriesOf, NoPages
  <2>2. ~Uses(NoPages, f)
    BY DEF Uses, NoPages
  <2>3. Uses(tab, f) <=> f \in Range(g)
    BY <1>4, Zenon DEF Uses, Range
  <2> QED
    BY <2>1, <2>2, <2>3, FS_EmptySet, Zenon
<1>6. TypeOK
  <2>1. frame \in [Task -> [VPage -> Frame \cup {NoFrame}]]
    BY <1>2 DEF Table, NoPages
  <2>2. rw \in [Task -> SUBSET VPage] /\ cow \in [Task -> SUBSET VPage]
    BY <1>i, <1>4
  <2>3. 0 \in Break
    BY SMTT(60) DEF Break
  <2>4. content \in [Frame -> Value]
    BY <1>i, Zenon DEF Value
  <2> QED
    BY <1>i, <2>1, <2>2, <2>3, <2>4, Zenon DEF TypeOK
<1>7. Exact(frame, refs, refused)
  <2> SUFFICES ASSUME NEW f \in Frame
               PROVE  refs[f] = Cardinality(EntriesOf(frame, f)) + refused[f]
    BY Zenon DEF Exact
  <2> HIDE DEF none, tab
  <2>1. Cardinality(EntriesOf(frame, f)) =
             Cardinality(EntriesOf(none, f)) + (IF Uses(tab, f) THEN 1 ELSE 0)
                                           - (IF Uses(none[t], f) THEN 1 ELSE 0)
    <3>1. /\ frame \in [Task -> Table] /\ frame[t] = tab
          /\ \A u \in Task : u # t => frame[u] = none[u]
      BY <1>2
    <3>2. OneEach(none[t]) /\ OneEach(frame[t])
      BY <1>2, <1>3, <3>1
    <3> QED
      BY <1>2, <3>1, <3>2, TableStep, Zenon
  <2>2. refs[f] = (IF f \in Range(g) THEN 1 ELSE 0) /\ refused[f] = 0
    BY <1>i
  <2> QED
    BY <1>2, <1>5, <2>1, <2>2, SMTT(60)
<1>8. ASSUME NEW u \in Task PROVE TableOK(u)
  <2>1. CASE u = t
    <3>1. frame[u] = tab
      BY <1>i, <2>1, Zenon
    <3>2. \A v \in VPage : tab[v] # NoFrame <=> v \in Loaded \cup Stack
      BY <1>1, SMTT(60)
    <3>3. \A v \in VPage : tab[v] # NoFrame => refs[tab[v]] = 1
      BY <1>i, <1>1, <1>4, Zenon DEF Range
    <3>4. \A v \in Heap : ~(2 * (v - HeapStart) < 0) /\ v \in VPage /\ v \notin Loaded \cup Stack
      BY SMTT(60) DEF Heap, VPage
    <3> HIDE DEF tab
    <3> QED
      BY <1>i, <1>1, <1>3, <1>4, <2>1, <3>1, <3>2, <3>3, <3>4, Zenon DEF TableOK
  <2>2. CASE u # t
    <3>1. frame[u] = NoPages /\ rw[u] = {} /\ cow[u] = {} /\ heap_end[u] = 0 /\ state[u] = "none"
      BY <1>i, <2>2
    <3>2. \A v \in Heap : ~(2 * (v - HeapStart) < 0) /\ v \in VPage
      BY DEF Heap, VPage
    <3>3. \A v \in VPage : NoPages[v] = NoFrame
      BY DEF NoPages
    <3> QED
      BY <1>3, <3>1, <3>2, <3>3, Zenon DEF TableOK
  <2> QED
    BY <2>1, <2>2
<1> QED
  BY <1>6, <1>7, <1>8 DEF IInv

----------------------------------------------------------------------------
\* A step that leaves the page tables and the counts alone.
LEMMA SameTables ==
    ASSUME IInv, TypeOK', UNCHANGED <<frame, rw, cow, heap_end, refs, refused>>,
           \A u \in Task : state'[u] \in {"none", "live"} => state'[u] = state[u]
    PROVE  IInv'
<1>1. Exact(frame', refs', refused')
  BY DEF IInv
<1>2. ASSUME NEW u \in Task PROVE TableOK(u)'
  BY DEF IInv, TableOK
<1> QED
  BY <1>1, <1>2 DEF IInv

\* A step that replaces the page table of task t, in which nothing is lost and no
\* count of a frame of other tasks moves.
LEMMA OneTable ==
    ASSUME IInv, TypeOK', NEW t \in Task, TableOK(t)',
           \A u \in Task : u # t =>
              /\ frame'[u] = frame[u] /\ rw'[u] = rw[u] /\ cow'[u] = cow[u]
              /\ heap_end'[u] = heap_end[u] /\ state'[u] = state[u],
           \A f \in Frame :
              /\ ~Uses(frame[t], f) /\ refs[f] # 0 => refs'[f] = refs[f]
              /\ refs'[f] - refused'[f] =
                   refs[f] - refused[f] + (IF Uses(frame'[t], f) THEN 1 ELSE 0)
                                        - (IF Uses(frame[t], f) THEN 1 ELSE 0)
    PROVE  IInv'
<1>0. /\ frame \in [Task -> Table] /\ frame' \in [Task -> Table]
      /\ refs \in [Frame -> Nat] /\ refused \in [Frame -> Nat]
      /\ refs' \in [Frame -> Nat] /\ refused' \in [Frame -> Nat]
      /\ Exact(frame, refs, refused) /\ TableOK(t) /\ OneEach(frame'[t])
  BY Zenon DEF IInv, TypeOK, Table, TableOK
<1>1. ASSUME NEW f \in Frame
      PROVE  refs'[f] = Cardinality(EntriesOf(frame', f)) + refused'[f]
  <2>1. Cardinality(EntriesOf(frame', f)) =
             Cardinality(EntriesOf(frame, f)) + (IF Uses(frame'[t], f) THEN 1 ELSE 0)
                                           - (IF Uses(frame[t], f) THEN 1 ELSE 0)
    <3>1. OneEach(frame[t]) /\ OneEach(frame'[t])
      BY <1>0, Zenon DEF TableOK
    <3>2. \A u \in Task : u # t => frame'[u] = frame[u]
      BY Zenon
    <3>3. frame \in [Task -> Table] /\ frame' \in [Task -> Table] /\ t \in Task /\ f \in Frame
      BY <1>0, Zenon
    <3> QED
      BY ONLY <3>1, <3>2, <3>3, TableStep, SMTT(60)
  <2>2. Cardinality(EntriesOf(frame, f)) \in Nat /\ Cardinality(EntriesOf(frame', f)) \in Nat
    BY EntriesFinite, Zenon
  <2>3. refs[f] = Cardinality(EntriesOf(frame, f)) + refused[f]
    BY <1>0, Zenon DEF Exact
  <2>4. /\ refs[f] \in Nat /\ refused[f] \in Nat /\ refs'[f] \in Nat /\ refused'[f] \in Nat
    BY <1>0, Zenon
  <2> QED
    BY <2>1, <2>2, <2>3, <2>4, SMTT(60)
<1>2. ASSUME NEW u \in Task, u # t PROVE TableOK(u)'
  <2>1. TableOK(u)
    BY Zenon DEF IInv
  <2>2. ASSUME NEW v \in VPage, frame[u][v] # NoFrame, v \notin cow[u]
        PROVE  refs'[frame[u][v]] = 1
    <3>1. refs[frame[u][v]] = 1 /\ frame[u][v] \in Frame
      BY <2>1, <2>2, Counts, Zenon DEF TableOK
    <3>2. ~Uses(frame[t], frame[u][v])
      BY <1>2, <2>2, <3>1, Counts, SMTT(60) DEF Uses
    <3> QED
      BY <3>1, <3>2, SMTT(60)
  <2> QED
    BY <1>2, <2>1, <2>2, Zenon DEF TableOK
<1> QED
  BY <1>1, <1>2 DEF IInv, Exact

\* A copy-on-write fault.
LEMMA FaultIInv ==
    ASSUME IInv, NEW t \in Task, NEW v \in VPage, state[t] = "live",
           paging_handle_page_fault_cow(t, v), ~Halt
    PROVE  IInv'
<1>1. PICK f \in Free :
          /\ frame' = [frame EXCEPT ![t][v] = f]
          /\ refs' = CopyRefs(frame[t][v], f)
          /\ content' = CopyContent(frame[t][v], f)
  BY Zenon DEF paging_handle_page_fault_cow
<1>2. /\ v \in cow[t] /\ rw' = [rw EXCEPT ![t] = @ \cup {v}]
      /\ cow' = [cow EXCEPT ![t] = @ \ {v}]
      /\ UNCHANGED <<state, heap_end, refused, halted>>
  BY Zenon DEF paging_handle_page_fault_cow
<1>3. TypeOK /\ TableOK(t) /\ frame \in [Task -> Table] /\ frame[t] \in Table
  BY Zenon DEF IInv, TypeOK, Table
<1> DEFINE old == frame[t][v]
<1>4. /\ f \in Frame /\ refs[f] = 0 /\ f # NoFrame
      /\ old \in Frame /\ old # f /\ refs[old] \in Nat /\ refs[old] >= 1
      /\ \A w \in VPage : frame[t][w] # f
  BY <1>2, <1>3, Counts, Zenon DEF Free, TableOK
<1> HIDE DEF old
<1>5. /\ refs' = [refs EXCEPT ![f] = 1, ![old] = @ - 1]
      /\ content' = [content EXCEPT ![f] = content[old], ![old] = IF refs[old] = 1 THEN Junk ELSE @]
  BY <1>1, Zenon DEF CopyRefs, CopyContent, old
<1>6. /\ frame' \in [Task -> Table]
      /\ frame'[t] = [frame[t] EXCEPT ![v] = f]
      /\ \A u \in Task : u # t => frame'[u] = frame[u]
  BY <1>1, <1>3, <1>4, Zenon DEF Table
<1>7. /\ \A w \in VPage : w # v => frame'[t][w] = frame[t][w]
      /\ frame'[t][v] = f
  BY <1>3, <1>6, Zenon DEF Table
<1>8. /\ refs' \in [Frame -> Nat] /\ refs'[f] = 1 /\ refs'[old] = refs[old] - 1
      /\ \A h \in Frame : h # f /\ h # old => refs'[h] = refs[h]
  BY <1>3, <1>4, <1>5, SMTT(60) DEF TypeOK
<1>9. TypeOK'
  <2>1. content' \in [Frame -> Value]
    BY <1>3, <1>4, <1>5, Zenon DEF TypeOK, Value
  <2> QED
    BY <1>2, <1>3, <1>6, <1>8, <2>1, Zenon DEF TypeOK, Table
<1>10. TableOK(t)'
  <2>1. OneEach(frame'[t])
    BY <1>3, <1>4, <1>7 DEF TableOK, OneEach
  <2>2. /\ rw'[t] = rw[t] \cup {v} /\ cow'[t] = cow[t] \ {v} /\ state'[t] = state[t]
        /\ heap_end'[t] = heap_end[t]
    BY <1>2, <1>3 DEF TypeOK
  <2>3. old # NoFrame /\ f # NoFrame
    BY <1>4, Zenon
  <2>4. \A w \in VPage : frame'[t][w] # NoFrame <=> frame[t][w] # NoFrame
    BY <1>7, <2>3, Zenon DEF old
  <2>5. \A w \in VPage : frame'[t][w] # NoFrame /\ w \notin cow'[t] => refs'[frame'[t][w]] = 1
    <3> SUFFICES ASSUME NEW w \in VPage, w # v, frame[t][w] # NoFrame, w \notin cow[t]
                 PROVE  refs'[frame[t][w]] = 1
      BY <1>7, <1>8, <2>2, <2>4, Zenon
    <3>1. frame[t][w] \in Frame /\ frame[t][w] # f /\ refs[frame[t][w]] = 1
      BY <1>3, <1>4, Counts, Zenon DEF TableOK
    <3>2. frame[t][w] # old
      BY <1>3, Zenon DEF TableOK, OneEach, old
    <3> QED
      BY <1>8, <3>1, <3>2, Zenon
  <2>6. Heap \subseteq VPage /\ Loaded \cup Stack \subseteq VPage
    BY Zenon DEF VPage
  <2> QED
    BY <1>2, <1>3, <1>7, <2>1, <2>2, <2>4, <2>5, <2>6, Zenon DEF TableOK
<1>11. ASSUME NEW h \in Frame
       PROVE  /\ ~Uses(frame[t], h) /\ refs[h] # 0 => refs'[h] = refs[h]
              /\ refs'[h] - refused'[h] =
                   refs[h] - refused[h] + (IF Uses(frame'[t], h) THEN 1 ELSE 0)
                                        - (IF Uses(frame[t], h) THEN 1 ELSE 0)
  <2>0. refs[h] \in Nat /\ refused[h] \in Nat /\ refused'[h] = refused[h]
    BY <1>2, <1>3, Zenon DEF TypeOK
  <2>1. CASE h = f
    <3>1. Uses(frame'[t], h) /\ ~Uses(frame[t], h)
      BY <1>4, <1>7, <2>1, Zenon DEF Uses
    <3> QED
      BY <1>4, <1>8, <2>0, <2>1, <3>1, SMTT(60)
  <2>2. CASE h = old
    <3>1. Uses(frame[t], h) /\ ~Uses(frame'[t], h)
      BY <1>3, <1>4, <1>7, <2>2 DEF Uses, TableOK, OneEach, old
    <3> QED
      BY <1>4, <1>8, <2>0, <2>2, <3>1, SMTT(60)
  <2>3. CASE h # f /\ h # old
    <3>1. Uses(frame[t], h) <=> Uses(frame'[t], h)
      BY <1>7, <2>3, Zenon DEF Uses, old
    <3> QED
      BY <1>8, <2>0, <2>3, <3>1, SMTT(60)
  <2> QED
    BY <2>1, <2>2, <2>3, Zenon
<1>12. \A u \in Task : u # t =>
              /\ frame'[u] = frame[u] /\ rw'[u] = rw[u] /\ cow'[u] = cow[u]
              /\ heap_end'[u] = heap_end[u] /\ state'[u] = state[u]
  BY <1>2, <1>3, <1>6, Zenon DEF TypeOK
<1> QED
  BY <1>9, <1>10, <1>11, <1>12, OneTable, Zenon

\* A fresh page table: the pages in V get the frames an injection picks from the
\* free ones; no other task, and no other page, has them.
LEMMA FreshFrames ==
    ASSUME IInv, NEW V \in SUBSET VPage, NEW g \in Injection(V, Free)
    PROVE  /\ DOMAIN g = V /\ Range(g) \subseteq Free
           /\ \A v \in V : g[v] \in Range(g)
           /\ \A f \in Range(g) : \E v \in V : g[v] = f
           /\ \A v \in V : g[v] \in Frame /\ g[v] # NoFrame /\ refs[g[v]] = 0
           /\ \A v, w \in V : g[v] = g[w] => v = w
           /\ \A u \in Task, v \in VPage, w \in V : frame[u][v] # g[w]
<1>1. g \in [V -> Free] /\ \A v, w \in DOMAIN g : g[v] = g[w] => v = w
  BY DEF Injection, IsInjective
<1>2. DOMAIN g = V /\ \A v \in V : g[v] \in Free
  BY <1>1, Zenon
<1>3. \A v \in V : g[v] \in Frame /\ g[v] # NoFrame /\ refs[g[v]] = 0
  BY <1>2, Zenon DEF Free
<1>4. \A u \in Task, v \in VPage, w \in V : frame[u][v] # g[w]
  BY <1>2, Counts, Zenon
<1> QED
  BY <1>1, <1>2, <1>3, <1>4, SMTT(60) DEF Range

\* task_destroy gives back the references of the zombie.
LEMMA DestroyIInv ==
    ASSUME IInv, NEW t \in Task, task_destroy(t)
    PROVE  IInv'
<1>1. /\ refs' = paging_free_user_pages(t)
      /\ content' = Released({f \in Frame : refs'[f] = 0})
      /\ frame' = [frame EXCEPT ![t] = NoPages]
      /\ rw' = [rw EXCEPT ![t] = {}] /\ cow' = [cow EXCEPT ![t] = {}]
      /\ heap_end' = [heap_end EXCEPT ![t] = 0]
      /\ state' = [state EXCEPT ![t] = "none"]
      /\ UNCHANGED <<refused, halted>>
  BY Zenon DEF task_destroy
<1>2. TypeOK /\ refs' \in [Frame -> Nat]
      /\ \A f \in Frame : refs'[f] = refs[f] - (IF Uses(frame[t], f) THEN 1 ELSE 0)
  BY <1>1, FreeUserPages, Zenon DEF IInv
<1>3. NoPages \in Table /\ (\A v \in VPage : NoPages[v] = NoFrame) /\ 0 \in Break
  BY SMTT(60) DEF Table, NoPages, Break
<1>4. TypeOK'
  <2>1. content' \in [Frame -> Value]
    BY <1>1, <1>2, Zenon DEF TypeOK, Released, Value
  <2>2. frame' \in [Task -> [VPage -> Frame \cup {NoFrame}]]
    BY <1>1, <1>2, <1>3, Zenon DEF TypeOK, Table
  <2> QED
    BY <1>1, <1>2, <1>3, <2>1, <2>2, Zenon DEF TypeOK
<1>5. /\ frame'[t] = NoPages /\ rw'[t] = {} /\ cow'[t] = {} /\ heap_end'[t] = 0
      /\ state'[t] = "none"
  BY <1>1, <1>2, Zenon DEF TypeOK
<1>6. TableOK(t)'
  <2>1. \A v \in Heap : ~(2 * (v - HeapStart) < 0) /\ v \in VPage
    BY DEF Heap, VPage
  <2>2. OneEach(NoPages)
    BY <1>3 DEF OneEach
  <2> QED
    BY <1>3, <1>5, <2>1, <2>2, Zenon DEF TableOK
<1>7. ASSUME NEW h \in Frame
      PROVE  /\ ~Uses(frame[t], h) /\ refs[h] # 0 => refs'[h] = refs[h]
             /\ refs'[h] - refused'[h] =
                  refs[h] - refused[h] + (IF Uses(frame'[t], h) THEN 1 ELSE 0)
                                       - (IF Uses(frame[t], h) THEN 1 ELSE 0)
  <2>1. ~Uses(frame'[t], h)
    BY <1>3, <1>5, Zenon DEF Uses
  <2>2. refs[h] \in Nat /\ refused[h] \in Nat /\ refused'[h] = refused[h]
    BY <1>1, <1>2 DEF TypeOK
  <2> QED
    BY <1>2, <2>1, <2>2
<1>8. \A u \in Task : u # t =>
              /\ frame'[u] = frame[u] /\ rw'[u] = rw[u] /\ cow'[u] = cow[u]
              /\ heap_end'[u] = heap_end[u] /\ state'[u] = state[u]
  BY <1>1, <1>2, Zenon DEF TypeOK
<1> QED
  BY <1>4, <1>6, <1>7, <1>8, OneTable, Zenon

\* task_exec: a fresh image and stack for the old memory.
LEMMA ExecIInv ==
    ASSUME IInv, NEW t \in Task, task_exec(t)
    PROVE  IInv'
<1> DEFINE kept == paging_free_user_pages(t)
<1>1. PICK g \in Injection(Loaded \cup Stack, Free) :
          /\ refs' = [f \in Frame |-> IF f \in Range(g) THEN 1 ELSE kept[f]]
          /\ content' = [f \in Frame |-> IF \E v \in Loaded : g[v] = f THEN Image
                                             ELSE IF f \in Range(g) THEN Zero
                                             ELSE IF kept[f] = 0 THEN Junk ELSE content[f]]
          /\ frame' = [frame EXCEPT ![t] = [v \in VPage |-> IF v \in DOMAIN g THEN g[v] ELSE NoFrame]]
  BY Zenon DEF task_exec
<1>2. /\ rw' = [rw EXCEPT ![t] = (Loaded \cup Stack) \ ReadOnly]
      /\ cow' = [cow EXCEPT ![t] = {}]
      /\ heap_end' = [heap_end EXCEPT ![t] = 0]
      /\ UNCHANGED <<state, refused, halted>> /\ state[t] = "live"
  BY Zenon DEF task_exec
<1>3. TypeOK /\ kept \in [Frame -> Nat]
      /\ \A f \in Frame : kept[f] = refs[f] - (IF Uses(frame[t], f) THEN 1 ELSE 0)
  BY FreeUserPages, Zenon DEF IInv
<1> HIDE DEF kept
<1> DEFINE tab == [v \in VPage |-> IF v \in DOMAIN g THEN g[v] ELSE NoFrame]
<1>4. Loaded \cup Stack \in SUBSET VPage
  BY Zenon DEF VPage
<1>5. /\ DOMAIN g = Loaded \cup Stack /\ Range(g) \subseteq Free
      /\ \A v \in Loaded \cup Stack : g[v] \in Range(g)
      /\ \A f \in Range(g) : \E v \in Loaded \cup Stack : g[v] = f
      /\ \A v \in Loaded \cup Stack : g[v] \in Frame /\ g[v] # NoFrame /\ refs[g[v]] = 0
      /\ \A v, w \in Loaded \cup Stack : g[v] = g[w] => v = w
      /\ \A u \in Task, v \in VPage, w \in Loaded \cup Stack : frame[u][v] # g[w]
  BY <1>4, FreshFrames, Zenon
<1>6. /\ tab \in Table /\ OneEach(tab)
      /\ \A v \in VPage : tab[v] # NoFrame <=> v \in Loaded \cup Stack
      /\ \A v \in VPage : tab[v] # NoFrame => refs'[tab[v]] = 1
      /\ \A h \in Frame : Uses(tab, h) <=> h \in Range(g)
  <2>1. tab \in Table
    BY <1>5 DEF Table
  <2>2. OneEach(tab)
    BY <1>5 DEF OneEach
  <2>3. \A v \in VPage : tab[v] # NoFrame <=> v \in Loaded \cup Stack
    BY <1>5, Zenon
  <2>4. \A v \in VPage : tab[v] # NoFrame => refs'[tab[v]] = 1
    BY <1>1, <1>5, Zenon
  <2>5. \A h \in Frame : Uses(tab, h) <=> h \in Range(g)
    <3>1. \A v \in Loaded \cup Stack : v \in VPage /\ tab[v] = g[v]
      BY <1>4, <1>5, Zenon
    <3>2. \A v \in VPage : v \notin Loaded \cup Stack => tab[v] = NoFrame
      BY <1>5, Zenon
    <3> HIDE DEF tab
    <3>3. ASSUME NEW h \in Frame, NEW v \in VPage, tab[v] = h PROVE h \in Range(g)
      BY <1>5, <3>1, <3>2, <3>3, Zenon
    <3>4. ASSUME NEW h \in Range(g) PROVE \E v \in VPage : tab[v] = h
      BY <1>5, <3>1, Zenon
    <3> QED
      BY <3>3, <3>4, Zenon DEF Uses
  <2> QED
    BY <2>1, <2>2, <2>3, <2>4, <2>5, Zenon
<1>7. /\ frame'[t] = tab /\ frame' \in [Task -> Table]
      /\ rw'[t] = (Loaded \cup Stack) \ ReadOnly /\ cow'[t] = {} /\ heap_end'[t] = 0
      /\ state'[t] = "live"
      /\ \A u \in Task : u # t =>
              /\ frame'[u] = frame[u] /\ rw'[u] = rw[u] /\ cow'[u] = cow[u]
              /\ heap_end'[u] = heap_end[u] /\ state'[u] = state[u]
  BY <1>1, <1>2, <1>3, <1>6, SMTT(60) DEF TypeOK, Table
<1>8. TypeOK'
  <2>1. content' \in [Frame -> Value]
    BY <1>1, <1>3, Zenon DEF TypeOK, Value
  <2>2. refs' \in [Frame -> Nat]
    BY <1>1, <1>3, Zenon
  <2>3. 0 \in Break /\ (Loaded \cup Stack) \ ReadOnly \in SUBSET VPage
    BY <1>4, SMTT(60) DEF Break
  <2> QED
    BY <1>2, <1>3, <1>7, <2>1, <2>2, <2>3 DEF TypeOK, Table
<1> HIDE DEF tab
<1>9. TableOK(t)'
  <2>1. \A v \in Heap : ~(2 * (v - HeapStart) < 0) /\ v \in VPage /\ v \notin Loaded \cup Stack
    BY DEF Heap, VPage
  <2> QED
    BY <1>4, <1>6, <1>7, <2>1, Zenon DEF TableOK
<1>10. ASSUME NEW h \in Frame
      PROVE  /\ ~Uses(frame[t], h) /\ refs[h] # 0 => refs'[h] = refs[h]
             /\ refs'[h] - refused'[h] =
                  refs[h] - refused[h] + (IF Uses(frame'[t], h) THEN 1 ELSE 0)
                                       - (IF Uses(frame[t], h) THEN 1 ELSE 0)
  <2>1. refs[h] \in Nat /\ refused[h] \in Nat /\ refused'[h] = refused[h]
    BY <1>2, <1>3 DEF TypeOK
  <2>2. h \in Range(g) => refs[h] = 0 /\ ~Uses(frame[t], h)
    BY <1>5 DEF Uses
  <2>3. refs'[h] = IF h \in Range(g) THEN 1 ELSE kept[h]
    BY <1>1
  <2>4. kept[h] = refs[h] - (IF Uses(frame[t], h) THEN 1 ELSE 0)
    BY <1>3, Zenon
  <2>5. Uses(frame'[t], h) <=> h \in Range(g)
    BY <1>6, <1>7, Zenon
  <2> QED
    BY <2>1, <2>2, <2>3, <2>4, <2>5, SMTT(60)
<1> QED
  BY <1>7, <1>8, <1>9, <1>10, OneTable

\* sys_brk that grows the heap.
LEMMA GrowIInv ==
    ASSUME IInv, NEW t \in Task, NEW addr, WithinLimit(addr), state[t] = "live", BrkGrows(t, addr)
    PROVE  IInv'
<1> DEFINE from == PageUp(heap_end[t])
           to == PageUp(addr)
           V == HeapRange(from, to)
<1>1. PICK g \in Injection(V, Free) :
          /\ frame' = [frame EXCEPT ![t] = [v \in VPage |-> IF v \in V THEN g[v] ELSE @[v]]]
          /\ refs' = [f \in Frame |-> IF f \in Range(g) THEN 1 ELSE refs[f]]
          /\ content' = [f \in Frame |-> IF f \in Range(g) THEN Zero ELSE content[f]]
  BY Zenon DEF BrkGrows
<1>2. /\ to > from
      /\ rw' = [rw EXCEPT ![t] = @ \cup V]
      /\ heap_end' = [heap_end EXCEPT ![t] = addr]
      /\ UNCHANGED <<state, cow, refused, halted>>
  BY Zenon DEF BrkGrows
<1>3. TypeOK /\ TableOK(t) /\ addr \in Break /\ heap_end[t] \in Break
  BY Zenon DEF IInv, TypeOK, WithinLimit
<1>4. /\ from \in Nat /\ to \in Nat /\ to <= HeapPages
      /\ \A n \in Nat : 2 * n < heap_end[t] <=> n < from
      /\ \A n \in Nat : 2 * n < addr <=> n < to
  <2>1. from \in Nat /\ to \in Nat /\ to <= HeapPages
    BY <1>3, SMTT(60) DEF PageUp, Break
  <2> QED
    BY <1>3, <2>1, PagesBelow, Zenon
<1> HIDE DEF from, to
<1>5. V \subseteq Heap /\ V \in SUBSET VPage
  BY <1>4, SMTT(60) DEF HeapRange, Heap, VPage
<1>6. \A v \in Heap : /\ v - HeapStart \in Nat /\ v \in VPage
                      /\ v \in V <=> from <= v - HeapStart /\ v - HeapStart < to
  BY <1>4, SMTT(60) DEF HeapRange, Heap, VPage
<1>7. \A v \in V : frame[t][v] = NoFrame
  BY <1>3, <1>4, <1>5, <1>6, SMTT(60) DEF TableOK
<1> HIDE DEF V
<1>8. /\ DOMAIN g = V /\ Range(g) \subseteq Free
      /\ \A v \in V : g[v] \in Range(g)
      /\ \A f \in Range(g) : \E v \in V : g[v] = f
      /\ \A v \in V : g[v] \in Frame /\ g[v] # NoFrame /\ refs[g[v]] = 0
      /\ \A v, w \in V : g[v] = g[w] => v = w
      /\ \A u \in Task, v \in VPage, w \in V : frame[u][v] # g[w]
  BY <1>5, FreshFrames, Zenon
<1> DEFINE tab == [v \in VPage |-> IF v \in V THEN g[v] ELSE frame[t][v]]
<1>9. /\ \A v \in V : tab[v] = g[v]
      /\ \A v \in VPage : v \notin V => tab[v] = frame[t][v]
      /\ tab \in Table
  BY <1>3, <1>5, <1>8 DEF Table, TypeOK
<1>10. /\ frame'[t] = tab /\ frame' \in [Task -> Table]
       /\ rw'[t] = rw[t] \cup V /\ cow'[t] = cow[t] /\ heap_end'[t] = addr
       /\ state'[t] = state[t]
       /\ \A u \in Task : u # t =>
              /\ frame'[u] = frame[u] /\ rw'[u] = rw[u] /\ cow'[u] = cow[u]
              /\ heap_end'[u] = heap_end[u] /\ state'[u] = state[u]
  BY <1>1, <1>2, <1>3, <1>9, Zenon DEF TypeOK, Table
<1> HIDE DEF tab
<1>11. TypeOK'
  <2>1. content' \in [Frame -> Value]
    BY <1>1, <1>3, Zenon DEF TypeOK, Value
  <2>2. refs' \in [Frame -> Nat]
    BY <1>1, <1>3, Zenon DEF TypeOK
  <2>3. rw' \in [Task -> SUBSET VPage]
    BY <1>2, <1>3, <1>5, Zenon DEF TypeOK
  <2> QED
    BY <1>2, <1>3, <1>10, <2>1, <2>2, <2>3, Zenon DEF TypeOK, Table
<1>12. \A h \in Frame : Uses(tab, h) <=> h \in Range(g) \/ Uses(frame[t], h)
  <2>1. ASSUME NEW h \in Frame, NEW v \in VPage, tab[v] = h PROVE h \in Range(g) \/ Uses(frame[t], h)
    BY <1>8, <1>9, <2>1 DEF Uses
  <2>2. ASSUME NEW h \in Range(g) PROVE \E v \in VPage : tab[v] = h
    BY <1>5, <1>8, <1>9
  <2>3. ASSUME NEW h \in Frame, NEW v \in VPage, frame[t][v] = h PROVE tab[v] = h
    BY <1>7, <1>9, <2>3, Zenon
  <2> QED
    BY <2>1, <2>2, <2>3, Zenon DEF Uses
<1>13. TableOK(t)'
  <2>1. OneEach(tab)
    BY <1>3, <1>5, <1>8, <1>9 DEF OneEach, TableOK
  <2>2. \A v \in VPage : tab[v] # NoFrame <=> v \in V \/ frame[t][v] # NoFrame
    BY <1>8, <1>9, Zenon
  <2>3. \A v \in VPage : tab[v] # NoFrame /\ v \notin cow[t] => refs'[tab[v]] = 1
    <3> SUFFICES ASSUME NEW v \in VPage, tab[v] # NoFrame, v \notin cow[t]
                 PROVE  refs'[tab[v]] = 1
      BY Zenon
    <3>1. CASE v \in V
      BY <1>1, <1>8, <1>9, <3>1, Zenon
    <3>2. CASE v \notin V
      <4>1. tab[v] = frame[t][v] /\ refs[tab[v]] = 1 /\ tab[v] \in Frame
        BY <1>3, <1>9, <3>2, Counts, Zenon DEF TableOK
      <4>2. tab[v] \notin Range(g)
        BY <1>8, <4>1, SMTT(60)
      <4> QED
        BY <1>1, <4>1, <4>2, Zenon
    <3> QED
      BY <3>1, <3>2, Zenon
  <2>4. cow[t] \cap V = {}
    BY <1>3, <1>5, <1>7, Zenon DEF TableOK
  <2>5. \A v \in Heap : tab[v] # NoFrame <=> 2 * (v - HeapStart) < addr
    <3> SUFFICES ASSUME NEW v \in Heap
                 PROVE  tab[v] # NoFrame <=> 2 * (v - HeapStart) < addr
      OBVIOUS
    <3> DEFINE n == v - HeapStart
    <3>1. n \in Nat /\ v \in VPage /\ (v \in V <=> from <= n /\ n < to)
      BY <1>6
    <3>2. /\ frame[t][v] # NoFrame <=> n < from
          /\ 2 * n < addr <=> n < to
      BY <1>3, <1>4, <3>1, Zenon DEF TableOK
    <3> HIDE DEF n
    <3>3. tab[v] # NoFrame <=> 2 * n < addr
      BY <1>2, <1>4, <2>2, <3>1, <3>2
    <3> QED
      BY <3>3 DEF n
  <2>6. Loaded \cup Stack \subseteq VPage
    BY Zenon DEF VPage
  <2> QED
    BY <1>3, <1>10, <2>1, <2>2, <2>3, <2>4, <2>5, <2>6, Zenon DEF TableOK
<1>14. ASSUME NEW h \in Frame
      PROVE  /\ ~Uses(frame[t], h) /\ refs[h] # 0 => refs'[h] = refs[h]
             /\ refs'[h] - refused'[h] =
                  refs[h] - refused[h] + (IF Uses(frame'[t], h) THEN 1 ELSE 0)
                                       - (IF Uses(frame[t], h) THEN 1 ELSE 0)
  <2>1. refs[h] \in Nat /\ refused[h] \in Nat /\ refused'[h] = refused[h]
    BY <1>2, <1>3, Zenon DEF TypeOK
  <2>2. h \in Range(g) => refs[h] = 0 /\ ~Uses(frame[t], h)
    BY <1>8, SMTT(60) DEF Uses
  <2>3. refs'[h] = IF h \in Range(g) THEN 1 ELSE refs[h]
    BY <1>1
  <2> QED
    BY <1>10, <1>12, <2>1, <2>2, <2>3, SMTT(60)
<1> QED
  BY <1>10, <1>11, <1>13, <1>14, OneTable, Zenon

\* sys_brk that shrinks the heap: a shared frame keeps the reference.
LEMMA ShrinkIInv ==
    ASSUME IInv, NEW t \in Task, NEW addr, WithinLimit(addr), state[t] = "live", BrkShrinks(t, addr)
    PROVE  IInv'
<1> DEFINE to == PageUp(addr)
           from == PageUp(heap_end[t])
           V == GivenUp(t, HeapRange(to, from))
           F == {frame[t][v] : v \in V}
           shared == {f \in F : refs[f] > 1}
<1>1. /\ to < from
      /\ frame' = [frame EXCEPT ![t] = [v \in VPage |-> IF v \in V THEN NoFrame ELSE @[v]]]
      /\ rw' = [rw EXCEPT ![t] = @ \ V] /\ cow' = [cow EXCEPT ![t] = @ \ V]
      /\ refs' = [f \in Frame |-> IF f \in F \ shared THEN 0 ELSE refs[f]]
      /\ content' = Released(F \ shared)
      /\ refused' = [f \in Frame |-> IF f \in shared THEN refused[f] + 1 ELSE refused[f]]
      /\ heap_end' = [heap_end EXCEPT ![t] = addr]
      /\ UNCHANGED <<state, halted>>
  BY DEF BrkShrinks
<1>2. TypeOK /\ TableOK(t) /\ addr \in Break /\ heap_end[t] \in Break
  BY DEF IInv, TypeOK, WithinLimit
<1>3. /\ from \in Nat /\ to \in Nat /\ from <= HeapPages
      /\ \A n \in Nat : 2 * n < heap_end[t] <=> n < from
      /\ \A n \in Nat : 2 * n < addr <=> n < to
  <2>1. from \in Nat /\ to \in Nat /\ from <= HeapPages
    BY <1>2, SMTT(60) DEF PageUp, Break
  <2> QED
    BY <1>2, <2>1, PagesBelow, Zenon
<1> HIDE DEF from, to
<1>4. /\ V \subseteq Heap /\ V \in SUBSET VPage
      /\ \A v \in V : frame[t][v] # NoFrame
      /\ \A v \in Heap : /\ v - HeapStart \in Nat /\ v \in VPage
                         /\ v \in V <=> /\ to <= v - HeapStart /\ v - HeapStart < from
                                        /\ frame[t][v] # NoFrame
  BY <1>3, SMTT(60) DEF HeapRange, Heap, VPage, GivenUp, Mapped
<1> HIDE DEF V
<1>5. /\ \A f \in F : \E v \in V : frame[t][v] = f
      /\ \A v \in VPage : v \in V => frame[t][v] \in F
      /\ \A v \in VPage : v \notin V => frame[t][v] \notin F
  BY <1>2, <1>4, Zenon DEF TableOK, OneEach
<1>6. \A f \in F : f \in Frame /\ refs[f] \in Nat /\ refs[f] >= 1 /\ Uses(frame[t], f)
  BY <1>4, <1>5, Counts, SMTT(60) DEF Uses
<1>7. shared \subseteq F /\ \A f \in F : f \in shared <=> refs[f] > 1
  OBVIOUS
<1> HIDE DEF F, shared
<1> DEFINE tab == [v \in VPage |-> IF v \in V THEN NoFrame ELSE frame[t][v]]
<1>8. /\ \A v \in VPage : v \in V => tab[v] = NoFrame
      /\ \A v \in VPage : v \notin V => tab[v] = frame[t][v]
      /\ tab \in Table
  BY <1>2, SMTT(60) DEF Table, TypeOK
<1>9. /\ frame'[t] = tab /\ frame' \in [Task -> Table]
      /\ rw'[t] = rw[t] \ V /\ cow'[t] = cow[t] \ V /\ heap_end'[t] = addr
      /\ state'[t] = state[t]
      /\ \A u \in Task : u # t =>
              /\ frame'[u] = frame[u] /\ rw'[u] = rw[u] /\ cow'[u] = cow[u]
              /\ heap_end'[u] = heap_end[u] /\ state'[u] = state[u]
  BY <1>1, <1>2, <1>8, Zenon DEF TypeOK, Table
<1> HIDE DEF tab
<1>10. TypeOK'
  <2>1. content' \in [Frame -> Value]
    BY <1>1, <1>2 DEF TypeOK, Value, Released
  <2>2. refs' \in [Frame -> Nat] /\ refused' \in [Frame -> Nat]
    BY <1>1, <1>2, SMTT(60) DEF TypeOK
  <2>3. rw' \in [Task -> SUBSET VPage] /\ cow' \in [Task -> SUBSET VPage]
    BY <1>1, <1>2 DEF TypeOK
  <2> QED
    BY <1>1, <1>2, <1>9, <2>1, <2>2, <2>3, Zenon DEF TypeOK, Table
<1>11. \A h \in Frame : Uses(tab, h) <=> Uses(frame[t], h) /\ h \notin F
  <2>1. ASSUME NEW h \in Frame, NEW v \in VPage, tab[v] = h
        PROVE  frame[t][v] = h /\ h \notin F
    BY <1>5, <1>8, <2>1, Zenon
  <2>2. ASSUME NEW h \in Frame, NEW v \in VPage, frame[t][v] = h, h \notin F PROVE tab[v] = h
    BY <1>5, <1>8, <2>2
  <2> QED
    BY <2>1, <2>2 DEF Uses
<1>12. TableOK(t)'
  <2>1. OneEach(tab)
    BY <1>2, <1>8 DEF OneEach, TableOK
  <2>2. \A v \in VPage : tab[v] # NoFrame <=> v \notin V /\ frame[t][v] # NoFrame
    BY <1>8, Zenon
  <2>3. \A v \in VPage : tab[v] # NoFrame /\ v \notin cow[t] \ V => refs'[tab[v]] = 1
    <3> SUFFICES ASSUME NEW v \in VPage, tab[v] # NoFrame, v \notin cow[t] \ V
                 PROVE  refs'[tab[v]] = 1
      BY Zenon
    <3>1. v \notin V /\ tab[v] = frame[t][v] /\ frame[t][v] # NoFrame
      BY <1>8, <2>2, Zenon
    <3>2. refs[tab[v]] = 1 /\ tab[v] \in Frame /\ tab[v] \notin F
      BY <1>2, <1>5, <3>1, Counts DEF TableOK
    <3> QED
      BY <1>1, <3>2
  <2>4. \A v \in Heap : tab[v] # NoFrame <=> 2 * (v - HeapStart) < addr
    <3> SUFFICES ASSUME NEW v \in Heap
                 PROVE  tab[v] # NoFrame <=> 2 * (v - HeapStart) < addr
      OBVIOUS
    <3> DEFINE n == v - HeapStart
    <3>1. n \in Nat /\ v \in VPage
          /\ (v \in V <=> to <= n /\ n < from /\ frame[t][v] # NoFrame)
      BY <1>4
    <3>2. /\ frame[t][v] # NoFrame <=> n < from
          /\ 2 * n < addr <=> n < to
      BY <1>2, <1>3, <3>1, Zenon DEF TableOK
    <3> HIDE DEF n
    <3>0. to < from /\ from \in Nat /\ to \in Nat /\ (tab[v] # NoFrame <=> v \notin V /\ frame[t][v] # NoFrame)
      BY <1>1, <1>3, <2>2, <3>1, Zenon
    <3>3. tab[v] # NoFrame <=> 2 * n < addr
      BY <3>0, <3>1, <3>2, SMTT(60)
    <3> QED
      BY <3>3 DEF n
  <2>5. Loaded \cup Stack \subseteq VPage /\ V \cap (Loaded \cup Stack) = {}
    BY <1>4, Zenon DEF VPage
  <2> QED
    BY <1>2, <1>9, <2>1, <2>2, <2>3, <2>4, <2>5, Zenon DEF TableOK
<1>13. ASSUME NEW h \in Frame
      PROVE  /\ ~Uses(frame[t], h) /\ refs[h] # 0 => refs'[h] = refs[h]
             /\ refs'[h] - refused'[h] =
                  refs[h] - refused[h] + (IF Uses(frame'[t], h) THEN 1 ELSE 0)
                                       - (IF Uses(frame[t], h) THEN 1 ELSE 0)
  <2>1. refs[h] \in Nat /\ refused[h] \in Nat
    BY <1>2, Zenon DEF TypeOK
  <2>2. /\ refs'[h] = IF h \in F \ shared THEN 0 ELSE refs[h]
        /\ refused'[h] = IF h \in shared THEN refused[h] + 1 ELSE refused[h]
    BY <1>1, Zenon
  <2> QED
    BY <1>6, <1>7, <1>9, <1>11, <2>1, <2>2, SMTT(60)
<1> QED
  BY <1>9, <1>10, <1>12, <1>13, OneTable, Zenon

\* task_fork: every page outside the stack is copy-on-write in parent and child.
LEMMA ForkIInv ==
    ASSUME IInv, NEW p \in Task, NEW c \in Task, task_fork(p, c)
    PROVE  IInv'
<1> DEFINE shared == Mapped(p) \ Stack
           S == {f \in Frame : \E v \in shared : frame[p][v] = f}
<1>1. PICK g \in Injection(Stack, Free) :
          /\ frame' = [frame EXCEPT ![c] = [v \in VPage |-> IF v \in Stack THEN g[v] ELSE frame[p][v]]]
          /\ rw' = [rw EXCEPT ![p] = WriteProtect(p, shared), ![c] = Stack]
          /\ cow' = [cow EXCEPT ![p] = @ \cup shared, ![c] = shared]
          /\ refs' = [f \in Frame |-> IF f \in Range(g) THEN 1
                                      ELSE IF \E v \in shared : frame[p][v] = f THEN refs[f] + 1
                                      ELSE refs[f]]
          /\ content' = [f \in Frame |-> IF f \in Range(g)
                                         THEN content[frame[p][CHOOSE v \in Stack : g[v] = f]]
                                         ELSE content[f]]
  BY Zenon DEF task_fork
<1>2. /\ state[p] = "live" /\ state[c] = "none"
      /\ state' = [state EXCEPT ![c] = "live"]
      /\ heap_end' = [heap_end EXCEPT ![c] = heap_end[p]]
      /\ UNCHANGED <<refused, halted>>
  BY Zenon DEF task_fork
<1>3. TypeOK /\ TableOK(p) /\ TableOK(c) /\ p # c /\ frame[c] = NoPages
      /\ frame \in [Task -> Table] /\ frame[p] \in Table
  BY <1>2, Zenon DEF IInv, TypeOK, TableOK, Table
<1>4. Stack \in SUBSET VPage /\ Loaded \subseteq VPage /\ Heap \subseteq VPage
  BY Zenon DEF VPage
<1>5. /\ DOMAIN g = Stack /\ Range(g) \subseteq Free
      /\ \A v \in Stack : g[v] \in Range(g)
      /\ \A f \in Range(g) : \E v \in Stack : g[v] = f
      /\ \A v \in Stack : g[v] \in Frame /\ g[v] # NoFrame /\ refs[g[v]] = 0
      /\ \A v, w \in Stack : g[v] = g[w] => v = w
      /\ \A u \in Task, v \in VPage, w \in Stack : frame[u][v] # g[w]
  BY <1>4, FreshFrames, Zenon
<1>6. \A v \in VPage : v \in shared <=> v \notin Stack /\ frame[p][v] # NoFrame
  BY Zenon DEF Mapped
<1>7. shared \subseteq VPage /\ cow[p] \subseteq shared
  BY <1>3, <1>6, Zenon DEF TypeOK, TableOK, Mapped
<1> HIDE DEF shared
<1> DEFINE tab == [v \in VPage |-> IF v \in Stack THEN g[v] ELSE frame[p][v]]
<1>8. /\ \A v \in Stack : tab[v] = g[v]
      /\ \A v \in VPage : v \notin Stack => tab[v] = frame[p][v]
      /\ tab \in Table
  BY <1>3, <1>4, <1>5 DEF Table
<1>9. /\ frame' \in [Task -> Table] /\ frame'[c] = tab
      /\ \A u \in Task : u # c => frame'[u] = frame[u]
      /\ rw'[p] = rw[p] \ shared /\ rw'[c] = Stack
      /\ cow'[p] = shared /\ cow'[c] = shared
      /\ \A u \in Task : u # c /\ u # p => rw'[u] = rw[u] /\ cow'[u] = cow[u]
      /\ state'[c] = "live" /\ heap_end'[c] = heap_end[p]
      /\ \A u \in Task : u # c => state'[u] = state[u] /\ heap_end'[u] = heap_end[u]
  <2>1. frame' = [frame EXCEPT ![c] = tab]
    BY <1>1
  <2> HIDE DEF tab
  <2> QED
    BY <1>1, <1>2, <1>3, <1>7, <1>8, <2>1, ZenonT(60) DEF TypeOK, WriteProtect
<1> HIDE DEF tab
<1>10. \A f \in Frame : /\ f \in S <=> \E v \in shared : frame[p][v] = f
                        /\ f \in S => f \notin Range(g) /\ refs[f] # 0
                        /\ refs'[f] = IF f \in Range(g) THEN 1
                                      ELSE IF f \in S THEN refs[f] + 1 ELSE refs[f]
  <2>1. \A f \in S : f \notin Range(g) /\ refs[f] # 0
    BY <1>5, <1>6, <1>7, Counts, SMTT(60)
  <2> QED
    BY <1>1, <2>1
<1> HIDE DEF S
<1>11. TypeOK'
  <2>1. content' \in [Frame -> Value]
    <3> SUFFICES ASSUME NEW f \in Range(g)
                 PROVE  content[frame[p][CHOOSE v \in Stack : g[v] = f]] \in Value
      BY <1>1, <1>3, Zenon DEF TypeOK
    <3> DEFINE w == CHOOSE v \in Stack : g[v] = f
    <3>1. w \in Stack
      BY <1>5, Zenon
    <3> HIDE DEF w
    <3>2. frame[p][w] \in Frame
      BY <1>2, <1>3, <1>4, <3>1, Zenon DEF TableOK, Table
    <3> QED
      BY <1>3, <3>2 DEF TypeOK, w
  <2>2. refs' \in [Frame -> Nat]
    BY <1>1, <1>3 DEF TypeOK
  <2>3. rw' \in [Task -> SUBSET VPage] /\ cow' \in [Task -> SUBSET VPage]
    BY <1>1, <1>3, <1>4, <1>7, Zenon DEF TypeOK, WriteProtect
  <2>4. state' \in [Task -> {"none", "live", "zombie"}] /\ heap_end' \in [Task -> Break]
    BY <1>2, <1>3, Zenon DEF TypeOK
  <2> QED
    BY <1>2, <1>3, <1>9, <2>1, <2>2, <2>3, <2>4, Zenon DEF TypeOK, Table
<1>12. OneEach(tab)
  <2> SUFFICES ASSUME NEW v \in VPage, NEW w \in VPage, tab[v] = tab[w], tab[v] # NoFrame
               PROVE  v = w
    BY Zenon DEF OneEach
  <2>0. /\ v \in Stack => tab[v] = g[v]
        /\ w \in Stack => tab[w] = g[w]
        /\ v \notin Stack => tab[v] = frame[p][v]
        /\ w \notin Stack => tab[w] = frame[p][w]
    BY <1>8, Zenon
  <2>a. \A a \in VPage, b \in Stack : frame[p][a] # g[b]
    BY <1>5, Zenon
  <2>1. CASE v \in Stack /\ w \in Stack
    <3>1. g[v] = g[w]
      BY <2>0, <2>1, Zenon
    <3> QED
      BY <1>5, <2>1, <3>1, Zenon
  <2>2. CASE v \in Stack /\ w \notin Stack
    <3>1. frame[p][w] = g[v]
      BY <2>0, <2>2, Zenon
    <3> QED
      BY <2>a, <2>2, <3>1, Zenon
  <2>3. CASE v \notin Stack /\ w \in Stack
    <3>1. frame[p][v] = g[w]
      BY <2>0, <2>3, Zenon
    <3> QED
      BY <2>a, <2>3, <3>1, Zenon
  <2>4. CASE v \notin Stack /\ w \notin Stack
    <3>1. frame[p][v] = frame[p][w] /\ frame[p][v] # NoFrame
      BY <2>0, <2>4, Zenon
    <3> QED
      BY <1>3, <3>1, Zenon DEF OneEach, TableOK
  <2> QED
    BY <2>1, <2>2, <2>3, <2>4, Zenon
<1>13. \A f \in Frame : Uses(tab, f) <=> f \in Range(g) \/ f \in S
  <2>1. ASSUME NEW f \in Frame, NEW v \in VPage, tab[v] = f PROVE f \in Range(g) \/ f \in S
    <3>1. CASE v \in Stack
      BY <1>5, <1>8, <2>1, <3>1, Zenon
    <3>2. CASE v \notin Stack
      <4>1. frame[p][v] = f /\ f # NoFrame
        BY <1>8, <2>1, <3>2, LayoutAssumption, Zenon
      <4>2. v \in shared
        BY <1>6, <3>2, <4>1, Zenon
      <4> QED
        BY <1>10, <4>1, <4>2, Zenon
    <3> QED
      BY <3>1, <3>2, Zenon
  <2>2. ASSUME NEW f \in Range(g) PROVE \E v \in VPage : tab[v] = f
    <3>1. PICK v \in Stack : g[v] = f
      BY <1>5, Zenon
    <3> QED
      BY <1>4, <1>8, <3>1, Zenon
  <2>3. ASSUME NEW f \in Frame, f \in S PROVE \E v \in VPage : tab[v] = f
    BY <1>6, <1>7, <1>8, <1>10, <2>3, Zenon
  <2> QED
    BY <2>1, <2>2, <2>3, Zenon DEF Uses
<1>14. Exact(frame', refs', refused')
  <2> SUFFICES ASSUME NEW f \in Frame
               PROVE  refs'[f] = Cardinality(EntriesOf(frame', f)) + refused'[f]
    BY Zenon DEF Exact
  <2>1. OneEach(frame[c]) /\ OneEach(frame'[c])
    BY <1>3, <1>9, <1>12, Zenon DEF TableOK
  <2>2. /\ frame \in [Task -> Table] /\ frame' \in [Task -> Table]
        /\ \A u \in Task : u # c => frame'[u] = frame[u]
    BY <1>3, <1>9, Zenon
  <2>3. Cardinality(EntriesOf(frame', f)) =
             Cardinality(EntriesOf(frame, f)) + (IF Uses(frame'[c], f) THEN 1 ELSE 0)
                                           - (IF Uses(frame[c], f) THEN 1 ELSE 0)
    BY ONLY <2>1, <2>2, c \in Task, f \in Frame, TableStep, SMTT(60)
  <2>4. ~Uses(frame[c], f)
    BY <1>3, Zenon DEF Uses, NoPages
  <2>5. Cardinality(EntriesOf(frame, f)) \in Nat
    BY EntriesFinite, Zenon
  <2>6. refs[f] = Cardinality(EntriesOf(frame, f)) + refused[f] /\ refused[f] \in Nat
        /\ refused'[f] = refused[f]
    BY <1>2, <1>3, Zenon DEF IInv, Exact, TypeOK
  <2>7. f \in Range(g) => refs[f] = 0
    BY <1>5, SMTT(60)
  <2> QED
    BY <1>9, <1>10, <1>13, <2>3, <2>4, <2>5, <2>6, <2>7, SMTT(60)
<1>15. ASSUME NEW u \in Task, NEW v \in VPage, frame[u][v] # NoFrame, v \notin cow[u],
              ~(u = p /\ v \in shared)
       PROVE  refs'[frame[u][v]] = 1
  <2>1. refs[frame[u][v]] = 1 /\ frame[u][v] \in Frame
    BY <1>15, Counts, Zenon DEF IInv, TableOK
  <2>2. frame[u][v] \notin Range(g)
    BY <1>5, <2>1, SMTT(60)
  <2>3. frame[u][v] \notin S
    <3> SUFFICES ASSUME NEW w \in shared, frame[p][w] = frame[u][v]
                 PROVE  FALSE
      BY <1>10, <2>1, Zenon
    <3>1. w \in VPage
      BY <1>7, Zenon
    <3>2. p = u /\ w = v
      <4>1. \A a, b \in Task, x, y \in VPage :
                frame[a][x] # NoFrame /\ refs[frame[a][x]] = 1 /\ frame[b][y] = frame[a][x]
                  => b = a /\ y = x
        BY Counts, Zenon
      <4> QED
        BY <1>15, <2>1, <3>1, <4>1, SMTT(60)
    <3> QED
      BY <1>15, <3>2, Zenon
  <2> QED
    BY <1>10, <2>1, <2>2, <2>3, Zenon
<1>16. TableOK(p)'
  <2>1. \A v \in VPage : frame[p][v] # NoFrame /\ v \notin shared => refs'[frame[p][v]] = 1
    BY <1>7, <1>15, Zenon
  <2>2. shared \cap Stack = {}
    BY <1>6, <1>7, Zenon
  <2> QED
    BY <1>2, <1>3, <1>6, <1>7, <1>9, <2>1, <2>2, SMTT(60) DEF TableOK
<1>17. TableOK(c)'
  <2>1. \A v \in VPage : tab[v] # NoFrame <=> v \in Stack \/ frame[p][v] # NoFrame
    BY <1>5, <1>8, Zenon
  <2>2. \A v \in Stack : v \in VPage /\ refs'[tab[v]] = 1
    BY <1>4, <1>5, <1>8, <1>10
  <2>3. \A v \in VPage : tab[v] # NoFrame /\ v \notin shared => refs'[tab[v]] = 1
    BY <1>6, <2>1, <2>2, Zenon
  <2>4. \A v \in Heap : v \notin Stack /\ v \in VPage
    BY <1>4, Zenon
  <2>5. \A v \in Heap : tab[v] # NoFrame <=> 2 * (v - HeapStart) < heap_end[p]
    BY <1>3, <2>1, <2>4, Zenon DEF TableOK
  <2>6. \A v \in Loaded \cup Stack : tab[v] # NoFrame
    BY <1>2, <1>3, <1>4, <2>1 DEF TableOK
  <2>7. shared \cap Stack = {} /\ \A v \in VPage : v \in shared => tab[v] # NoFrame
    BY <1>6, <1>7, <2>1, Zenon
  <2>8. \A v \in VPage : v \in Stack \cup shared => tab[v] # NoFrame
    BY <2>1, <2>7, Zenon
  <2> QED
    BY <1>9, <1>12, <2>3, <2>5, <2>6, <2>7, <2>8, Zenon DEF TableOK
<1>18. ASSUME NEW u \in Task, u # p, u # c PROVE TableOK(u)'
  <2>1. TableOK(u)
    BY DEF IInv
  <2>2. /\ frame'[u] = frame[u] /\ rw'[u] = rw[u] /\ cow'[u] = cow[u]
        /\ heap_end'[u] = heap_end[u] /\ state'[u] = state[u]
    BY <1>9, <1>18, Zenon
  <2>3. \A v \in VPage : frame[u][v] # NoFrame /\ v \notin cow[u] => refs'[frame[u][v]] = 1
    BY <1>15, <1>18, Zenon
  <2> QED
    BY <2>1, <2>2, <2>3 DEF TableOK
<1> QED
  BY <1>11, <1>14, <1>16, <1>17, <1>18, Zenon DEF IInv

----------------------------------------------------------------------------
\* Every step keeps the invariant.
LEMMA NextIInv == IInv /\ [Next]_vars => IInv'
<1> SUFFICES ASSUME IInv, [Next]_vars PROVE IInv'
  OBVIOUS
<1>0. TypeOK
  BY DEF IInv
<1>1. ASSUME Halt PROVE IInv'
  <2>1. TypeOK'
    BY <1>0, <1>1, Zenon DEF Halt, TypeOK
  <2> QED
    BY <1>1, <2>1, SameTables, Zenon DEF Halt
<1>2. ASSUME NEW t \in Task, NEW v \in VPage, NEW x \in Stored, Store(t, v, x) PROVE IInv'
  <2>1. content' \in [Frame -> Value]
    BY <1>0, <1>2, Zenon DEF Store, TypeOK, Value
  <2>2. TypeOK'
    BY <1>0, <1>2, <2>1, Zenon DEF Store, TypeOK
  <2> QED
    BY <1>2, <2>2, SameTables DEF Store
<1>3. ASSUME NEW t \in Task, task_exit(t) PROVE IInv'
  <2>1. TypeOK'
    BY <1>0, <1>3, Zenon DEF task_exit, TypeOK
  <2>2. \A u \in Task : state'[u] \in {"none", "live"} => state'[u] = state[u]
    BY <1>0, <1>3, Zenon DEF task_exit, TypeOK
  <2> QED
    BY <1>3, <2>1, <2>2, SameTables, Zenon DEF task_exit
<1>4. ASSUME NEW t \in Task, NEW v \in VPage, state[t] = "live",
             paging_handle_page_fault_cow(t, v)
      PROVE  IInv'
  BY <1>1, <1>4, FaultIInv
<1>5. ASSUME NEW t \in Task, NEW addr, sys_brk(t, addr) PROVE IInv'
  BY <1>5, GrowIInv, ShrinkIInv, Zenon DEF sys_brk
<1>6. CASE UNCHANGED vars
  <2>1. TypeOK'
    BY <1>0, <1>6, Zenon DEF vars, TypeOK
  <2> QED
    BY <1>6, <2>1, SameTables, Zenon DEF vars
<1>7. CASE Next
  BY <1>1, <1>2, <1>3, <1>4, <1>5, <1>7, DestroyIInv, ExecIInv, ForkIInv, Zenon
     DEF Next, UnrecoverableFault, ForkAborts, ExecAborts
<1> QED
  BY <1>6, <1>7

\* The page tables, counts and contents have their types in every reachable state.
THEOREM TypeCorrect == Spec => []TypeOK
<1>1. IInv => TypeOK
  BY Zenon DEF IInv
<1> QED
  BY <1>1, InitIInv, NextIInv, PTL DEF Spec

\* After any forks, faults, execs, exits and breaks the count of every frame is the
\* number of page table entries with it plus the references sys_brk left behind.
THEOREM RefcountsAreExact == Spec => []RefcountExact
<1>1. IInv => RefcountExact
  BY Zenon DEF IInv, Exact, RefcountExact, Entries, EntriesOf
<1> QED
  BY <1>1, InitIInv, NextIInv, PTL DEF Spec

\* A frame some task can write without a fault belongs to that one entry alone.
THEOREM WritableFramesArePrivate == Spec => []WritableIsPrivate
<1>1. IInv => WritableIsPrivate
  <2> SUFFICES ASSUME IInv, NEW t \in Task, NEW v \in rw[t]
               PROVE  /\ frame[t][v] # NoFrame
                      /\ EntriesOf(frame, frame[t][v]) = {<<t, v>>} /\ refs[frame[t][v]] = 1
    BY Zenon DEF WritableIsPrivate, Entries, EntriesOf
  <2>1. v \in VPage /\ frame[t][v] # NoFrame /\ refs[frame[t][v]] = 1
    BY Zenon DEF IInv, TypeOK, TableOK
  <2>2. /\ frame \in [Task -> Table] /\ refs \in [Frame -> Nat] /\ refused \in [Frame -> Nat]
        /\ Exact(frame, refs, refused)
    BY Zenon DEF IInv, TypeOK, Table
  <2> QED
    BY <2>1, <2>2, MappedCounts, SMTT(60)
<1> QED
  BY <1>1, InitIInv, NextIInv, PTL DEF Spec

\* The heap pages of a task that are mapped are those below its program break.
THEOREM HeapIsMapped == Spec => []HeapMapped
<1>1. IInv => HeapMapped
  BY DEF IInv, TableOK, HeapMapped, Mapped, VPage
<1> QED
  BY <1>1, InitIInv, NextIInv, PTL DEF Spec

----------------------------------------------------------------------------
\* The refinement: what the tasks see is the memory of AddressSpaces.
LEMMA Seen ==
    /\ Memory = [u \in Task |-> Memory[u]]
    /\ \A u \in Task : Memory[u] = [v \in VPage |-> IF frame[u][v] = NoFrame THEN Unmapped
                                                    ELSE content[frame[u][v]]]
  BY Zenon DEF Memory

\* A task whose page table stays and whose frames keep their contents sees no change.
LEMMA SeesTheSame ==
    ASSUME NEW u \in Task, frame'[u] = frame[u],
           \A v \in VPage : frame[u][v] # NoFrame => content'[frame[u][v]] = content[frame[u][v]]
    PROVE  Memory'[u] = Memory[u]
<1>1. \A v \in VPage : (IF frame'[u][v] = NoFrame THEN Unmapped ELSE content'[frame'[u][v]])
                         = (IF frame[u][v] = NoFrame THEN Unmapped ELSE content[frame[u][v]])
  OBVIOUS
<1> QED
  BY <1>1, Zenon DEF Memory

\* When only task t sees a change.
LEMMA OneSees ==
    ASSUME NEW t \in Task, NEW m, Memory'[t] = m, \A u \in Task : u # t => Memory'[u] = Memory[u]
    PROVE  Memory' = [Memory EXCEPT ![t] = m]
<1>1. Memory' = [u \in Task |-> Memory'[u]] /\ Memory = [u \in Task |-> Memory[u]]
  BY DEF Memory
<1> QED
  BY <1>1, Zenon

\* At boot there is one task, which the abstract specification starts with.
LEMMA InitSpaces == Init => Spaces!OneTask
<1> SUFFICES ASSUME Init PROVE Spaces!OneTask
  OBVIOUS
<1>i. PICK t \in Task, g \in Injection(Loaded \cup Stack, Frame) :
          /\ frame = [u \in Task |-> IF u = t
                        THEN [v \in VPage |-> IF v \in DOMAIN g THEN g[v] ELSE NoFrame]
                        ELSE NoPages]
          /\ content = [f \in Frame |-> IF \E v \in Loaded : g[v] = f THEN Image
                                        ELSE IF \E v \in Stack : g[v] = f THEN Zero ELSE Junk]
  BY ZenonT(60) DEF Init
<1>1. /\ g \in [Loaded \cup Stack -> Frame] /\ DOMAIN g = Loaded \cup Stack
      /\ \A v, w \in DOMAIN g : g[v] = g[w] => v = w
  BY SMTT(60) DEF Injection, IsInjective
<1>2. ASSUME NEW u \in Task, u # t PROVE Memory[u] = Spaces!Nothing
  BY <1>i, <1>2 DEF Memory, Spaces!Nothing, NoPages
<1>3. Memory[t] = Spaces!Fresh
  <2>1. ASSUME NEW v \in VPage
        PROVE  (IF frame[t][v] = NoFrame THEN Unmapped ELSE content[frame[t][v]])
                 = IF v \in Loaded THEN Image ELSE IF v \in Stack THEN Zero ELSE Unmapped
    <3>0. frame[t][v] = IF v \in Loaded \cup Stack THEN g[v] ELSE NoFrame
      BY <1>i, <1>1
    <3>1. CASE v \in Loaded
      BY <1>i, <1>1, <3>0, <3>1
    <3>2. CASE v \in Stack
      <4>1. v \notin Loaded /\ ~\E w \in Loaded : g[w] = g[v]
        BY <1>1, <3>2
      <4>2. g[v] \in Frame /\ frame[t][v] = g[v]
        BY <1>1, <3>0, <3>2
      <4> QED
        BY <1>i, <3>2, <4>1, <4>2
    <3>3. CASE v \notin Loaded \cup Stack
      BY <3>0, <3>3
    <3> QED
      BY <3>1, <3>2, <3>3
  <2> QED
    BY <2>1 DEF Memory, Spaces!Fresh
<1>4. Memory = [u \in Task |-> IF u = t THEN Spaces!Fresh ELSE Spaces!Nothing]
  BY <1>2, <1>3, Seen
<1> QED
  BY <1>4 DEF Spaces!OneTask

\* A store changes one page of one task: its frame is in no other entry.
LEMMA StoreStep ==
    ASSUME IInv, NEW t \in Task, NEW v \in VPage, NEW x \in Stored, Store(t, v, x)
    PROVE  Spaces!Store(t, v, x)
<1>1. /\ v \in rw[t] /\ content' = [content EXCEPT ![frame[t][v]] = x] /\ frame' = frame
  BY DEF Store
<1>2. TypeOK /\ TableOK(t)
  BY DEF IInv
<1>3. v \notin cow[t] /\ frame[t][v] # NoFrame /\ frame[t][v] \in Frame /\ refs[frame[t][v]] = 1
  BY <1>1, <1>2, Counts, Zenon DEF TableOK
<1>4. content[frame[t][v]] \in Value /\ content' \in [Frame -> Value]
  BY <1>1, <1>2, <1>3 DEF TypeOK, Value
<1>5. ASSUME NEW u \in Task, NEW w \in VPage, ~(u = t /\ w = v), frame[u][w] # NoFrame
      PROVE  content'[frame[u][w]] = content[frame[u][w]]
  <2>1. frame[u][w] # frame[t][v] /\ frame[u][w] \in Frame
    BY <1>3, <1>5, Counts
  <2> QED
    BY <1>1, <1>2, <2>1 DEF TypeOK
<1>6. \A u \in Task : u # t => Memory'[u] = Memory[u]
  BY <1>1, <1>5, SeesTheSame
<1>7. Memory'[t] = [Memory[t] EXCEPT ![v] = x]
  <2>1. ASSUME NEW w \in VPage
        PROVE  (IF frame'[t][w] = NoFrame THEN Unmapped ELSE content'[frame'[t][w]])
                 = IF w = v THEN x
                   ELSE IF frame[t][w] = NoFrame THEN Unmapped ELSE content[frame[t][w]]
    BY <1>1, <1>2, <1>3, <1>5 DEF TypeOK
  <2> QED
    BY <2>1, Zenon DEF Memory
<1>8. Memory' = [Memory EXCEPT ![t] = [Memory[t] EXCEPT ![v] = x]]
  BY <1>6, <1>7, OneSees, Zenon
<1>9. Memory[t][v] # Unmapped
  BY <1>3, <1>4, Zenon DEF Memory
<1> QED
  BY <1>8, <1>9 DEF Spaces!Store

\* Breaking the sharing of a page changes nothing anybody sees.
LEMMA FaultStep ==
    ASSUME IInv, NEW t \in Task, NEW v \in VPage, paging_handle_page_fault_cow(t, v), ~Halt
    PROVE  UNCHANGED Memory
<1>1. PICK f \in Free :
          /\ frame' = [frame EXCEPT ![t][v] = f]
          /\ content' = CopyContent(frame[t][v], f)
  BY Zenon DEF paging_handle_page_fault_cow
<1>2. v \in cow[t] /\ TypeOK /\ TableOK(t)
  BY Zenon DEF paging_handle_page_fault_cow, IInv
<1> DEFINE old == frame[t][v]
<1>3. /\ f \in Frame /\ f # NoFrame /\ old \in Frame /\ old # f /\ old # NoFrame
      /\ \A u \in Task, w \in VPage : frame[u][w] # f
  BY <1>2, Counts, Zenon DEF Free, TableOK
<1> HIDE DEF old
<1>4. content' = [content EXCEPT ![f] = content[old], ![old] = IF refs[old] = 1 THEN Junk ELSE @]
  BY <1>1, Zenon DEF CopyContent, old
<1>5. /\ content'[f] = content[old]
      /\ \A h \in Frame : h # f /\ ~(h = old /\ refs[old] = 1) => content'[h] = content[h]
  BY <1>2, <1>3, <1>4, Zenon DEF TypeOK
<1>6. ASSUME NEW u \in Task, NEW w \in VPage, ~(u = t /\ w = v), frame[u][w] # NoFrame
      PROVE  content'[frame[u][w]] = content[frame[u][w]]
  <2>1. frame[u][w] \in Frame /\ frame[u][w] # f /\ ~(frame[u][w] = old /\ refs[old] = 1)
    BY <1>3, <1>6, Counts, SMTT(60) DEF old
  <2> QED
    BY <1>5, <2>1, Zenon
<1>7. /\ \A u \in Task : u # t => frame'[u] = frame[u]
      /\ frame'[t][v] = f /\ \A w \in VPage : w # v => frame'[t][w] = frame[t][w]
  BY <1>1, <1>2, Zenon DEF TypeOK
<1>8. \A u \in Task : u # t => Memory'[u] = Memory[u]
  BY <1>6, <1>7, SeesTheSame, Zenon
<1>9. Memory'[t] = Memory[t]
  <2>1. ASSUME NEW w \in VPage
        PROVE  (IF frame'[t][w] = NoFrame THEN Unmapped ELSE content'[frame'[t][w]])
                 = IF frame[t][w] = NoFrame THEN Unmapped ELSE content[frame[t][w]]
    <3>1. CASE w = v
      <4>1. frame'[t][w] = f /\ frame[t][w] = old
        BY <1>7, <3>1, Zenon DEF old
      <4> QED
        BY <1>3, <1>5, <4>1, Zenon
    <3>2. CASE w # v
      <4>1. frame'[t][w] = frame[t][w]
        BY <1>7, <3>2, Zenon
      <4>2. frame[t][w] # NoFrame => content'[frame[t][w]] = content[frame[t][w]]
        BY <1>6, <3>2, Zenon
      <4> QED
        BY <4>1, <4>2, Zenon
    <3> QED
      BY <3>1, <3>2, Zenon
  <2> QED
    BY <2>1, Zenon DEF Memory
<1> QED
  BY <1>8, <1>9 DEF Memory

\* A fork gives the child the parent's memory.
LEMMA ForkStep ==
    ASSUME IInv, NEW p \in Task, NEW c \in Task, task_fork(p, c)
    PROVE  Spaces!Fork(p, c)
<1>1. PICK g \in Injection(Stack, Free) :
          /\ frame' = [frame EXCEPT ![c] = [v \in VPage |-> IF v \in Stack THEN g[v] ELSE frame[p][v]]]
          /\ content' = [f \in Frame |-> IF f \in Range(g)
                                         THEN content[frame[p][CHOOSE v \in Stack : g[v] = f]]
                                         ELSE content[f]]
  BY Zenon DEF task_fork
<1>2. TypeOK /\ TableOK(p) /\ state[p] = "live" /\ frame[c] = NoPages /\ p # c
  BY DEF task_fork, IInv, TableOK
<1>3. Stack \in SUBSET VPage
  BY Zenon DEF VPage
<1>4. /\ \A f \in Range(g) : \E v \in Stack : g[v] = f
      /\ \A v \in Stack : g[v] \in Range(g) /\ g[v] \in Frame /\ g[v] # NoFrame
      /\ \A v, w \in Stack : g[v] = g[w] => v = w
      /\ \A u \in Task, v \in VPage, w \in Stack : frame[u][v] # g[w]
  BY <1>3, FreshFrames, ZenonT(60)
<1>5. ASSUME NEW u \in Task, NEW v \in VPage, frame[u][v] # NoFrame
      PROVE  content'[frame[u][v]] = content[frame[u][v]]
  <2>1. frame[u][v] \in Frame /\ frame[u][v] \notin Range(g)
    BY <1>4, <1>5, Counts, SMTT(60)
  <2> QED
    BY <1>1, <2>1
<1>6. \A v \in Stack : content'[g[v]] = content[frame[p][v]]
  <2> SUFFICES ASSUME NEW v \in Stack PROVE content'[g[v]] = content[frame[p][v]]
    BY Zenon
  <2> DEFINE w == CHOOSE w \in Stack : g[w] = g[v]
  <2>1. w \in Stack /\ g[w] = g[v]
    BY Zenon
  <2>2. w = v
    BY <1>4, <2>1, Zenon
  <2> QED
    BY <1>1, <1>4, <2>2, Zenon
<1>7. \A u \in Task : u # c => frame'[u] = frame[u]
  BY <1>1, <1>2, Zenon DEF TypeOK
<1>8. \A u \in Task : u # c => Memory'[u] = Memory[u]
  BY <1>5, <1>7, SeesTheSame, Zenon
<1>9. Memory'[c] = Memory[p]
  <2>1. ASSUME NEW v \in VPage
        PROVE  (IF frame'[c][v] = NoFrame THEN Unmapped ELSE content'[frame'[c][v]])
                 = IF frame[p][v] = NoFrame THEN Unmapped ELSE content[frame[p][v]]
    <3>1. frame'[c][v] = IF v \in Stack THEN g[v] ELSE frame[p][v]
      BY <1>1, <1>2 DEF TypeOK
    <3>2. CASE v \in Stack
      BY <1>2, <1>4, <1>6, <3>1, <3>2, Zenon DEF TableOK
    <3>3. CASE v \notin Stack
      BY <1>5, <3>1, <3>3, Zenon
    <3> QED
      BY <3>2, <3>3, Zenon
  <2> QED
    BY <2>1, Zenon DEF Memory
<1>10. Memory[c] = Spaces!Nothing
  BY <1>2 DEF Memory, Spaces!Nothing, NoPages
<1>11. Memory' = [Memory EXCEPT ![c] = Memory[p]]
  BY <1>8, <1>9, OneSees, Zenon
<1> QED
  BY <1>10, <1>11, Zenon DEF Spaces!Fork

\* exec replaces a task's memory by the image and a fresh stack.
LEMMA ExecStep ==
    ASSUME IInv, IInv', NEW t \in Task, task_exec(t)
    PROVE  Spaces!Exec(t)
<1> DEFINE kept == paging_free_user_pages(t)
<1>1. PICK g \in Injection(Loaded \cup Stack, Free) :
          /\ refs' = [f \in Frame |-> IF f \in Range(g) THEN 1 ELSE kept[f]]
          /\ content' = [f \in Frame |-> IF \E v \in Loaded : g[v] = f THEN Image
                                             ELSE IF f \in Range(g) THEN Zero
                                             ELSE IF kept[f] = 0 THEN Junk ELSE content[f]]
          /\ frame' = [frame EXCEPT ![t] = [v \in VPage |-> IF v \in DOMAIN g THEN g[v] ELSE NoFrame]]
  BY Zenon DEF task_exec
<1> HIDE DEF kept
<1>2. Loaded \cup Stack \in SUBSET VPage /\ TypeOK
  BY DEF VPage, IInv
<1>3. /\ DOMAIN g = Loaded \cup Stack /\ Range(g) \subseteq Free
      /\ \A v \in Loaded \cup Stack : g[v] \in Range(g)
      /\ \A f \in Range(g) : \E v \in Loaded \cup Stack : g[v] = f
      /\ \A v \in Loaded \cup Stack : g[v] \in Frame /\ g[v] # NoFrame /\ refs[g[v]] = 0
      /\ \A v, w \in Loaded \cup Stack : g[v] = g[w] => v = w
      /\ \A u \in Task, v \in VPage, w \in Loaded \cup Stack : frame[u][v] # g[w]
  BY <1>2, FreshFrames, Zenon
<1>4. \A u \in Task : u # t => frame'[u] = frame[u]
  BY <1>1, <1>2, Zenon DEF TypeOK
<1>5. ASSUME NEW u \in Task, u # t, NEW v \in VPage, frame[u][v] # NoFrame
      PROVE  content'[frame[u][v]] = content[frame[u][v]]
  <2>1. frame[u][v] \in Frame /\ frame[u][v] \notin Range(g)
    BY <1>3, <1>5, Counts, SMTT(60)
  <2>2. refs'[frame[u][v]] # 0
    <3>1. /\ frame' \in [Task -> Table] /\ refs' \in [Frame -> Nat] /\ refused' \in [Frame -> Nat]
          /\ Exact(frame', refs', refused') /\ frame'[u][v] = frame[u][v]
      BY <1>4, <1>5, Zenon DEF IInv, TypeOK, Table
    <3>2. refs'[frame'[u][v]] >= 1
      BY ONLY <3>1, <1>5, u \in Task, v \in VPage, LayoutAssumption, MappedCounts, Zenon
    <3> QED
      BY <3>1, <3>2, SMTT(60)
  <2>3. kept[frame[u][v]] # 0
    BY <1>1, <2>1, <2>2, Zenon
  <2>4. ~\E w \in Loaded : g[w] = frame[u][v]
    BY <1>3, Zenon
  <2> QED
    BY <1>1, <2>1, <2>3, <2>4, Zenon
<1>6. \A u \in Task : u # t => Memory'[u] = Memory[u]
  BY <1>4, <1>5, SeesTheSame, Zenon
<1>7. Memory'[t] = Spaces!Fresh
  <2>1. ASSUME NEW v \in VPage
        PROVE  (IF frame'[t][v] = NoFrame THEN Unmapped ELSE content'[frame'[t][v]])
                 = IF v \in Loaded THEN Image ELSE IF v \in Stack THEN Zero ELSE Unmapped
    <3>0. frame'[t][v] = IF v \in Loaded \cup Stack THEN g[v] ELSE NoFrame
      BY <1>1, <1>2, <1>3, SMTT(60) DEF TypeOK
    <3>1. CASE v \in Loaded
      BY <1>1, <1>3, <3>0, <3>1, Zenon
    <3>2. CASE v \in Stack
      <4>1. v \notin Loaded /\ ~\E w \in Loaded : g[w] = g[v]
        BY <1>3, <3>2, SMTT(60)
      <4>2. g[v] \in Frame /\ g[v] \in Range(g) /\ frame'[t][v] = g[v] /\ g[v] # NoFrame
        BY <1>3, <3>0, <3>2, Zenon
      <4> QED
        BY <1>1, <3>2, <4>1, <4>2, Zenon
    <3>3. CASE v \notin Loaded \cup Stack
      BY <3>0, <3>3, Zenon
    <3> QED
      BY <3>1, <3>2, <3>3, Zenon
  <2> QED
    BY <2>1, Zenon DEF Memory, Spaces!Fresh
<1>8. Memory' = [Memory EXCEPT ![t] = Spaces!Fresh]
  BY <1>6, <1>7, OneSees, Zenon
<1> QED
  BY <1>8 DEF Spaces!Exec

\* The memory of a reaped task goes; no other task loses a frame.
LEMMA DestroyStep ==
    ASSUME IInv, IInv', NEW t \in Task, task_destroy(t)
    PROVE  Spaces!Discard(t)
<1>1. /\ content' = Released({f \in Frame : refs'[f] = 0})
      /\ frame' = [frame EXCEPT ![t] = NoPages]
  BY Zenon DEF task_destroy
<1>2. /\ \A u \in Task : u # t => frame'[u] = frame[u]
      /\ frame'[t] = NoPages
  BY <1>1, Zenon DEF IInv, TypeOK
<1>3. ASSUME NEW u \in Task, u # t, NEW v \in VPage, frame[u][v] # NoFrame
      PROVE  content'[frame[u][v]] = content[frame[u][v]]
  <2>1. frame[u][v] \in Frame
    BY <1>3, Counts, Zenon
  <2>2. refs'[frame[u][v]] # 0
    <3>1. /\ frame' \in [Task -> Table] /\ refs' \in [Frame -> Nat] /\ refused' \in [Frame -> Nat]
          /\ Exact(frame', refs', refused') /\ frame'[u][v] = frame[u][v]
      BY <1>2, <1>3, Zenon DEF IInv, TypeOK, Table
    <3>2. refs'[frame'[u][v]] >= 1
      BY ONLY <3>1, <1>3, u \in Task, v \in VPage, LayoutAssumption, MappedCounts, Zenon
    <3> QED
      BY <3>1, <3>2, SMTT(60)
  <2> QED
    BY <1>1, <2>1, <2>2, Zenon DEF Released
<1>4. \A u \in Task : u # t => Memory'[u] = Memory[u]
  BY <1>2, <1>3, SeesTheSame, Zenon
<1>5. Memory'[t] = Spaces!Nothing
  BY <1>2, Zenon DEF Memory, Spaces!Nothing, NoPages
<1>6. Memory' = [Memory EXCEPT ![t] = Spaces!Nothing]
  BY <1>4, <1>5, OneSees, Zenon
<1> QED
  BY <1>6, Zenon DEF Spaces!Discard

\* A heap grows by zeroed pages.
LEMMA GrowStep ==
    ASSUME IInv, NEW t \in Task, NEW addr, WithinLimit(addr), BrkGrows(t, addr)
    PROVE  \E V \in SUBSET Heap : Spaces!Grow(t, V)
<1> DEFINE from == PageUp(heap_end[t])
           to == PageUp(addr)
           V == HeapRange(from, to)
<1>1. PICK g \in Injection(V, Free) :
          /\ frame' = [frame EXCEPT ![t] = [v \in VPage |-> IF v \in V THEN g[v] ELSE @[v]]]
          /\ content' = [f \in Frame |-> IF f \in Range(g) THEN Zero ELSE content[f]]
  BY Zenon DEF BrkGrows
<1>2. TypeOK /\ TableOK(t) /\ addr \in Break /\ heap_end[t] \in Break
  BY DEF IInv, TypeOK, WithinLimit
<1>3. /\ from \in Nat /\ to \in Nat /\ to <= HeapPages
      /\ \A n \in Nat : 2 * n < heap_end[t] <=> n < from
  <2>1. from \in Nat /\ to \in Nat /\ to <= HeapPages
    BY <1>2, SMTT(60) DEF PageUp, Break
  <2> QED
    BY <1>2, <2>1, PagesBelow
<1> HIDE DEF from, to
<1>4. V \subseteq Heap /\ V \in SUBSET VPage
  BY <1>3 DEF HeapRange, Heap, VPage
<1>5. \A v \in V : frame[t][v] = NoFrame
  <2> SUFFICES ASSUME NEW v \in V PROVE frame[t][v] = NoFrame
    OBVIOUS
  <2> DEFINE n == v - HeapStart
  <2>1. v \in Heap /\ n \in Nat /\ ~(n < from)
    BY <1>3, <1>4, SMTT(60) DEF HeapRange, Heap
  <2>2. frame[t][v] # NoFrame <=> 2 * n < heap_end[t]
    BY <1>2, <2>1, Zenon DEF TableOK
  <2> HIDE DEF n
  <2> QED
    BY <1>3, <2>1, <2>2, Zenon
<1> HIDE DEF V
<1>6. /\ \A f \in Range(g) : \E v \in V : g[v] = f
      /\ \A v \in V : g[v] \in Range(g) /\ g[v] \in Frame /\ g[v] # NoFrame
      /\ \A u \in Task, v \in VPage, w \in V : frame[u][v] # g[w]
  BY <1>4, FreshFrames
<1>7. \A u \in Task : u # t => frame'[u] = frame[u]
  BY <1>1, <1>2, Zenon DEF TypeOK
<1>8. ASSUME NEW u \in Task, NEW v \in VPage, frame[u][v] # NoFrame
      PROVE  content'[frame[u][v]] = content[frame[u][v]]
  <2>1. frame[u][v] \in Frame /\ frame[u][v] \notin Range(g)
    BY <1>6, <1>8, Counts, SMTT(60)
  <2> QED
    BY <1>1, <2>1, Zenon
<1>9. \A u \in Task : u # t => Memory'[u] = Memory[u]
  BY <1>7, <1>8, SeesTheSame, Zenon
<1>10. Memory'[t] = [v \in VPage |-> IF v \in V THEN Zero ELSE Memory[t][v]]
  <2>1. ASSUME NEW v \in VPage
        PROVE  (IF frame'[t][v] = NoFrame THEN Unmapped ELSE content'[frame'[t][v]])
                 = IF v \in V THEN Zero
                   ELSE IF frame[t][v] = NoFrame THEN Unmapped ELSE content[frame[t][v]]
    <3>1. frame'[t][v] = IF v \in V THEN g[v] ELSE frame[t][v]
      BY <1>1, <1>2, Zenon DEF TypeOK
    <3>2. CASE v \in V
      BY <1>1, <1>6, <3>1, <3>2, Zenon
    <3>3. CASE v \notin V
      <4>1. frame[t][v] # NoFrame => content'[frame[t][v]] = content[frame[t][v]]
        BY <1>8, Zenon
      <4> QED
        BY <3>1, <3>3, <4>1, Zenon
    <3> QED
      BY <3>2, <3>3, Zenon
  <2> QED
    BY <2>1, Zenon DEF Memory
<1>11. Memory' = [Memory EXCEPT ![t] = [v \in VPage |-> IF v \in V THEN Zero ELSE Memory[t][v]]]
  BY <1>9, <1>10, OneSees, Zenon
<1>12. \A v \in V : Memory[t][v] = Unmapped
  BY <1>4, <1>5, Zenon DEF Memory
<1> QED
  BY <1>4, <1>11, <1>12, Zenon DEF Spaces!Grow

\* A heap shrinks; a frame that another task shares keeps its contents.
LEMMA ShrinkStep ==
    ASSUME IInv, NEW t \in Task, NEW addr, WithinLimit(addr), BrkShrinks(t, addr)
    PROVE  \E V \in SUBSET Heap : Spaces!Shrink(t, V)
<1> DEFINE to == PageUp(addr)
           from == PageUp(heap_end[t])
           V == GivenUp(t, HeapRange(to, from))
           F == {frame[t][v] : v \in V}
           shared == {f \in F : refs[f] > 1}
<1>1. /\ frame' = [frame EXCEPT ![t] = [v \in VPage |-> IF v \in V THEN NoFrame ELSE @[v]]]
      /\ content' = Released(F \ shared)
  BY Zenon DEF BrkShrinks
<1>2. TypeOK /\ TableOK(t) /\ addr \in Break /\ heap_end[t] \in Break
  BY DEF IInv, TypeOK, WithinLimit
<1>3. from \in Nat /\ to \in Nat /\ from <= HeapPages
  BY <1>2, SMTT(60) DEF PageUp, Break
<1> HIDE DEF from, to
<1>4. V \subseteq Heap /\ V \in SUBSET VPage /\ \A v \in V : frame[t][v] # NoFrame
  BY <1>3, SMTT(60) DEF HeapRange, Heap, VPage, GivenUp, Mapped
<1> HIDE DEF V
<1>5. \A f \in F \ shared : f \in Frame /\ refs[f] = 1 /\ \E v \in V : frame[t][v] = f
  BY <1>4, Counts, SMTT(60)
<1> HIDE DEF F, shared
<1>6. ASSUME NEW u \in Task, NEW v \in VPage, frame[u][v] # NoFrame, ~(u = t /\ v \in V)
      PROVE  content'[frame[u][v]] = content[frame[u][v]]
  <2>1. frame[u][v] \in Frame /\ frame[u][v] \notin F \ shared
    BY <1>4, <1>5, <1>6, Counts, SMTT(60)
  <2> QED
    BY <1>1, <2>1, Zenon DEF Released
<1>7. \A u \in Task : u # t => frame'[u] = frame[u]
  BY <1>1, <1>2, Zenon DEF TypeOK
<1>8. \A u \in Task : u # t => Memory'[u] = Memory[u]
  BY <1>6, <1>7, SeesTheSame, Zenon
<1>9. Memory'[t] = [v \in VPage |-> IF v \in V THEN Unmapped ELSE Memory[t][v]]
  <2>1. ASSUME NEW v \in VPage
        PROVE  (IF frame'[t][v] = NoFrame THEN Unmapped ELSE content'[frame'[t][v]])
                 = IF v \in V THEN Unmapped
                   ELSE IF frame[t][v] = NoFrame THEN Unmapped ELSE content[frame[t][v]]
    <3>1. frame'[t][v] = IF v \in V THEN NoFrame ELSE frame[t][v]
      BY <1>1, <1>2, Zenon DEF TypeOK
    <3>2. v \notin V /\ frame[t][v] # NoFrame => content'[frame[t][v]] = content[frame[t][v]]
      BY <1>6, Zenon
    <3> QED
      BY <3>1, <3>2, Zenon
  <2> QED
    BY <2>1, Zenon DEF Memory
<1>10. Memory' = [Memory EXCEPT ![t] = [v \in VPage |-> IF v \in V THEN Unmapped ELSE Memory[t][v]]]
  BY <1>8, <1>9, OneSees, Zenon
<1> QED
  BY <1>4, <1>10, Zenon DEF Spaces!Shrink

\* Every step is a step of AddressSpaces or is not seen.
LEMMA NextSpaces == IInv /\ IInv' /\ [Next]_vars => [Spaces!MemNext]_Memory
<1> SUFFICES ASSUME IInv, IInv', [Next]_vars PROVE [Spaces!MemNext]_Memory
  BY Zenon
<1>1. ASSUME UNCHANGED <<frame, content>> PROVE UNCHANGED Memory
  BY <1>1, Zenon DEF Memory
<1>2. ASSUME NEW t \in Task, NEW v \in VPage, NEW x \in Stored, Store(t, v, x)
      PROVE  Spaces!MemNext
  BY <1>2, StoreStep, Zenon DEF Spaces!MemNext
<1>3. ASSUME NEW t \in Task, NEW v \in VPage, paging_handle_page_fault_cow(t, v)
      PROVE  UNCHANGED Memory
  BY <1>1, <1>3, FaultStep, Zenon DEF Halt
<1>4. ASSUME NEW t \in Task, NEW c \in Task, task_fork(t, c) PROVE Spaces!MemNext
  BY <1>4, ForkStep, Zenon DEF Spaces!MemNext
<1>5. ASSUME NEW t \in Task, task_exec(t) PROVE Spaces!MemNext
  BY <1>5, ExecStep, Zenon DEF Spaces!MemNext
<1>6. ASSUME NEW t \in Task, task_destroy(t) PROVE Spaces!MemNext
  BY <1>6, DestroyStep, Zenon DEF Spaces!MemNext
<1>7. ASSUME NEW t \in Task, NEW addr, sys_brk(t, addr) PROVE Spaces!MemNext
  <2>1. CASE BrkGrows(t, addr)
    <3>1. \E V \in SUBSET Heap : Spaces!Grow(t, V)
      BY <1>7, <2>1, GrowStep, Zenon DEF sys_brk
    <3> QED
      BY <3>1, Zenon DEF Spaces!MemNext
  <2>2. CASE BrkShrinks(t, addr)
    <3>1. \E V \in SUBSET Heap : Spaces!Shrink(t, V)
      BY <1>7, <2>2, ShrinkStep DEF sys_brk
    <3> QED
      BY <3>1, Zenon DEF Spaces!MemNext
  <2> QED
    BY <1>7, <2>1, <2>2, Zenon DEF sys_brk
<1>8. ASSUME Halt \/ (\E t \in Task : task_exit(t)) \/ UNCHANGED vars
      PROVE  UNCHANGED Memory
  BY <1>1, <1>8, Zenon DEF Halt, task_exit, vars
<1>9. CASE Next
  BY <1>2, <1>3, <1>4, <1>5, <1>6, <1>7, <1>8, <1>9, Zenon
     DEF Next, UnrecoverableFault, ForkAborts, ExecAborts
<1> QED
  BY <1>8, <1>9, Zenon

\* Copy on write cannot be seen: through the page tables every task has a memory of
\* its own that only its own stores, fork, exec, exit and brk change.
THEOREM MemoryIsPrivate == Spec => PrivateMemory
<1>1. IInv /\ [Next]_vars => [Spaces!MemNext]_Memory
  BY NextIInv, NextSpaces
<1> QED
  BY <1>1, InitIInv, NextIInv, InitSpaces, PTL DEF Spec, PrivateMemory, Spaces!MemSpec
============================================================================
