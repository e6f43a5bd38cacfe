----------------------------- MODULE FilesCounts -----------------------------
(***************************************************************************)
(* The invariant of Files, and what each operation on the kernel's tables  *)
(* does to them: the lemmas on counting descriptors, handles and ends of   *)
(* pipes from which the theorems of FilesProofs follow, up to the ones on  *)
(* opening and sharing a handle.                                           *)
(***************************************************************************)
EXTENDS Files, SequenceTheorems, FiniteSetTheorems, WellFoundedInduction, TLAPS

Modes == {"O_RDONLY", "O_WRONLY"}

\* The open handles of one side of a node, and how many there are.
Side(H, n, m) == {h \in Handle : H[h].live /\ H[h].node = n /\ H[h].mode = m}
Ends(H, n, m) == Cardinality(Side(H, n, m))

\* The descriptors that point to handle h, in the tables f of all tasks.
Pointing(f, h) == {e \in Task \X (1..MaxFd) : e[2] \in DOMAIN f[e[1]] /\ f[e[1]][e[2]].file = h}
References(f) == [h \in Handle |-> Cardinality(Pointing(f, h))]

\* An open handle has the references c gives it, and is not behind the last one used.
HandlesExact(k, c) ==
    \A h \in Handle :
        IF k.handle[h].live THEN k.handle[h].refcount = c[h] /\ c[h] > 0 /\ h <= k.used
        ELSE c[h] = 0

\* The table: handles and slots name each other, and the number of full slots is
\* the count, which bounds the table's length.
Full(tab) == {i \in DOMAIN tab : tab[i] # NULL}
SlotsExact(k) ==
    /\ \A h \in Handle : k.handle[h].live => /\ k.handle[h].id \in DOMAIN k.file_handles
                                             /\ k.file_handles[k.handle[h].id] = h
    /\ \A i \in Full(k.file_handles) : /\ k.handle[k.file_handles[i]].live
                                       /\ k.handle[k.file_handles[i]].id = i
    /\ k.file_handles_open_count = Cardinality(Full(k.file_handles))
    /\ k.file_handles_open_count <= k.used
    /\ Len(k.file_handles) < MaxHandle + VFS_FILE_HANDLE_REALLOC_SIZE

\* The counts of a node are the numbers of its open handles; only a pipe that
\* exists and has none is released.
NodesExact(k) ==
    /\ \A n \in Node : k.node[n].open_count = Ends(k.handle, n, "O_RDONLY") + Ends(k.handle, n, "O_WRONLY")
    /\ \A p \in Pipe :
          /\ k.node[p].read_ref_count = Ends(k.handle, p, "O_RDONLY")
          /\ k.node[p].write_ref_count = Ends(k.handle, p, "O_WRONLY")
          /\ k.node[p].released => k.node[p].open_count = 0
          /\ k.node[p].open_count = 0 /\ p <= k.made => k.node[p].released

Good(k, c) == k \in Kernel /\ HandlesExact(k, c) /\ SlotsExact(k) /\ NodesExact(k)

\* A pipe that does not exist yet is as the kernel starts with it.
Fresh(k, e) ==
    \A p \in Pipe : p > k.made =>
        /\ k.node[p].open_count = 0 /\ k.node[p].size = 0 /\ k.node[p].waiters = <<>>
        /\ ~k.node[p].released /\ p \notin e

Waits(k, p, t) == \E i \in DOMAIN k.node[p].waiters : k.node[p].waiters[i] = t

\* A task waits once, on the pipe it reads, which it keeps open meanwhile.
Readers(k, f, r) ==
    /\ \A t \in Task : r[t] # NULL <=> k.state[t] \in {"BLOCKED", "WOKEN", "SIGNALLED"}
    /\ \A p \in Pipe : \A i, j \in DOMAIN k.node[p].waiters :
          k.node[p].waiters[i] = k.node[p].waiters[j] => i = j
    /\ \A p \in Pipe, t \in Task : Waits(k, p, t) <=> r[t] = p
    /\ \A t \in Task : r[t] # NULL =>
          \E i \in DOMAIN f[t] : /\ f[t][i].file # NULL
                                 /\ k.handle[f[t][i].file].node = r[t]
                                 /\ k.handle[f[t][i].file].mode = "O_RDONLY"

\* Tables are not too long, and a task that was not created has none.
TablesFit(k, f) == \A t \in Task : Len(f[t]) <= MaxFd /\ (k.state[t] = "UNUSED" => f[t] = <<>>)

Tables == [Task -> Seq(Descriptors)]

Consistent(k, f, r, e) ==
    /\ f \in Tables /\ r \in [Task -> Pipe \cup {NULL}] /\ e \subseteq Pipe
    /\ Good(k, References(f)) /\ TablesFit(k, f) /\ Fresh(k, e) /\ Readers(k, f, r)

Inv == Consistent(K, fd, reading, eof) /\ dups \in 0..MaxDup

\* With one reader at a time: it is blocked only as long as there is nothing to
\* read, and woken only when there is; an end of file is final.
Wakes(k, r, e) ==
    /\ \A p \in Pipe : Len(k.node[p].waiters) <= 1
    /\ \A t \in Task : k.state[t] = "BLOCKED" => ~is_buffer_ready(k, r[t])
    /\ \A t \in Task : k.state[t] = "WOKEN" => is_buffer_ready(k, r[t])
    /\ \A p \in e : k.node[p].size = 0 /\ k.node[p].write_ref_count = 0

SoleReader == OneReader => Wakes(K, reading, eof)

----------------------------------------------------------------------------
\* Every non-empty set of naturals has a least element.
LEMMA LeastNatural ==
    ASSUME NEW A \in SUBSET Nat, A # {}
    PROVE  \E n \in A : \A j \in A : n <= j
<1> DEFINE R == OpToRel(<, Nat)
<1>1. IsWellFoundedOn(R, Nat)
  BY NatLessThanWellFounded, Zenon
<1>2. R = {ss \in Nat \X Nat : ss[1] < ss[2]}
  BY DEF OpToRel
<1> HIDE DEF R
<1>3. PICK x \in A : \A y \in A : ~ (<<y, x>> \in R)
  BY <1>1, WFMin, Zenon
<1>4. ASSUME NEW y \in Nat, y < x
      PROVE  <<y, x>> \in R
  <2>1. <<y, x>> \in Nat \X Nat /\ <<y, x>>[1] = y /\ <<y, x>>[2] = x
    OBVIOUS
  <2> QED
    BY <1>2, <1>4, <2>1
<1>5. \A y \in A : ~(y < x)
  BY <1>3, <1>4, Zenon
<1> QED
  BY <1>5

\* What the first match of a search loop is.
LEMMA MinOfNats ==
    ASSUME NEW A \in SUBSET Nat, A # {}
    PROVE  Min(A) \in A /\ \A j \in A : Min(A) <= j
BY LeastNatural, Zenon DEF Min

\* The smaller of two numbers, as pipe_read takes the smaller of what was asked for and what
\* is there.
LEMMA MinOfTwo ==
    ASSUME NEW a \in Nat, NEW b \in Nat
    PROVE  Min({a, b}) \in Nat /\ Min({a, b}) <= a /\ Min({a, b}) <= b /\ Min({a, b}) \in {a, b}
<1>1. {a, b} \in SUBSET Nat /\ {a, b} # {}
  OBVIOUS
<1> QED
  BY <1>1, MinOfNats

\* The values of a finite sequence of naturals have an upper bound.
LEMMA SeqBounded ==
    ASSUME NEW n \in Nat, NEW s \in [1..n -> Nat]
    PROVE  \E b \in Nat : \A i \in 1..n : s[i] <= b
<1> DEFINE Above(m, b) == \E i \in 1..m : s[i] > b
           Unbounded == {m \in 0..n : \A b \in Nat : Above(m, b)}
<1>1. ASSUME NEW m \in 0..n, m \notin Unbounded
      PROVE  \E b \in Nat : \A i \in 1..m : s[i] <= b
  <2>1. PICK b \in Nat : ~Above(m, b)
    BY <1>1, Zenon
  <2>2. \A i \in 1..m : s[i] <= b
    BY <2>1
  <2> QED
    BY <2>2
<1>2. n \in 0..n
  OBVIOUS
<1>3. n \notin Unbounded
  <2>1. SUFFICES ASSUME n \in Unbounded PROVE FALSE
    OBVIOUS
  <2>2. PICK m \in Unbounded : \A j \in Unbounded : m <= j
    <3>1. Unbounded \in SUBSET Nat
      OBVIOUS
    <3> HIDE DEF Unbounded
    <3> QED
      BY <2>1, <3>1, LeastNatural, Zenon
  <2>3. m \in 0..n /\ \A b \in Nat : Above(m, b)
    BY <2>2
  <2>4. m # 0
    BY <2>3
  <2>5. m - 1 \in 0..n /\ m - 1 \notin Unbounded
    <3> HIDE DEF Unbounded
    <3> QED
      BY <2>2, <2>3, <2>4
  <2> HIDE DEF Unbounded
  <2>6. PICK b \in Nat : \A i \in 1..(m - 1) : s[i] <= b
    BY <1>1, <2>5, Zenon
  <2>7. s[m] \in Nat
    BY <2>3, <2>4
  <2>8. PICK i \in 1..m : s[i] > b + s[m]
    BY <2>3, <2>7, SMTT(60)
  <2>9. s[i] \in Nat
    BY <2>3
  <2> QED
    BY <2>3, <2>4, <2>6, <2>7, <2>8, <2>9, SMTT(60)
<1> HIDE DEF Unbounded
<1> QED
  BY <1>1, <1>2, <1>3

\* task_add_fd's largest identifier exists, and is -1 for an empty table.
LEMMA MaxIdentifier ==
    ASSUME NEW table \in Seq(Descriptors)
    PROVE  Max({d.identifier : d \in Range(table)} \cup {-1}) + 1 \in Nat
<1> DEFINE ids == {d.identifier : d \in Range(table)}
<1>1. PICK n \in Nat : table \in [1..n -> Descriptors]
  BY SeqDef
<1>2. \A i \in 1..n : table[i].identifier \in Nat
  BY <1>1 DEF Descriptors
<1> DEFINE s == [i \in 1..n |-> table[i].identifier]
<1>3. s \in [1..n -> Nat]
  BY <1>2
<1>4. \E b \in Nat : \A x \in ids : x \in Nat /\ x <= b
  <2> HIDE DEF s
  <2>1. PICK b \in Nat : \A i \in 1..n : s[i] <= b
    BY <1>3, SeqBounded, Zenon
  <2>2. \A i \in 1..n : table[i].identifier <= b
    BY <2>1 DEF s
  <2> QED
    BY <1>1, <1>2, <2>2, Zenon DEF Range
<1>a. PICK b \in Nat : \A x \in ids : x \in Nat /\ x <= b
  BY <1>4, Zenon
<1> HIDE DEF s
<1>5. \E x \in ids \cup {-1} : \A y \in ids \cup {-1} : x >= y
  <2>1. CASE ids = {}
    <3> HIDE DEF ids
    <3>1. \A y \in ids \cup {-1} : y = -1
      BY <2>1
    <3>2. -1 \in ids \cup {-1} /\ -1 >= -1
      OBVIOUS
    <3> QED
      BY <3>1, <3>2, Zenon
  <2>2. CASE ids # {}
    <3> DEFINE U == {u \in Nat : \A x \in ids : x <= u}
    <3>1. U # {} /\ U \in SUBSET Nat
      BY <1>a, Zenon
    <3>2. PICK u \in U : \A v \in U : u <= v
      BY <3>1, LeastNatural, Zenon
    <3> HIDE DEF ids
    <3>3. u \in ids
      <4>1. SUFFICES ASSUME u \notin ids PROVE FALSE
        OBVIOUS
      <4>2. \A x \in ids : x <= u - 1
        BY <1>a, <3>2, <4>1
      <4>3. u - 1 \in U
        BY <1>a, <2>2, <3>2, <4>2
      <4> QED
        BY <3>2, <4>3
    <3> QED
      BY <1>a, <3>2, <3>3
  <2> QED
    BY <2>1, <2>2
<1> HIDE DEF ids
<1>6. Max(ids \cup {-1}) \in ids \cup {-1}
  BY <1>5 DEF Max
<1>7. Max(ids \cup {-1}) + 1 \in Nat
  BY <1>a, <1>6
<1> QED
  BY <1>7 DEF ids

----------------------------------------------------------------------------
\* The bounds, one by one.
LEMMA Bounds ==
    /\ MaxTask \in Nat /\ MaxFd \in Nat /\ MaxHandle \in Nat /\ MaxHandle > 2 /\ MaxPipe \in Nat
    /\ VFS_FILE_HANDLE_REALLOC_SIZE \in Nat /\ VFS_FILE_HANDLE_REALLOC_SIZE > 0
    /\ PIPE_BUF_SIZE \in Nat /\ MaxTask > 0 /\ MaxFd > 2 /\ MaxDup \in Nat
    /\ NewFd \subseteq Nat /\ InitiallyClosed \subseteq 0..2
    /\ \A h \in Handle : h # NULL /\ h \in Nat
    /\ \A p \in Pipe : p # NULL /\ p \in Nat /\ p \in Node /\ p # Tty
    /\ Tty \in Node
BY FilesAssumption DEF Handle, Pipe, NULL, Tty, Node

\* The open ends of one side of a node are finitely many, and there are none exactly when
\* the count is 0.
LEMMA SideFinite ==
    ASSUME NEW H, NEW n, NEW m
    PROVE  IsFiniteSet(Side(H, n, m)) /\ Ends(H, n, m) \in Nat /\ (Ends(H, n, m) = 0 <=> Side(H, n, m) = {})
<1>1. IsFiniteSet(Handle)
  BY Bounds, FS_Interval DEF Handle
<1>2. IsFiniteSet(Side(H, n, m))
  BY <1>1, FS_Subset DEF Side
<1> QED
  BY <1>2, FS_CardinalityType, FS_EmptySet DEF Ends

\* One more open handle is one more end of its node, on its side.
LEMMA EndsAdd ==
    ASSUME NEW H, NEW G, NEW h \in Handle,
           \A g \in Handle : g # h => G[g].live = H[g].live /\ G[g].node = H[g].node /\ G[g].mode = H[g].mode,
           ~H[h].live, G[h].live, NEW n, NEW m
    PROVE  Ends(G, n, m) = Ends(H, n, m) + (IF n = G[h].node /\ m = G[h].mode THEN 1 ELSE 0)
<1>1. Ends(H, n, m) \in Nat /\ IsFiniteSet(Side(H, n, m))
  BY SideFinite
<1>2. h \notin Side(H, n, m)
  BY DEF Side
<1>3. CASE n = G[h].node /\ m = G[h].mode
  <2>1. Side(G, n, m) = Side(H, n, m) \cup {h}
    BY <1>3 DEF Side
  <2>2. Cardinality(Side(H, n, m) \cup {h}) = Cardinality(Side(H, n, m)) + 1
    BY <1>1, <1>2, FS_AddElement, Zenon
  <2> QED
    BY <1>1, <1>3, <2>1, <2>2, Zenon DEF Ends
<1>4. CASE ~(n = G[h].node /\ m = G[h].mode)
  <2>1. Side(G, n, m) = Side(H, n, m)
    BY <1>4 DEF Side
  <2> QED
    BY <1>1, <1>4, <2>1 DEF Ends
<1> QED
  BY <1>3, <1>4

\* Two handles of the same kind.
Alike(a, b) == a.live = b.live /\ a.node = b.node /\ a.mode = b.mode

\* A change that leaves every handle of its kind leaves the counts of ends alone.
LEMMA EndsSame ==
    ASSUME NEW H, NEW G, \A g \in Handle : Alike(G[g], H[g]), NEW n, NEW m
    PROVE  Ends(G, n, m) = Ends(H, n, m)
<1>1. Side(G, n, m) = Side(H, n, m)
  BY DEF Side, Alike
<1> QED
  BY <1>1 DEF Ends

\* An open handle is an end of its node.
LEMMA EndsPositive ==
    ASSUME NEW H, NEW h \in Handle, H[h].live
    PROVE  Ends(H, H[h].node, H[h].mode) > 0
<1>1. h \in Side(H, H[h].node, H[h].mode)
  BY DEF Side
<1> QED
  BY <1>1, SideFinite

----------------------------------------------------------------------------
\* Descriptor i of task t points to h.
At(f, t, i, h) == i \in DOMAIN f[t] /\ f[t][i].file = h

\* Pointing holds the descriptors that point to a handle, and no others.
LEMMA PointingAt ==
    ASSUME NEW f, NEW h, NEW t \in Task, NEW i \in 1..MaxFd
    PROVE  <<t, i>> \in Pointing(f, h) <=> At(f, t, i, h)
<1>1. <<t, i>>[1] = t /\ <<t, i>>[2] = i /\ <<t, i>> \in Task \X (1..MaxFd)
  OBVIOUS
<1> QED
  BY <1>1 DEF Pointing, At

\* Finitely many descriptors point to a handle.
LEMMA PointingFinite ==
    ASSUME NEW f, NEW h
    PROVE  IsFiniteSet(Pointing(f, h)) /\ Cardinality(Pointing(f, h)) \in Nat
<1>1. IsFiniteSet(Task) /\ IsFiniteSet(1..MaxFd)
  BY Bounds, FS_Interval DEF Task
<1>2. IsFiniteSet(Task \X (1..MaxFd))
  BY <1>1, FS_Product, Zenon
<1>3. IsFiniteSet(Pointing(f, h))
  BY <1>2, FS_Subset DEF Pointing
<1> QED
  BY <1>3, FS_CardinalityType

\* The tables f and g differ in descriptor i of task t only.
OneDescriptor(f, g, t, i) ==
    \A u \in Task, j \in 1..MaxFd : u # t \/ j # i => \A h \in Handle : At(g, u, j, h) <=> At(f, u, j, h)

\* A changed descriptor is one reference less for the handle it pointed to and one
\* more for the handle it points to.
LEMMA Repointed ==
    ASSUME NEW f, NEW g, NEW t \in Task, NEW i \in 1..MaxFd, OneDescriptor(f, g, t, i), NEW h \in Handle
    PROVE  /\ References(f)[h] \in Nat /\ References(g)[h] \in Nat
           /\ References(g)[h] = References(f)[h] + (IF At(g, t, i, h) THEN 1 ELSE 0)
                                                  - (IF At(f, t, i, h) THEN 1 ELSE 0)
<1> DEFINE e == <<t, i>>
           Rest(x) == Pointing(x, h) \ {e}
<1>1. ASSUME NEW x
      PROVE  /\ Cardinality(Rest(x)) \in Nat /\ Cardinality(Pointing(x, h)) \in Nat
             /\ Cardinality(Pointing(x, h)) = Cardinality(Rest(x)) + (IF At(x, t, i, h) THEN 1 ELSE 0)
  <2>1. IsFiniteSet(Pointing(x, h)) /\ Cardinality(Pointing(x, h)) \in Nat
    BY PointingFinite
  <2>2. IsFiniteSet(Rest(x)) /\ Cardinality(Rest(x)) = IF e \in Pointing(x, h) THEN Cardinality(Pointing(x, h)) - 1
                                                       ELSE Cardinality(Pointing(x, h))
    BY <2>1, FS_RemoveElement, Zenon
  <2>3. Cardinality(Rest(x)) \in Nat
    BY <2>2, FS_CardinalityType
  <2>4. e \in Pointing(x, h) <=> At(x, t, i, h)
    BY PointingAt
  <2> HIDE DEF Rest, e
  <2> QED
    BY <2>1, <2>2, <2>3, <2>4
<1>2. Rest(g) = Rest(f)
  <2>1. ASSUME NEW d \in Task \X (1..MaxFd), d # e
        PROVE  d \in Pointing(g, h) <=> d \in Pointing(f, h)
    <3>1. PICK u \in Task, j \in 1..MaxFd : d = <<u, j>>
      OBVIOUS
    <3>2. u # t \/ j # i
      BY <2>1, <3>1
    <3> QED
      BY <3>1, <3>2, PointingAt DEF OneDescriptor
  <2>2. Pointing(g, h) \subseteq Task \X (1..MaxFd) /\ Pointing(f, h) \subseteq Task \X (1..MaxFd)
    BY DEF Pointing
  <2> QED
    BY <2>1, <2>2
<1> HIDE DEF Rest
<1>3. Cardinality(Pointing(f, h)) = Cardinality(Rest(f)) + (IF At(f, t, i, h) THEN 1 ELSE 0)
  BY <1>1
<1>4. Cardinality(Pointing(g, h)) = Cardinality(Rest(g)) + (IF At(g, t, i, h) THEN 1 ELSE 0)
  BY <1>1
<1>5. Cardinality(Rest(f)) \in Nat
  BY <1>1
<1> QED
  BY <1>2, <1>3, <1>4, <1>5 DEF References

\* A descriptor in use is a reference.
LEMMA ReferencedAt ==
    ASSUME NEW f, NEW h \in Handle, NEW t \in Task, NEW i \in 1..MaxFd, At(f, t, i, h)
    PROVE  References(f)[h] > 0
<1>1. <<t, i>> \in Pointing(f, h)
  BY PointingAt
<1>2. Cardinality(Pointing(f, h)) # 0 /\ Cardinality(Pointing(f, h)) \in Nat
  BY <1>1, PointingFinite, FS_EmptySet, Zenon
<1> QED
  BY <1>2 DEF References

----------------------------------------------------------------------------
\* allocate_file_handle finds an empty slot, in the old table or in the grown one.
LEMMA SlotFound ==
    ASSUME NEW k \in Kernel, SlotsExact(k), k.used < MaxHandle
    PROVE  LET s == FreeSlot(k) IN
           /\ s.found = TRUE
           /\ s.table \in Seq(Handle \cup {NULL}) /\ s.at \in DOMAIN s.table
           /\ s.table[s.at] = NULL /\ Full(s.table) = Full(k.file_handles)
           /\ \A i \in DOMAIN k.file_handles : i \in DOMAIN s.table /\ s.table[i] = k.file_handles[i]
           /\ Len(s.table) < MaxHandle + VFS_FILE_HANDLE_REALLOC_SIZE
<1> DEFINE tab == k.file_handles
           s == FreeSlot(k)
           R == VFS_FILE_HANDLE_REALLOC_SIZE
           c == k.file_handles_open_count
           empty == {i \in DOMAIN tab : tab[i] = NULL}
           more == [i \in 1..R |-> NULL]
<1>1. tab \in Seq(Handle \cup {NULL}) /\ c \in Nat /\ k.used \in Nat
  BY DEF Kernel
<1>2. PICK n \in Nat : n = Len(tab) /\ DOMAIN tab = 1..n
  BY <1>1, LenProperties
<1>3. c = Cardinality(Full(tab)) /\ c <= k.used /\ n < MaxHandle + R
  BY <1>2 DEF SlotsExact
<1> HIDE DEF tab
<1>4. CASE c = n
  <2>1. s = [at |-> n + 1, found |-> TRUE, table |-> tab \o more]
    BY <1>2, <1>4 DEF FreeSlot, tab
  <2>2. more \in [1..R -> Handle \cup {NULL}] /\ R \in Nat /\ R > 0
    BY Bounds
  <2>3. more \in Seq(Handle \cup {NULL}) /\ Len(more) = R
    BY <2>2, IsASeq, LenProperties
  <2>a. \A i \in 1..R : more[i] = NULL
    OBVIOUS
  <2> DEFINE x == tab \o more
  <2> HIDE DEF more
  <2>4. /\ x \in Seq(Handle \cup {NULL}) /\ Len(x) = n + R
        /\ \A i \in 1..(n + R) : x[i] = IF i <= n THEN tab[i] ELSE more[i - n]
    BY <1>1, <1>2, <2>3, ConcatProperties, Zenon
  <2> HIDE DEF x
  <2>5. DOMAIN x = 1..(n + R)
    BY <2>4, LenProperties
  <2>6. \A i \in 1..(n + R) : i > n => x[i] = NULL
    BY <2>2, <2>a, <2>4
  <2>7. \A i \in 1..n : i \in 1..(n + R) /\ x[i] = tab[i]
    BY <2>2, <2>4
  <2>8. Full(x) = Full(tab)
    <3>1. ASSUME NEW i \in Full(x) PROVE i \in 1..n
      BY <2>2, <2>5, <2>6, SMTT(60) DEF Full
    <3>2. Full(x) \subseteq Full(tab)
      BY <1>2, <2>7, <3>1 DEF Full
    <3>3. Full(tab) \subseteq Full(x)
      BY <1>2, <2>5, <2>7 DEF Full
    <3> QED
      BY <3>2, <3>3
  <2>9. n + R < MaxHandle + R /\ n + 1 \in 1..(n + R) /\ n + 1 > n
    BY <1>1, <1>3, <1>4, <2>2, Bounds, SMTT(60)
  <2> HIDE DEF s
  <2>10. s.at = n + 1 /\ s.found = TRUE /\ s.table = x
    BY <2>1 DEF x
  <2> QED
    BY <1>2, <2>4, <2>5, <2>6, <2>7, <2>8, <2>9, <2>10 DEF tab, s
<1>5. CASE c # n
  <2>1. empty # {}
    <3>1. SUFFICES ASSUME empty = {} PROVE FALSE
      OBVIOUS
    <3>2. Full(tab) = 1..n
      BY <1>2, <3>1 DEF Full
    <3> QED
      BY <1>3, <1>5, <3>2, FS_Interval, SMTT(60)
  <2>2. Min(empty) \in empty
    <3>1. empty \in SUBSET Nat
      BY <1>2
    <3> HIDE DEF empty
    <3> QED
      BY <2>1, <3>1, MinOfNats, Zenon
  <2>3. s = [at |-> Min(empty), found |-> TRUE, table |-> tab]
    BY <1>2, <1>5, <2>1, Zenon DEF FreeSlot, tab
  <2> HIDE DEF s
  <2>4. s.at = Min(empty) /\ s.found = TRUE /\ s.table = tab
    BY <2>3
  <2> QED
    BY <1>1, <1>2, <1>3, <2>2, <2>4, Zenon DEF tab, s
<1> QED
  BY <1>4, <1>5, Zenon

\* A record with the fields of the kernel's tables.
Fields == {"handle", "used", "made", "file_handles", "file_handles_open_count", "node", "state"}
IsTables(x) == x = [y \in Fields |-> x[y]]

\* What has the fields of the tables, each of its type, is a state of the tables.
LEMMA InKernel ==
    ASSUME NEW x, IsTables(x),
           x.handle \in [Handle -> HandleRecord], x.used \in 0..MaxHandle, x.made \in 0..MaxPipe,
           x.file_handles \in Seq(Handle \cup {NULL}), x.file_handles_open_count \in Nat,
           x.node \in [Node -> NodeRecord], x.state \in [Task -> State]
    PROVE  x \in Kernel
<1>1. x = [handle |-> x.handle, used |-> x.used, made |-> x.made, file_handles |-> x.file_handles,
           file_handles_open_count |-> x.file_handles_open_count, node |-> x.node, state |-> x.state]
  BY DEF IsTables, Fields
<1> QED
  BY <1>1 DEF Kernel

\* The type of each of the tables.
LEMMA KernelFields ==
    ASSUME NEW k \in Kernel
    PROVE  /\ IsTables(k)
           /\ k.handle \in [Handle -> HandleRecord] /\ k.used \in 0..MaxHandle /\ k.made \in 0..MaxPipe
           /\ k.file_handles \in Seq(Handle \cup {NULL}) /\ k.file_handles_open_count \in Nat
           /\ k.node \in [Node -> NodeRecord] /\ k.state \in [Task -> State]
BY DEF Kernel, IsTables, Fields

\* What opening a handle does: the new handle is in slot s.at of the table, and its
\* node has one more.
OpenedNode(k, n, mode) ==
    [open_count |-> k.node[n].open_count + 1,
     read_ref_count |-> k.node[n].read_ref_count + (IF n \in Pipe /\ mode = "O_RDONLY" THEN 1 ELSE 0),
     write_ref_count |-> k.node[n].write_ref_count + (IF n \in Pipe /\ mode = "O_WRONLY" THEN 1 ELSE 0),
     size |-> k.node[n].size, waiters |-> k.node[n].waiters, released |-> k.node[n].released]
NewHandle(k, n, mode) ==
    [live |-> TRUE, node |-> n, id |-> FreeSlot(k).at, refcount |-> 1, mode |-> mode]
Opened(k, n, mode, x) ==
    /\ IsTables(x)
    /\ x.handle = [k.handle EXCEPT ![k.used + 1] = NewHandle(k, n, mode)]
    /\ x.used = k.used + 1 /\ x.made = k.made /\ x.state = k.state
    /\ x.file_handles = [FreeSlot(k).table EXCEPT ![FreeSlot(k).at] = k.used + 1]
    /\ x.file_handles_open_count = k.file_handles_open_count + 1
    /\ x.node = [k.node EXCEPT ![n] = OpenedNode(k, n, mode)]

\* The same for the record of a node.
NodeFields == {"open_count", "read_ref_count", "write_ref_count", "size", "waiters", "released"}
IsNode(x) == x = [y \in NodeFields |-> x[y]]

\* Two records of a node that agree field by field are equal.
LEMMA SameNode ==
    ASSUME NEW x, NEW z, IsNode(x), IsNode(z),
           x.open_count = z.open_count, x.read_ref_count = z.read_ref_count,
           x.write_ref_count = z.write_ref_count, x.size = z.size, x.waiters = z.waiters,
           x.released = z.released
    PROVE  x = z
BY DEF IsNode, NodeFields

\* vfs_open takes a free slot, makes a handle with one reference and counts one more end of
\* the node.
LEMMA OpenEffect ==
    ASSUME NEW k \in Kernel, NEW n \in Node, NEW mode \in Modes, FreeSlot(k).found = TRUE
    PROVE  Opened(k, n, mode, vfs_open(k, n, mode))
<1> DEFINE k1 == [k EXCEPT !.node[n].open_count = @ + 1]
<1>1. /\ IsTables(k1) /\ k1.handle = k.handle /\ k1.used = k.used /\ k1.made = k.made /\ k1.state = k.state
      /\ k1.file_handles = k.file_handles /\ k1.file_handles_open_count = k.file_handles_open_count
      /\ k1.node = [k.node EXCEPT ![n].open_count = @ + 1]
  BY Zenon DEF Kernel, IsTables, Fields
<1>2. k.node[n] \in NodeRecord /\ k.node \in [Node -> NodeRecord]
  BY KernelFields
<1> HIDE DEF k1
<1>3. FreeSlot(k1) = FreeSlot(k)
  BY <1>1 DEF FreeSlot
<1> DEFINE a == allocate_file_handle(k1, n, mode)
<1>4. /\ IsTables(a) /\ a.handle = [k.handle EXCEPT ![k.used + 1] = NewHandle(k, n, mode)]
      /\ a.used = k.used + 1 /\ a.made = k.made /\ a.state = k.state
      /\ a.file_handles = [FreeSlot(k).table EXCEPT ![FreeSlot(k).at] = k.used + 1]
      /\ a.file_handles_open_count = k.file_handles_open_count + 1
      /\ a.node = [k.node EXCEPT ![n].open_count = @ + 1]
  BY <1>1, <1>3, Zenon DEF allocate_file_handle, IsTables, Fields, NewHandle
<1>5. vfs_open(k, n, mode) = IF n \in Pipe THEN pipe_open(a, n, mode) ELSE a
  BY DEF vfs_open, k1
<1> HIDE DEF a
<1>6. CASE n \notin Pipe
  <2>1. [k.node EXCEPT ![n].open_count = @ + 1] = [k.node EXCEPT ![n] = OpenedNode(k, n, mode)]
    <3> DEFINE x == [k.node[n] EXCEPT !.open_count = @ + 1]
               z == OpenedNode(k, n, mode)
    <3>1. IsNode(x) /\ IsNode(z)
      BY <1>2, Zenon DEF OpenedNode, NodeRecord, IsNode, NodeFields
    <3>2. /\ x.open_count = z.open_count /\ x.read_ref_count = z.read_ref_count
          /\ x.write_ref_count = z.write_ref_count /\ x.size = z.size /\ x.waiters = z.waiters
          /\ x.released = z.released
      BY <1>2, <1>6, SMTT(60) DEF OpenedNode, NodeRecord
    <3> HIDE DEF x, z
    <3>3. x = z
      BY <3>1, <3>2, SameNode, Zenon
    <3> QED
      BY <1>2, <3>3, Zenon DEF x, z
  <2> QED
    BY <1>4, <1>5, <1>6, <2>1, Zenon DEF Opened
<1>7. CASE n \in Pipe
  <2> DEFINE x == pipe_open(a, n, mode)
             N == [k.node EXCEPT ![n].open_count = @ + 1]
  <2>1. /\ IsTables(x) /\ x.handle = a.handle /\ x.used = a.used /\ x.made = a.made /\ x.state = a.state
        /\ x.file_handles = a.file_handles /\ x.file_handles_open_count = a.file_handles_open_count
        /\ x.node = IF mode = "O_RDONLY" THEN [a.node EXCEPT ![n].read_ref_count = @ + 1]
                    ELSE [a.node EXCEPT ![n].write_ref_count = @ + 1]
    BY <1>4, Zenon DEF pipe_open, IsTables, Fields
  <2>2. [N EXCEPT ![n].read_ref_count = @ + 1] = [k.node EXCEPT ![n] = OpenedNode(k, n, "O_RDONLY")]
    <3> DEFINE y == [k.node[n] EXCEPT !.open_count = @ + 1]
               z == OpenedNode(k, n, "O_RDONLY")
    <3>1. [y EXCEPT !.read_ref_count = @ + 1] = z
      <4> DEFINE v == [y EXCEPT !.read_ref_count = @ + 1]
      <4>1. IsNode(v) /\ IsNode(z)
        BY <1>2, Zenon DEF OpenedNode, NodeRecord, IsNode, NodeFields
      <4>2. /\ v.open_count = z.open_count /\ v.read_ref_count = z.read_ref_count
            /\ v.write_ref_count = z.write_ref_count /\ v.size = z.size /\ v.waiters = z.waiters
            /\ v.released = z.released
        BY <1>2, <1>7 DEF OpenedNode, NodeRecord
      <4> HIDE DEF v, z
      <4> QED
        BY <4>1, <4>2, SameNode, Zenon DEF v
    <3>2. [N EXCEPT ![n].read_ref_count = @ + 1] = [k.node EXCEPT ![n] = [y EXCEPT !.read_ref_count = @ + 1]]
      BY <1>2, Zenon
    <3> QED
      BY <3>1, <3>2
  <2>3. [N EXCEPT ![n].write_ref_count = @ + 1] = [k.node EXCEPT ![n] = OpenedNode(k, n, "O_WRONLY")]
    <3> DEFINE y == [k.node[n] EXCEPT !.open_count = @ + 1]
               z == OpenedNode(k, n, "O_WRONLY")
    <3>1. [y EXCEPT !.write_ref_count = @ + 1] = z
      <4> DEFINE v == [y EXCEPT !.write_ref_count = @ + 1]
      <4>1. IsNode(v) /\ IsNode(z)
        BY <1>2, Zenon DEF OpenedNode, NodeRecord, IsNode, NodeFields
      <4>2. /\ v.open_count = z.open_count /\ v.read_ref_count = z.read_ref_count
            /\ v.write_ref_count = z.write_ref_count /\ v.size = z.size /\ v.waiters = z.waiters
            /\ v.released = z.released
        BY <1>2, <1>7 DEF OpenedNode, NodeRecord
      <4> HIDE DEF v, z
      <4> QED
        BY <4>1, <4>2, SameNode, Zenon DEF v
    <3>2. [N EXCEPT ![n].write_ref_count = @ + 1] = [k.node EXCEPT ![n] = [y EXCEPT !.write_ref_count = @ + 1]]
      BY <1>2, Zenon
    <3> QED
      BY <3>1, <3>2
  <2> HIDE DEF N, x
  <2>4. x.node = [k.node EXCEPT ![n] = OpenedNode(k, n, mode)]
    BY <1>4, <2>1, <2>2, <2>3 DEF Modes, N
  <2>5. vfs_open(k, n, mode) = x
    BY <1>5, <1>7, Zenon DEF x
  <2> QED
    BY <1>4, <2>1, <2>4, <2>5, Zenon DEF Opened
<1> QED
  BY <1>6, <1>7

\* What pipe_close does: one end less, and the reader woken by the last writer.
LeftNode(r, mode) ==
    [open_count |-> r.open_count,
     read_ref_count |-> r.read_ref_count - (IF mode = "O_RDONLY" THEN 1 ELSE 0),
     write_ref_count |-> r.write_ref_count - (IF mode = "O_WRONLY" THEN 1 ELSE 0),
     size |-> r.size, waiters |-> r.waiters, released |-> r.released]
WokenState(k, p) ==
    IF k.node[p].waiters = <<>> THEN k.state ELSE [k.state EXCEPT ![Head(k.node[p].waiters)] = "WOKEN"]

\* wait_wake_up changes nothing but the state of the first waiter.
LEMMA WakeEffect ==
    ASSUME NEW k, IsTables(k), NEW p
    PROVE  LET x == wait_wake_up(k, p) IN
           /\ IsTables(x) /\ x.handle = k.handle /\ x.used = k.used /\ x.made = k.made /\ x.node = k.node
           /\ x.file_handles = k.file_handles /\ x.file_handles_open_count = k.file_handles_open_count
           /\ x.state = WokenState(k, p)
<1>1. CASE k.node[p].waiters = <<>>
  BY <1>1 DEF wait_wake_up, WokenState
<1>2. CASE k.node[p].waiters # <<>>
  <2> DEFINE t == Head(k.node[p].waiters)
  <2>1. wait_wake_up(k, p) = [k EXCEPT !.state[t] = "WOKEN"] /\ WokenState(k, p) = [k.state EXCEPT ![t] = "WOKEN"]
    BY <1>2, Zenon DEF wait_wake_up, WokenState
  <2> HIDE DEF t
  <2> QED
    BY <2>1 DEF IsTables, Fields
<1> QED
  BY <1>1, <1>2, Zenon

\* pipe_close counts one end fewer, and the last writer to leave wakes the first waiter.
LEMMA PipeCloseEffect ==
    ASSUME NEW k, IsTables(k), k.node \in [Node -> NodeRecord], NEW p \in Pipe, NEW mode \in Modes,
           mode = "O_RDONLY" => k.node[p].read_ref_count > 0,
           mode = "O_WRONLY" => k.node[p].write_ref_count > 0
    PROVE  LET x == pipe_close(k, p, mode) IN
           /\ IsTables(x) /\ x.handle = k.handle /\ x.used = k.used /\ x.made = k.made
           /\ x.file_handles = k.file_handles /\ x.file_handles_open_count = k.file_handles_open_count
           /\ x.node = [k.node EXCEPT ![p] = LeftNode(k.node[p], mode)]
           /\ x.state = IF mode = "O_WRONLY" /\ k.node[p].write_ref_count = 1 THEN WokenState(k, p) ELSE k.state
<1> DEFINE r == k.node[p]
<1>1. p \in Node /\ r \in NodeRecord /\ r.read_ref_count \in Nat /\ r.write_ref_count \in Nat
  BY Bounds, Zenon DEF NodeRecord
<1>2. ASSUME NEW v, mode = "O_RDONLY", v = r.read_ref_count - 1
      PROVE  [k.node EXCEPT ![p].read_ref_count = v] = [k.node EXCEPT ![p] = LeftNode(r, mode)]
  <2> DEFINE y == [r EXCEPT !.read_ref_count = v]
             z == LeftNode(r, mode)
  <2>1. IsNode(y) /\ IsNode(z)
    BY <1>1, Zenon DEF LeftNode, NodeRecord, IsNode, NodeFields
  <2>2. /\ y.open_count = z.open_count /\ y.read_ref_count = z.read_ref_count
        /\ y.write_ref_count = z.write_ref_count /\ y.size = z.size /\ y.waiters = z.waiters
        /\ y.released = z.released
    BY <1>1, <1>2, SMTT(60) DEF LeftNode, NodeRecord
  <2> HIDE DEF y, z
  <2>3. y = z
    BY <2>1, <2>2, SameNode, Zenon
  <2> QED
    BY <1>1, <2>3 DEF y, z
<1>3. ASSUME NEW v, mode = "O_WRONLY", v = r.write_ref_count - 1
      PROVE  [k.node EXCEPT ![p].write_ref_count = v] = [k.node EXCEPT ![p] = LeftNode(r, mode)]
  <2> DEFINE y == [r EXCEPT !.write_ref_count = v]
             z == LeftNode(r, mode)
  <2>1. IsNode(y) /\ IsNode(z)
    BY <1>1, Zenon DEF LeftNode, NodeRecord, IsNode, NodeFields
  <2>2. /\ y.open_count = z.open_count /\ y.read_ref_count = z.read_ref_count
        /\ y.write_ref_count = z.write_ref_count /\ y.size = z.size /\ y.waiters = z.waiters
        /\ y.released = z.released
    BY <1>1, <1>3, SMTT(60) DEF LeftNode, NodeRecord
  <2> HIDE DEF y, z
  <2>3. y = z
    BY <2>1, <2>2, SameNode, SMTT(60)
  <2> QED
    BY <1>1, <2>3, Zenon DEF y, z
<1> HIDE DEF r
<1>4. CASE mode = "O_RDONLY"
  <2> DEFINE v == r.read_ref_count - 1
             x == [k EXCEPT !.node[p].read_ref_count = v]
  <2>1. pipe_close(k, p, mode) = x
    BY <1>4 DEF pipe_close, r
  <2> HIDE DEF v
  <2>2. /\ IsTables(x) /\ x.handle = k.handle /\ x.used = k.used /\ x.made = k.made /\ x.state = k.state
        /\ x.file_handles = k.file_handles /\ x.file_handles_open_count = k.file_handles_open_count
        /\ x.node = [k.node EXCEPT ![p].read_ref_count = v]
    BY DEF IsTables, Fields
  <2> HIDE DEF x
  <2>3. x.node = [k.node EXCEPT ![p] = LeftNode(r, mode)]
    BY <1>2, <1>4, <2>2, Zenon DEF v
  <2> QED
    BY <1>4, <2>1, <2>2, <2>3, Zenon DEF r
<1>5. CASE mode = "O_WRONLY" /\ r.write_ref_count # 1
  <2> DEFINE v == r.write_ref_count - 1
             x == [k EXCEPT !.node[p].write_ref_count = v]
  <2>1. pipe_close(k, p, mode) = x
    BY <1>5 DEF pipe_close, r
  <2> HIDE DEF v
  <2>2. /\ IsTables(x) /\ x.handle = k.handle /\ x.used = k.used /\ x.made = k.made /\ x.state = k.state
        /\ x.file_handles = k.file_handles /\ x.file_handles_open_count = k.file_handles_open_count
        /\ x.node = [k.node EXCEPT ![p].write_ref_count = v]
    BY DEF IsTables, Fields
  <2> HIDE DEF x
  <2>3. x.node = [k.node EXCEPT ![p] = LeftNode(r, mode)]
    BY <1>3, <1>5, <2>2, Zenon DEF v
  <2> QED
    BY <1>5, <2>1, <2>2, <2>3, Zenon DEF r
<1>6. CASE mode = "O_WRONLY" /\ r.write_ref_count = 1
  <2> DEFINE x == [k EXCEPT !.node[p].write_ref_count = 0]
  <2>1. pipe_close(k, p, mode) = wait_wake_up(x, p)
    BY <1>6 DEF pipe_close, r
  <2>2. /\ IsTables(x) /\ x.handle = k.handle /\ x.used = k.used /\ x.made = k.made /\ x.state = k.state
        /\ x.file_handles = k.file_handles /\ x.file_handles_open_count = k.file_handles_open_count
        /\ x.node = [k.node EXCEPT ![p].write_ref_count = 0]
    BY DEF IsTables, Fields
  <2>3. x.node[p].waiters = k.node[p].waiters
    BY <1>1, <2>2, SMTT(60) DEF NodeRecord
  <2> HIDE DEF x
  <2>4. x.node = [k.node EXCEPT ![p] = LeftNode(r, mode)]
    BY <1>3, <1>6, <2>2, SMTT(60)
  <2>5. WokenState(x, p) = WokenState(k, p)
    BY <2>2, <2>3, Zenon DEF WokenState
  <2> QED
    BY <1>6, <2>1, <2>2, <2>4, <2>5, WakeEffect, SMTT(60) DEF r
<1> QED
  BY <1>4, <1>5, <1>6, Zenon DEF Modes

\* What vfs_close does to a handle with other references, and to one without.
Unreferenced(k, h, x) ==
    /\ IsTables(x) /\ x.handle = [k.handle EXCEPT ![h].refcount = @ - 1]
    /\ x.used = k.used /\ x.made = k.made /\ x.node = k.node /\ x.state = k.state
    /\ x.file_handles = k.file_handles /\ x.file_handles_open_count = k.file_handles_open_count

ClosedNode(k, h) ==
    LET n == k.handle[h].node
        r == k.node[n]
        m == k.handle[h].mode
    IN  [open_count |-> r.open_count - 1,
         read_ref_count |-> r.read_ref_count - (IF n \in Pipe /\ m = "O_RDONLY" THEN 1 ELSE 0),
         write_ref_count |-> r.write_ref_count - (IF n \in Pipe /\ m = "O_WRONLY" THEN 1 ELSE 0),
         size |-> IF n \in Pipe /\ r.open_count = 1 THEN 0 ELSE r.size, waiters |-> r.waiters,
         released |-> IF n \in Pipe /\ r.open_count = 1 THEN TRUE ELSE r.released]
LastWriter(k, h) ==
    LET n == k.handle[h].node
    IN  n \in Pipe /\ k.handle[h].mode = "O_WRONLY" /\ k.node[n].write_ref_count = 1
ClosedHandle(k, h, x) ==
    LET n == k.handle[h].node
    IN  /\ IsTables(x) /\ x.handle = [k.handle EXCEPT ![h] = NoHandle]
        /\ x.used = k.used /\ x.made = k.made
        /\ x.file_handles = [k.file_handles EXCEPT ![k.handle[h].id] = NULL]
        /\ x.file_handles_open_count = k.file_handles_open_count - 1
        /\ x.node = [k.node EXCEPT ![n] = ClosedNode(k, h)]
        /\ x.state = IF LastWriter(k, h) THEN WokenState(k, n) ELSE k.state

\* vfs_close takes one reference away, and the last one closes the handle and its end of the pipe.
LEMMA CloseEffect ==
    ASSUME NEW k \in Kernel, NEW h \in Handle,
           k.handle[h].node \in Pipe /\ k.handle[h].mode = "O_RDONLY" =>
               k.node[k.handle[h].node].read_ref_count > 0,
           k.handle[h].node \in Pipe /\ k.handle[h].mode = "O_WRONLY" =>
               k.node[k.handle[h].node].write_ref_count > 0
    PROVE  /\ k.handle[h].refcount # 1 => Unreferenced(k, h, vfs_close(k, h))
           /\ k.handle[h].refcount = 1 => ClosedHandle(k, h, vfs_close(k, h))
<1> DEFINE n == k.handle[h].node
           m == k.handle[h].mode
           r == k.node[n]
           d == [k EXCEPT !.handle[h].refcount = @ - 1]
           c == IF n \in Pipe THEN pipe_close(d, n, m) ELSE d
<1>1. /\ k.handle \in [Handle -> HandleRecord] /\ k.node \in [Node -> NodeRecord]
      /\ IsTables(k) /\ k.handle[h] \in HandleRecord /\ n \in Node /\ m \in Modes /\ r \in NodeRecord
      /\ k.handle[h].refcount \in Int /\ r.open_count \in Nat
  <2>1. k.handle \in [Handle -> HandleRecord] /\ k.node \in [Node -> NodeRecord] /\ IsTables(k)
    BY KernelFields, Zenon
  <2>2. k.handle[h] \in HandleRecord /\ n \in Node /\ m \in Modes /\ k.handle[h].refcount \in Int
    BY <2>1, Zenon DEF HandleRecord, Modes
  <2> QED
    BY <2>1, <2>2, Zenon DEF NodeRecord
<1>2. /\ IsTables(d) /\ d.handle = [k.handle EXCEPT ![h].refcount = @ - 1]
      /\ d.used = k.used /\ d.made = k.made /\ d.node = k.node /\ d.state = k.state
      /\ d.file_handles = k.file_handles /\ d.file_handles_open_count = k.file_handles_open_count
  BY <1>1, Zenon DEF IsTables, Fields
<1>3. d.handle[h].refcount = k.handle[h].refcount - 1 /\ d.handle[h].id = k.handle[h].id
  BY <1>1, <1>2, SMTT(60) DEF HandleRecord
<1>4. vfs_close(k, h) = IF d.handle[h].refcount # 0 THEN d ELSE Dropped(k, h, c, c.node[n].open_count = 1)
  BY Bounds, Zenon DEF vfs_close
<1> HIDE DEF d
<1>5. CASE k.handle[h].refcount # 1
  <2>a. d.handle[h].refcount # 0
    BY <1>1, <1>3, <1>5, SMTT(60)
  <2> HIDE DEF c, n
  <2>1. vfs_close(k, h) = d
    BY <1>4, <2>a, Zenon
  <2> QED
    BY <1>2, <1>5, <2>1, Zenon DEF Unreferenced
<1>6. CASE k.handle[h].refcount = 1
  <2> DEFINE left == IF n \in Pipe THEN LeftNode(r, m) ELSE r
  <2>1. /\ IsTables(c) /\ c.handle = d.handle /\ c.used = k.used /\ c.made = k.made
        /\ c.file_handles = k.file_handles /\ c.file_handles_open_count = k.file_handles_open_count
        /\ c.node = [k.node EXCEPT ![n] = left]
        /\ c.state = IF LastWriter(k, h) THEN WokenState(k, n) ELSE k.state
    <3>1. CASE n \in Pipe
      <4>1. WokenState(d, n) = WokenState(k, n)
        BY <1>2, Zenon DEF WokenState
      <4> HIDE DEF n, m
      <4> DEFINE x == pipe_close(d, n, m)
      <4>2. /\ IsTables(x) /\ x.handle = d.handle /\ x.used = d.used /\ x.made = d.made
            /\ x.file_handles = d.file_handles /\ x.file_handles_open_count = d.file_handles_open_count
            /\ x.node = [d.node EXCEPT ![n] = LeftNode(d.node[n], m)]
            /\ x.state = IF m = "O_WRONLY" /\ d.node[n].write_ref_count = 1 THEN WokenState(d, n) ELSE d.state
        <5>1. d.node \in [Node -> NodeRecord]
          BY <1>1, <1>2, Zenon
        <5>2. (m = "O_RDONLY" => d.node[n].read_ref_count > 0) /\ (m = "O_WRONLY" => d.node[n].write_ref_count > 0)
          BY <1>2, <3>1, Zenon DEF n, m
        <5> QED
          BY <1>1, <1>2, <3>1, <5>1, <5>2, PipeCloseEffect, SMTT(60)
      <4>3. c = x
        BY <3>1, Zenon
      <4> HIDE DEF x, c
      <4>4. (m = "O_WRONLY" /\ d.node[n].write_ref_count = 1) <=> LastWriter(k, h)
        BY <1>2, <3>1, Zenon DEF LastWriter, n, m
      <4> QED
        BY <1>2, <3>1, <4>1, <4>2, <4>3, <4>4, Zenon
    <3>2. CASE n \notin Pipe
      <4>1. c = d /\ ~LastWriter(k, h) /\ left = r
        BY <3>2, Zenon DEF LastWriter
      <4>2. [k.node EXCEPT ![n] = r] = k.node
        BY <1>1, Zenon
      <4> HIDE DEF c, left, r, n
      <4> QED
        BY <1>2, <4>1, <4>2, Zenon
    <3> QED
      BY <3>1, <3>2, Zenon
  <2>3. /\ left.open_count = r.open_count /\ left.size = r.size /\ left.waiters = r.waiters
        /\ left.released = r.released /\ IsNode(left)
        /\ left.read_ref_count = r.read_ref_count - (IF n \in Pipe /\ m = "O_RDONLY" THEN 1 ELSE 0)
        /\ left.write_ref_count = r.write_ref_count - (IF n \in Pipe /\ m = "O_WRONLY" THEN 1 ELSE 0)
    <3>1. CASE n \in Pipe
      <4> HIDE DEF n, m
      <4>1. left = LeftNode(r, m)
        BY <3>1, Zenon
      <4> HIDE DEF left, r
      <4> QED
        BY <3>1, <4>1, Zenon DEF LeftNode, IsNode, NodeFields
    <3>2. CASE n \notin Pipe
      <4> HIDE DEF n, m
      <4>1. left = r
        BY <3>2, Zenon
      <4> HIDE DEF left, r
      <4>2. r.read_ref_count \in Nat /\ r.write_ref_count \in Nat /\ IsNode(r)
        BY <1>1, Zenon DEF NodeRecord, IsNode, NodeFields
      <4> QED
        BY <3>2, <4>1, <4>2, SMTT(60)
    <3> QED
      BY <3>1, <3>2, Zenon
  <2> HIDE DEF left, c
  <2>4. c.node[n].open_count = r.open_count
    BY <1>1, <2>1, <2>3, Zenon
  <2> DEFINE release == r.open_count = 1
             o == [c EXCEPT !.node[n].open_count = @ - 1]
             q == IF release THEN on_release(o, n) ELSE o
  <2>5. vfs_close(k, h) = deallocate_file_handle(q, h)
    <3>1. d.handle[h].refcount = 0
      BY <1>3, <1>6, SMTT(60)
    <3>2. vfs_close(k, h) = Dropped(k, h, c, c.node[n].open_count = 1)
      BY <1>4, <3>1, Zenon
    <3>3. (c.node[n].open_count = 1) = release
      BY <2>4, Zenon
    <3> QED
      BY <3>2, <3>3, Zenon DEF Dropped
  <2>6. /\ IsTables(o) /\ o.handle = d.handle /\ o.used = k.used /\ o.made = k.made /\ o.state = c.state
        /\ o.file_handles = k.file_handles /\ o.file_handles_open_count = k.file_handles_open_count
        /\ o.node = [c.node EXCEPT ![n].open_count = @ - 1]
    BY <2>1, Zenon DEF IsTables, Fields
  <2> HIDE DEF o
  <2>7. /\ IsTables(q) /\ q.handle = d.handle /\ q.used = k.used /\ q.made = k.made /\ q.state = c.state
        /\ q.file_handles = k.file_handles /\ q.file_handles_open_count = k.file_handles_open_count
        /\ q.node = IF release /\ n \in Pipe THEN [o.node EXCEPT ![n] = [@ EXCEPT !.released = TRUE, !.size = 0]]
                    ELSE o.node
    <3> HIDE DEF n, release
    <3>1. CASE release /\ n \in Pipe
      <4>1. q = [o EXCEPT !.node[n] = [@ EXCEPT !.released = TRUE, !.size = 0]]
        BY <3>1 DEF on_release
      <4> HIDE DEF q
      <4> QED
        BY <2>6, <3>1, <4>1, Zenon DEF IsTables, Fields
    <3>2. CASE ~(release /\ n \in Pipe)
      <4>1. q = o
        BY <3>2, Zenon DEF on_release
      <4> HIDE DEF q
      <4> QED
        BY <2>6, <3>2, <4>1
    <3> QED
      BY <3>1, <3>2, Zenon
  <2> HIDE DEF q
  <2>8. q.node = [k.node EXCEPT ![n] = ClosedNode(k, h)]
    <3> DEFINE y == [left EXCEPT !.open_count = @ - 1]
               w == IF release /\ n \in Pipe THEN [y EXCEPT !.released = TRUE, !.size = 0] ELSE y
               z == ClosedNode(k, h)
    <3>1. IsNode(y) /\ IsNode(z)
      BY <1>1, <2>3, Zenon DEF ClosedNode, IsNode, NodeFields
    <3>2. /\ y.open_count = z.open_count /\ y.read_ref_count = z.read_ref_count
          /\ y.write_ref_count = z.write_ref_count /\ y.waiters = z.waiters
          /\ y.size = r.size /\ y.released = r.released
      BY <1>1, <2>3, Zenon DEF ClosedNode, IsNode, NodeFields
    <3>3. /\ z.size = IF release /\ n \in Pipe THEN 0 ELSE r.size
          /\ z.released = IF release /\ n \in Pipe THEN TRUE ELSE r.released
      BY Zenon DEF ClosedNode
    <3>4. o.node = [k.node EXCEPT ![n] = y]
      BY <1>1, <2>1, <2>6, Zenon
    <3> HIDE DEF y, z
    <3>5. IsNode(w) /\ w.open_count = z.open_count /\ w.read_ref_count = z.read_ref_count
          /\ w.write_ref_count = z.write_ref_count /\ w.size = z.size /\ w.waiters = z.waiters
          /\ w.released = z.released
      BY <3>1, <3>2, <3>3, Zenon DEF IsNode, NodeFields
    <3>6. q.node = [k.node EXCEPT ![n] = w]
      BY <1>1, <2>7, <3>4, Zenon
    <3> HIDE DEF w
    <3>7. w = z
      BY <3>1, <3>5, SameNode
    <3> QED
      BY <3>6, <3>7, Zenon DEF z
  <2> DEFINE x == deallocate_file_handle(q, h)
  <2>9. /\ IsTables(x) /\ x.handle = [d.handle EXCEPT ![h] = NoHandle] /\ x.used = k.used /\ x.made = k.made
        /\ x.state = c.state /\ x.node = q.node
        /\ x.file_handles = [k.file_handles EXCEPT ![d.handle[h].id] = NULL]
        /\ x.file_handles_open_count = k.file_handles_open_count - 1
    BY <2>7, Zenon DEF deallocate_file_handle, IsTables, Fields
  <2>10. [d.handle EXCEPT ![h] = NoHandle] = [k.handle EXCEPT ![h] = NoHandle]
    BY <1>1, <1>2
  <2> HIDE DEF x
  <2> QED
    BY <1>3, <1>6, <2>1, <2>5, <2>8, <2>9, <2>10, Zenon DEF ClosedHandle, x
<1> QED
  BY <1>5, <1>6, Zenon

----------------------------------------------------------------------------
\* Nothing is twice in list w.
Once(w) == \A y, z \in DOMAIN w : w[y] = w[z] => y = z

\* List v has what list w has, without t.
Drops(v, w, t) ==
    /\ v \in Seq(Task) /\ Len(v) = Len(w) - 1 /\ Once(v)
    /\ \A u : (\E i \in DOMAIN v : v[i] = u) <=> u # t /\ \E i \in DOMAIN w : w[i] = u

\* dequeue_waiter takes a task out of a list in which it is once.
LEMMA Dequeued ==
    ASSUME NEW w \in Seq(Task), NEW t \in Task, NEW j \in DOMAIN w, w[j] = t, Once(w)
    PROVE  Drops(dequeue_waiter(w, t), w, t)
<1> DEFINE at == {i \in DOMAIN w : w[i] = t}
           b == SubSeq(w, 1, j - 1)
           c == SubSeq(w, j + 1, Len(w))
           v == b \o c
<1>1. PICK n \in Nat : n = Len(w) /\ DOMAIN w = 1..n /\ \A i \in 1..n : w[i] \in Task
  BY LenProperties, Zenon
<1>2. j \in 1..n /\ j \in Nat /\ j - 1 \in Int /\ j + 1 \in Int /\ n \in Int /\ 1 \in Int
  BY <1>1, SMTT(60)
<1>3. at # {} /\ Min(at) = j
  <2>1. at \in SUBSET Nat /\ j \in at
    BY <1>1, SMTT(60)
  <2>2. Min(at) \in at
    BY <2>1, MinOfNats, Zenon
  <2> QED
    BY <2>1, <2>2, Zenon DEF Once
<1>4. dequeue_waiter(w, t) = v
  BY <1>3, Zenon DEF dequeue_waiter
<1>5. b \in Seq(Task) /\ Len(b) = j - 1 /\ \A i \in 1..(j - 1) : b[i] = w[i]
  <2>1. \A i \in 1..(j - 1) : w[i] \in Task
    BY <1>1, <1>2, SMTT(60)
  <2>2. /\ b \in Seq(Task) /\ Len(b) = (IF 1 <= j - 1 THEN j - 1 - 1 + 1 ELSE 0)
        /\ \A i \in 1..(j - 1 - 1 + 1) : b[i] = w[1 + i - 1]
    BY <1>2, <2>1, SubSeqProperties, SMTT(60)
  <2> HIDE DEF b
  <2> QED
    BY <1>2, <2>2, SMTT(60)
<1>6. c \in Seq(Task) /\ Len(c) = n - j /\ \A i \in 1..(n - j) : c[i] = w[j + i]
  <2>1. \A i \in (j + 1)..n : w[i] \in Task
    BY <1>1, <1>2, SMTT(60)
  <2>2. /\ c \in Seq(Task) /\ Len(c) = (IF j + 1 <= n THEN n - (j + 1) + 1 ELSE 0)
        /\ \A i \in 1..(n - (j + 1) + 1) : c[i] = w[j + 1 + i - 1]
    BY <1>1, <1>2, <2>1, SubSeqProperties, SMTT(60)
  <2> HIDE DEF c
  <2>3. Len(c) = n - j /\ n - (j + 1) + 1 = n - j
    BY <1>2, <2>2, SMTT(60)
  <2>4. ASSUME NEW i \in 1..(n - j) PROVE c[i] = w[j + i]
    <3>1. j + 1 + i - 1 = j + i
      BY <1>2, SMTT(60)
    <3> QED
      BY <2>2, <2>3, <3>1, Zenon
  <2> QED
    BY <2>2, <2>3, <2>4, Zenon
<1> HIDE DEF b, c
<1>7. /\ v \in Seq(Task) /\ Len(v) = n - 1 /\ DOMAIN v = 1..(n - 1)
      /\ \A i \in 1..(n - 1) : v[i] = IF i < j THEN w[i] ELSE w[i + 1]
  <2>1. /\ v \in Seq(Task) /\ Len(v) = Len(b) + Len(c)
        /\ \A i \in 1..(Len(b) + Len(c)) : v[i] = IF i <= Len(b) THEN b[i] ELSE c[i - Len(b)]
    <3>1. b \in Seq(Task) /\ c \in Seq(Task)
      BY <1>5, <1>6, Zenon
    <3> QED
      BY ONLY <3>1, ConcatProperties, Zenon
  <2> HIDE DEF v
  <2>2. Len(b) = j - 1 /\ Len(b) + Len(c) = n - 1 /\ Len(v) = n - 1 /\ DOMAIN v = 1..(n - 1)
    <3>1. Len(b) = j - 1 /\ Len(c) = n - j
      BY <1>5, <1>6, Zenon
    <3>2. Len(b) + Len(c) = n - 1
      BY <1>2, <3>1, SMTT(60)
    <3>3. DOMAIN v = 1..Len(v)
      BY <2>1, LenProperties, Zenon
    <3> QED
      BY <2>1, <3>1, <3>2, <3>3, Zenon
  <2>3. ASSUME NEW i \in 1..(n - 1) PROVE v[i] = IF i < j THEN w[i] ELSE w[i + 1]
    <3>1. v[i] = IF i <= j - 1 THEN b[i] ELSE c[i - (j - 1)]
      BY <2>1, <2>2, Zenon
    <3>2. CASE i < j
      <4>1. i <= j - 1 /\ i \in 1..(j - 1)
        BY <1>2, <3>2, SMTT(60)
      <4> QED
        BY <1>5, <3>1, <3>2, <4>1, Zenon
    <3>3. CASE ~(i < j)
      <4>1. i - (j - 1) \in 1..(n - j) /\ j + (i - (j - 1)) = i + 1 /\ ~(i <= j - 1)
        BY <1>2, <3>3, SMTT(60)
      <4>2. c[i - (j - 1)] = w[j + (i - (j - 1))]
        BY <1>6, <4>1, Zenon
      <4> QED
        BY <3>1, <3>3, <4>1, <4>2, Zenon
    <3> QED
      BY <3>2, <3>3, Zenon
  <2> QED
    BY <2>1, <2>2, <2>3, Zenon
<1> HIDE DEF v
<1> DEFINE m(i) == IF i < j THEN i ELSE i + 1
<1>8. \A i \in 1..(n - 1) : m(i) \in 1..n /\ m(i) # j /\ v[i] = w[m(i)]
  BY <1>2, <1>7, SMTT(60)
<1>9. \A y, z \in 1..(n - 1) : m(y) = m(z) => y = z
  BY <1>2, SMTT(60)
<1>10. \A i \in 1..n : i # j => \E y \in 1..(n - 1) : m(y) = i
  <2> TAKE i \in 1..n
  <2> HAVE i # j
  <2>1. CASE i < j
    BY <1>2, <2>1, SMTT(60)
  <2>2. CASE i > j
    <3>1. i - 1 \in 1..(n - 1) /\ m(i - 1) = i
      BY <1>2, <2>2, SMTT(60)
    <3> QED
      BY <3>1, Zenon
  <2> QED
    BY <1>2, <2>1, <2>2, SMTT(60)
<1> HIDE DEF m
<1>11. \A y, z \in DOMAIN v : v[y] = v[z] => y = z
  <2> SUFFICES ASSUME NEW y \in 1..(n - 1), NEW z \in 1..(n - 1), v[y] = v[z]
               PROVE  y = z
    BY <1>7, Zenon
  <2>1. m(y) \in DOMAIN w /\ m(z) \in DOMAIN w /\ w[m(y)] = w[m(z)]
    BY <1>1, <1>8, Zenon
  <2> QED
    BY <1>9, <2>1, Zenon DEF Once
<1>12. ASSUME NEW u, NEW i \in DOMAIN v, v[i] = u PROVE u # t /\ \E y \in DOMAIN w : w[y] = u
  <2>1. i \in 1..(n - 1)
    BY <1>7, Zenon
  <2>2. m(i) \in DOMAIN w /\ m(i) # j /\ w[m(i)] = u
    BY <1>1, <1>8, <1>12, <2>1, Zenon
  <2>3. w[m(i)] # w[j]
    BY <2>2, Zenon DEF Once
  <2> QED
    BY <2>2, <2>3, Zenon
<1>13. ASSUME NEW u, u # t, NEW i \in DOMAIN w, w[i] = u PROVE \E y \in DOMAIN v : v[y] = u
  <2>1. PICK y \in 1..(n - 1) : m(y) = i
    BY <1>1, <1>10, <1>13, Zenon
  <2> QED
    BY <1>7, <1>8, <1>13, <2>1, Zenon
<1>14. \A u : (\E i \in DOMAIN v : v[i] = u) <=> u # t /\ \E i \in DOMAIN w : w[i] = u
  BY <1>12, <1>13, Zenon
<1>15. v \in Seq(Task) /\ Len(v) = Len(w) - 1
  BY <1>1, <1>7, Zenon
<1>16. Once(v)
  BY <1>11, Zenon DEF Once
<1>17. Drops(v, w, t)
  BY <1>14, <1>15, <1>16, Zenon DEF Drops
<1> QED
  BY <1>4, <1>17, Zenon


\* The handle after the last one used is not open.
LEMMA NextHandle ==
    ASSUME NEW k, NEW c, Good(k, c), k.used < MaxHandle
    PROVE  k.used + 1 \in Handle /\ ~k.handle[k.used + 1].live /\ c[k.used + 1] = 0
<1>1. k.used \in Nat /\ k.used + 1 \in Handle
  BY Bounds, KernelFields, SMTT(60) DEF Good, Handle
<1>2. ~(k.used + 1 <= k.used)
  BY <1>1
<1> QED
  BY <1>1, <1>2, Zenon DEF Good, HandlesExact

\* vfs_open keeps the tables exact.
LEMMA OpenGood ==
    ASSUME NEW k, NEW c, NEW d, Good(k, c), k.used < MaxHandle, NEW n \in Node, NEW mode \in Modes,
           n \in Pipe => ~k.node[n].released,
           d[k.used + 1] = 1, \A g \in Handle : g # k.used + 1 => d[g] = c[g]
    PROVE  Good(vfs_open(k, n, mode), d) /\ Opened(k, n, mode, vfs_open(k, n, mode))
<1> DEFINE x == vfs_open(k, n, mode)
           h == k.used + 1
           s == FreeSlot(k)
<1>1. /\ k \in Kernel /\ HandlesExact(k, c) /\ SlotsExact(k) /\ NodesExact(k)
      /\ k.handle \in [Handle -> HandleRecord] /\ k.used \in 0..MaxHandle /\ k.made \in 0..MaxPipe
      /\ k.file_handles \in Seq(Handle \cup {NULL}) /\ k.file_handles_open_count \in Nat
      /\ k.node \in [Node -> NodeRecord] /\ k.state \in [Task -> State]
  BY KernelFields, Zenon DEF Good
<1>2. h \in Handle /\ ~k.handle[h].live /\ h # NULL
  BY NextHandle, Bounds, Zenon
<1>3. /\ s.found = TRUE
      /\ s.table \in Seq(Handle \cup {NULL}) /\ s.at \in DOMAIN s.table
      /\ s.table[s.at] = NULL /\ Full(s.table) = Full(k.file_handles)
      /\ \A i \in DOMAIN k.file_handles : i \in DOMAIN s.table /\ s.table[i] = k.file_handles[i]
      /\ Len(s.table) < MaxHandle + VFS_FILE_HANDLE_REALLOC_SIZE
  BY <1>1, SlotFound, Zenon
<1>4. Opened(k, n, mode, x)
  BY <1>1, <1>3, OpenEffect, Zenon
<1> HIDE DEF x, s
<1>5. /\ IsTables(x)
      /\ x.handle = [k.handle EXCEPT ![h] = NewHandle(k, n, mode)]
      /\ x.used = h /\ x.made = k.made /\ x.state = k.state
      /\ x.file_handles = [s.table EXCEPT ![s.at] = h]
      /\ x.file_handles_open_count = k.file_handles_open_count + 1
      /\ x.node = [k.node EXCEPT ![n] = OpenedNode(k, n, mode)]
  BY <1>4 DEF Opened, s
<1>6. s.at \in 1..(MaxHandle + VFS_FILE_HANDLE_REALLOC_SIZE)
  <2>1. PICK l \in Nat : l = Len(s.table) /\ DOMAIN s.table = 1..l
    BY <1>3, LenProperties
  <2> QED
    BY <1>3, <2>1, Bounds, SMTT(60)
<1> DEFINE new == NewHandle(k, n, mode)
<1>7. /\ new \in HandleRecord /\ new.live = TRUE /\ new.node = n /\ new.mode = mode /\ new.id = s.at
      /\ new.refcount = 1
  BY <1>6, SMTT(60) DEF NewHandle, HandleRecord, Modes, s
<1> DEFINE node == OpenedNode(k, n, mode)
<1>8. /\ node \in NodeRecord /\ node.open_count = k.node[n].open_count + 1
      /\ node.released = k.node[n].released
      /\ n \in Pipe => /\ node.read_ref_count = k.node[n].read_ref_count + (IF mode = "O_RDONLY" THEN 1 ELSE 0)
                       /\ node.write_ref_count = k.node[n].write_ref_count + (IF mode = "O_WRONLY" THEN 1 ELSE 0)
  <2>1. k.node[n] \in NodeRecord
    BY <1>1, Zenon
  <2> DEFINE r == k.node[n]
             a == r.read_ref_count + (IF n \in Pipe /\ mode = "O_RDONLY" THEN 1 ELSE 0)
             b == r.write_ref_count + (IF n \in Pipe /\ mode = "O_WRONLY" THEN 1 ELSE 0)
  <2>2. /\ a \in Nat /\ b \in Nat /\ r.open_count + 1 \in Nat
        /\ r.size \in 0..PIPE_BUF_SIZE /\ r.waiters \in Seq(Task) /\ r.released \in BOOLEAN
    <3>1. /\ r.read_ref_count \in Nat /\ r.write_ref_count \in Nat /\ r.open_count \in Nat
          /\ r.size \in 0..PIPE_BUF_SIZE /\ r.waiters \in Seq(Task) /\ r.released \in BOOLEAN
      BY <2>1, Zenon DEF NodeRecord
    <3> HIDE DEF r
    <3> QED
      BY <3>1, SMTT(60)
  <2>3. node = [open_count |-> r.open_count + 1, read_ref_count |-> a, write_ref_count |-> b,
                size |-> r.size, waiters |-> r.waiters, released |-> r.released]
    BY DEF OpenedNode
  <2>4. n \in Pipe => /\ a = k.node[n].read_ref_count + (IF mode = "O_RDONLY" THEN 1 ELSE 0)
                      /\ b = k.node[n].write_ref_count + (IF mode = "O_WRONLY" THEN 1 ELSE 0)
    BY Zenon
  <2> HIDE DEF a, b, node
  <2> QED
    BY <2>2, <2>3, <2>4, Zenon DEF NodeRecord
<1> HIDE DEF new, node, h
<1>9. /\ x.handle \in [Handle -> HandleRecord] /\ x.handle[h] = new
      /\ \A g \in Handle : g # h => x.handle[g] = k.handle[g]
  BY <1>1, <1>2, <1>5, <1>7, SMTT(60) DEF new
<1>10. /\ x.node \in [Node -> NodeRecord] /\ x.node[n] = node
       /\ \A p \in Node : p # n => x.node[p] = k.node[p]
  BY <1>1, <1>5, <1>8, SMTT(60) DEF node
<1>11. /\ x.file_handles \in Seq(Handle \cup {NULL}) /\ Len(x.file_handles) = Len(s.table)
       /\ DOMAIN x.file_handles = DOMAIN s.table /\ x.file_handles[s.at] = h
       /\ \A i \in DOMAIN s.table : i # s.at => x.file_handles[i] = s.table[i]
  <2>1. h \in Handle \cup {NULL}
    BY <1>2, Zenon
  <2>2. /\ [s.table EXCEPT ![s.at] = h] \in Seq(Handle \cup {NULL})
        /\ Len([s.table EXCEPT ![s.at] = h]) = Len(s.table)
    BY <1>3, <2>1, ExceptSeq, SMTT(60)
  <2> QED
    BY <1>3, <1>5, <2>2, Zenon
<1>12. x.used \in 0..MaxHandle /\ x.file_handles_open_count \in Nat
  BY <1>1, <1>5, Bounds, SMTT(60) DEF h
<1>13. x \in Kernel
  BY <1>1, <1>5, <1>9, <1>10, <1>11, <1>12, InKernel, Zenon
<1>14. HandlesExact(x, d)
  <2>1. ASSUME NEW g \in Handle
        PROVE  IF x.handle[g].live THEN x.handle[g].refcount = d[g] /\ d[g] > 0 /\ g <= x.used ELSE d[g] = 0
    <3>1. CASE g = h
      <4>1. d[g] = 1 /\ g <= x.used
        BY <1>1, <1>5, <3>1, SMTT(60) DEF h
      <4> QED
        BY <1>7, <1>9, <3>1, <4>1, SMTT(60)
    <3>2. CASE g # h
      <4>1. d[g] = c[g] /\ x.handle[g] = k.handle[g]
        BY <1>9, <3>2, Zenon DEF h
      <4>2. g <= k.used => g <= x.used
        BY <1>1, <1>5, Bounds, SMTT(60) DEF h
      <4> QED
        BY <1>1, <4>1, <4>2, Zenon DEF HandlesExact
    <3> QED
      BY <3>1, <3>2
  <2> QED
    BY <2>1 DEF HandlesExact
<1>15. SlotsExact(x)
  <2>1. Full(x.file_handles) = Full(s.table) \cup {s.at}
    BY <1>2, <1>3, <1>11, SMTT(60) DEF Full
  <2>2. s.at \notin Full(s.table)
    BY <1>3, Zenon DEF Full
  <2>3. Cardinality(Full(x.file_handles)) = Cardinality(Full(s.table)) + 1
    <3>1. IsFiniteSet(Full(s.table))
      <4>1. PICK l \in Nat : DOMAIN s.table = 1..l
        BY <1>3, LenProperties
      <4>2. IsFiniteSet(1..l) /\ Full(s.table) \in SUBSET (1..l)
        BY <4>1, FS_Interval, SMTT(60) DEF Full
      <4> QED
        BY <4>2, FS_Subset
    <3> QED
      BY <2>1, <2>2, <3>1, FS_AddElement, Zenon
  <2>4. /\ x.file_handles_open_count = Cardinality(Full(x.file_handles))
        /\ x.file_handles_open_count <= x.used
    BY <1>1, <1>3, <1>5, <2>3 DEF SlotsExact, h
  <2>5. ASSUME NEW g \in Handle, x.handle[g].live
        PROVE  x.handle[g].id \in DOMAIN x.file_handles /\ x.file_handles[x.handle[g].id] = g
    <3>1. CASE g = h
      BY <1>3, <1>7, <1>9, <1>11, <3>1, Zenon
    <3>2. CASE g # h
      <4>1. k.handle[g].live /\ x.handle[g].id = k.handle[g].id
        BY <1>9, <2>5, <3>2, Zenon
      <4> DEFINE i == k.handle[g].id
      <4>2. i \in DOMAIN k.file_handles /\ k.file_handles[i] = g
        BY <1>1, <4>1, Zenon DEF SlotsExact
      <4>3. i \in DOMAIN s.table /\ s.table[i] = g /\ g # NULL
        BY <1>3, <4>2, Bounds, Zenon
      <4>4. i # s.at
        BY <1>3, <4>3, Zenon
      <4> QED
        BY <1>11, <4>1, <4>3, <4>4, Zenon
    <3> QED
      BY <3>1, <3>2, Zenon
  <2>6. ASSUME NEW i \in Full(x.file_handles)
        PROVE  x.handle[x.file_handles[i]].live /\ x.handle[x.file_handles[i]].id = i
    <3>1. CASE i = s.at
      BY <1>7, <1>9, <1>11, <3>1, Zenon
    <3>2. CASE i # s.at
      <4>1. i \in Full(k.file_handles)
        BY <1>3, <2>1, <3>2, Zenon
      <4>2. x.file_handles[i] = k.file_handles[i]
        BY <1>3, <1>11, <3>2, <4>1, Zenon DEF Full
      <4> DEFINE g == k.file_handles[i]
      <4>3. g \in Handle
        BY <1>1, <4>1, ElementOfSeq, SMTT(60) DEF Full
      <4>4. k.handle[g].live /\ k.handle[g].id = i
        BY <1>1, <4>1, Zenon DEF SlotsExact
      <4>5. g # h
        BY <1>2, <4>4, Zenon
      <4> QED
        BY <1>9, <4>2, <4>3, <4>4, <4>5, Zenon
    <3> QED
      BY <3>1, <3>2, Zenon
  <2> QED
    BY <1>3, <1>11, <2>4, <2>5, <2>6, Zenon DEF SlotsExact
<1>16. NodesExact(x)
  <2>1. ASSUME NEW p, NEW m
        PROVE  Ends(x.handle, p, m) = Ends(k.handle, p, m) + (IF p = n /\ m = mode THEN 1 ELSE 0)
    <3>1. x.handle[h].live /\ ~k.handle[h].live /\ x.handle[h].node = n /\ x.handle[h].mode = mode
      BY <1>2, <1>7, <1>9, Zenon
    <3>2. \A g \in Handle : g # h => /\ x.handle[g].live = k.handle[g].live
                                     /\ x.handle[g].node = k.handle[g].node
                                     /\ x.handle[g].mode = k.handle[g].mode
      BY <1>9, Zenon
    <3>3. Ends(x.handle, p, m) = Ends(k.handle, p, m)
              + (IF p = x.handle[h].node /\ m = x.handle[h].mode THEN 1 ELSE 0)
      <4> DEFINE H == k.handle
                 G == x.handle
      <4>1. /\ G[h].live /\ ~H[h].live
            /\ \A g \in Handle : g # h => G[g].live = H[g].live /\ G[g].node = H[g].node /\ G[g].mode = H[g].mode
        BY <3>1, <3>2, Zenon
      <4> HIDE DEF G, H
      <4>2. Ends(G, p, m) = Ends(H, p, m) + (IF p = G[h].node /\ m = G[h].mode THEN 1 ELSE 0)
        BY <1>2, <4>1, EndsAdd, SMTT(60)
      <4> QED
        BY <4>2, Zenon DEF G, H
    <3> QED
      BY <3>1, <3>3, Zenon
  <2>2. \A p, m : Ends(k.handle, p, m) \in Nat
    BY SideFinite, Zenon
  <2>3. ASSUME NEW p \in Node
        PROVE  x.node[p].open_count = Ends(x.handle, p, "O_RDONLY") + Ends(x.handle, p, "O_WRONLY")
    <3>1. k.node[p].open_count = Ends(k.handle, p, "O_RDONLY") + Ends(k.handle, p, "O_WRONLY")
      BY <1>1, Zenon DEF NodesExact
    <3>2. Ends(k.handle, p, "O_RDONLY") \in Nat /\ Ends(k.handle, p, "O_WRONLY") \in Nat
      BY <2>2, Zenon
    <3>3. /\ Ends(x.handle, p, "O_RDONLY") = Ends(k.handle, p, "O_RDONLY")
                + (IF p = n /\ "O_RDONLY" = mode THEN 1 ELSE 0)
          /\ Ends(x.handle, p, "O_WRONLY") = Ends(k.handle, p, "O_WRONLY")
                + (IF p = n /\ "O_WRONLY" = mode THEN 1 ELSE 0)
      BY <2>1, Zenon
    <3>4. x.node[p].open_count = k.node[p].open_count + (IF p = n THEN 1 ELSE 0)
      <4>1. k.node[p].open_count \in Nat
        BY <1>1, Zenon DEF NodeRecord
      <4> QED
        BY <1>8, <1>10, <4>1, SMTT(60)
    <3> QED
      BY <3>1, <3>2, <3>3, <3>4, SMTT(60) DEF Modes
  <2>4. ASSUME NEW p \in Pipe
        PROVE  /\ x.node[p].read_ref_count = Ends(x.handle, p, "O_RDONLY")
               /\ x.node[p].write_ref_count = Ends(x.handle, p, "O_WRONLY")
               /\ x.node[p].released => x.node[p].open_count = 0
               /\ x.node[p].open_count = 0 /\ p <= x.made => x.node[p].released
    <3>1. /\ k.node[p].read_ref_count = Ends(k.handle, p, "O_RDONLY")
          /\ k.node[p].write_ref_count = Ends(k.handle, p, "O_WRONLY")
          /\ k.node[p].released => k.node[p].open_count = 0
          /\ k.node[p].open_count = 0 /\ p <= k.made => k.node[p].released
      BY <1>1, Zenon DEF NodesExact
    <3>2. p \in Node /\ k.node[p].open_count \in Nat
      BY <1>1, Bounds, Zenon DEF NodeRecord
    <3>3. CASE p = n
      <4>1. x.node[p].open_count # 0 /\ ~x.node[p].released
        BY <1>8, <1>10, <3>2, <3>3, SMTT(60)
      <4>2. x.node[p].read_ref_count = Ends(x.handle, p, "O_RDONLY")
        BY <1>8, <1>10, <2>1, <2>2, <3>1, <3>3, SMTT(60) DEF Modes
      <4>3. x.node[p].write_ref_count = Ends(x.handle, p, "O_WRONLY")
        BY <1>8, <1>10, <2>1, <2>2, <3>1, <3>3, SMTT(60) DEF Modes
      <4> QED
        BY <4>1, <4>2, <4>3, Zenon
    <3>4. CASE p # n
      <4>1. x.node[p] = k.node[p]
        BY <1>10, <3>2, <3>4, Zenon
      <4>2. Ends(x.handle, p, "O_RDONLY") = Ends(k.handle, p, "O_RDONLY")
            /\ Ends(x.handle, p, "O_WRONLY") = Ends(k.handle, p, "O_WRONLY")
        BY <2>1, <2>2, <3>4, SMTT(60)
      <4> QED
        BY <1>5, <3>1, <4>1, <4>2, Zenon
    <3> QED
      BY <3>3, <3>4, Zenon
  <2> QED
    BY <2>3, <2>4, Zenon DEF NodesExact
<1> QED
  BY <1>4, <1>13, <1>14, <1>15, <1>16, Zenon DEF Good, x

\* An open handle counts for its node, and is in its slot.
LEMMA OpenHandle ==
    ASSUME NEW k, NEW c, Good(k, c), NEW h \in Handle, k.handle[h].live
    PROVE  /\ k.handle[h] \in HandleRecord /\ k.handle[h].node \in Node /\ k.handle[h].mode \in Modes
           /\ k.node[k.handle[h].node].open_count > 0
           /\ k.handle[h].node \in Pipe /\ k.handle[h].mode = "O_RDONLY" => k.node[k.handle[h].node].read_ref_count > 0
           /\ k.handle[h].node \in Pipe /\ k.handle[h].mode = "O_WRONLY" => k.node[k.handle[h].node].write_ref_count > 0
           /\ k.handle[h].node \in Pipe => ~k.node[k.handle[h].node].released
           /\ k.handle[h].refcount = c[h] /\ c[h] > 0
<1> DEFINE n == k.handle[h].node
           m == k.handle[h].mode
<1>1. k.handle[h] \in HandleRecord /\ n \in Node /\ m \in Modes /\ k.node \in [Node -> NodeRecord]
  BY KernelFields, Zenon DEF Good, HandleRecord, Modes
<1>2. Ends(k.handle, n, m) > 0
  BY EndsPositive, Zenon
<1>3. Ends(k.handle, n, "O_RDONLY") \in Nat /\ Ends(k.handle, n, "O_WRONLY") \in Nat
  BY SideFinite, Zenon
<1>4. k.node[n].open_count = Ends(k.handle, n, "O_RDONLY") + Ends(k.handle, n, "O_WRONLY")
  BY <1>1, Zenon DEF Good, NodesExact
<1>5. n \in Pipe => /\ k.node[n].read_ref_count = Ends(k.handle, n, "O_RDONLY")
                    /\ k.node[n].write_ref_count = Ends(k.handle, n, "O_WRONLY")
                    /\ k.node[n].released => k.node[n].open_count = 0
  BY DEF Good, NodesExact
<1>6. k.handle[h].refcount = c[h] /\ c[h] > 0
  BY DEF Good, HandlesExact
<1> HIDE DEF n, m
<1>7. k.node[n].open_count > 0
  BY <1>1, <1>2, <1>3, <1>4, SMTT(60) DEF Modes
<1>8. n \in Pipe => ~k.node[n].released
  BY <1>5, <1>7, SMTT(60)
<1>9. /\ n \in Pipe /\ m = "O_RDONLY" => k.node[n].read_ref_count > 0
      /\ n \in Pipe /\ m = "O_WRONLY" => k.node[n].write_ref_count > 0
  BY <1>2, <1>5, Zenon
<1> QED
  BY <1>1, <1>6, <1>7, <1>8, <1>9, Zenon DEF n, m

\* A change of reference counts that follows d keeps the tables exact.
Recounted(a, b, n) ==
    Alike(a, b) /\ a.id = b.id /\ IF b.live THEN a.refcount = n /\ n > 0 ELSE n = 0

\* Tables in which only the counts of references follow the descriptors are exact again.
LEMMA RefcountGood ==
    ASSUME NEW k, NEW c, NEW d, NEW x, Good(k, c), IsTables(x),
           x.handle \in [Handle -> HandleRecord],
           \A g \in Handle : Recounted(x.handle[g], k.handle[g], d[g]),
           x.used = k.used, x.made = k.made, x.node = k.node, x.state \in [Task -> State],
           x.file_handles = k.file_handles, x.file_handles_open_count = k.file_handles_open_count
    PROVE  Good(x, d)
<1>1. /\ k.used \in 0..MaxHandle /\ k.made \in 0..MaxPipe
      /\ k.file_handles \in Seq(Handle \cup {NULL}) /\ k.file_handles_open_count \in Nat
      /\ k.node \in [Node -> NodeRecord]
  BY KernelFields, Zenon DEF Good
<1>2. x \in Kernel
  BY <1>1, InKernel, Zenon
<1>3. HandlesExact(x, d)
  BY Zenon DEF HandlesExact, Good, Recounted, Alike
<1>4. SlotsExact(x)
  <2>1. \A i \in Full(k.file_handles) : k.file_handles[i] \in Handle
    BY <1>1, ElementOfSeq, SMTT(60) DEF Full
  <2> QED
    BY <2>1, SMTT(60) DEF SlotsExact, Good, Recounted, Alike
<1>5. NodesExact(x)
  <2>1. \A n, m : Ends(x.handle, n, m) = Ends(k.handle, n, m)
    <3> DEFINE H == k.handle
               G == x.handle
    <3>1. \A g \in Handle : Alike(G[g], H[g])
      BY Zenon DEF Recounted
    <3> HIDE DEF G, H
    <3>2. \A n, m : Ends(G, n, m) = Ends(H, n, m)
      BY <3>1, EndsSame, SMTT(60)
    <3> QED
      BY <3>2, Zenon DEF G, H
  <2> QED
    BY <2>1, SMTT(60) DEF NodesExact, Good
<1> QED
  BY <1>2, <1>3, <1>4, <1>5, Zenon DEF Good

\* vfs_bump_refcount keeps the tables exact.
LEMMA BumpGood ==
    ASSUME NEW k, NEW c, NEW d, Good(k, c), NEW h \in Handle, k.handle[h].live,
           d[h] = c[h] + 1, \A g \in Handle : g # h => d[g] = c[g]
    PROVE  LET x == vfs_bump_refcount(k, h) IN
           /\ Good(x, d) /\ x.state = k.state /\ x.node = k.node /\ x.made = k.made /\ x.used = k.used
           /\ \A g \in Handle : Alike(x.handle[g], k.handle[g])
<1> DEFINE x == vfs_bump_refcount(k, h)
<1>1. k \in Kernel /\ k.handle \in [Handle -> HandleRecord] /\ k.state \in [Task -> State]
  BY KernelFields, Zenon DEF Good
<1>2. x = [k EXCEPT !.handle[h].refcount = @ + 1]
  BY Bounds, Zenon DEF vfs_bump_refcount
<1> HIDE DEF x
<1>3. /\ IsTables(x) /\ x.handle = [k.handle EXCEPT ![h].refcount = @ + 1]
      /\ x.used = k.used /\ x.made = k.made /\ x.node = k.node /\ x.state = k.state
      /\ x.file_handles = k.file_handles /\ x.file_handles_open_count = k.file_handles_open_count
  BY <1>1, <1>2, Zenon DEF Kernel, IsTables, Fields
<1>4. k.handle[h] \in HandleRecord /\ k.handle[h].refcount = c[h] /\ c[h] > 0 /\ k.handle[h].refcount \in Int
  BY OpenHandle, SMTT(60) DEF HandleRecord
<1>5. /\ x.handle \in [Handle -> HandleRecord] /\ x.handle[h] = [k.handle[h] EXCEPT !.refcount = @ + 1]
      /\ \A g \in Handle : g # h => x.handle[g] = k.handle[g]
  <2>1. [k.handle[h] EXCEPT !.refcount = @ + 1] \in HandleRecord
    BY <1>4, SMTT(60) DEF HandleRecord
  <2> QED
    BY <1>1, <1>3, <2>1, SMTT(60)
<1>6. Recounted(x.handle[h], k.handle[h], d[h])
  <2> DEFINE a == x.handle[h]
             b == k.handle[h]
  <2>1. a = [b EXCEPT !.refcount = @ + 1] /\ b \in HandleRecord /\ b.refcount = c[h] /\ c[h] > 0 /\ c[h] \in Int
    BY <1>4, <1>5
  <2> HIDE DEF a, b
  <2>2. a.live = b.live /\ a.node = b.node /\ a.mode = b.mode /\ a.id = b.id /\ a.refcount = b.refcount + 1
    BY <2>1 DEF HandleRecord
  <2>3. a.refcount = d[h] /\ d[h] > 0
    BY <2>1, <2>2, SMTT(60)
  <2>4. Recounted(a, b, d[h]) <=> Recounted(x.handle[h], k.handle[h], d[h])
    BY Zenon DEF a, b
  <2>5. b.live
    BY Zenon DEF b
  <2> QED
    BY <2>2, <2>3, <2>4, <2>5, Zenon DEF Recounted, Alike
<1>7. \A g \in Handle : Recounted(x.handle[g], k.handle[g], d[g])
  <2>1. ASSUME NEW g \in Handle, g # h
        PROVE  Recounted(x.handle[g], k.handle[g], d[g])
    BY <1>5, <2>1, Zenon DEF Good, HandlesExact, Recounted, Alike
  <2> QED
    BY <1>6, <2>1, Zenon
<1>8. Good(x, d)
  BY <1>1, <1>3, <1>5, <1>7, RefcountGood, Zenon
<1> QED
  BY <1>3, <1>7, <1>8, Zenon DEF x, Recounted

============================================================================
