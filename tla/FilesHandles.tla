---------------------------- MODULE FilesHandles ----------------------------
(***************************************************************************)
(* Closing a handle keeps the tables exact (Good), one more or one fewer   *)
(* descriptor of a task keeps the whole invariant, and so do the calls     *)
(* that open: sys_open and pipe_create.                                    *)
(***************************************************************************)
EXTENDS FilesCounts

USE Zenon

\* Waking the first waiter of a node leaves every task in a state.
LEMMA WokenStateType ==
    ASSUME NEW k, k.state \in [Task -> State], k.node \in [Node -> NodeRecord], NEW p \in Node
    PROVE  WokenState(k, p) \in [Task -> State]
<1>1. CASE k.node[p].waiters = <<>>
  BY <1>1 DEF WokenState
<1>2. CASE k.node[p].waiters # <<>>
  <2> DEFINE t == Head(k.node[p].waiters)
  <2>1. WokenState(k, p) = [k.state EXCEPT ![t] = "WOKEN"]
    BY <1>2, SMTT(60) DEF WokenState
  <2> HIDE DEF t
  <2> QED
    BY <2>1 DEF State
<1> QED
  BY <1>1, <1>2

\* The handle's references are one fewer, and it is closed with the last of them.
CloseOf(k, h, c, x) == IF c[h] = 1 THEN ClosedHandle(k, h, x) ELSE Unreferenced(k, h, x)

\* vfs_close keeps the tables exact.
LEMMA CloseGood ==
    ASSUME NEW k, NEW c, NEW d, Good(k, c), NEW h \in Handle, k.handle[h].live, c[h] \in Nat,
           d[h] = c[h] - 1, \A g \in Handle : g # h => d[g] = c[g]
    PROVE  Good(vfs_close(k, h), d) /\ CloseOf(k, h, c, vfs_close(k, h))
<1> DEFINE x == vfs_close(k, h)
           n == k.handle[h].node
           m == k.handle[h].mode
<1>1. /\ k \in Kernel /\ HandlesExact(k, c) /\ SlotsExact(k) /\ NodesExact(k)
      /\ k.handle \in [Handle -> HandleRecord] /\ k.used \in 0..MaxHandle /\ k.made \in 0..MaxPipe
      /\ k.file_handles \in Seq(Handle \cup {NULL}) /\ k.file_handles_open_count \in Nat
      /\ k.node \in [Node -> NodeRecord] /\ k.state \in [Task -> State]
  BY KernelFields DEF Good
<1>2. /\ k.handle[h] \in HandleRecord /\ n \in Node /\ m \in Modes /\ k.node[n].open_count > 0
      /\ n \in Pipe /\ m = "O_RDONLY" => k.node[n].read_ref_count > 0
      /\ n \in Pipe /\ m = "O_WRONLY" => k.node[n].write_ref_count > 0
      /\ n \in Pipe => ~k.node[n].released
      /\ k.handle[h].refcount = c[h] /\ c[h] > 0
  BY OpenHandle, SMTT(60)
<1>3. /\ c[h] # 1 => Unreferenced(k, h, x)
      /\ c[h] = 1 => ClosedHandle(k, h, x)
  BY <1>1, <1>2, CloseEffect
<1> HIDE DEF x
<1>4. CASE c[h] # 1
  <2>1. /\ IsTables(x) /\ x.handle = [k.handle EXCEPT ![h].refcount = @ - 1]
        /\ x.used = k.used /\ x.made = k.made /\ x.node = k.node /\ x.state = k.state
        /\ x.file_handles = k.file_handles /\ x.file_handles_open_count = k.file_handles_open_count
    BY <1>3, <1>4 DEF Unreferenced
  <2> DEFINE b == k.handle[h]
             a == [b EXCEPT !.refcount = @ - 1]
  <2>2. a \in HandleRecord /\ Recounted(a, b, d[h])
    <3>1. b \in HandleRecord /\ b.live /\ b.refcount = c[h]
      BY <1>2
    <3> HIDE DEF b
    <3>2. a.live = b.live /\ a.node = b.node /\ a.mode = b.mode /\ a.id = b.id /\ a.refcount = c[h] - 1
      BY <3>1 DEF HandleRecord
    <3>3. a \in HandleRecord
      BY <3>1, SMTT(60) DEF HandleRecord
    <3>4. a.refcount = d[h] /\ d[h] > 0
      BY <1>2, <1>4, <3>2, SMTT(60)
    <3> HIDE DEF a
    <3> QED
      BY <3>1, <3>2, <3>3, <3>4 DEF Recounted, Alike
  <2>3. /\ x.handle \in [Handle -> HandleRecord] /\ x.handle[h] = a
        /\ \A g \in Handle : g # h => x.handle[g] = k.handle[g]
    BY <1>1, <2>1, <2>2, SMTT(60)
  <2>4. \A g \in Handle : Recounted(x.handle[g], k.handle[g], d[g])
    <3>1. ASSUME NEW g \in Handle, g # h
          PROVE  Recounted(x.handle[g], k.handle[g], d[g])
      BY <1>1, <2>3, <3>1 DEF HandlesExact, Recounted, Alike
    <3> HIDE DEF a
    <3> QED
      BY <2>2, <2>3, <3>1
  <2>5. Good(x, d)
    BY <1>1, <2>1, <2>3, <2>4, RefcountGood
  <2> QED
    BY <1>3, <1>4, <2>5 DEF CloseOf, x
<1>5. CASE c[h] = 1
  <2> DEFINE i0 == k.handle[h].id
             z == ClosedNode(k, h)
  <2>1. /\ IsTables(x) /\ x.handle = [k.handle EXCEPT ![h] = NoHandle]
        /\ x.used = k.used /\ x.made = k.made
        /\ x.file_handles = [k.file_handles EXCEPT ![i0] = NULL]
        /\ x.file_handles_open_count = k.file_handles_open_count - 1
        /\ x.node = [k.node EXCEPT ![n] = z]
        /\ x.state \in {WokenState(k, n), k.state}
    BY <1>3, <1>5, SMTT(60) DEF ClosedHandle
  <2>2. i0 \in DOMAIN k.file_handles /\ k.file_handles[i0] = h
    BY <1>1 DEF SlotsExact
  <2>3. /\ NoHandle \in HandleRecord /\ ~NoHandle.live
    BY Bounds, SMTT(60) DEF NoHandle, HandleRecord
  <2>4. /\ x.handle \in [Handle -> HandleRecord] /\ ~x.handle[h].live
        /\ \A g \in Handle : g # h => x.handle[g] = k.handle[g]
    BY <1>1, <2>1, <2>3, SMTT(60)
  <2>5. /\ z \in NodeRecord /\ z.open_count = k.node[n].open_count - 1
        /\ n \in Pipe => /\ z.read_ref_count = k.node[n].read_ref_count - (IF m = "O_RDONLY" THEN 1 ELSE 0)
                         /\ z.write_ref_count = k.node[n].write_ref_count - (IF m = "O_WRONLY" THEN 1 ELSE 0)
                         /\ z.released <=> z.open_count = 0
    <3> DEFINE r == k.node[n]
               a == r.read_ref_count - (IF n \in Pipe /\ m = "O_RDONLY" THEN 1 ELSE 0)
               b == r.write_ref_count - (IF n \in Pipe /\ m = "O_WRONLY" THEN 1 ELSE 0)
               sz == IF n \in Pipe /\ r.open_count = 1 THEN 0 ELSE r.size
               rel == IF n \in Pipe /\ r.open_count = 1 THEN TRUE ELSE r.released
    <3>1. z = [open_count |-> r.open_count - 1, read_ref_count |-> a, write_ref_count |-> b,
               size |-> sz, waiters |-> r.waiters, released |-> rel]
      BY DEF ClosedNode
    <3>2. r \in NodeRecord
      BY <1>1, <1>2
    <3>3. /\ r.open_count \in Nat /\ r.open_count > 0 /\ r.read_ref_count \in Nat /\ r.write_ref_count \in Nat
          /\ r.size \in 0..PIPE_BUF_SIZE /\ r.waiters \in Seq(Task) /\ r.released \in BOOLEAN
      BY <1>2, <3>2 DEF NodeRecord
    <3>4. /\ n \in Pipe /\ m = "O_RDONLY" => r.read_ref_count > 0
          /\ n \in Pipe /\ m = "O_WRONLY" => r.write_ref_count > 0
          /\ n \in Pipe => ~r.released
      BY <1>2
    <3> HIDE DEF r, n, m, z
    <3>5. /\ a \in Nat /\ b \in Nat /\ r.open_count - 1 \in Nat /\ sz \in 0..PIPE_BUF_SIZE
          /\ n \in Pipe => /\ a = r.read_ref_count - (IF m = "O_RDONLY" THEN 1 ELSE 0)
                           /\ b = r.write_ref_count - (IF m = "O_WRONLY" THEN 1 ELSE 0)
      <4>1. a \in Nat
        BY <3>3, <3>4, SMTT(60)
      <4>2. b \in Nat
        BY <3>3, <3>4, SMTT(60)
      <4>3. sz \in 0..PIPE_BUF_SIZE
        BY <3>3, Bounds, SMTT(60)
      <4>4. r.open_count - 1 \in Nat
        BY <3>3, SMTT(60)
      <4>5. n \in Pipe => /\ a = r.read_ref_count - (IF m = "O_RDONLY" THEN 1 ELSE 0)
                          /\ b = r.write_ref_count - (IF m = "O_WRONLY" THEN 1 ELSE 0)
        OBVIOUS
      <4> QED
        BY <4>1, <4>2, <4>3, <4>4, <4>5
    <3>6. rel \in BOOLEAN /\ (n \in Pipe => (rel <=> r.open_count - 1 = 0))
      <4>1. CASE n \in Pipe /\ r.open_count = 1
        <5>1. rel = TRUE
          BY <4>1, SMTT(60)
        <5> QED
          BY <4>1, <5>1, SMTT(60)
      <4>2. CASE ~(n \in Pipe /\ r.open_count = 1)
        <5>1. rel = r.released
          BY <4>2
        <5>2. n \in Pipe => r.open_count - 1 # 0
          BY <3>3, <4>2, SMTT(60)
        <5> QED
          BY <3>3, <3>4, <5>1, <5>2
      <4> QED
        BY <4>1, <4>2
    <3> HIDE DEF a, b, sz, rel
    <3>7. z \in NodeRecord
      BY <3>1, <3>3, <3>5, <3>6 DEF NodeRecord
    <3>8. z.open_count = r.open_count - 1 /\ z.read_ref_count = a /\ z.write_ref_count = b /\ z.released = rel
      BY <3>1
    <3> QED
      BY <3>5, <3>6, <3>7, <3>8 DEF r
  <2> HIDE DEF z
  <2>6. /\ x.node \in [Node -> NodeRecord] /\ x.node[n] = z
        /\ \A p \in Node : p # n => x.node[p] = k.node[p]
    <3>1. x.node = [k.node EXCEPT ![n] = z] /\ z \in NodeRecord /\ n \in Node
      BY <1>2, <2>1, <2>5
    <3> HIDE DEF n
    <3> QED
      BY <1>1, <3>1
  <2>7. /\ x.file_handles \in Seq(Handle \cup {NULL}) /\ Len(x.file_handles) = Len(k.file_handles)
        /\ DOMAIN x.file_handles = DOMAIN k.file_handles /\ x.file_handles[i0] = NULL
        /\ \A i \in DOMAIN k.file_handles : i # i0 => x.file_handles[i] = k.file_handles[i]
    <3>1. /\ [k.file_handles EXCEPT ![i0] = NULL] \in Seq(Handle \cup {NULL})
          /\ Len([k.file_handles EXCEPT ![i0] = NULL]) = Len(k.file_handles)
      BY <1>1, <2>2, ExceptSeq, SMTT(60)
    <3> QED
      BY <1>1, <2>1, <2>2, <3>1, SMTT(60)
  <2> HIDE DEF i0
  <2>8. /\ Full(x.file_handles) = Full(k.file_handles) \ {i0} /\ i0 \in Full(k.file_handles)
    BY <2>2, <2>7, Bounds, SMTT(60) DEF Full
  <2>9. /\ IsFiniteSet(Full(k.file_handles)) /\ Cardinality(Full(x.file_handles)) \in Nat
        /\ Cardinality(Full(x.file_handles)) = Cardinality(Full(k.file_handles)) - 1
    <3>1. IsFiniteSet(Full(k.file_handles))
      <4>1. PICK l \in Nat : DOMAIN k.file_handles = 1..l
        BY <1>1, LenProperties
      <4>2. IsFiniteSet(1..l) /\ Full(k.file_handles) \in SUBSET (1..l)
        BY <4>1, FS_Interval, SMTT(60) DEF Full
      <4> QED
        BY <4>2, FS_Subset
    <3>2. IsFiniteSet(Full(x.file_handles))
          /\ Cardinality(Full(x.file_handles)) = Cardinality(Full(k.file_handles)) - 1
      BY <2>8, <3>1, FS_RemoveElement, SMTT(60)
    <3> QED
      BY <3>1, <3>2, FS_CardinalityType
  <2>10. /\ x.file_handles_open_count = Cardinality(Full(x.file_handles))
         /\ x.file_handles_open_count <= x.used /\ x.file_handles_open_count \in Nat
    BY <1>1, <2>1, <2>9, SMTT(60) DEF SlotsExact
  <2>11. x.state \in [Task -> State]
    BY <1>1, <1>2, <2>1, WokenStateType, SMTT(60)
  <2>12. x \in Kernel
    BY <1>1, <2>1, <2>4, <2>6, <2>7, <2>10, <2>11, InKernel
  <2>13. HandlesExact(x, d)
    BY <1>1, <1>5, <2>1, <2>4, SMTT(60) DEF HandlesExact
  <2>14. SlotsExact(x)
    <3>1. ASSUME NEW g \in Handle, x.handle[g].live
          PROVE  x.handle[g].id \in DOMAIN x.file_handles /\ x.file_handles[x.handle[g].id] = g
      <4>1. g # h /\ x.handle[g] = k.handle[g]
        BY <2>4, <3>1
      <4>2. k.handle[g].id \in DOMAIN k.file_handles /\ k.file_handles[k.handle[g].id] = g
        BY <1>1, <3>1, <4>1 DEF SlotsExact
      <4>3. k.handle[g].id # i0
        BY <2>2, <4>1, <4>2
      <4> QED
        BY <2>7, <4>1, <4>2, <4>3
    <3>2. ASSUME NEW i \in Full(x.file_handles)
          PROVE  x.handle[x.file_handles[i]].live /\ x.handle[x.file_handles[i]].id = i
      <4>1. i \in Full(k.file_handles) /\ i # i0 /\ i \in DOMAIN k.file_handles
        BY <2>8, <3>2 DEF Full
      <4> DEFINE g == k.file_handles[i]
      <4>2. g \in Handle /\ k.handle[g].live /\ k.handle[g].id = i
        BY <1>1, <4>1, ElementOfSeq, SMTT(60) DEF SlotsExact, Full
      <4>3. g # h
        BY <4>1, <4>2 DEF i0
      <4> QED
        BY <2>4, <2>7, <4>1, <4>2, <4>3, SMTT(60)
    <3> QED
      BY <1>1, <2>7, <2>10, <3>1, <3>2 DEF SlotsExact
  <2>15. NodesExact(x)
    <3>1. \A p, q : Ends(k.handle, p, q) = Ends(x.handle, p, q) + (IF p = n /\ q = m THEN 1 ELSE 0)
      <4> DEFINE H == x.handle
                 G == k.handle
      <4>1. /\ G[h].live /\ ~H[h].live
            /\ \A g \in Handle : g # h => G[g].live = H[g].live /\ G[g].node = H[g].node /\ G[g].mode = H[g].mode
        BY <2>4
      <4>2. n = G[h].node /\ m = G[h].mode
        OBVIOUS
      <4> HIDE DEF G, H, n, m
      <4>3. \A p, q : Ends(G, p, q) = Ends(H, p, q) + (IF p = G[h].node /\ q = G[h].mode THEN 1 ELSE 0)
        BY <4>1, EndsAdd, SMTT(60)
      <4> QED
        BY <4>2, <4>3 DEF G, H
    <3>2. \A p, q : Ends(x.handle, p, q) \in Nat
      BY SideFinite
    <3> HIDE DEF n, m
    <3>3. ASSUME NEW p \in Node
          PROVE  x.node[p].open_count = Ends(x.handle, p, "O_RDONLY") + Ends(x.handle, p, "O_WRONLY")
      <4>1. k.node[p].open_count = Ends(k.handle, p, "O_RDONLY") + Ends(k.handle, p, "O_WRONLY")
        BY <1>1 DEF NodesExact
      <4>2. Ends(x.handle, p, "O_RDONLY") \in Nat /\ Ends(x.handle, p, "O_WRONLY") \in Nat
        BY <3>2
      <4>3. /\ Ends(k.handle, p, "O_RDONLY") = Ends(x.handle, p, "O_RDONLY")
                  + (IF p = n /\ "O_RDONLY" = m THEN 1 ELSE 0)
            /\ Ends(k.handle, p, "O_WRONLY") = Ends(x.handle, p, "O_WRONLY")
                  + (IF p = n /\ "O_WRONLY" = m THEN 1 ELSE 0)
        BY <3>1
      <4>4. x.node[p].open_count = k.node[p].open_count - (IF p = n THEN 1 ELSE 0)
        <5>1. k.node[p].open_count \in Nat
          BY <1>1 DEF NodeRecord
        <5> QED
          BY <2>5, <2>6, <5>1, SMTT(60)
      <4> QED
        BY <1>2, <4>1, <4>2, <4>3, <4>4, SMTT(60) DEF Modes
    <3>4. ASSUME NEW p \in Pipe
          PROVE  /\ x.node[p].read_ref_count = Ends(x.handle, p, "O_RDONLY")
                 /\ x.node[p].write_ref_count = Ends(x.handle, p, "O_WRONLY")
                 /\ x.node[p].released => x.node[p].open_count = 0
                 /\ x.node[p].open_count = 0 /\ p <= x.made => x.node[p].released
      <4>1. /\ k.node[p].read_ref_count = Ends(k.handle, p, "O_RDONLY")
            /\ k.node[p].write_ref_count = Ends(k.handle, p, "O_WRONLY")
            /\ k.node[p].released => k.node[p].open_count = 0
            /\ k.node[p].open_count = 0 /\ p <= k.made => k.node[p].released
        BY <1>1 DEF NodesExact
      <4>2. p \in Node
        BY Bounds
      <4>3. Ends(x.handle, p, "O_RDONLY") \in Nat /\ Ends(x.handle, p, "O_WRONLY") \in Nat
        BY <3>2, SMTT(60)
      <4>4. /\ Ends(k.handle, p, "O_RDONLY") = Ends(x.handle, p, "O_RDONLY")
                  + (IF p = n /\ "O_RDONLY" = m THEN 1 ELSE 0)
            /\ Ends(k.handle, p, "O_WRONLY") = Ends(x.handle, p, "O_WRONLY")
                  + (IF p = n /\ "O_WRONLY" = m THEN 1 ELSE 0)
        BY <3>1, SMTT(60)
      <4>5. CASE p = n
        <5>1. x.node[p].read_ref_count = k.node[p].read_ref_count - (IF m = "O_RDONLY" THEN 1 ELSE 0)
              /\ x.node[p].write_ref_count = k.node[p].write_ref_count - (IF m = "O_WRONLY" THEN 1 ELSE 0)
              /\ (x.node[p].released <=> x.node[p].open_count = 0)
          BY <2>5, <2>6, <4>5
        <5>2. x.node[p].read_ref_count = Ends(x.handle, p, "O_RDONLY")
          BY <4>1, <4>3, <4>4, <4>5, <5>1, SMTT(60)
        <5>3. x.node[p].write_ref_count = Ends(x.handle, p, "O_WRONLY")
          BY <4>1, <4>3, <4>4, <4>5, <5>1, SMTT(60)
        <5> QED
          BY <5>1, <5>2, <5>3
      <4>6. CASE p # n
        BY <2>1, <2>6, <4>1, <4>2, <4>3, <4>4, <4>6, SMTT(60)
      <4> QED
        BY <4>5, <4>6
    <3> QED
      BY <3>3, <3>4 DEF NodesExact
  <2>16. Good(x, d)
    BY <2>12, <2>13, <2>14, <2>15 DEF Good
  <2> QED
    BY <1>3, <1>5, <2>16, SMTT(60) DEF CloseOf, x
<1> QED
  BY <1>4, <1>5, SMTT(60)

----------------------------------------------------------------------------
\* task_add_fd changes the table in one place, which was closed or new.
LEMMA AddFd ==
    ASSUME NEW table \in Seq(Descriptors), NEW h \in Handle
    PROVE  LET a == AddedAt(table)
               y == task_add_fd(table, h)
           IN  /\ y \in Seq(Descriptors) /\ a \in Nat /\ a > 0 /\ a \in DOMAIN y /\ y[a].file = h
               /\ a \in DOMAIN table => table[a].file = NULL
               /\ \A j \in Nat : j # a => /\ j \in DOMAIN y <=> j \in DOMAIN table
                                          /\ j \in DOMAIN table => y[j] = table[j]
               /\ Len(y) = Len(table) \/ Len(y) = a
<1> DEFINE a == AddedAt(table)
           y == task_add_fd(table, h)
<1>1. PICK n \in Nat : n = Len(table) /\ DOMAIN table = 1..n
  BY LenProperties
<1>2. \A i \in 1..n : table[i] \in Descriptors
  BY <1>1, ElementOfSeq
<1>3. CASE Closed(table) = {}
  <2> DEFINE m == Max({d.identifier : d \in Range(table)} \cup {-1}) + 1
             e == [identifier |-> m, file |-> h]
  <2>1. m \in Nat
    BY MaxIdentifier
  <2>2. a = n + 1 /\ y = Append(table, e)
    BY <1>1, <1>3, SMTT(60) DEF AddedAt, task_add_fd
  <2> HIDE DEF m
  <2>3. e \in Descriptors /\ e.file = h
    BY <2>1, SMTT(60) DEF Descriptors
  <2> HIDE DEF e, y
  <2>4. /\ y \in Seq(Descriptors) /\ Len(y) = n + 1 /\ y[n + 1] = e
        /\ \A i \in 1..n : y[i] = table[i]
    BY <1>1, <2>2, <2>3, AppendProperties, SMTT(60)
  <2>5. DOMAIN y = 1..(n + 1)
    BY <2>4, LenProperties
  <2> HIDE DEF a
  <2> QED
    BY <1>1, <2>2, <2>3, <2>4, <2>5, SMTT(60) DEF a, y
<1>4. CASE Closed(table) # {}
  <2>1. Closed(table) \in SUBSET Nat /\ \A i \in Closed(table) : i \in 1..n /\ table[i].file = NULL
    BY <1>1, SMTT(60) DEF Closed
  <2>2. Min(Closed(table)) \in Closed(table)
    BY <1>4, <2>1, MinOfNats
  <2>3. a = Min(Closed(table)) /\ y = [table EXCEPT ![a].file = h]
    BY <1>4 DEF AddedAt, task_add_fd
  <2> HIDE DEF a, y
  <2>4. a \in 1..n /\ table[a].file = NULL /\ table[a] \in Descriptors
    BY <1>2, <2>1, <2>2, <2>3, SMTT(60)
  <2> DEFINE e == [table[a] EXCEPT !.file = h]
  <2>5. e \in Descriptors /\ e.file = h
    BY <2>4, SMTT(60) DEF Descriptors
  <2>6. y = [table EXCEPT ![a] = e]
    BY <2>3, SMTT(60)
  <2> HIDE DEF e
  <2>7. y \in Seq(Descriptors) /\ Len(y) = n
    BY <1>1, <2>4, <2>5, <2>6, ExceptSeq, SMTT(60)
  <2>8. DOMAIN y = 1..n /\ y[a] = e /\ \A j \in 1..n : j # a => y[j] = table[j]
    BY <1>1, <2>4, <2>6
  <2> QED
    BY <1>1, <2>4, <2>5, <2>7, <2>8, SMTT(60) DEF a, y
<1> QED
  BY <1>3, <1>4

\* One descriptor more that points to h, and one fewer.
LEMMA PointMore ==
    ASSUME NEW f, NEW g, NEW t \in Task, NEW i \in 1..MaxFd, OneDescriptor(f, g, t, i),
           NEW h \in Handle, At(g, t, i, h), \A e \in Handle : ~At(f, t, i, e)
    PROVE  /\ References(f)[h] \in Nat /\ References(g)[h] = References(f)[h] + 1
           /\ \A e \in Handle : e # h => References(g)[e] = References(f)[e]
<1>1. \A e \in Handle : e # h => ~At(g, t, i, e)
  BY DEF At
<1>2. ASSUME NEW e \in Handle
      PROVE  /\ References(f)[e] \in Nat /\ References(g)[e] \in Nat
             /\ References(g)[e] = References(f)[e] + (IF At(g, t, i, e) THEN 1 ELSE 0)
                                                    - (IF At(f, t, i, e) THEN 1 ELSE 0)
  BY Repointed
<1> QED
  BY <1>1, <1>2, SMTT(60)

\* One descriptor fewer points to h, and every other handle has as many as before.
LEMMA PointLess ==
    ASSUME NEW f, NEW g, NEW t \in Task, NEW i \in 1..MaxFd, OneDescriptor(f, g, t, i),
           NEW h \in Handle, At(f, t, i, h), \A e \in Handle : ~At(g, t, i, e)
    PROVE  /\ References(f)[h] \in Nat /\ References(g)[h] = References(f)[h] - 1
           /\ \A e \in Handle : e # h => References(g)[e] = References(f)[e]
<1>1. \A e \in Handle : e # h => ~At(f, t, i, e)
  BY DEF At
<1>2. ASSUME NEW e \in Handle
      PROVE  /\ References(f)[e] \in Nat /\ References(g)[e] \in Nat
             /\ References(g)[e] = References(f)[e] + (IF At(g, t, i, e) THEN 1 ELSE 0)
                                                    - (IF At(f, t, i, e) THEN 1 ELSE 0)
  BY Repointed, SMTT(60)
<1> QED
  BY <1>1, <1>2, SMTT(60)

\* A descriptor table with a handle added.
Added(f, t, h) == [f EXCEPT ![t] = task_add_fd(@, h)]

\* task_add_fd changes one descriptor, which pointed nowhere, and points it to h.
LEMMA AddedIs ==
    ASSUME NEW f \in Tables, NEW t \in Task, NEW h \in Handle, AddedAt(f[t]) <= MaxFd, Len(f[t]) <= MaxFd
    PROVE  LET g == Added(f, t, h)
               i == AddedAt(f[t])
           IN  /\ g \in Tables /\ i \in 1..MaxFd /\ At(g, t, i, h) /\ OneDescriptor(f, g, t, i)
               /\ \A e \in Handle : ~At(f, t, i, e)
               /\ \A u \in Task : u # t => g[u] = f[u]
               /\ g[t] = task_add_fd(f[t], h) /\ Len(g[t]) <= MaxFd
<1> DEFINE i == AddedAt(f[t])
           y == task_add_fd(f[t], h)
           g == Added(f, t, h)
<1>1. f[t] \in Seq(Descriptors)
  BY DEF Tables
<1>2. /\ y \in Seq(Descriptors) /\ i \in Nat /\ i > 0 /\ i \in DOMAIN y /\ y[i].file = h
      /\ i \in DOMAIN f[t] => f[t][i].file = NULL
      /\ \A j \in Nat : j # i => /\ j \in DOMAIN y <=> j \in DOMAIN f[t]
                                 /\ j \in DOMAIN f[t] => y[j] = f[t][j]
      /\ Len(y) = Len(f[t]) \/ Len(y) = i
  BY <1>1, AddFd
<1> HIDE DEF y, i
<1>3. g \in Tables /\ g[t] = y /\ \A u \in Task : u # t => g[u] = f[u]
  BY <1>2, SMTT(60) DEF Tables, Added, y
<1> HIDE DEF g
<1>4. i \in 1..MaxFd
  BY <1>2, Bounds, SMTT(60) DEF i
<1>5. At(g, t, i, h) /\ \A e \in Handle : ~At(f, t, i, e)
  BY <1>2, <1>3, Bounds DEF At
<1>6. OneDescriptor(f, g, t, i)
  BY <1>2, <1>3, SMTT(60) DEF OneDescriptor, At
<1>7. Len(y) <= MaxFd
  BY <1>2 DEF i
<1> QED
  BY <1>3, <1>4, <1>5, <1>6, <1>7 DEF g, y, i

\* The tables after descriptor i of task t was pointed to h, or to nothing.
Pointed(f, t, i, h) == [f EXCEPT ![t][i].file = h]

\* Pointing one descriptor elsewhere changes no other descriptor.
LEMMA PointedIs ==
    ASSUME NEW f \in Tables, NEW t \in Task, NEW i \in DOMAIN f[t], NEW h \in Handle \cup {NULL},
           Len(f[t]) <= MaxFd
    PROVE  LET g == Pointed(f, t, i, h)
           IN  /\ g \in Tables /\ i \in 1..MaxFd /\ OneDescriptor(f, g, t, i)
               /\ \A e : At(g, t, i, e) <=> e = h
               /\ \A u \in Task : u # t => g[u] = f[u]
               /\ DOMAIN g[t] = DOMAIN f[t] /\ Len(g[t]) <= MaxFd
               /\ \A j \in DOMAIN f[t] : j # i => g[t][j] = f[t][j]
<1> DEFINE g == Pointed(f, t, i, h)
           e0 == [f[t][i] EXCEPT !.file = h]
           y == [f[t] EXCEPT ![i] = e0]
<1>1. f[t] \in Seq(Descriptors)
  BY DEF Tables
<1>2. PICK n \in Nat : n = Len(f[t]) /\ DOMAIN f[t] = 1..n
  BY <1>1, LenProperties
<1>3. f[t][i] \in Descriptors
  BY <1>1, <1>2, ElementOfSeq
<1>4. e0 \in Descriptors /\ e0.file = h /\ e0.identifier = f[t][i].identifier
  BY <1>3 DEF Descriptors
<1>5. g = [f EXCEPT ![t] = y]
  BY DEF Pointed
<1> HIDE DEF g, e0
<1>6. y \in Seq(Descriptors) /\ Len(y) = n
  BY <1>1, <1>2, <1>4, ExceptSeq, SMTT(60)
<1>7. DOMAIN y = 1..n /\ y[i] = e0 /\ \A j \in 1..n : j # i => y[j] = f[t][j]
  BY <1>1, <1>2
<1> HIDE DEF y
<1>8. g \in Tables /\ g[t] = y /\ \A u \in Task : u # t => g[u] = f[u]
  BY <1>5, <1>6 DEF Tables
<1>9. OneDescriptor(f, g, t, i)
  BY <1>2, <1>7, <1>8 DEF OneDescriptor, At
<1>10. i \in 1..MaxFd
  BY <1>2, Bounds, SMTT(60)
<1>11. \A e : At(g, t, i, e) <=> e = h
  BY <1>2, <1>4, <1>7, <1>8 DEF At
<1> QED
  BY <1>2, <1>4, <1>6, <1>7, <1>8, <1>9, <1>10, <1>11 DEF g

----------------------------------------------------------------------------
\* A descriptor in use points to an open handle.
LEMMA UsedIsOpen ==
    ASSUME NEW k, NEW f \in Tables, Good(k, References(f)), NEW t \in Task, NEW i \in DOMAIN f[t],
           Len(f[t]) <= MaxFd, f[t][i].file # NULL
    PROVE  /\ f[t][i].file \in Handle /\ k.handle[f[t][i].file].live /\ i \in 1..MaxFd
           /\ At(f, t, i, f[t][i].file)
<1>1. f[t] \in Seq(Descriptors)
  BY DEF Tables
<1>2. PICK n \in Nat : n = Len(f[t]) /\ DOMAIN f[t] = 1..n
  BY <1>1, LenProperties
<1> DEFINE h == f[t][i].file
<1>3. h \in Handle
  <2>1. f[t][i] \in Descriptors
    BY <1>1, <1>2, ElementOfSeq
  <2> QED
    BY <2>1 DEF Descriptors
<1>4. i \in 1..MaxFd /\ At(f, t, i, h)
  BY <1>2, Bounds, SMTT(60) DEF At
<1>5. References(f)[h] > 0
  BY <1>3, <1>4, ReferencedAt
<1> HIDE DEF h
<1>6. k.handle[h].live
  <2>1. References(f)[h] # 0
    <3>1. ~(0 > 0)
      BY SMTT(60)
    <3> QED
      BY <1>5, <3>1
  <2> QED
    BY <1>3, <2>1 DEF Good, HandlesExact
<1> QED
  BY <1>3, <1>4, <1>6 DEF h

Waiting == {"BLOCKED", "WOKEN", "SIGNALLED"}

\* A handle that stays open stays what it is.
Steady(k, x) ==
    \A h \in Handle : k.handle[h].live /\ x.handle[h].live =>
        x.handle[h].node = k.handle[h].node /\ x.handle[h].mode = k.handle[h].mode

\* Readers are not disturbed by a step that leaves the lists of waiters, their
\* descriptors and whether they wait.
LEMMA ReadersKept ==
    ASSUME NEW k, NEW x, NEW f \in Tables, NEW g \in Tables, NEW r \in [Task -> Pipe \cup {NULL}],
           Good(k, References(f)), Good(x, References(g)), Readers(k, f, r), Steady(k, x),
           \A t \in Task : Len(f[t]) <= MaxFd, \A t \in Task : Len(g[t]) <= MaxFd,
           \A p \in Pipe : x.node[p].waiters = k.node[p].waiters,
           \A t \in Task : x.state[t] \in Waiting <=> k.state[t] \in Waiting,
           \A t \in Task : r[t] # NULL => g[t] = f[t]
    PROVE  Readers(x, g, r)
<1>1. \A t \in Task : r[t] # NULL <=> x.state[t] \in {"BLOCKED", "WOKEN", "SIGNALLED"}
  BY DEF Readers, Waiting
<1>2. \A p \in Pipe : \A i, j \in DOMAIN x.node[p].waiters : x.node[p].waiters[i] = x.node[p].waiters[j] => i = j
  BY SMTT(60) DEF Readers
<1>3. \A p \in Pipe, t \in Task : Waits(x, p, t) <=> r[t] = p
  BY SMTT(60) DEF Readers, Waits
<1>4. ASSUME NEW t \in Task, r[t] # NULL
      PROVE  \E i \in DOMAIN g[t] : /\ g[t][i].file # NULL
                                    /\ x.handle[g[t][i].file].node = r[t]
                                    /\ x.handle[g[t][i].file].mode = "O_RDONLY"
  <2>1. PICK i \in DOMAIN f[t] : /\ f[t][i].file # NULL
                                 /\ k.handle[f[t][i].file].node = r[t]
                                 /\ k.handle[f[t][i].file].mode = "O_RDONLY"
    BY <1>4 DEF Readers
  <2>2. g[t] = f[t]
    BY <1>4
  <2> DEFINE h == f[t][i].file
  <2>3. h \in Handle /\ k.handle[h].live
    BY <2>1, UsedIsOpen
  <2>4. g[t][i].file # NULL /\ i \in DOMAIN g[t]
    BY <2>1, <2>2
  <2>5. x.handle[g[t][i].file].live
    BY <2>4, UsedIsOpen
  <2>6. x.handle[h].live
    BY <2>2, <2>5
  <2>7. x.handle[h].node = r[t] /\ x.handle[h].mode = "O_RDONLY"
    BY <2>1, <2>3, <2>6 DEF Steady
  <2> QED
    BY <2>2, <2>4, <2>7
<1> QED
  BY <1>1, <1>2, <1>3, <1>4 DEF Readers

\* A pipe that is being read is open for reading, so it has not been released.
LEMMA ReadIsOpen ==
    ASSUME NEW k, NEW f \in Tables, NEW r \in [Task -> Pipe \cup {NULL}], Good(k, References(f)),
           Readers(k, f, r), \A t \in Task : Len(f[t]) <= MaxFd, NEW t \in Task, r[t] # NULL
    PROVE  /\ r[t] \in Pipe /\ ~k.node[r[t]].released /\ k.node[r[t]].open_count > 0
           /\ k.node[r[t]].waiters \in Seq(Task)
<1>1. r[t] \in Pipe
  OBVIOUS
<1>2. PICK i \in DOMAIN f[t] : /\ f[t][i].file # NULL
                               /\ k.handle[f[t][i].file].node = r[t]
                               /\ k.handle[f[t][i].file].mode = "O_RDONLY"
  BY DEF Readers
<1> DEFINE h == f[t][i].file
<1>3. h \in Handle /\ k.handle[h].live
  BY <1>2, UsedIsOpen
<1> HIDE DEF h
<1>4. k.node[k.handle[h].node].open_count > 0 /\ (k.handle[h].node \in Pipe => ~k.node[k.handle[h].node].released)
  BY <1>3, OpenHandle
<1>5. k.handle[h].node = r[t]
  BY <1>2 DEF h
<1>6. k.node[r[t]] \in NodeRecord
  BY <1>1, KernelFields, Bounds DEF Good
<1> QED
  BY <1>1, <1>4, <1>5, <1>6 DEF NodeRecord

\* The task a wake-up reaches is one that waits.
LEMMA WokenKeeps ==
    ASSUME NEW k, NEW f, NEW r \in [Task -> Pipe \cup {NULL}], Readers(k, f, r), NEW p \in Pipe,
           k.state \in [Task -> State], k.node[p].waiters \in Seq(Task)
    PROVE  LET s == WokenState(k, p) IN
           /\ \A t \in Task : s[t] \in Waiting <=> k.state[t] \in Waiting
           /\ \A t \in Task : s[t] = k.state[t] \/ s[t] = "WOKEN"
           /\ \A t \in Task : s[t] # k.state[t] => r[t] = p
           /\ \A t \in Task : r[t] = p /\ Len(k.node[p].waiters) <= 1 => s[t] = "WOKEN"
<1> DEFINE w == k.node[p].waiters
           s == WokenState(k, p)
<1>1. CASE w = <<>>
  <2>1. s = k.state
    BY <1>1 DEF WokenState
  <2>2. \A t \in Task : r[t] # p
    <3>1. \A t \in Task : ~Waits(k, p, t)
      BY <1>1, SMTT(60) DEF Waits
    <3> QED
      BY <3>1 DEF Readers
  <2> QED
    BY <2>1, <2>2
<1>2. CASE w # <<>>
  <2>1. PICK n \in Nat : n = Len(w) /\ DOMAIN w = 1..n /\ n > 0
    BY <1>2, LenProperties, EmptySeq, SMTT(60)
  <2>2. w[1] \in Task /\ Head(w) = w[1] /\ 1 \in DOMAIN w
    BY <1>2, <2>1, ElementOfSeq, HeadTailProperties, SMTT(60)
  <2> DEFINE u == w[1]
  <2>3. s = [k.state EXCEPT ![u] = "WOKEN"]
    BY <1>2, <2>2 DEF WokenState
  <2>4. r[u] = p
    BY <2>2, SMTT(60) DEF Readers, Waits
  <2>5. k.state[u] \in Waiting
    BY <2>2, <2>4, Bounds DEF Readers, Waiting
  <2>6. s[u] = "WOKEN" /\ \A t \in Task : t # u => s[t] = k.state[t]
    BY <2>2, <2>3
  <2>7. ASSUME NEW t \in Task, r[t] = p, n <= 1
        PROVE  t = u
    <3>1. Waits(k, p, t)
      BY <2>7 DEF Readers
    <3>2. PICK i \in DOMAIN w : w[i] = t
      BY <3>1 DEF Waits
    <3>3. i = 1
      BY <2>1, <2>7, SMTT(60)
    <3> QED
      BY <3>2, <3>3
  <2> HIDE DEF u, s
  <2> QED
    BY <2>1, <2>2, <2>4, <2>5, <2>6, <2>7 DEF Waiting, s, u
<1> QED
  BY <1>1, <1>2

----------------------------------------------------------------------------
\* A step that disturbs no reader and keeps the tables exact.
Undisturbing(k, x, f, g, r, e) ==
    /\ g \in Tables /\ Good(x, References(g)) /\ Steady(k, x) /\ Fresh(x, e)
    /\ \A t \in Task : Len(g[t]) <= MaxFd
    /\ \A t \in Task : x.state[t] = "UNUSED" => g[t] = <<>>
    /\ \A p \in Pipe : x.node[p].waiters = k.node[p].waiters
    /\ \A t \in Task : x.state[t] \in Waiting <=> k.state[t] \in Waiting
    /\ \A t \in Task : r[t] # NULL => g[t] = f[t]

\* A step that does not disturb the readers keeps the invariant.
LEMMA Kept ==
    ASSUME NEW k, NEW x, NEW f, NEW g, NEW r, NEW e, Consistent(k, f, r, e), Undisturbing(k, x, f, g, r, e)
    PROVE  Consistent(x, g, r, e)
<1>1. /\ f \in Tables /\ r \in [Task -> Pipe \cup {NULL}] /\ e \subseteq Pipe /\ Good(k, References(f))
      /\ Readers(k, f, r) /\ \A t \in Task : Len(f[t]) <= MaxFd
  BY DEF Consistent, TablesFit
<1>2. Readers(x, g, r)
  BY <1>1, ReadersKept, SMTT(60) DEF Undisturbing
<1> QED
  BY <1>1, <1>2 DEF Consistent, TablesFit, Undisturbing

\* A step that changes nothing a reader waits for.
Harmless(k, x, r, e) ==
    /\ \A p \in Pipe : x.node[p].waiters = k.node[p].waiters
    /\ \A p \in Pipe : p \in e \/ (\E t \in Task : r[t] = p) =>
          x.node[p].size = k.node[p].size /\ x.node[p].write_ref_count = k.node[p].write_ref_count
    /\ \A t \in Task : x.state[t] \in Waiting \/ k.state[t] \in Waiting => x.state[t] = k.state[t]

\* A step that touches neither a task that waits nor the pipe it reads loses no wake-up.
LEMMA WakesKept ==
    ASSUME NEW k, NEW x, NEW f, NEW r, NEW e, Consistent(k, f, r, e), Wakes(k, r, e), Harmless(k, x, r, e)
    PROVE  Wakes(x, r, e)
<1>0. r \in [Task -> Pipe \cup {NULL}] /\ e \subseteq Pipe /\ Readers(k, f, r)
  BY DEF Consistent
<1>1. ASSUME NEW t \in Task, x.state[t] \in Waiting
      PROVE  /\ k.state[t] = x.state[t] /\ r[t] \in Pipe
             /\ is_buffer_ready(x, r[t]) <=> is_buffer_ready(k, r[t])
  <2>1. k.state[t] = x.state[t]
    BY <1>1 DEF Harmless
  <2>2. r[t] \in Pipe
    BY <1>0, <1>1, <2>1, SMTT(60) DEF Readers, Waiting
  <2>3. x.node[r[t]].size = k.node[r[t]].size /\ x.node[r[t]].write_ref_count = k.node[r[t]].write_ref_count
    BY <2>2 DEF Harmless
  <2> QED
    BY <2>1, <2>2, <2>3 DEF is_buffer_ready
<1>2. \A p \in Pipe : Len(x.node[p].waiters) <= 1
  BY DEF Wakes, Harmless
<1>3. \A t \in Task : x.state[t] = "BLOCKED" => ~is_buffer_ready(x, r[t])
  BY <1>1 DEF Wakes, Waiting
<1>4. \A t \in Task : x.state[t] = "WOKEN" => is_buffer_ready(x, r[t])
  BY <1>1 DEF Wakes, Waiting
<1>5. \A p \in e : x.node[p].size = 0 /\ x.node[p].write_ref_count = 0
  BY <1>0 DEF Wakes, Harmless
<1> QED
  BY <1>2, <1>3, <1>4, <1>5 DEF Wakes

\* A task goes from one state to another.
Turned(k, t, s) == [k EXCEPT !.state[t] = s]

\* A task may change its state, but not whether it waits: the invariant is kept.
LEMMA TurnKeeps ==
    ASSUME NEW k, NEW f, NEW r, NEW e, Consistent(k, f, r, e), NEW t \in Task, NEW s \in State,
           s \in Waiting <=> k.state[t] \in Waiting, s # "UNUSED"
    PROVE  LET x == Turned(k, t, s) IN
           /\ Consistent(x, f, r, e) /\ x.handle = k.handle /\ x.node = k.node
           /\ x.state[t] = s /\ \A u \in Task : u # t => x.state[u] = k.state[u]
<1> DEFINE x == Turned(k, t, s)
<1>1. Good(k, References(f)) /\ k \in Kernel
  BY DEF Consistent, Good
<1>2. /\ IsTables(x) /\ x.handle = k.handle /\ x.used = k.used /\ x.made = k.made /\ x.node = k.node
      /\ x.file_handles = k.file_handles /\ x.file_handles_open_count = k.file_handles_open_count
      /\ x.state = [k.state EXCEPT ![t] = s]
  BY <1>1 DEF Kernel, IsTables, Fields, Turned
<1> HIDE DEF x
<1>3. x.state \in [Task -> State] /\ x.state[t] = s /\ \A u \in Task : u # t => x.state[u] = k.state[u]
  BY <1>1, <1>2, KernelFields
<1>4. Good(x, References(f))
  <2>1. \A g \in Handle : Recounted(x.handle[g], k.handle[g], References(f)[g])
    BY <1>1, <1>2 DEF Recounted, Alike, Good, HandlesExact
  <2>2. x.handle \in [Handle -> HandleRecord]
    BY <1>1, <1>2, KernelFields
  <2> QED
    BY <1>1, <1>2, <1>3, <2>1, <2>2, RefcountGood
<1>5. Steady(k, x) /\ Fresh(x, e)
  BY <1>2 DEF Steady, Consistent, Fresh
<1>6. Consistent(x, f, r, e)
  <2>1. f \in Tables /\ \A u \in Task : Len(f[u]) <= MaxFd
    BY DEF Consistent, TablesFit
  <2>2. \A u \in Task : x.state[u] = "UNUSED" => f[u] = <<>>
    BY <1>3 DEF Consistent, TablesFit
  <2>3. \A u \in Task : x.state[u] \in Waiting <=> k.state[u] \in Waiting
    BY <1>3
  <2>4. Undisturbing(k, x, f, f, r, e)
    BY <1>2, <1>4, <1>5, <2>1, <2>2, <2>3 DEF Undisturbing
  <2> QED
    BY <2>4, Kept
<1> QED
  BY <1>2, <1>3, <1>6 DEF x

\* A task that does not wait may change its state: the invariant and the wake-ups are kept.
LEMMA StateChange ==
    ASSUME NEW k, NEW f, NEW r, NEW e, Consistent(k, f, r, e), NEW t \in Task, NEW s \in State \ Waiting,
           k.state[t] \notin Waiting, s # "UNUSED"
    PROVE  LET x == Turned(k, t, s) IN
           /\ Consistent(x, f, r, e) /\ (Wakes(k, r, e) => Wakes(x, r, e))
           /\ x.handle = k.handle /\ x.state[t] = s /\ \A u \in Task : u # t => x.state[u] = k.state[u]
<1> DEFINE x == Turned(k, t, s)
<1>1. /\ Consistent(x, f, r, e) /\ x.handle = k.handle /\ x.node = k.node
      /\ x.state[t] = s /\ \A u \in Task : u # t => x.state[u] = k.state[u]
  <2>1. s \in State /\ (s \in Waiting <=> k.state[t] \in Waiting)
    OBVIOUS
  <2> QED
    BY <2>1, TurnKeeps, SMTT(60)
<1> HIDE DEF x
<1>2. Wakes(k, r, e) => Wakes(x, r, e)
  <2>1. \A u \in Task : x.state[u] \in Waiting \/ k.state[u] \in Waiting => x.state[u] = k.state[u]
    BY <1>1
  <2>2. Harmless(k, x, r, e)
    BY <1>1, <2>1 DEF Harmless
  <2> QED
    BY <2>2, WakesKept
<1> QED
  BY <1>1, <1>2 DEF x

\* A signal makes a blocked reader runnable: it stays one of the readers, and what the
\* others have been woken for is still there.
LEMMA SignalStep ==
    ASSUME NEW k, NEW f, NEW r, NEW e, Consistent(k, f, r, e), NEW t \in Task, k.state[t] = "BLOCKED"
    PROVE  LET x == Turned(k, t, "SIGNALLED") IN
           Consistent(x, f, r, e) /\ (Wakes(k, r, e) => Wakes(x, r, e))
<1> DEFINE x == Turned(k, t, "SIGNALLED")
<1>1. "SIGNALLED" \in State /\ "SIGNALLED" \in Waiting /\ k.state[t] \in Waiting /\ "SIGNALLED" # "UNUSED"
  BY DEF State, Waiting
<1>2. /\ Consistent(x, f, r, e) /\ x.node = k.node
      /\ x.state[t] = "SIGNALLED" /\ \A u \in Task : u # t => x.state[u] = k.state[u]
  BY <1>1, TurnKeeps, SMTT(60)
<1> HIDE DEF x
<1>3. ASSUME Wakes(k, r, e) PROVE Wakes(x, r, e)
  <2>1. \A u \in Task : is_buffer_ready(x, r[u]) <=> is_buffer_ready(k, r[u])
    BY <1>2 DEF is_buffer_ready
  <2>2. "SIGNALLED" # "BLOCKED" /\ "SIGNALLED" # "WOKEN"
    OBVIOUS
  <2>3. \A u \in Task : x.state[u] = "BLOCKED" => ~is_buffer_ready(x, r[u])
    BY <1>2, <1>3, <2>1, <2>2 DEF Wakes
  <2>4. \A u \in Task : x.state[u] = "WOKEN" => is_buffer_ready(x, r[u])
    BY <1>2, <1>3, <2>1, <2>2 DEF Wakes
  <2> QED
    BY <1>2, <1>3, <2>3, <2>4 DEF Wakes
<1> QED
  BY <1>2, <1>3 DEF x

\* One more descriptor of a handle that is open (dup).
LEMMA BumpStep ==
    ASSUME NEW k, NEW f, NEW r, NEW e, Consistent(k, f, r, e), NEW g \in Tables,
           NEW t \in Task, r[t] = NULL, NEW i \in 1..MaxFd, OneDescriptor(f, g, t, i),
           NEW h \in Handle, k.handle[h].live, At(g, t, i, h), \A a \in Handle : ~At(f, t, i, a),
           \A u \in Task : u # t => g[u] = f[u], Len(g[t]) <= MaxFd, k.state[t] # "UNUSED"
    PROVE  LET x == vfs_bump_refcount(k, h) IN
           Consistent(x, g, r, e) /\ (Wakes(k, r, e) => Wakes(x, r, e))
<1> DEFINE x == vfs_bump_refcount(k, h)
<1>1. /\ References(f)[h] \in Nat /\ References(g)[h] = References(f)[h] + 1
      /\ \A a \in Handle : a # h => References(g)[a] = References(f)[a]
  BY PointMore, SMTT(60)
<1>2. Good(k, References(f)) /\ \A u \in Task : Len(f[u]) <= MaxFd
  BY DEF Consistent, TablesFit
<1>3. /\ Good(x, References(g)) /\ x.state = k.state /\ x.node = k.node /\ x.made = k.made /\ x.used = k.used
      /\ \A a \in Handle : Alike(x.handle[a], k.handle[a])
  BY <1>1, <1>2, BumpGood, SMTT(60)
<1> HIDE DEF x
<1>4. Steady(k, x) /\ Fresh(x, e)
  BY <1>3, SMTT(60) DEF Steady, Consistent, Fresh, Alike
<1>5. Consistent(x, g, r, e)
  <2>1. \A u \in Task : Len(g[u]) <= MaxFd
    BY <1>2
  <2>2. \A u \in Task : x.state[u] = "UNUSED" => g[u] = <<>>
    BY <1>3 DEF Consistent, TablesFit
  <2>3. \A u \in Task : r[u] # NULL => g[u] = f[u]
    OBVIOUS
  <2>4. Undisturbing(k, x, f, g, r, e)
    BY <1>3, <1>4, <2>1, <2>2, <2>3 DEF Undisturbing
  <2> QED
    BY <2>4, Kept
<1>6. Wakes(k, r, e) => Wakes(x, r, e)
  <2>1. Harmless(k, x, r, e)
    BY <1>3 DEF Harmless
  <2> QED
    BY <2>1, WakesKept
<1> QED
  BY <1>5, <1>6 DEF x


\* One descriptor fewer (close, dup2 over an open descriptor, task_destroy).
LEMMA CloseStep ==
    ASSUME NEW k, NEW f, NEW r, NEW e, Consistent(k, f, r, e), NEW g \in Tables,
           NEW t \in Task, r[t] = NULL, NEW i \in 1..MaxFd, OneDescriptor(f, g, t, i),
           NEW h \in Handle, k.handle[h].live, At(f, t, i, h), \A a \in Handle : ~At(g, t, i, a),
           \A u \in Task : u # t => g[u] = f[u], Len(g[t]) <= MaxFd, k.state[t] # "UNUSED"
    PROVE  LET x == vfs_close(k, h)
           IN  /\ Consistent(x, g, r, e) /\ (Wakes(k, r, e) => Wakes(x, r, e))
               /\ Steady(k, x) /\ \A u \in Task : k.state[u] \notin Waiting => x.state[u] = k.state[u]
<1> DEFINE x == vfs_close(k, h)
           c == References(f)
           n == k.handle[h].node
<1>1. /\ f \in Tables /\ r \in [Task -> Pipe \cup {NULL}] /\ e \subseteq Pipe /\ Good(k, c)
      /\ Readers(k, f, r) /\ \A u \in Task : Len(f[u]) <= MaxFd
  BY SMTT(60) DEF Consistent, TablesFit
<1>2. h \in Handle /\ k.handle[h].live
  BY SMTT(60)
<1>3. /\ g \in Tables
      /\ \A u \in Task : u # t => g[u] = f[u]
      /\ Len(g[t]) <= MaxFd
  BY SMTT(60)
<1>4. /\ c[h] \in Nat /\ References(g)[h] = c[h] - 1
      /\ \A a \in Handle : a # h => References(g)[a] = c[a]
  BY PointLess, SMTT(60)
<1> HIDE DEF c
<1>5. Good(x, References(g)) /\ CloseOf(k, h, c, x)
  BY <1>1, <1>2, <1>4, CloseGood, SMTT(60)
<1> HIDE DEF x
<1>6. /\ k.handle \in [Handle -> HandleRecord] /\ k.node \in [Node -> NodeRecord] /\ k.state \in [Task -> State]
      /\ n \in Node /\ k.handle[h] \in HandleRecord /\ k.handle[h].mode \in Modes
  <2>1. k.handle[h] \in HandleRecord /\ n \in Node /\ k.handle[h].mode \in Modes
    BY <1>1, <1>2, OpenHandle
  <2> QED
    BY <1>1, <2>1, KernelFields DEF Good
<1>7. /\ Steady(k, x) /\ x.made = k.made
      /\ \A p \in Pipe : x.node[p].waiters = k.node[p].waiters
      /\ \A p \in Pipe : p # n => x.node[p] = k.node[p]
      /\ x.state = k.state \/ (LastWriter(k, h) /\ x.state = WokenState(k, n))
  <2>1. CASE c[h] # 1
    <3>1. /\ x.handle = [k.handle EXCEPT ![h].refcount = @ - 1] /\ x.made = k.made
          /\ x.node = k.node /\ x.state = k.state
      BY <1>5, <2>1 DEF CloseOf, Unreferenced
    <3>2. Steady(k, x)
      BY <1>6, <3>1, SMTT(60) DEF Steady, HandleRecord
    <3> QED
      BY <3>1, <3>2
  <2>2. CASE c[h] = 1
    <3>1. /\ x.handle = [k.handle EXCEPT ![h] = NoHandle] /\ x.made = k.made
          /\ x.node = [k.node EXCEPT ![n] = ClosedNode(k, h)]
          /\ x.state = IF LastWriter(k, h) THEN WokenState(k, n) ELSE k.state
      BY <1>5, <2>2 DEF CloseOf, ClosedHandle
    <3>2. Steady(k, x)
      BY <1>6, <3>1, SMTT(60) DEF Steady, NoHandle
    <3>3. ClosedNode(k, h).waiters = k.node[n].waiters
      BY SMTT(60) DEF ClosedNode
    <3> HIDE DEF n
    <3>4. \A p \in Pipe : p \in Node
      BY Bounds
    <3>5. \A p \in Pipe : p # n => x.node[p] = k.node[p]
      BY <1>6, <3>1, <3>4, SMTT(60)
    <3>6. x.node[n] = ClosedNode(k, h)
      BY <1>6, <3>1, SMTT(60)
    <3> QED
      BY <3>1, <3>2, <3>3, <3>5, <3>6
  <2> QED
    BY <2>1, <2>2
<1>8. LastWriter(k, h) => n \in Pipe /\ k.node[n].waiters \in Seq(Task)
  BY <1>6 DEF LastWriter, NodeRecord
<1> HIDE DEF n
<1>9. /\ \A u \in Task : x.state[u] \in Waiting <=> k.state[u] \in Waiting
      /\ \A u \in Task : k.state[u] \notin Waiting => x.state[u] = k.state[u]
      /\ \A u \in Task : x.state[u] = k.state[u] \/ x.state[u] = "WOKEN"
      /\ \A u \in Task : x.state[u] # k.state[u] => LastWriter(k, h) /\ r[u] = n
      /\ \A u \in Task : LastWriter(k, h) /\ x.state = WokenState(k, n) /\ r[u] = n
                           /\ Len(k.node[n].waiters) <= 1 => x.state[u] = "WOKEN"
  <2>1. CASE x.state = k.state /\ ~LastWriter(k, h)
    BY <2>1
  <2>2. CASE LastWriter(k, h)
    <3> DEFINE s == WokenState(k, n)
    <3>1. /\ \A u \in Task : s[u] \in Waiting <=> k.state[u] \in Waiting
          /\ \A u \in Task : s[u] = k.state[u] \/ s[u] = "WOKEN"
          /\ \A u \in Task : s[u] # k.state[u] => r[u] = n
          /\ \A u \in Task : r[u] = n /\ Len(k.node[n].waiters) <= 1 => s[u] = "WOKEN"
      BY <1>1, <1>6, <1>8, <2>2, WokenKeeps, SMTT(60)
    <3> HIDE DEF s
    <3>2. \A u \in Task : k.state[u] \notin Waiting => s[u] = k.state[u]
      BY <3>1 DEF Waiting
    <3>3. x.state = k.state \/ x.state = s
      BY <1>7 DEF s
    <3> QED
      BY <2>2, <3>1, <3>2, <3>3, SMTT(60) DEF s
  <2> QED
    BY <1>7, <2>1, <2>2
<1>10. Fresh(x, e)
  <2>1. ASSUME NEW p \in Pipe, p > k.made PROVE p # n
    <3>1. k.node[p].open_count = 0
      BY <2>1 DEF Consistent, Fresh
    <3>2. k.node[n].open_count > 0
      BY <1>1, <1>2, OpenHandle DEF n
    <3> QED
      BY <3>1, <3>2, SMTT(60)
  <2> QED
    BY <1>7, <2>1 DEF Fresh, Consistent
<1>11. Consistent(x, g, r, e)
  <2>1. \A u \in Task : Len(g[u]) <= MaxFd
    BY <1>1, <1>3
  <2>2. \A u \in Task : x.state[u] = "UNUSED" => g[u] = <<>>
    <3>1. ASSUME NEW u \in Task, x.state[u] = "UNUSED" PROVE k.state[u] = "UNUSED"
      BY <1>9, <3>1
    <3> QED
      BY <1>3, <3>1 DEF Consistent, TablesFit
  <2>3. \A u \in Task : r[u] # NULL => g[u] = f[u]
    BY <1>3
  <2>4. Undisturbing(k, x, f, g, r, e)
    BY <1>3, <1>5, <1>7, <1>9, <1>10, <2>1, <2>2, <2>3 DEF Undisturbing
  <2> QED
    BY <2>4, Kept
<1>12. ASSUME Wakes(k, r, e) PROVE Wakes(x, r, e)
  <2>1. \A p \in Pipe : Len(x.node[p].waiters) <= 1
    BY <1>7, <1>12 DEF Wakes
  <2>2. ASSUME NEW p \in Pipe
        PROVE  /\ x.node[p].size = k.node[p].size \/ (x.node[p].released /\ x.node[p].size = 0)
               /\ k.node[p].write_ref_count \in Nat
               /\ k.node[p].write_ref_count = 0 => x.node[p].write_ref_count = 0
               /\ x.node[p].write_ref_count = 0 /\ k.node[p].write_ref_count # 0 =>
                     p = n /\ LastWriter(k, h) /\ x.state = WokenState(k, n)
    <3>0. k.node[p].write_ref_count \in Nat
      BY <1>6, Bounds DEF NodeRecord
    <3>1. CASE p # n \/ c[h] # 1
      <4>1. x.node[p] = k.node[p]
        BY <1>5, <1>7, <3>1 DEF CloseOf, Unreferenced
      <4> QED
        BY <3>0, <4>1
    <3>2. CASE p = n /\ c[h] = 1
      <4>1. /\ x.node = [k.node EXCEPT ![n] = ClosedNode(k, h)]
            /\ x.state = IF LastWriter(k, h) THEN WokenState(k, n) ELSE k.state
        BY <1>5, <3>2 DEF CloseOf, ClosedHandle, n
      <4> DEFINE z == ClosedNode(k, h)
                 m == k.handle[h].mode
      <4>2. x.node[p] = z
        BY <1>6, <3>2, <4>1
      <4>3. /\ z.write_ref_count = k.node[n].write_ref_count - (IF m = "O_WRONLY" THEN 1 ELSE 0)
            /\ z.size = k.node[n].size \/ (z.released = TRUE /\ z.size = 0)
        <5>1. n \in Pipe
          BY <3>2
        <5>2. \/ k.node[n].open_count = 1
              \/ k.node[n].open_count # 1
          OBVIOUS
        <5> QED
          BY <5>1, <5>2 DEF ClosedNode, n
      <4>4. m = "O_WRONLY" => k.node[n].write_ref_count > 0
        BY <1>1, <1>2, <3>2, OpenHandle DEF n
      <4>5. LastWriter(k, h) <=> m = "O_WRONLY" /\ k.node[n].write_ref_count = 1
        BY <3>2 DEF LastWriter, n
      <4>0. k.node[n].write_ref_count \in Nat
        BY <3>0, <3>2
      <4> HIDE DEF z, m
      <4>6. /\ x.node[p].write_ref_count = k.node[p].write_ref_count - (IF m = "O_WRONLY" THEN 1 ELSE 0)
            /\ x.node[p].size = k.node[p].size \/ (x.node[p].released /\ x.node[p].size = 0)
        BY <3>2, <4>2, <4>3
      <4>7. k.node[p].write_ref_count = 0 => x.node[p].write_ref_count = 0
        <5>1. CASE m = "O_WRONLY"
          <6>1. k.node[p].write_ref_count > 0
            BY <3>2, <4>4, <5>1
          <6>2. k.node[p].write_ref_count # 0
            BY <3>0, <6>1, SMTT(60)
          <6> QED
            BY <6>2
        <5>2. CASE m # "O_WRONLY"
          <6>1. x.node[p].write_ref_count = k.node[p].write_ref_count - 0
            BY <4>6, <5>2
          <6> QED
            BY <3>0, <6>1, SMTT(60)
        <5> QED
          BY <5>1, <5>2
      <4>8. x.node[p].write_ref_count = 0 /\ k.node[p].write_ref_count # 0 => LastWriter(k, h)
        BY <3>0, <3>2, <4>5, <4>6, SMTT(60)
      <4> QED
        BY <3>0, <3>2, <4>1, <4>6, <4>7, <4>8
    <3> QED
      BY <3>1, <3>2
  <2>3. ASSUME NEW u \in Task, x.state[u] = "BLOCKED"
        PROVE  ~is_buffer_ready(x, r[u])
    <3>1. k.state[u] = "BLOCKED"
      BY <1>9, <2>3
    <3>2. r[u] \in Pipe
      BY <1>1, <3>1, SMTT(60) DEF Readers
    <3>3. k.node[r[u]].write_ref_count # 0 /\ ~(k.node[r[u]].size > 0)
      BY <1>12, <3>1 DEF Wakes, is_buffer_ready
    <3>4. ~(x.node[r[u]].size > 0)
      <4>1. ~(0 > 0)
        BY SMTT(60)
      <4> QED
        BY <2>2, <3>2, <3>3, <4>1
    <3>5. x.node[r[u]].write_ref_count # 0
      <4>1. SUFFICES ASSUME x.node[r[u]].write_ref_count = 0 PROVE FALSE
        OBVIOUS
      <4>2. r[u] = n /\ LastWriter(k, h) /\ x.state = WokenState(k, n)
        BY <2>2, <3>2, <3>3, <4>1
      <4>3. Len(k.node[n].waiters) <= 1
        BY <1>12, <3>2, <4>2 DEF Wakes
      <4>4. x.state[u] = "WOKEN"
        BY <1>9, <4>2, <4>3
      <4> QED
        BY <2>3, <4>4
    <3> QED
      BY <3>4, <3>5 DEF is_buffer_ready
  <2>4. ASSUME NEW u \in Task, x.state[u] = "WOKEN"
        PROVE  is_buffer_ready(x, r[u])
    <3>1. k.state[u] \in Waiting
      BY <1>9, <2>4 DEF Waiting
    <3>2. r[u] \in Pipe /\ r[u] # NULL
      BY <1>1, <3>1, SMTT(60) DEF Readers, Waiting
    <3>3. CASE k.state[u] = "WOKEN"
      <4>1. k.node[r[u]].write_ref_count = 0 \/ k.node[r[u]].size > 0
        BY <1>12, <3>3 DEF Wakes, is_buffer_ready
      <4>2. ~x.node[r[u]].released
        <5>1. g \in Tables /\ Good(x, References(g)) /\ Readers(x, g, r) /\ \A v \in Task : Len(g[v]) <= MaxFd
          BY <1>11 DEF Consistent, TablesFit
        <5> QED
          BY <1>1, <3>2, <5>1, ReadIsOpen
      <4> QED
        BY <2>2, <3>2, <4>1, <4>2, SMTT(60) DEF is_buffer_ready
    <3>4. CASE k.state[u] # "WOKEN"
      <4>1. LastWriter(k, h) /\ r[u] = n /\ x.state[u] # k.state[u]
        BY <1>9, <2>4, <3>4
      <4>2. c[h] = 1
        <5>1. SUFFICES ASSUME c[h] # 1 PROVE FALSE
          OBVIOUS
        <5>2. x.state = k.state
          BY <1>5, <5>1 DEF CloseOf, Unreferenced
        <5> QED
          BY <4>1, <5>2
      <4>3. x.node = [k.node EXCEPT ![n] = ClosedNode(k, h)]
        BY <1>5, <4>2 DEF CloseOf, ClosedHandle, n
      <4>4. ClosedNode(k, h).write_ref_count = 0
        BY <4>1, SMTT(60) DEF ClosedNode, LastWriter, n
      <4>5. x.node[n].write_ref_count = 0
        BY <1>6, <4>3, <4>4
      <4> QED
        BY <4>1, <4>5 DEF is_buffer_ready
    <3> QED
      BY <3>3, <3>4
  <2>5. \A p \in e : x.node[p].size = 0 /\ x.node[p].write_ref_count = 0
    BY <1>1, <1>12, <2>2 DEF Wakes
  <2> QED
    BY <2>1, <2>3, <2>4, <2>5 DEF Wakes
<1> QED
  BY <1>7, <1>9, <1>11, <1>12 DEF x

\* A handle that is opened and given a descriptor has one reference.
LEMMA OpenTable ==
    ASSUME NEW k, NEW f \in Tables, Good(k, References(f)), k.used < MaxHandle, NEW t \in Task,
           AddedAt(f[t]) <= MaxFd, Len(f[t]) <= MaxFd, NEW n \in Node, NEW mode \in Modes,
           n \in Pipe => ~k.node[n].released
    PROVE  LET x == vfs_open(k, n, mode)
               g == Added(f, t, k.used + 1)
           IN  /\ g \in Tables /\ Good(x, References(g)) /\ Opened(k, n, mode, x) /\ Steady(k, x)
               /\ \A u \in Task : u # t => g[u] = f[u]
               /\ g[t] = task_add_fd(f[t], k.used + 1) /\ Len(g[t]) <= MaxFd
<1> DEFINE h == k.used + 1
           i == AddedAt(f[t])
           x == vfs_open(k, n, mode)
           g == Added(f, t, h)
<1>1. h \in Handle /\ ~k.handle[h].live /\ References(f)[h] = 0
  BY NextHandle
<1> HIDE DEF h
<1>2. /\ g \in Tables /\ i \in 1..MaxFd /\ At(g, t, i, h) /\ OneDescriptor(f, g, t, i)
      /\ \A a \in Handle : ~At(f, t, i, a)
      /\ \A u \in Task : u # t => g[u] = f[u]
      /\ g[t] = task_add_fd(f[t], h) /\ Len(g[t]) <= MaxFd
  BY <1>1, AddedIs
<1> HIDE DEF g, i
<1>3. /\ References(f)[h] \in Nat /\ References(g)[h] = References(f)[h] + 1
      /\ \A a \in Handle : a # h => References(g)[a] = References(f)[a]
  <2>1. /\ h \in Handle /\ i \in 1..MaxFd /\ At(g, t, i, h) /\ OneDescriptor(f, g, t, i)
        /\ \A a \in Handle : ~At(f, t, i, a)
    BY <1>1, <1>2
  <2> QED
    BY ONLY t \in Task, <2>1, PointMore, SMTT(60)
<1>4. References(g)[k.used + 1] = 1 /\ \A a \in Handle : a # k.used + 1 => References(g)[a] = References(f)[a]
  BY <1>1, <1>3, SMTT(60) DEF h
<1>5. Good(x, References(g)) /\ Opened(k, n, mode, x)
  BY <1>4, OpenGood
<1> HIDE DEF x
<1>6. Steady(k, x)
  <2>1. k.handle \in [Handle -> HandleRecord]
    BY KernelFields DEF Good
  <2>2. x.handle = [k.handle EXCEPT ![h] = NewHandle(k, n, mode)]
    BY <1>5 DEF Opened, h
  <2>3. \A a \in Handle : a # h => x.handle[a] = k.handle[a]
    BY <2>1, <2>2
  <2> QED
    BY <1>1, <2>3, SMTT(60) DEF Steady
<1> QED
  BY <1>2, <1>5, <1>6 DEF x, g, h

\* sys_open.
LEMMA OpenStep ==
    ASSUME NEW k, NEW f, NEW r, NEW e, Consistent(k, f, r, e), k.used < MaxHandle, NEW t \in Task,
           r[t] = NULL, AddedAt(f[t]) <= MaxFd, k.state[t] # "UNUSED"
    PROVE  LET x == vfs_open(k, Tty, "O_RDONLY")
               g == Added(f, t, k.used + 1)
           IN  Consistent(x, g, r, e) /\ (Wakes(k, r, e) => Wakes(x, r, e))
<1> DEFINE x == vfs_open(k, Tty, "O_RDONLY")
           g == Added(f, t, k.used + 1)
<1>1. /\ f \in Tables /\ r \in [Task -> Pipe \cup {NULL}] /\ e \subseteq Pipe /\ Good(k, References(f))
      /\ Readers(k, f, r) /\ \A u \in Task : Len(f[u]) <= MaxFd
      /\ Tty \in Node /\ Tty \notin Pipe /\ "O_RDONLY" \in Modes
  BY Bounds DEF Consistent, TablesFit, Modes
<1>2. /\ g \in Tables /\ Good(x, References(g)) /\ Opened(k, Tty, "O_RDONLY", x) /\ Steady(k, x)
      /\ \A u \in Task : u # t => g[u] = f[u]
      /\ Len(g[t]) <= MaxFd
  BY <1>1, OpenTable, SMTT(60)
<1> HIDE DEF x, g
<1>3. k.node \in [Node -> NodeRecord]
  BY <1>1, KernelFields DEF Good
<1>4. x.node = [k.node EXCEPT ![Tty] = OpenedNode(k, Tty, "O_RDONLY")] /\ x.state = k.state /\ x.made = k.made
  BY <1>2 DEF Opened
<1>5. \A p \in Pipe : x.node[p] = k.node[p]
  BY <1>3, <1>4, Bounds
<1>6. Fresh(x, e)
  BY <1>4, <1>5 DEF Fresh, Consistent
<1>7. Consistent(x, g, r, e)
  <2>1. \A u \in Task : Len(g[u]) <= MaxFd
    BY <1>1, <1>2
  <2>2. \A u \in Task : x.state[u] = "UNUSED" => g[u] = <<>>
    BY <1>2, <1>4 DEF Consistent, TablesFit
  <2>3. \A u \in Task : r[u] # NULL => g[u] = f[u]
    BY <1>2
  <2>4. /\ \A p \in Pipe : x.node[p].waiters = k.node[p].waiters
        /\ \A u \in Task : x.state[u] \in Waiting <=> k.state[u] \in Waiting
    BY <1>4, <1>5
  <2>5. Undisturbing(k, x, f, g, r, e)
    BY <1>2, <1>6, <2>1, <2>2, <2>3, <2>4 DEF Undisturbing
  <2> QED
    BY <2>5, Kept
<1>8. Wakes(k, r, e) => Wakes(x, r, e)
  BY <1>4, <1>5, WakesKept DEF Harmless
<1> QED
  BY <1>7, <1>8 DEF x, g

\* One more pipe has been created, once it has a handle.
OneMade(k) == [k EXCEPT !.made = @ + 1]

\* pipe_create counts the pipe it has opened as created.
LEMMA MadeGood ==
    ASSUME NEW k, NEW c, Good(k, c), k.made < MaxPipe, k.node[k.made + 1].open_count # 0
    PROVE  LET x == OneMade(k) IN
           /\ Good(x, c) /\ x.handle = k.handle /\ x.node = k.node /\ x.state = k.state
           /\ x.made = k.made + 1
<1> DEFINE x == OneMade(k)
<1>1. k \in Kernel
  BY DEF Good
<1>2. /\ IsTables(x) /\ x.handle = k.handle /\ x.used = k.used /\ x.made = k.made + 1 /\ x.node = k.node
      /\ x.file_handles = k.file_handles /\ x.file_handles_open_count = k.file_handles_open_count
      /\ x.state = k.state
  BY <1>1 DEF Kernel, IsTables, Fields, OneMade
<1> HIDE DEF x
<1>3. k.made \in Nat /\ k.made + 1 \in 0..MaxPipe
  BY <1>1, KernelFields, Bounds, SMTT(60)
<1>4. x \in Kernel
  <2>1. /\ x.handle \in [Handle -> HandleRecord] /\ x.used \in 0..MaxHandle /\ x.made \in 0..MaxPipe
        /\ x.file_handles \in Seq(Handle \cup {NULL}) /\ x.file_handles_open_count \in Nat
        /\ x.node \in [Node -> NodeRecord] /\ x.state \in [Task -> State]
    BY <1>1, <1>2, <1>3, KernelFields
  <2> QED
    BY <1>2, <2>1, InKernel
<1>5. HandlesExact(x, c) /\ SlotsExact(x)
  <2>1. HandlesExact(k, c) /\ SlotsExact(k)
    BY DEF Good
  <2>2. HandlesExact(x, c)
    BY <1>2, <2>1 DEF HandlesExact
  <2>3. SlotsExact(x)
    BY <1>2, <2>1 DEF SlotsExact
  <2> QED
    BY <2>2, <2>3
<1>6. ASSUME NEW p \in Pipe, x.node[p].open_count = 0, p <= x.made PROVE x.node[p].released
  <2>1. p \in Nat /\ p # k.made + 1 /\ x.node[p].open_count = k.node[p].open_count
    BY <1>2, <1>6, Bounds
  <2>2. p <= k.made
    BY <1>2, <1>3, <1>6, <2>1, SMTT(60)
  <2> QED
    BY <1>2, <1>6, <2>2 DEF Good, NodesExact
<1>7. NodesExact(x)
  BY <1>2, <1>6 DEF Good, NodesExact
<1> QED
  BY <1>2, <1>4, <1>5, <1>7 DEF Good, x

\* pipe_create: the new pipe, of which nothing is known yet, gets its two handles.
LEMMA PipeCreateStep ==
    ASSUME NEW k, NEW f, NEW r, NEW e, Consistent(k, f, r, e), k.made < MaxPipe, k.used + 1 < MaxHandle,
           NEW t \in Task, r[t] = NULL, AddedAt(f[t]) <= MaxFd, k.state[t] # "UNUSED",
           AddedAt(task_add_fd(f[t], k.used + 1)) <= MaxFd
    PROVE  LET p == k.made + 1
               x == OneMade(vfs_open(vfs_open(k, p, "O_RDONLY"), p, "O_WRONLY"))
               g == Added(Added(f, t, k.used + 1), t, k.used + 2)
           IN  Consistent(x, g, r, e) /\ (Wakes(k, r, e) => Wakes(x, r, e))
<1> DEFINE p == k.made + 1
           y == vfs_open(k, p, "O_RDONLY")
           z == vfs_open(y, p, "O_WRONLY")
           x == OneMade(z)
           f1 == Added(f, t, k.used + 1)
           g == Added(f1, t, k.used + 2)
<1>1. /\ f \in Tables /\ r \in [Task -> Pipe \cup {NULL}] /\ e \subseteq Pipe /\ Good(k, References(f))
      /\ Readers(k, f, r) /\ Fresh(k, e) /\ \A u \in Task : Len(f[u]) <= MaxFd
      /\ "O_RDONLY" \in Modes /\ "O_WRONLY" \in Modes
  BY DEF Consistent, TablesFit, Modes
<1>2. k \in Kernel
  BY <1>1 DEF Good
<1>3. k.made \in Nat /\ k.used \in Nat /\ k.used < MaxHandle /\ p \in Pipe /\ p > k.made
  BY <1>2, KernelFields, Bounds, SMTT(60) DEF Pipe
<1>4. p \in Node /\ p # NULL
  BY <1>3, Bounds
<1> HIDE DEF p
<1>5. /\ k.node[p].open_count = 0 /\ k.node[p].waiters = <<>> /\ ~k.node[p].released /\ p \notin e
  BY <1>1, <1>3 DEF Fresh
<1>6. /\ f1 \in Tables /\ Good(y, References(f1)) /\ Opened(k, p, "O_RDONLY", y) /\ Steady(k, y)
      /\ \A u \in Task : u # t => f1[u] = f[u]
      /\ f1[t] = task_add_fd(f[t], k.used + 1) /\ Len(f1[t]) <= MaxFd
  BY <1>1, <1>3, <1>4, <1>5, OpenTable, SMTT(60)
<1> HIDE DEF y, f1
<1>7. k.node \in [Node -> NodeRecord]
  BY <1>2, KernelFields
<1>8. /\ y.used = k.used + 1 /\ y.made = k.made /\ y.state = k.state
      /\ y.node = [k.node EXCEPT ![p] = OpenedNode(k, p, "O_RDONLY")]
  BY <1>6 DEF Opened
<1>9. /\ y.node[p].open_count = k.node[p].open_count + 1 /\ y.node[p].waiters = k.node[p].waiters
      /\ y.node[p].released = k.node[p].released
      /\ \A n \in Node : n # p => y.node[n] = k.node[n]
  <2>1. y.node[p] = OpenedNode(k, p, "O_RDONLY") /\ \A n \in Node : n # p => y.node[n] = k.node[n]
    BY <1>4, <1>7, <1>8, SMTT(60)
  <2> QED
    BY <2>1, SMTT(60) DEF OpenedNode
<1>10. y.used + 1 = k.used + 2 /\ y.used < MaxHandle
  BY <1>3, <1>8, Bounds, SMTT(60)
<1>11. /\ g \in Tables /\ Good(z, References(g)) /\ Opened(y, p, "O_WRONLY", z) /\ Steady(y, z)
       /\ \A u \in Task : u # t => g[u] = f1[u]
       /\ Len(g[t]) <= MaxFd
  <2>1. p \in Pipe => ~y.node[p].released
    BY <1>5, <1>9
  <2>2. g = Added(f1, t, y.used + 1)
    BY <1>10
  <2> HIDE DEF g
  <2> QED
    BY <1>1, <1>4, <1>6, <1>10, <2>1, <2>2, OpenTable, SMTT(60)
<1> HIDE DEF z, g

<1>12. y \in Kernel /\ z \in Kernel
  BY <1>6, <1>11 DEF Good
<1>13. y.node \in [Node -> NodeRecord]
  BY <1>12, KernelFields
<1>14. z.made = k.made /\ z.state = k.state /\ z.node = [y.node EXCEPT ![p] = OpenedNode(y, p, "O_WRONLY")]
  BY <1>8, <1>11 DEF Opened
<1>15. /\ z.node[p].open_count = y.node[p].open_count + 1 /\ z.node[p].waiters = k.node[p].waiters
       /\ \A n \in Node : n # p => z.node[n] = k.node[n]
  BY <1>4, <1>9, <1>13, <1>14, SMTT(60) DEF OpenedNode
<1>16. z.node[z.made + 1].open_count # 0
  BY <1>5, <1>9, <1>14, <1>15, SMTT(60) DEF p
<1>17. /\ Good(x, References(g)) /\ x.handle = z.handle /\ x.node = z.node /\ x.state = k.state
       /\ x.made = k.made + 1
  <2>1. z.made < MaxPipe
    BY <1>14
  <2> QED
    BY <1>11, <1>14, <1>16, <2>1, MadeGood, ZenonT(60)
<1> HIDE DEF x
<1>18. Steady(k, x)
  <2>1. \A h \in Handle : k.handle[h].live => y.handle[h].live
    <3>1. k.handle \in [Handle -> HandleRecord]
      BY <1>2, KernelFields
    <3>2. y.handle = [k.handle EXCEPT ![k.used + 1] = NewHandle(k, p, "O_RDONLY")]
      BY <1>6 DEF Opened
    <3> QED
      BY <3>1, <3>2, SMTT(60) DEF NewHandle
  <2> QED
    BY <1>6, <1>11, <1>17, <2>1 DEF Steady
<1>19. \A q \in Pipe : q # p => x.node[q] = k.node[q]
  BY <1>15, <1>17, Bounds
<1>20. \A q \in Pipe : x.node[q].waiters = k.node[q].waiters
  BY <1>15, <1>17, <1>19
<1>21. Fresh(x, e)
  <2> SUFFICES ASSUME NEW q \in Pipe, q > x.made
               PROVE  /\ x.node[q].open_count = 0 /\ x.node[q].size = 0 /\ x.node[q].waiters = <<>>
                      /\ ~x.node[q].released /\ q \notin e
    BY DEF Fresh
  <2>1. q # p /\ q > k.made
    BY <1>3, <1>17, Bounds, SMTT(60) DEF p
  <2> QED
    BY <1>1, <1>19, <2>1 DEF Fresh
<1>22. Consistent(x, g, r, e)
  <2>1. \A u \in Task : u # t => g[u] = f[u]
    BY <1>6, <1>11
  <2>2. \A u \in Task : Len(g[u]) <= MaxFd
    BY <1>1, <1>11, <2>1
  <2>3. \A u \in Task : x.state[u] = "UNUSED" => g[u] = <<>>
    BY <1>17, <2>1 DEF Consistent, TablesFit
  <2>4. Undisturbing(k, x, f, g, r, e)
    BY <1>11, <1>17, <1>18, <1>20, <1>21, <2>1, <2>2, <2>3 DEF Undisturbing
  <2> QED
    BY <2>4, Kept
<1>23. Wakes(k, r, e) => Wakes(x, r, e)
  <2>1. ASSUME NEW q \in Pipe, q \in e \/ (\E u \in Task : r[u] = q) PROVE q # p
    <3>1. \A u \in Task : ~Waits(k, p, u)
      BY <1>5, SMTT(60) DEF Waits
    <3>2. \A u \in Task : r[u] # p
      BY <1>1, <1>3, <3>1 DEF Readers
    <3> QED
      BY <1>5, <2>1, <3>2
  <2>2. \A q \in Pipe : q \in e \/ (\E u \in Task : r[u] = q) =>
               /\ x.node[q].size = k.node[q].size
               /\ x.node[q].write_ref_count = k.node[q].write_ref_count
    BY <1>19, <2>1
  <2>3. \A u \in Task : x.state[u] \in Waiting \/ k.state[u] \in Waiting => x.state[u] = k.state[u]
    BY <1>17
  <2> QED
    BY <1>20, <2>2, <2>3, WakesKept DEF Harmless
<1> QED
  BY <1>22, <1>23 DEF x, z, y, g, f1, p

============================================================================
