----------------------------- MODULE FilesSteps ------------------------------
(***************************************************************************)
(* What the other system calls do to the tables of Files as a whole: the   *)
(* invariant of FilesCounts holds after it, and a reader that is alone is  *)
(* not left blocked.                                                       *)
(***************************************************************************)
EXTENDS FilesHandles

USE Zenon

----------------------------------------------------------------------------
\* sys_close, and task_destroy for one of its descriptors.
LEMMA CloseDescriptor ==
    ASSUME NEW k, NEW f, NEW r, NEW e, Consistent(k, f, r, e), NEW t \in Task, r[t] = NULL,
           NEW i \in DOMAIN f[t], f[t][i].file # NULL, k.state[t] # "UNUSED"
    PROVE  LET x == vfs_close(k, f[t][i].file)
               g == Pointed(f, t, i, NULL)
           IN  /\ Consistent(x, g, r, e) /\ (Wakes(k, r, e) => Wakes(x, r, e))
               /\ \A u \in Task : k.state[u] \notin Waiting => x.state[u] = k.state[u]
<1> DEFINE h == f[t][i].file
           x == vfs_close(k, h)
           g == Pointed(f, t, i, NULL)
<1>1. f \in Tables /\ Good(k, References(f)) /\ Len(f[t]) <= MaxFd /\ NULL \in Handle \cup {NULL}
  BY DEF Consistent, TablesFit
<1>2. h \in Handle /\ k.handle[h].live /\ i \in 1..MaxFd /\ At(f, t, i, h)
  BY <1>1, UsedIsOpen
<1>3. /\ g \in Tables /\ i \in 1..MaxFd /\ OneDescriptor(f, g, t, i)
      /\ \A a : At(g, t, i, a) <=> a = NULL
      /\ \A u \in Task : u # t => g[u] = f[u]
      /\ DOMAIN g[t] = DOMAIN f[t] /\ Len(g[t]) <= MaxFd
      /\ \A j \in DOMAIN f[t] : j # i => g[t][j] = f[t][j]
  BY <1>1, PointedIs, SMTT(60)
<1>4. \A a \in Handle : ~At(g, t, i, a)
  BY <1>3, Bounds
<1> HIDE DEF g, h
<1>5. /\ Consistent(x, g, r, e) /\ (Wakes(k, r, e) => Wakes(x, r, e))
      /\ Steady(k, x) /\ \A u \in Task : k.state[u] \notin Waiting => x.state[u] = k.state[u]
  BY <1>2, <1>3, <1>4, CloseStep, SMTT(60)
<1> QED
  BY <1>5 DEF x, g, h

\* sys_dup without a new descriptor.
LEMMA DupStep ==
    ASSUME NEW k, NEW f, NEW r, NEW e, Consistent(k, f, r, e), NEW t \in Task, r[t] = NULL,
           NEW h \in Handle, k.handle[h].live, AddedAt(f[t]) <= MaxFd, k.state[t] # "UNUSED"
    PROVE  LET x == vfs_bump_refcount(k, h)
               g == Added(f, t, h)
           IN  Consistent(x, g, r, e) /\ (Wakes(k, r, e) => Wakes(x, r, e))
<1> DEFINE g == Added(f, t, h)
           i == AddedAt(f[t])
<1>1. f \in Tables /\ Len(f[t]) <= MaxFd
  BY DEF Consistent, TablesFit
<1>2. /\ g \in Tables /\ i \in 1..MaxFd /\ At(g, t, i, h) /\ OneDescriptor(f, g, t, i)
      /\ \A a \in Handle : ~At(f, t, i, a)
      /\ \A u \in Task : u # t => g[u] = f[u]
      /\ Len(g[t]) <= MaxFd
  BY <1>1, AddedIs
<1> HIDE DEF g, i
<1> QED
  BY <1>2, BumpStep DEF g

\* The table after sys_dup added a descriptor for h and gave it the identifier id.
Renamed(f, t, h, id) == [f EXCEPT ![t] = [task_add_fd(@, h) EXCEPT ![AddedAt(f[t])].identifier = id]]

\* The descriptor sys_dup adds is the one task_add_fd added, whatever its identifier.
LEMMA RenamedIs ==
    ASSUME NEW f \in Tables, NEW t \in Task, NEW h \in Handle, NEW id \in Nat,
           AddedAt(f[t]) <= MaxFd, Len(f[t]) <= MaxFd
    PROVE  LET g == Renamed(f, t, h, id)
               i == AddedAt(f[t])
           IN  /\ g \in Tables /\ i \in 1..MaxFd /\ At(g, t, i, h) /\ OneDescriptor(f, g, t, i)
               /\ \A a \in Handle : ~At(f, t, i, a)
               /\ \A u \in Task : u # t => g[u] = f[u]
               /\ Len(g[t]) <= MaxFd
<1> DEFINE i == AddedAt(f[t])
           y == task_add_fd(f[t], h)
           d == [y[i] EXCEPT !.identifier = id]
           z == [y EXCEPT ![i] = d]
           g == Renamed(f, t, h, id)
<1>1. f[t] \in Seq(Descriptors)
  BY DEF Tables
<1>2. /\ y \in Seq(Descriptors) /\ i \in Nat /\ i > 0 /\ i \in DOMAIN y /\ y[i].file = h
      /\ i \in DOMAIN f[t] => f[t][i].file = NULL
      /\ \A j \in Nat : j # i => /\ j \in DOMAIN y <=> j \in DOMAIN f[t]
                                 /\ j \in DOMAIN f[t] => y[j] = f[t][j]
      /\ Len(y) = Len(f[t]) \/ Len(y) = i
  BY <1>1, AddFd
<1>3. g = [f EXCEPT ![t] = z]
  BY SMTT(60) DEF Renamed
<1> HIDE DEF g, y
<1>4. PICK n \in Nat : n = Len(y) /\ DOMAIN y = 1..n
  BY <1>2, LenProperties
<1>5. y[i] \in Descriptors
  BY <1>2, <1>4, ElementOfSeq
<1>6. d \in Descriptors /\ d.file = h
  BY <1>2, <1>5 DEF Descriptors
<1> HIDE DEF i, d
<1>7. z \in Seq(Descriptors) /\ Len(z) = n
  BY <1>2, <1>4, <1>6, ExceptSeq
<1>8. DOMAIN z = 1..n /\ z[i] = d /\ \A j \in 1..n : j # i => z[j] = y[j]
  BY <1>2, <1>4
<1> HIDE DEF z
<1>9. g \in Tables /\ g[t] = z /\ \A u \in Task : u # t => g[u] = f[u]
  BY <1>3, <1>7 DEF Tables
<1>10. i \in 1..MaxFd
  BY <1>2, Bounds, SMTT(60) DEF i
<1>11. At(g, t, i, h) /\ \A a \in Handle : ~At(f, t, i, a)
  BY <1>2, <1>4, <1>6, <1>8, <1>9, Bounds DEF At
<1>12. OneDescriptor(f, g, t, i)
  <2> SUFFICES ASSUME NEW u \in Task, NEW j \in 1..MaxFd, u # t \/ j # i, NEW a \in Handle
               PROVE  At(g, u, j, a) <=> At(f, u, j, a)
    BY DEF OneDescriptor
  <2>1. CASE u # t
    BY <1>9, <2>1 DEF At
  <2>2. CASE u = t /\ j # i
    <3>1. /\ j \in DOMAIN z <=> j \in DOMAIN f[t]
          /\ j \in DOMAIN f[t] => z[j] = f[t][j]
      BY <1>2, <1>4, <1>8, <2>2, SMTT(60)
    <3> QED
      BY <1>9, <2>2, <3>1 DEF At
  <2> QED
    BY <2>1, <2>2
<1>13. Len(z) <= MaxFd
  BY <1>2, <1>4, <1>7 DEF i
<1> QED
  BY <1>9, <1>10, <1>11, <1>12, <1>13 DEF g, i

\* sys_dup to a descriptor that is not there.
LEMMA DupNewStep ==
    ASSUME NEW k, NEW f, NEW r, NEW e, Consistent(k, f, r, e), NEW t \in Task, r[t] = NULL,
           NEW h \in Handle, k.handle[h].live, NEW id \in Nat, AddedAt(f[t]) <= MaxFd, k.state[t] # "UNUSED"
    PROVE  LET x == vfs_bump_refcount(k, h)
               g == Renamed(f, t, h, id)
           IN  Consistent(x, g, r, e) /\ (Wakes(k, r, e) => Wakes(x, r, e))
<1> DEFINE g == Renamed(f, t, h, id)
           i == AddedAt(f[t])
<1>1. f \in Tables /\ Len(f[t]) <= MaxFd
  BY DEF Consistent, TablesFit
<1>2. /\ g \in Tables /\ i \in 1..MaxFd /\ At(g, t, i, h) /\ OneDescriptor(f, g, t, i)
      /\ \A a \in Handle : ~At(f, t, i, a)
      /\ \A u \in Task : u # t => g[u] = f[u]
      /\ Len(g[t]) <= MaxFd
  BY <1>1, RenamedIs
<1> HIDE DEF g, i
<1> QED
  BY <1>2, BumpStep DEF g

\* sys_dup of descriptor i over another one, j, which is closed first.
LEMMA DupOverStep ==
    ASSUME NEW k, NEW f, NEW r, NEW e, Consistent(k, f, r, e), NEW t \in Task, r[t] = NULL,
           k.state[t] \notin Waiting, k.state[t] # "UNUSED",
           NEW i \in DOMAIN f[t], f[t][i].file # NULL, NEW j \in DOMAIN f[t], j # i
    PROVE  LET h == f[t][i].file
               x == vfs_bump_refcount(vfs_close(k, f[t][j].file), h)
               g == Pointed(f, t, j, h)
           IN  Consistent(x, g, r, e) /\ (Wakes(k, r, e) => Wakes(x, r, e))
<1> DEFINE h == f[t][i].file
           y == vfs_close(k, f[t][j].file)
           x == vfs_bump_refcount(y, h)
           g == Pointed(f, t, j, h)
           f1 == Pointed(f, t, j, NULL)
<1>1. f \in Tables /\ Good(k, References(f)) /\ Len(f[t]) <= MaxFd /\ NULL \in Handle \cup {NULL}
  BY DEF Consistent, TablesFit
<1>2. h \in Handle /\ k.handle[h].live /\ i \in 1..MaxFd /\ At(f, t, i, h)
  BY <1>1, UsedIsOpen
<1>3. /\ g \in Tables /\ j \in 1..MaxFd /\ OneDescriptor(f, g, t, j)
      /\ \A a : At(g, t, j, a) <=> a = h
      /\ \A u \in Task : u # t => g[u] = f[u]
      /\ DOMAIN g[t] = DOMAIN f[t] /\ Len(g[t]) <= MaxFd
      /\ \A m \in DOMAIN f[t] : m # j => g[t][m] = f[t][m]
  BY <1>1, <1>2, PointedIs, SMTT(60)
<1>4. /\ f1 \in Tables /\ j \in 1..MaxFd /\ OneDescriptor(f, f1, t, j)
      /\ \A a : At(f1, t, j, a) <=> a = NULL
      /\ \A u \in Task : u # t => f1[u] = f[u]
      /\ DOMAIN f1[t] = DOMAIN f[t] /\ Len(f1[t]) <= MaxFd
      /\ \A m \in DOMAIN f[t] : m # j => f1[t][m] = f[t][m]
  BY <1>1, PointedIs, SMTT(60)
<1> HIDE DEF g
<1>5. At(g, t, j, h)
  BY <1>3
<1>6. CASE f[t][j].file = NULL
  <2>1. y = k
    BY <1>6 DEF vfs_close
  <2> HIDE DEF y
  <2>2. \A a \in Handle : ~At(f, t, j, a)
    BY <1>6, Bounds DEF At
  <2>3. Consistent(vfs_bump_refcount(k, h), g, r, e) /\ (Wakes(k, r, e) => Wakes(vfs_bump_refcount(k, h), r, e))
    <3> HIDE DEF h
    <3> QED
      BY <1>2, <1>3, <1>5, <2>2, BumpStep
  <2> QED
    BY <2>1, <2>3 DEF g, y
<1>7. CASE f[t][j].file # NULL
  <2>1. /\ Consistent(y, f1, r, e) /\ (Wakes(k, r, e) => Wakes(y, r, e))
        /\ \A u \in Task : k.state[u] \notin Waiting => y.state[u] = k.state[u]
    BY <1>7, CloseDescriptor, SMTT(60)
  <2> HIDE DEF y, f1
  <2>2. y.state[t] # "UNUSED" /\ Good(y, References(f1))
    BY <2>1 DEF Consistent
  <2>3. i \in DOMAIN f1[t] /\ f1[t][i] = f[t][i]
    BY <1>4
  <2>4. y.handle[h].live
    BY <1>4, <2>2, <2>3, UsedIsOpen, SMTT(60)
  <2>5. OneDescriptor(f1, g, t, j)
    <3> SUFFICES ASSUME NEW u \in Task, NEW m \in 1..MaxFd, u # t \/ m # j, NEW a \in Handle
                 PROVE  At(g, u, m, a) <=> At(f1, u, m, a)
      BY DEF OneDescriptor
    <3>1. At(g, u, m, a) <=> At(f, u, m, a)
      BY <1>3 DEF OneDescriptor
    <3>2. At(f1, u, m, a) <=> At(f, u, m, a)
      BY <1>4 DEF OneDescriptor
    <3> QED
      BY <3>1, <3>2
  <2>6. \A a \in Handle : ~At(f1, t, j, a)
    BY <1>4, Bounds
  <2>7. \A u \in Task : u # t => g[u] = f1[u]
    BY <1>3, <1>4
  <2>8. Consistent(x, g, r, e) /\ (Wakes(y, r, e) => Wakes(x, r, e))
    <3> HIDE DEF h
    <3> QED
      BY <1>2, <1>3, <1>5, <2>1, <2>2, <2>4, <2>5, <2>6, <2>7, BumpStep, ZenonT(60)
  <2> QED
    BY <2>1, <2>8 DEF g, y
<1> QED
  BY <1>6, <1>7

----------------------------------------------------------------------------
\* task_fork: the child c has the descriptors of its parent t.
Inherited(f, t, c) == [f EXCEPT ![c] = f[t]]
Places(table, h) == {i \in DOMAIN table : table[i].file = h}

\* task_fork adds as many references to a handle as the parent has descriptors for it.
LEMMA ForkCount ==
    ASSUME NEW f \in Tables, NEW t \in Task, NEW c \in Task, c # t, f[c] = <<>>, Len(f[t]) <= MaxFd,
           NEW h \in Handle
    PROVE  LET n == Cardinality(Places(f[t], h)) IN
           /\ n \in Nat /\ References(f)[h] \in Nat
           /\ References(Inherited(f, t, c))[h] = References(f)[h] + n
           /\ References(f)[h] = 0 => n = 0
<1> DEFINE S == Places(f[t], h)
           g == Inherited(f, t, c)
           P == Pointing(f, h)
           Q == Pointing(g, h)
           C == {c} \X S
<1>1. PICK m \in Nat : m = Len(f[t]) /\ DOMAIN f[t] = 1..m
  BY LenProperties DEF Tables
<1>2. \A i \in S : i \in 1..MaxFd /\ At(f, t, i, h)
  BY <1>1, Bounds, SMTT(60) DEF Places, At
<1>3. g[c] = f[t] /\ \A u \in Task : u # c => g[u] = f[u]
  BY SMTT(60) DEF Inherited, Tables
<1>4. IsFiniteSet(S) /\ Cardinality(S) \in Nat
  <2>1. IsFiniteSet(1..MaxFd) /\ S \in SUBSET (1..MaxFd)
    BY <1>2, Bounds, FS_Interval, SMTT(60)
  <2> QED
    BY <2>1, FS_Subset, FS_CardinalityType
<1>5. IsFiniteSet(P) /\ Cardinality(P) \in Nat
  BY PointingFinite
<1>6. IsFiniteSet(C) /\ Cardinality(C) = Cardinality(S)
  <2>1. IsFiniteSet({c}) /\ Cardinality({c}) = 1
    BY FS_Singleton
  <2>2. IsFiniteSet(C) /\ Cardinality(C) = 1 * Cardinality(S)
    BY <1>4, <2>1, FS_Product
  <2> QED
    BY <1>4, <2>2, SMTT(60)
<1> HIDE DEF g, S
<1>7. ASSUME NEW u \in Task, NEW i \in 1..MaxFd
      PROVE  At(g, u, i, h) <=> At(f, u, i, h) \/ (u = c /\ i \in S)
  <2>1. CASE u # c
    BY <1>3, <2>1 DEF At
  <2>2. CASE u = c
    <3>1. ~At(f, c, i, h)
      BY SMTT(60) DEF At
    <3>2. At(g, c, i, h) <=> i \in S
      BY <1>3 DEF At, S, Places
    <3> QED
      BY <2>2, <3>1, <3>2
  <2> QED
    BY <2>1, <2>2
<1>8. Q = P \cup C /\ P \cap C = {}
  <2>1. \A e \in P : \E u \in Task, i \in 1..MaxFd : e = <<u, i>>
    BY SMTT(60) DEF Pointing
  <2>2. \A e \in Q : \E u \in Task, i \in 1..MaxFd : e = <<u, i>>
    BY SMTT(60) DEF Pointing
  <2>3. \A e \in C : \E i \in S : e = <<c, i>>
    BY SMTT(60)
  <2>4. \A u \in Task, i \in 1..MaxFd : <<u, i>> \in P <=> At(f, u, i, h)
    BY PointingAt
  <2>5. \A u \in Task, i \in 1..MaxFd : <<u, i>> \in Q <=> At(g, u, i, h)
    BY PointingAt
  <2>6. \A u \in Task, i \in 1..MaxFd : <<u, i>> \in C <=> u = c /\ i \in S
    OBVIOUS
  <2>7. \A i \in 1..MaxFd : ~At(f, c, i, h)
    BY SMTT(60) DEF At
  <2> HIDE DEF P, Q, C
  <2>8. ASSUME NEW e PROVE e \in Q <=> e \in P \/ e \in C
    <3>1. ASSUME NEW u \in Task, NEW i \in 1..MaxFd PROVE <<u, i>> \in Q <=> <<u, i>> \in P \/ <<u, i>> \in C
      BY <1>7, <2>4, <2>5, <2>6
    <3>2. CASE e \in P
      <4>1. PICK u \in Task, i \in 1..MaxFd : e = <<u, i>>
        BY <2>1, <3>2
      <4> QED
        BY <3>1, <3>2, <4>1
    <3>3. CASE e \in C
      <4>1. PICK i \in S : e = <<c, i>>
        BY <2>3, <3>3
      <4>2. i \in 1..MaxFd
        BY <1>2
      <4> QED
        BY <3>1, <3>3, <4>1, <4>2
    <3>4. CASE e \in Q
      <4>1. PICK u \in Task, i \in 1..MaxFd : e = <<u, i>>
        BY <2>2, <3>4
      <4> QED
        BY <3>1, <3>4, <4>1
    <3> QED
      BY <3>2, <3>3, <3>4
  <2>9. ASSUME NEW e \in C PROVE e \notin P
    BY <1>2, <2>3, <2>4, <2>7
  <2> QED
    BY <2>8, <2>9
<1>9. Cardinality(Q) = Cardinality(P) + Cardinality(S)
  <2> HIDE DEF P, Q, C
  <2>1. Cardinality(P \cup C) = Cardinality(P) + Cardinality(C) - Cardinality(P \cap C)
    BY <1>5, <1>6, FS_Union
  <2>2. Cardinality(P \cap C) = 0
    BY <1>8, FS_EmptySet
  <2> QED
    BY <1>4, <1>5, <1>6, <1>8, <2>1, <2>2, SMTT(60)
<1>10. References(f)[h] = Cardinality(P) /\ References(g)[h] = Cardinality(Q)
  BY DEF References
<1>11. References(f)[h] = 0 => Cardinality(S) = 0
  <2>1. ASSUME NEW i \in S PROVE References(f)[h] > 0
    BY <1>2, ReferencedAt
  <2>2. References(f)[h] = 0 => S = {}
    BY <2>1, SMTT(60)
  <2> QED
    BY <2>2, FS_EmptySet
<1> QED
  BY <1>4, <1>5, <1>9, <1>10, <1>11 DEF S, g

\* task_fork keeps the invariant and loses no wake-up.
LEMMA ForkStep ==
    ASSUME NEW k, NEW f, NEW r, NEW e, Consistent(k, f, r, e), NEW t \in Task, NEW c \in Task,
           k.state[c] = "UNUSED", k.state[t] # "UNUSED"
    PROVE  LET x == BumpAll(Turned(k, c, "RUNNABLE"), f[t])
               g == Inherited(f, t, c)
           IN  Consistent(x, g, r, e) /\ (Wakes(k, r, e) => Wakes(x, r, e))
<1> DEFINE y == Turned(k, c, "RUNNABLE")
           x == BumpAll(y, f[t])
           g == Inherited(f, t, c)
           d == References(g)
<1>1. /\ f \in Tables /\ Good(k, References(f)) /\ Len(f[t]) <= MaxFd /\ f[c] = <<>> /\ c # t /\ k \in Kernel
      /\ r[c] = NULL /\ \A u \in Task : Len(f[u]) <= MaxFd
  <2>1. "UNUSED" \notin {"BLOCKED", "WOKEN", "SIGNALLED"}
    OBVIOUS
  <2> QED
    BY <2>1 DEF Consistent, TablesFit, Good, Readers
<1>2. /\ k.handle \in [Handle -> HandleRecord] /\ k.state \in [Task -> State]
  BY <1>1, KernelFields
<1>3. /\ IsTables(y) /\ y.handle = k.handle /\ y.used = k.used /\ y.made = k.made /\ y.node = k.node
      /\ y.file_handles = k.file_handles /\ y.file_handles_open_count = k.file_handles_open_count
      /\ y.state = [k.state EXCEPT ![c] = "RUNNABLE"]
  BY <1>1 DEF Kernel, IsTables, Fields, Turned
<1> HIDE DEF y
<1>4. /\ IsTables(x) /\ x.used = k.used /\ x.made = k.made /\ x.node = k.node
      /\ x.file_handles = k.file_handles /\ x.file_handles_open_count = k.file_handles_open_count
      /\ x.state = [k.state EXCEPT ![c] = "RUNNABLE"]
      /\ x.handle = [h \in Handle |-> [y.handle[h] EXCEPT !.refcount = @ + Cardinality(Places(f[t], h))]]
  <2> DEFINE H == [h \in Handle |-> [y.handle[h] EXCEPT !.refcount = @ + Cardinality(Places(f[t], h))]]
  <2>1. x = [y EXCEPT !.handle = H]
    BY DEF BumpAll, Places
  <2> HIDE DEF H, x
  <2>2. /\ IsTables(x) /\ x.used = y.used /\ x.made = y.made /\ x.node = y.node
        /\ x.file_handles = y.file_handles /\ x.file_handles_open_count = y.file_handles_open_count
        /\ x.state = y.state /\ x.handle = H
    BY <1>3, <2>1 DEF IsTables, Fields
  <2> QED
    BY <1>3, <2>2 DEF H
<1> HIDE DEF x, g
<1>5. g \in Tables /\ g[c] = f[t] /\ \A u \in Task : u # c => g[u] = f[u]
  BY <1>1 DEF g, Inherited, Tables
<1>6. ASSUME NEW h \in Handle
      PROVE  /\ Cardinality(Places(f[t], h)) \in Nat /\ References(f)[h] \in Nat
             /\ d[h] = References(f)[h] + Cardinality(Places(f[t], h))
             /\ References(f)[h] = 0 => Cardinality(Places(f[t], h)) = 0
  BY <1>1, ForkCount DEF g
<1> HIDE DEF d
<1>7. ASSUME NEW h \in Handle
      PROVE  x.handle[h] \in HandleRecord /\ Recounted(x.handle[h], k.handle[h], d[h])
  <2> DEFINE n == Cardinality(Places(f[t], h))
             o == k.handle[h]
  <2>1. n \in Nat /\ x.handle[h] = [o EXCEPT !.refcount = @ + n] /\ o \in HandleRecord
    BY <1>2, <1>3, <1>4, <1>6, SMTT(60)
  <2>2. IF o.live THEN o.refcount = References(f)[h] /\ References(f)[h] > 0 ELSE References(f)[h] = 0
    BY <1>1 DEF Good, HandlesExact
  <2>3. d[h] = References(f)[h] + n /\ References(f)[h] \in Nat /\ (References(f)[h] = 0 => n = 0)
    BY <1>6
  <2> HIDE DEF n, o
  <2>4. /\ x.handle[h] \in HandleRecord /\ x.handle[h].refcount = o.refcount + n
        /\ x.handle[h].live = o.live /\ x.handle[h].node = o.node /\ x.handle[h].mode = o.mode
        /\ x.handle[h].id = o.id
    BY <2>1, SMTT(60) DEF HandleRecord
  <2>5. IF o.live THEN x.handle[h].refcount = d[h] /\ d[h] > 0 ELSE d[h] = 0
    BY <2>1, <2>2, <2>3, <2>4, SMTT(60)
  <2> QED
    BY <2>4, <2>5 DEF Recounted, Alike, o
<1>8. x.state \in [Task -> State] /\ x.state[c] = "RUNNABLE" /\ \A u \in Task : u # c => x.state[u] = k.state[u]
  BY <1>2, <1>4 DEF State
<1>9. Good(x, d)
  <2>1. x.handle \in [Handle -> HandleRecord]
    BY <1>4, <1>7
  <2>2. \A h \in Handle : Recounted(x.handle[h], k.handle[h], d[h])
    BY <1>7
  <2> QED
    BY <1>1, <1>4, <1>8, <2>1, <2>2, RefcountGood
<1>10. Steady(k, x) /\ Fresh(x, e)
  <2>1. Steady(k, x)
    BY <1>7 DEF Steady, Recounted, Alike
  <2>2. Fresh(k, e)
    BY DEF Consistent
  <2> QED
    BY <1>4, <2>1, <2>2 DEF Fresh
<1>11. Consistent(x, g, r, e)
  <2>1. \A u \in Task : Len(g[u]) <= MaxFd
    BY <1>1, <1>5
  <2>2. \A u \in Task : x.state[u] = "UNUSED" => g[u] = <<>>
    <3>1. ASSUME NEW u \in Task, x.state[u] = "UNUSED" PROVE u # c /\ k.state[u] = "UNUSED"
      BY <1>8, <3>1
    <3> QED
      BY <1>5, <3>1 DEF Consistent, TablesFit
  <2>3. \A u \in Task : r[u] # NULL => g[u] = f[u]
    BY <1>1, <1>5
  <2>4. \A u \in Task : x.state[u] \in Waiting <=> k.state[u] \in Waiting
    BY <1>8 DEF Waiting
  <2>5. Undisturbing(k, x, f, g, r, e)
    BY <1>4, <1>5, <1>9, <1>10, <2>1, <2>2, <2>3, <2>4 DEF Undisturbing, d
  <2> QED
    BY <2>5, Kept
<1>12. Wakes(k, r, e) => Wakes(x, r, e)
  <2>1. \A u \in Task : x.state[u] \in Waiting \/ k.state[u] \in Waiting => x.state[u] = k.state[u]
    BY <1>8 DEF Waiting
  <2>2. Harmless(k, x, r, e)
    BY <1>4, <2>1 DEF Harmless
  <2> QED
    BY <2>2, WakesKept
<1> QED
  BY <1>11, <1>12 DEF x, y, g

----------------------------------------------------------------------------
\* The counts of the tables do not depend on what is in a pipe or waits for it.
SameCounts(a, b) ==
    /\ a.open_count = b.open_count /\ a.read_ref_count = b.read_ref_count
    /\ a.write_ref_count = b.write_ref_count /\ a.released = b.released

SameHandles(k, x) ==
    /\ IsTables(x) /\ x.handle = k.handle /\ x.used = k.used /\ x.made = k.made
    /\ x.file_handles = k.file_handles /\ x.file_handles_open_count = k.file_handles_open_count

\* Bytes, waiters and states of tasks may change: the tables stay exact.
LEMMA NodeGood ==
    ASSUME NEW k, NEW c, NEW x, Good(k, c), SameHandles(k, x), x.state \in [Task -> State],
           x.node \in [Node -> NodeRecord], \A n \in Node : SameCounts(x.node[n], k.node[n])
    PROVE  Good(x, c)
<1>1. k \in Kernel /\ HandlesExact(k, c) /\ SlotsExact(k) /\ NodesExact(k)
  BY DEF Good
<1>2. x \in Kernel
  <2>1. /\ x.handle \in [Handle -> HandleRecord] /\ x.used \in 0..MaxHandle /\ x.made \in 0..MaxPipe
        /\ x.file_handles \in Seq(Handle \cup {NULL}) /\ x.file_handles_open_count \in Nat /\ IsTables(x)
    BY <1>1, KernelFields DEF SameHandles
  <2> QED
    BY <2>1, InKernel
<1>3. HandlesExact(x, c)
  BY <1>1 DEF HandlesExact, SameHandles
<1>4. SlotsExact(x)
  <2>1. x.handle = k.handle /\ x.used = k.used /\ x.file_handles = k.file_handles
        /\ x.file_handles_open_count = k.file_handles_open_count
    BY DEF SameHandles
  <2> QED
    BY ONLY <1>1, <2>1, Zenon DEF SlotsExact
<1>5. NodesExact(x)
  <2>1. \A p \in Pipe : p \in Node
    BY Bounds
  <2>2. x.handle = k.handle /\ x.made = k.made
    BY DEF SameHandles
  <2>3. \A n \in Node : x.node[n].open_count = Ends(x.handle, n, "O_RDONLY") + Ends(x.handle, n, "O_WRONLY")
    BY <1>1, <2>2 DEF NodesExact, SameCounts
  <2>4. ASSUME NEW p \in Pipe
        PROVE  /\ x.node[p].read_ref_count = Ends(x.handle, p, "O_RDONLY")
               /\ x.node[p].write_ref_count = Ends(x.handle, p, "O_WRONLY")
               /\ x.node[p].released => x.node[p].open_count = 0
               /\ x.node[p].open_count = 0 /\ p <= x.made => x.node[p].released
    <3>1. SameCounts(x.node[p], k.node[p])
      BY <2>1
    <3> QED
      BY <1>1, <2>2, <3>1 DEF NodesExact, SameCounts
  <2> QED
    BY <2>3, <2>4 DEF NodesExact
<1> QED
  BY <1>2, <1>3, <1>4, <1>5 DEF Good

\* A pipe with an open handle exists and has not been released.
LEMMA OpenPipe ==
    ASSUME NEW k, NEW f, NEW r, NEW e, Consistent(k, f, r, e), NEW p \in Pipe,
           k.node[p].read_ref_count # 0 \/ k.node[p].write_ref_count # 0
    PROVE  k.node[p].open_count # 0
<1>1. Good(k, References(f))
  BY DEF Consistent
<1>2. /\ k.node[p].read_ref_count = Ends(k.handle, p, "O_RDONLY")
      /\ k.node[p].write_ref_count = Ends(k.handle, p, "O_WRONLY")
      /\ k.node[p].open_count = Ends(k.handle, p, "O_RDONLY") + Ends(k.handle, p, "O_WRONLY")
  BY <1>1, Bounds DEF Good, NodesExact
<1>3. Ends(k.handle, p, "O_RDONLY") \in Nat /\ Ends(k.handle, p, "O_WRONLY") \in Nat
  BY SideFinite
<1> QED
  BY <1>2, <1>3, SMTT(60)

\* A change of one open pipe leaves the pipes that were never created untouched.
LEMMA FreshKept ==
    ASSUME NEW k, NEW x, NEW e, Fresh(k, e), NEW p \in Pipe, k.node[p].open_count # 0, x.made = k.made,
           \A q \in Pipe : q # p => x.node[q] = k.node[q]
    PROVE  Fresh(x, e) /\ Fresh(x, e \cup {p})
BY DEF Fresh

\* pipe_write puts n bytes into the pipe.
Filled(k, p, n) == [k EXCEPT !.node[p].size = @ + n]

\* pipe_write changes the number of bytes of one pipe and nothing else.
LEMMA FilledIs ==
    ASSUME NEW k \in Kernel, NEW p \in Node, NEW n \in Nat, k.node[p].size + n <= PIPE_BUF_SIZE
    PROVE  LET y == Filled(k, p, n) IN
           /\ SameHandles(k, y) /\ y.state = k.state /\ y.node \in [Node -> NodeRecord]
           /\ \A q \in Node : q # p => y.node[q] = k.node[q]
           /\ SameCounts(y.node[p], k.node[p]) /\ y.node[p].waiters = k.node[p].waiters
           /\ y.node[p].size = k.node[p].size + n
<1> DEFINE y == Filled(k, p, n)
           o == k.node[p]
           z == [o EXCEPT !.size = @ + n]
<1>1. IsTables(k) /\ k.node \in [Node -> NodeRecord]
  BY KernelFields
<1>2. y = [k EXCEPT !.node = [k.node EXCEPT ![p] = z]]
  BY DEF Filled
<1>3. o \in NodeRecord
  BY <1>1
<1> HIDE DEF o
<1>4. /\ SameCounts(z, o) /\ z.waiters = o.waiters /\ z.size = o.size + n /\ z \in NodeRecord
  <2>1. o.size + n \in 0..PIPE_BUF_SIZE
    <3>1. o.size \in 0..PIPE_BUF_SIZE /\ o.size + n <= PIPE_BUF_SIZE
      BY <1>3 DEF NodeRecord, o
    <3> QED
      BY <3>1, Bounds, SMTT(60)
  <2>2. z \in NodeRecord
    <3> DEFINE s == o.size + n
    <3>1. z = [o EXCEPT !.size = s] /\ s \in 0..PIPE_BUF_SIZE
      BY <2>1
    <3> HIDE DEF s, z
    <3> QED
      BY <1>3, <3>1 DEF NodeRecord
  <2>3. /\ z.open_count = o.open_count /\ z.read_ref_count = o.read_ref_count
        /\ z.write_ref_count = o.write_ref_count /\ z.released = o.released
        /\ z.waiters = o.waiters /\ z.size = o.size + n
    BY <1>3 DEF NodeRecord
  <2> QED
    BY <2>2, <2>3 DEF SameCounts
<1> HIDE DEF y, z
<1>5. y.node = [k.node EXCEPT ![p] = z] /\ SameHandles(k, y) /\ y.state = k.state
  BY <1>1, <1>2 DEF IsTables, Fields, SameHandles
<1>6. y.node \in [Node -> NodeRecord] /\ y.node[p] = z /\ \A q \in Node : q # p => y.node[q] = k.node[q]
  BY <1>1, <1>4, <1>5
<1> QED
  BY <1>4, <1>5, <1>6 DEF y, o

\* pipe_write keeps the invariant, and the reader it wakes finds bytes.
LEMMA WriteStep ==
    ASSUME NEW k, NEW f, NEW r, NEW e, Consistent(k, f, r, e), NEW p \in Pipe,
           k.node[p].write_ref_count # 0, NEW n \in Nat, n > 0, k.node[p].size + n <= PIPE_BUF_SIZE
    PROVE  LET x == wait_wake_up(Filled(k, p, n), p) IN
           Consistent(x, f, r, e) /\ (Wakes(k, r, e) => Wakes(x, r, e))
<1> DEFINE y == Filled(k, p, n)
           x == wait_wake_up(y, p)
<1>1. /\ f \in Tables /\ r \in [Task -> Pipe \cup {NULL}] /\ e \subseteq Pipe /\ Good(k, References(f))
      /\ k \in Kernel /\ Readers(k, f, r) /\ Fresh(k, e) /\ \A u \in Task : Len(f[u]) <= MaxFd
  BY DEF Consistent, TablesFit, Good
<1>2. p \in Node /\ k.node \in [Node -> NodeRecord] /\ k.state \in [Task -> State]
  BY <1>1, Bounds, KernelFields
<1>3. /\ SameHandles(k, y) /\ y.state = k.state /\ y.node \in [Node -> NodeRecord]
      /\ \A q \in Node : q # p => y.node[q] = k.node[q]
      /\ SameCounts(y.node[p], k.node[p]) /\ y.node[p].waiters = k.node[p].waiters
      /\ y.node[p].size = k.node[p].size + n
  BY <1>1, <1>2, FilledIs, ZenonT(60)
<1> HIDE DEF y
<1>4. /\ IsTables(x) /\ x.handle = y.handle /\ x.used = y.used /\ x.made = y.made /\ x.node = y.node
      /\ x.file_handles = y.file_handles /\ x.file_handles_open_count = y.file_handles_open_count
      /\ x.state = WokenState(y, p)
  BY <1>3, WakeEffect, ZenonT(60) DEF SameHandles
<1> HIDE DEF x
<1>5. WokenState(y, p) = WokenState(k, p)
  BY <1>3 DEF WokenState
<1>6. k.node[p].waiters \in Seq(Task) /\ k.node[p].size \in Nat
  BY <1>2, Bounds, SMTT(60) DEF NodeRecord
<1>7. /\ \A t \in Task : x.state[t] \in Waiting <=> k.state[t] \in Waiting
      /\ \A t \in Task : x.state[t] = k.state[t] \/ x.state[t] = "WOKEN"
      /\ \A t \in Task : x.state[t] # k.state[t] => r[t] = p
      /\ \A t \in Task : r[t] = p /\ Len(k.node[p].waiters) <= 1 => x.state[t] = "WOKEN"
  BY <1>1, <1>2, <1>4, <1>5, <1>6, WokenKeeps, SMTT(60)
<1>8. x.state \in [Task -> State]
  <2>1. WokenState(k, p) \in [Task -> State]
    BY <1>2, WokenStateType
  <2> QED
    BY <1>4, <1>5, <2>1
<1>9. /\ SameHandles(k, x) /\ x.node \in [Node -> NodeRecord] /\ x.node[p].waiters = k.node[p].waiters
      /\ x.node[p].size = k.node[p].size + n /\ x.node[p].write_ref_count = k.node[p].write_ref_count
      /\ \A q \in Node : q # p => x.node[q] = k.node[q]
  BY <1>3, <1>4 DEF SameHandles, SameCounts
<1>10. \A q \in Pipe : x.node[q].waiters = k.node[q].waiters
  BY <1>9, Bounds
<1>11. Good(x, References(f))
  <2>1. \A q \in Node : SameCounts(x.node[q], k.node[q])
    BY <1>3, <1>4, <1>9 DEF SameCounts
  <2> QED
    BY <1>1, <1>8, <1>9, <2>1, NodeGood
<1>12. Consistent(x, f, r, e)
  <2>1. k.node[p].open_count # 0
    BY OpenPipe
  <2>2. Fresh(x, e)
    <3>1. x.made = k.made /\ \A q \in Pipe : q # p => x.node[q] = k.node[q]
      BY <1>9, Bounds DEF SameHandles
    <3> QED
      BY <1>1, <2>1, <3>1, FreshKept
  <2>3. Steady(k, x)
    BY <1>9 DEF Steady, SameHandles
  <2>4. \A u \in Task : x.state[u] = "UNUSED" => f[u] = <<>>
    <3>1. ASSUME NEW u \in Task, x.state[u] = "UNUSED" PROVE k.state[u] = "UNUSED"
      BY <1>7, <3>1
    <3> QED
      BY <3>1 DEF Consistent, TablesFit
  <2>5. Undisturbing(k, x, f, f, r, e)
    BY <1>1, <1>7, <1>10, <1>11, <2>2, <2>3, <2>4 DEF Undisturbing
  <2> QED
    BY <2>5, Kept
<1>13. ASSUME Wakes(k, r, e) PROVE Wakes(x, r, e)
  <2>1. /\ \A q \in Pipe : Len(k.node[q].waiters) <= 1
        /\ \A t \in Task : k.state[t] = "BLOCKED" => ~is_buffer_ready(k, r[t])
        /\ \A t \in Task : k.state[t] = "WOKEN" => is_buffer_ready(k, r[t])
        /\ \A q \in e : k.node[q].size = 0 /\ k.node[q].write_ref_count = 0
    BY <1>13 DEF Wakes
  <2>2. ASSUME NEW t \in Task, x.state[t] \in Waiting PROVE r[t] \in Pipe /\ r[t] \in Node
    <3>1. k.state[t] \in {"BLOCKED", "WOKEN", "SIGNALLED"}
      BY <1>7, <2>2 DEF Waiting
    <3>2. r[t] # NULL
      BY <1>1, <3>1 DEF Readers
    <3> QED
      BY <1>1, <3>2, Bounds
  <2>3. is_buffer_ready(x, p)
    BY <1>6, <1>9, SMTT(60) DEF is_buffer_ready
  <2>4. ASSUME NEW t \in Task, x.state[t] = "BLOCKED" PROVE ~is_buffer_ready(x, r[t])
    <3>1. r[t] # p /\ k.state[t] = "BLOCKED" /\ r[t] \in Node
      <4>1. "BLOCKED" # "WOKEN" /\ "BLOCKED" \in Waiting
        BY DEF Waiting
      <4> QED
        BY <1>7, <2>1, <2>2, <2>4, <4>1
    <3> QED
      BY <1>9, <2>1, <3>1 DEF is_buffer_ready
  <2>5. ASSUME NEW t \in Task, x.state[t] = "WOKEN" PROVE is_buffer_ready(x, r[t])
    <3>1. CASE r[t] = p
      BY <2>3, <3>1
    <3>2. CASE r[t] # p
      <4>1. "WOKEN" \in Waiting
        BY DEF Waiting
      <4>2. k.state[t] = "WOKEN" /\ r[t] \in Node
        BY <1>7, <2>2, <2>5, <3>2, <4>1
      <4> QED
        BY <1>9, <2>1, <3>2, <4>2 DEF is_buffer_ready
    <3> QED
      BY <3>1, <3>2
  <2>6. \A q \in e : x.node[q].size = 0 /\ x.node[q].write_ref_count = 0
    BY <1>1, <1>9, <2>1, Bounds
  <2>7. \A q \in Pipe : Len(x.node[q].waiters) <= 1
    BY <1>10, <2>1
  <2> QED
    BY <2>4, <2>5, <2>6, <2>7 DEF Wakes
<1> QED
  BY <1>12, <1>13 DEF x, y

\* pipe_read takes up to n bytes out of the pipe.
Emptied(k, p, n) == [k EXCEPT !.node[p].size = @ - Min({n, @})]

\* pipe_read changes the number of bytes of one pipe and nothing else.
LEMMA EmptiedIs ==
    ASSUME NEW k \in Kernel, NEW p \in Node, NEW n \in Nat
    PROVE  LET y == Emptied(k, p, n) IN
           /\ SameHandles(k, y) /\ y.state = k.state /\ y.node \in [Node -> NodeRecord]
           /\ \A q \in Node : q # p => y.node[q] = k.node[q]
           /\ SameCounts(y.node[p], k.node[p]) /\ y.node[p].waiters = k.node[p].waiters
           /\ k.node[p].size = 0 => y.node[p].size = 0
<1> DEFINE y == Emptied(k, p, n)
           o == k.node[p]
           s == o.size - Min({n, o.size})
           z == [o EXCEPT !.size = s]
<1>1. IsTables(k) /\ k.node \in [Node -> NodeRecord]
  BY KernelFields
<1>2. y = [k EXCEPT !.node = [k.node EXCEPT ![p] = z]]
  BY DEF Emptied
<1>3. o \in NodeRecord
  BY <1>1
<1> HIDE DEF o
<1>4. s \in 0..PIPE_BUF_SIZE /\ (o.size = 0 => s = 0)
  <2>1. o.size \in 0..PIPE_BUF_SIZE
    BY <1>3 DEF NodeRecord
  <2>2. o.size \in Nat
    BY <2>1, SMTT(60)
  <2>3. Min({n, o.size}) \in Nat /\ Min({n, o.size}) <= o.size
    BY <2>2, MinOfTwo
  <2> QED
    BY <2>1, <2>3, Bounds, SMTT(60)
<1> HIDE DEF s
<1>5. z \in NodeRecord
  BY <1>3, <1>4 DEF NodeRecord
<1>6. /\ z.open_count = o.open_count /\ z.read_ref_count = o.read_ref_count
      /\ z.write_ref_count = o.write_ref_count /\ z.released = o.released
      /\ z.waiters = o.waiters /\ z.size = s
  BY <1>3 DEF NodeRecord
<1> HIDE DEF y, z
<1>7. y.node = [k.node EXCEPT ![p] = z] /\ SameHandles(k, y) /\ y.state = k.state
  BY <1>1, <1>2 DEF IsTables, Fields, SameHandles
<1>8. y.node \in [Node -> NodeRecord] /\ y.node[p] = z /\ \A q \in Node : q # p => y.node[q] = k.node[q]
  BY <1>1, <1>5, <1>7
<1> QED
  BY <1>4, <1>6, <1>7, <1>8 DEF y, o, SameCounts

\* The end of pipe_read, which may see the end of the file.
LEMMA TakenStep ==
    ASSUME NEW k, NEW f, NEW r, NEW e, Consistent(k, f, r, e), NEW p \in Pipe, NEW n \in Nat,
           k.node[p].open_count # 0, NEW cut \in BOOLEAN
    PROVE  LET x == Emptied(k, p, n)
               m == IF k.node[p].size = 0 /\ ~cut THEN e \cup {p} ELSE e
           IN  /\ Consistent(x, f, r, m)
               /\ Wakes(k, r, e) /\ (cut \/ is_buffer_ready(k, p)) /\ k.node[p].waiters = <<>> => Wakes(x, r, m)
<1> DEFINE x == Emptied(k, p, n)
           m == IF k.node[p].size = 0 /\ ~cut THEN e \cup {p} ELSE e
<1>1. /\ f \in Tables /\ r \in [Task -> Pipe \cup {NULL}] /\ e \subseteq Pipe /\ Good(k, References(f))
      /\ k \in Kernel /\ Readers(k, f, r) /\ Fresh(k, e) /\ \A u \in Task : Len(f[u]) <= MaxFd
  BY DEF Consistent, TablesFit, Good
<1>2. p \in Node /\ k.state \in [Task -> State]
  BY <1>1, Bounds, KernelFields
<1>3. /\ SameHandles(k, x) /\ x.state = k.state /\ x.node \in [Node -> NodeRecord]
      /\ \A q \in Node : q # p => x.node[q] = k.node[q]
      /\ SameCounts(x.node[p], k.node[p]) /\ x.node[p].waiters = k.node[p].waiters
      /\ k.node[p].size = 0 => x.node[p].size = 0
  BY <1>1, <1>2, EmptiedIs
<1> HIDE DEF x
<1>4. \A q \in Pipe : (q # p => x.node[q] = k.node[q]) /\ x.node[q].waiters = k.node[q].waiters
  BY <1>3, Bounds
<1>5. Good(x, References(f))
  <2>1. \A q \in Node : SameCounts(x.node[q], k.node[q])
    BY <1>3 DEF SameCounts
  <2>2. x.state \in [Task -> State]
    BY <1>2, <1>3
  <2> QED
    BY <1>1, <1>3, <2>1, <2>2, NodeGood
<1>6. Fresh(x, e) /\ Fresh(x, e \cup {p})
  <2>1. x.made = k.made
    BY <1>3 DEF SameHandles
  <2> QED
    BY <1>1, <1>4, <2>1, FreshKept
<1>7. Consistent(x, f, r, e)
  <2>1. Steady(k, x)
    BY <1>3 DEF Steady, SameHandles
  <2>2. \A u \in Task : x.state[u] = "UNUSED" => f[u] = <<>>
    BY <1>3 DEF Consistent, TablesFit
  <2>3. Undisturbing(k, x, f, f, r, e)
    BY <1>1, <1>3, <1>4, <1>5, <1>6, <2>1, <2>2 DEF Undisturbing
  <2> QED
    BY <2>3, Kept
<1>8. Consistent(x, f, r, m)
  BY <1>1, <1>6, <1>7 DEF Consistent
<1>9. ASSUME Wakes(k, r, e), cut \/ is_buffer_ready(k, p), k.node[p].waiters = <<>> PROVE Wakes(x, r, m)
  <2>1. \A t \in Task : r[t] # p
    <3>1. \A t \in Task : ~Waits(k, p, t)
      BY <1>9, SMTT(60) DEF Waits
    <3> QED
      BY <1>1, <3>1 DEF Readers
  <2>2. ASSUME NEW t \in Task, k.state[t] \in {"BLOCKED", "WOKEN", "SIGNALLED"}
        PROVE  is_buffer_ready(x, r[t]) <=> is_buffer_ready(k, r[t])
    <3>1. r[t] # NULL
      BY <1>1, <2>2 DEF Readers
    <3>2. r[t] \in Pipe /\ r[t] # p
      BY <1>1, <2>1, <3>1
    <3> QED
      BY <1>4, <3>2 DEF is_buffer_ready
  <2>3. \A t \in Task : x.state[t] = "BLOCKED" => ~is_buffer_ready(x, r[t])
    BY <1>3, <1>9, <2>2 DEF Wakes
  <2>4. \A t \in Task : x.state[t] = "WOKEN" => is_buffer_ready(x, r[t])
    BY <1>3, <1>9, <2>2 DEF Wakes
  <2>5. k.node[p].size = 0 /\ ~cut => x.node[p].size = 0 /\ x.node[p].write_ref_count = 0
    <3>1. k.node[p].size = 0 /\ ~cut => k.node[p].write_ref_count = 0
      BY <1>9, SMTT(60) DEF is_buffer_ready
    <3> QED
      BY <1>3, <3>1 DEF SameCounts
  <2>6. \A q \in e : x.node[q].size = 0 /\ x.node[q].write_ref_count = 0
    <3> TAKE q \in e
    <3>1. q \in Pipe /\ k.node[q].size = 0 /\ k.node[q].write_ref_count = 0
      BY <1>1, <1>9 DEF Wakes
    <3>2. CASE q = p
      BY <1>3, <3>1, <3>2 DEF SameCounts
    <3>3. CASE q # p
      BY <1>4, <3>1, <3>3
    <3> QED
      BY <3>2, <3>3
  <2>7. \A q \in Pipe : Len(x.node[q].waiters) <= 1
    BY <1>4, <1>9 DEF Wakes
  <2>8. \A q \in m : x.node[q].size = 0 /\ x.node[q].write_ref_count = 0
    BY <2>5, <2>6
  <2> QED
    BY <2>3, <2>4, <2>7, <2>8 DEF Wakes
<1> QED
  BY <1>8, <1>9 DEF x

\* pipe_read with nothing to read: the task waits.
Blocked(k, p, t) == [k EXCEPT !.node[p].waiters = Append(@, t), !.state[t] = "BLOCKED"]

\* What the change of a pipe's waiters and of a task's state does to the tables.
Rewaited(k, x, p, w, t, s) ==
    /\ SameHandles(k, x) /\ x.node \in [Node -> NodeRecord]
    /\ \A q \in Node : q # p => x.node[q] = k.node[q]
    /\ SameCounts(x.node[p], k.node[p]) /\ x.node[p].waiters = w /\ x.node[p].size = k.node[p].size
    /\ x.state \in [Task -> State] /\ x.state[t] = s /\ \A u \in Task : u # t => x.state[u] = k.state[u]

\* A change of one list of waiters and of the state of one task, field by field.
LEMMA RewaitedIs ==
    ASSUME NEW k \in Kernel, NEW p \in Node, NEW t \in Task, NEW w \in Seq(Task), NEW s \in State,
           NEW x, x = [k EXCEPT !.node = [k.node EXCEPT ![p] = [k.node[p] EXCEPT !.waiters = w]],
                                !.state = [k.state EXCEPT ![t] = s]]
    PROVE  Rewaited(k, x, p, w, t, s)
<1> DEFINE o == k.node[p]
           z == [o EXCEPT !.waiters = w]
<1>1. IsTables(k) /\ k.node \in [Node -> NodeRecord] /\ k.state \in [Task -> State]
  BY KernelFields
<1>2. o \in NodeRecord
  BY <1>1
<1> HIDE DEF o
<1>3. z \in NodeRecord
  BY <1>2 DEF NodeRecord
<1>4. /\ z.open_count = o.open_count /\ z.read_ref_count = o.read_ref_count
      /\ z.write_ref_count = o.write_ref_count /\ z.released = o.released
      /\ z.waiters = w /\ z.size = o.size
  BY <1>2 DEF NodeRecord
<1>5. x = [k EXCEPT !.node = [k.node EXCEPT ![p] = z], !.state = [k.state EXCEPT ![t] = s]]
  BY DEF o
<1> HIDE DEF z
<1>6. x.node = [k.node EXCEPT ![p] = z] /\ SameHandles(k, x) /\ x.state = [k.state EXCEPT ![t] = s]
  BY <1>1, <1>5 DEF IsTables, Fields, SameHandles
<1>7. x.node \in [Node -> NodeRecord] /\ x.node[p] = z /\ \A q \in Node : q # p => x.node[q] = k.node[q]
  BY <1>1, <1>3, <1>6, SMTT(60)
<1>8. x.state \in [Task -> State] /\ x.state[t] = s /\ \A u \in Task : u # t => x.state[u] = k.state[u]
  BY <1>1, <1>6, SMTT(60)
<1> QED
  BY <1>4, <1>6, <1>7, <1>8 DEF Rewaited, SameCounts, o

\* The tables stay exact; of the readers only those of p need a look.
LEMMA RewaitedGood ==
    ASSUME NEW k, NEW f, NEW r, NEW e, Consistent(k, f, r, e), NEW x, NEW p \in Pipe, NEW w, NEW t \in Task,
           NEW s, Rewaited(k, x, p, w, t, s), k.node[p].open_count # 0, s # "UNUSED"
    PROVE  /\ Good(x, References(f)) /\ Fresh(x, e) /\ TablesFit(x, f)
           /\ x.handle = k.handle
           /\ \A q \in Pipe : q # p => x.node[q] = k.node[q]
<1>1. Good(k, References(f)) /\ Fresh(k, e) /\ TablesFit(k, f)
  BY DEF Consistent
<1>2. x.made = k.made /\ x.handle = k.handle /\ \A q \in Pipe : q # p => x.node[q] = k.node[q]
  BY Bounds DEF Rewaited, SameHandles
<1>3. \A n \in Node : SameCounts(x.node[n], k.node[n])
  BY DEF Rewaited, SameCounts
<1>4. SameHandles(k, x) /\ x.node \in [Node -> NodeRecord] /\ x.state \in [Task -> State]
  BY DEF Rewaited
<1>5. Good(x, References(f))
  BY <1>1, <1>3, <1>4, NodeGood
<1>6. Fresh(x, e)
  BY <1>1, <1>2, FreshKept
<1>7. TablesFit(x, f)
  BY <1>1 DEF TablesFit, Rewaited
<1> QED
  BY <1>2, <1>5, <1>6, <1>7

\* pipe_read blocks on an empty pipe with a writer: the invariant is kept, and a reader that
\* is alone will be woken.
LEMMA BlockStep ==
    ASSUME NEW k, NEW f, NEW r, NEW e, Consistent(k, f, r, e), NEW p \in Pipe, NEW t \in Task, r[t] = NULL,
           k.node[p].read_ref_count # 0, ~is_buffer_ready(k, p),
           NEW i \in DOMAIN f[t], f[t][i].file # NULL, k.handle[f[t][i].file].node = p,
           k.handle[f[t][i].file].mode = "O_RDONLY"
    PROVE  LET x == Blocked(k, p, t)
               v == [r EXCEPT ![t] = p]
           IN  /\ Consistent(x, f, v, e)
               /\ Wakes(k, r, e) /\ k.node[p].waiters = <<>> => Wakes(x, v, e)
<1> DEFINE x == Blocked(k, p, t)
           w == k.node[p].waiters
           a == Append(w, t)
           v == [r EXCEPT ![t] = p]
<1>1. /\ f \in Tables /\ r \in [Task -> Pipe \cup {NULL}] /\ e \subseteq Pipe /\ Readers(k, f, r)
      /\ k \in Kernel
  BY DEF Consistent, Good
<1>2. p \in Node /\ k.node \in [Node -> NodeRecord] /\ k.node[p].open_count # 0 /\ p # NULL
  BY <1>1, Bounds, KernelFields, OpenPipe
<1>3. w \in Seq(Task)
  BY <1>2 DEF NodeRecord
<1>4. PICK n \in Nat : n = Len(w) /\ DOMAIN w = 1..n
  BY <1>3, LenProperties
<1>5. /\ a \in Seq(Task) /\ DOMAIN a = 1..(n + 1) /\ a[n + 1] = t /\ \A j \in 1..n : a[j] = w[j]
      /\ Len(a) = n + 1
  BY <1>3, <1>4, SMTT(60)
<1>6. Rewaited(k, x, p, a, t, "BLOCKED")
  <2>1. x = [k EXCEPT !.node = [k.node EXCEPT ![p] = [k.node[p] EXCEPT !.waiters = a]],
                      !.state = [k.state EXCEPT ![t] = "BLOCKED"]]
    BY DEF Blocked
  <2>2. "BLOCKED" \in State
    BY DEF State
  <2> HIDE DEF x, a
  <2> QED
    BY <1>1, <1>2, <1>5, <2>1, <2>2, RewaitedIs
<1> HIDE DEF x, a
<1>7. /\ Good(x, References(f)) /\ Fresh(x, e) /\ TablesFit(x, f) /\ x.handle = k.handle
      /\ \A q \in Pipe : q # p => x.node[q] = k.node[q]
  <2>1. "BLOCKED" # "UNUSED"
    OBVIOUS
  <2> QED
    BY ONLY Consistent(k, f, r, e), p \in Pipe, t \in Task, <1>2, <1>6, <2>1, RewaitedGood, SMTT(60)
<1>8. /\ x.node[p].waiters = a /\ x.state[t] = "BLOCKED" /\ \A u \in Task : u # t => x.state[u] = k.state[u]
  BY <1>6 DEF Rewaited
<1>9. v \in [Task -> Pipe \cup {NULL}] /\ v[t] = p /\ \A u \in Task : u # t => v[u] = r[u]
  BY <1>1
<1> HIDE DEF v
<1>10. \A u \in Task : Waits(x, p, u) <=> u = t \/ Waits(k, p, u)
  <2> HIDE DEF w
  <2>1. \A u : Waits(k, p, u) <=> \E j \in 1..n : w[j] = u
    BY <1>4 DEF Waits, w
  <2>2. \A u : Waits(x, p, u) <=> \E j \in 1..(n + 1) : a[j] = u
    BY <1>5, <1>8 DEF Waits
  <2>3. n + 1 \in 1..(n + 1) /\ \A j \in 1..(n + 1) : j \in 1..n \/ j = n + 1
    BY SMTT(60)
  <2>4. \A j \in 1..n : j \in 1..(n + 1)
    BY SMTT(60)
  <2> QED
    <3>1. ASSUME NEW u \in Task, Waits(x, p, u) PROVE u = t \/ Waits(k, p, u)
      <4>1. PICK j \in 1..(n + 1) : a[j] = u
        BY <2>2, <3>1
      <4> QED
        BY <1>5, <2>1, <2>3, <4>1
    <3>2. ASSUME NEW u \in Task, Waits(k, p, u) PROVE Waits(x, p, u)
      <4>1. PICK j \in 1..n : w[j] = u
        BY <2>1, <3>2
      <4> QED
        BY <1>5, <2>2, <2>4, <4>1
    <3>3. Waits(x, p, t)
      BY <1>5, <2>2, <2>3
    <3> QED
      BY <3>1, <3>2, <3>3
<1>11. ASSUME NEW q \in Pipe, NEW u \in Task PROVE Waits(x, q, u) <=> v[u] = q
  <2>1. \A z \in Pipe, y \in Task : Waits(k, z, y) <=> r[y] = z
    BY <1>1 DEF Readers
  <2>2. CASE q = p
    BY <1>9, <1>10, <2>1, <2>2
  <2>3. CASE q # p
    <3>1. Waits(x, q, u) <=> Waits(k, q, u)
      BY <1>7, <2>3 DEF Waits
    <3>2. q # NULL
      BY Bounds
    <3> QED
      BY <1>9, <2>1, <2>3, <3>1, <3>2
  <2> QED
    BY <2>2, <2>3
<1>12. ASSUME NEW q \in Pipe, NEW j \in DOMAIN x.node[q].waiters, NEW l \in DOMAIN x.node[q].waiters,
              x.node[q].waiters[j] = x.node[q].waiters[l]
       PROVE  j = l
  <2>1. \A y, z \in DOMAIN w : w[y] = w[z] => y = z
    BY <1>1 DEF Readers
  <2>2. CASE q = p
    <3>1. \A z \in 1..n : w[z] # t
      <4>1. ~Waits(k, p, t)
        BY <1>1, <1>2 DEF Readers
      <4> QED
        BY <1>4, <4>1 DEF Waits
    <3>2. j \in 1..(n + 1) /\ l \in 1..(n + 1) /\ a[j] = a[l]
      BY <1>5, <1>8, <1>12, <2>2
    <3> HIDE DEF w
    <3> QED
      BY <1>4, <1>5, <2>1, <3>1, <3>2, SMTT(60)
  <2>3. CASE q # p
    <3>1. \A y, z \in DOMAIN k.node[q].waiters : k.node[q].waiters[y] = k.node[q].waiters[z] => y = z
      BY <1>1 DEF Readers
    <3>2. x.node[q] = k.node[q]
      BY <1>7, <2>3
    <3> QED
      BY <1>12, <3>1, <3>2
  <2> QED
    BY <2>2, <2>3
<1>13. \A u \in Task : v[u] # NULL <=> x.state[u] \in {"BLOCKED", "WOKEN", "SIGNALLED"}
  <2>1. \A u \in Task : r[u] # NULL <=> k.state[u] \in {"BLOCKED", "WOKEN", "SIGNALLED"}
    BY <1>1 DEF Readers
  <2> TAKE u \in Task
  <2>2. CASE u = t
    BY <1>2, <1>8, <1>9, <2>2
  <2>3. CASE u # t
    BY <1>8, <1>9, <2>1, <2>3
  <2> QED
    BY <2>2, <2>3
<1>14. ASSUME NEW u \in Task, v[u] # NULL
       PROVE  \E j \in DOMAIN f[u] : /\ f[u][j].file # NULL
                                     /\ x.handle[f[u][j].file].node = v[u]
                                     /\ x.handle[f[u][j].file].mode = "O_RDONLY"
  <2>1. CASE u = t
    BY <1>7, <1>9, <2>1
  <2>2. CASE u # t
    <3>1. r[u] # NULL /\ v[u] = r[u]
      BY <1>9, <1>14, <2>2
    <3>2. PICK j \in DOMAIN f[u] : /\ f[u][j].file # NULL
                                   /\ k.handle[f[u][j].file].node = r[u]
                                   /\ k.handle[f[u][j].file].mode = "O_RDONLY"
      BY <1>1, <3>1 DEF Readers
    <3> QED
      BY <1>7, <3>1, <3>2
  <2> QED
    BY <2>1, <2>2
<1>15. Readers(x, f, v)
  BY <1>11, <1>12, <1>13, <1>14 DEF Readers
<1>16. Consistent(x, f, v, e)
  BY <1>1, <1>7, <1>9, <1>15 DEF Consistent
<1>17. ASSUME Wakes(k, r, e), w = <<>> PROVE Wakes(x, v, e)
  <2>1. /\ \A q \in Pipe : Len(k.node[q].waiters) <= 1
        /\ \A u \in Task : k.state[u] = "BLOCKED" => ~is_buffer_ready(k, r[u])
        /\ \A u \in Task : k.state[u] = "WOKEN" => is_buffer_ready(k, r[u])
        /\ \A q \in e : k.node[q].size = 0 /\ k.node[q].write_ref_count = 0
    BY <1>17 DEF Wakes
  <2>2. Len(a) <= 1
    BY <1>4, <1>5, <1>17, SMTT(60)
  <2>3. \A q \in Pipe : Len(x.node[q].waiters) <= 1
    BY <1>7, <1>8, <2>1, <2>2
  <2>4. ASSUME NEW q \in Pipe
        PROVE  x.node[q].size = k.node[q].size /\ x.node[q].write_ref_count = k.node[q].write_ref_count
    BY <1>6, <1>7 DEF Rewaited, SameCounts
  <2>5. \A q \in Pipe : is_buffer_ready(x, q) <=> is_buffer_ready(k, q)
    BY <2>4 DEF is_buffer_ready
  <2>6. \A u \in Task : u # t /\ x.state[u] \in {"BLOCKED", "WOKEN", "SIGNALLED"} => v[u] = r[u] /\ v[u] \in Pipe
    BY <1>9, <1>13
  <2>7. \A u \in Task : x.state[u] = "BLOCKED" => ~is_buffer_ready(x, v[u])
    BY <1>8, <1>9, <2>1, <2>5, <2>6
  <2>8. \A u \in Task : x.state[u] = "WOKEN" => is_buffer_ready(x, v[u])
    BY <1>8, <2>1, <2>5, <2>6
  <2>9. \A q \in e : x.node[q].size = 0 /\ x.node[q].write_ref_count = 0
    BY <1>1, <2>1, <2>4
  <2> QED
    BY <2>3, <2>7, <2>8, <2>9 DEF Wakes
<1> QED
  BY <1>16, <1>17 DEF x, v

\* pipe_read goes on: the woken task is no longer a waiter of the pipe it reads.
Resumed(k, p, t) == [k EXCEPT !.node[p].waiters = dequeue_waiter(@, t), !.state[t] = "RUNNABLE"]

\* pipe_read goes on after a wake-up or a signal: it leaves the list of waiters, and a
\* reader that was alone and was woken finds bytes or no writer.
LEMMA ResumeStep ==
    ASSUME NEW k, NEW f, NEW r, NEW e, Consistent(k, f, r, e), NEW t \in Task,
           k.state[t] \in {"WOKEN", "SIGNALLED"}
    PROVE  LET p == r[t]
               x == Resumed(k, p, t)
               v == [r EXCEPT ![t] = NULL]
           IN  /\ p \in Pipe /\ x.node[p].open_count # 0 /\ Consistent(x, f, v, e)
               /\ Wakes(k, r, e) => /\ Wakes(x, v, e) /\ x.node[p].waiters = <<>>
                                    /\ k.state[t] = "WOKEN" => is_buffer_ready(x, p)
<1> DEFINE p == r[t]
           x == Resumed(k, p, t)
           w == k.node[p].waiters
           a == dequeue_waiter(w, t)
           v == [r EXCEPT ![t] = NULL]
<1>1. /\ f \in Tables /\ r \in [Task -> Pipe \cup {NULL}] /\ e \subseteq Pipe /\ Readers(k, f, r)
      /\ k \in Kernel /\ Good(k, References(f)) /\ \A u \in Task : Len(f[u]) <= MaxFd
  BY DEF Consistent, Good, TablesFit
<1>2. p # NULL
  <2>1. k.state[t] \in {"BLOCKED", "WOKEN", "SIGNALLED"}
    OBVIOUS
  <2> QED
    BY <1>1, <2>1 DEF Readers
<1>3. p \in Pipe /\ k.node[p].open_count > 0 /\ w \in Seq(Task)
  BY <1>1, <1>2, ReadIsOpen
<1>4. p \in Node /\ k.node \in [Node -> NodeRecord]
  BY <1>1, <1>3, Bounds, KernelFields
<1>5. k.node[p].open_count # 0
  BY <1>3, <1>4, SMTT(60) DEF NodeRecord
<1> HIDE DEF p
<1>6. PICK j \in DOMAIN w : w[j] = t
  <2>1. r[t] = p /\ p \in Pipe
    BY <1>3 DEF p
  <2>2. Waits(k, p, t)
    BY <1>1, <2>1 DEF Readers
  <2> QED
    BY <2>2 DEF Waits
<1>7. Once(w)
  BY <1>1, <1>3 DEF Readers, Once
<1>8. /\ a \in Seq(Task) /\ Len(a) = Len(w) - 1
      /\ \A y, z \in DOMAIN a : a[y] = a[z] => y = z
      /\ \A u : (\E i \in DOMAIN a : a[i] = u) <=> u # t /\ \E i \in DOMAIN w : w[i] = u
  <2>1. w \in Seq(Task) /\ t \in Task
    BY <1>3
  <2> HIDE DEF w
  <2>2. Drops(a, w, t)
    BY ONLY <1>6, <1>7, <2>1, Dequeued, Zenon
  <2> QED
    BY <2>2 DEF Drops, Once
<1>9. Rewaited(k, x, p, a, t, "RUNNABLE")
  <2>1. x = [k EXCEPT !.node = [k.node EXCEPT ![p] = [k.node[p] EXCEPT !.waiters = a]],
                      !.state = [k.state EXCEPT ![t] = "RUNNABLE"]]
    BY DEF Resumed
  <2>2. "RUNNABLE" \in State
    BY DEF State
  <2> HIDE DEF x, a
  <2> QED
    BY <1>1, <1>4, <1>8, <2>1, <2>2, RewaitedIs
<1> HIDE DEF x, a
<1>10. /\ Good(x, References(f)) /\ Fresh(x, e) /\ TablesFit(x, f) /\ x.handle = k.handle
       /\ \A q \in Pipe : q # p => x.node[q] = k.node[q]
  <2>1. "RUNNABLE" # "UNUSED"
    OBVIOUS
  <2>2. p \in Pipe
    BY <1>3
  <2> QED
    BY ONLY Consistent(k, f, r, e), t \in Task, <1>5, <1>9, <2>1, <2>2, RewaitedGood, SMTT(60)
<1>11. /\ x.node[p].waiters = a /\ x.state[t] = "RUNNABLE" /\ \A u \in Task : u # t => x.state[u] = k.state[u]
       /\ SameCounts(x.node[p], k.node[p]) /\ x.node[p].size = k.node[p].size
  BY <1>9 DEF Rewaited
<1>12. v \in [Task -> Pipe \cup {NULL}] /\ v[t] = NULL /\ \A u \in Task : u # t => v[u] = r[u]
  BY <1>1
<1> HIDE DEF v
<1>13. \A u \in Task : Waits(x, p, u) <=> u # t /\ Waits(k, p, u)
  <2>1. \A u : Waits(x, p, u) <=> \E i \in DOMAIN a : a[i] = u
    BY <1>11 DEF Waits
  <2>2. \A u : Waits(k, p, u) <=> \E i \in DOMAIN w : w[i] = u
    BY DEF Waits
  <2>3. \A u : (\E i \in DOMAIN a : a[i] = u) <=> u # t /\ \E i \in DOMAIN w : w[i] = u
    BY <1>8
  <2> HIDE DEF w
  <2> QED
    BY <2>1, <2>2, <2>3
<1>14. ASSUME NEW q \in Pipe, NEW u \in Task PROVE Waits(x, q, u) <=> v[u] = q
  <2>1. \A z \in Pipe, y \in Task : Waits(k, z, y) <=> r[y] = z
    BY <1>1 DEF Readers
  <2>2. q # NULL
    BY Bounds
  <2>3. CASE q = p
    BY <1>3, <1>12, <1>13, <2>1, <2>2, <2>3
  <2>4. CASE q # p
    <3>1. Waits(x, q, u) <=> Waits(k, q, u)
      BY <1>10, <2>4 DEF Waits
    <3>2. r[t] # q
      BY <2>4 DEF p
    <3> QED
      BY <1>12, <2>1, <2>2, <3>1, <3>2
  <2> QED
    BY <2>3, <2>4
<1>15. ASSUME NEW q \in Pipe, NEW y \in DOMAIN x.node[q].waiters, NEW z \in DOMAIN x.node[q].waiters,
              x.node[q].waiters[y] = x.node[q].waiters[z]
       PROVE  y = z
  <2>1. CASE q = p
    BY <1>8, <1>11, <1>15, <2>1
  <2>2. CASE q # p
    <3>1. \A i, l \in DOMAIN k.node[q].waiters : k.node[q].waiters[i] = k.node[q].waiters[l] => i = l
      BY <1>1 DEF Readers
    <3>2. x.node[q] = k.node[q]
      BY <1>10, <2>2
    <3> QED
      BY <1>15, <3>1, <3>2
  <2> QED
    BY <2>1, <2>2
<1>16. \A u \in Task : v[u] # NULL <=> x.state[u] \in {"BLOCKED", "WOKEN", "SIGNALLED"}
  <2>1. \A u \in Task : r[u] # NULL <=> k.state[u] \in {"BLOCKED", "WOKEN", "SIGNALLED"}
    BY <1>1 DEF Readers
  <2>2. "RUNNABLE" \notin {"BLOCKED", "WOKEN", "SIGNALLED"}
    OBVIOUS
  <2> TAKE u \in Task
  <2>3. CASE u = t
    BY <1>11, <1>12, <2>2, <2>3
  <2>4. CASE u # t
    BY <1>11, <1>12, <2>1, <2>4
  <2> QED
    BY <2>3, <2>4
<1>17. ASSUME NEW u \in Task, v[u] # NULL
       PROVE  \E i \in DOMAIN f[u] : /\ f[u][i].file # NULL
                                     /\ x.handle[f[u][i].file].node = v[u]
                                     /\ x.handle[f[u][i].file].mode = "O_RDONLY"
  <2>1. u # t /\ v[u] = r[u] /\ r[u] # NULL
    BY <1>12, <1>17
  <2>2. PICK i \in DOMAIN f[u] : /\ f[u][i].file # NULL
                                 /\ k.handle[f[u][i].file].node = r[u]
                                 /\ k.handle[f[u][i].file].mode = "O_RDONLY"
    BY <1>1, <2>1 DEF Readers
  <2> QED
    BY <1>10, <2>1, <2>2
<1>18. Readers(x, f, v)
  BY <1>14, <1>15, <1>16, <1>17 DEF Readers
<1>19. Consistent(x, f, v, e)
  BY <1>1, <1>10, <1>12, <1>18 DEF Consistent
<1>20. x.node[p].open_count # 0
  BY <1>5, <1>11 DEF SameCounts
<1>21. ASSUME Wakes(k, r, e) PROVE Wakes(x, v, e) /\ a = <<>> /\ (k.state[t] = "WOKEN" => is_buffer_ready(x, p))
  <2>1. /\ \A q \in Pipe : Len(k.node[q].waiters) <= 1
        /\ \A u \in Task : k.state[u] = "BLOCKED" => ~is_buffer_ready(k, r[u])
        /\ \A u \in Task : k.state[u] = "WOKEN" => is_buffer_ready(k, r[u])
        /\ \A q \in e : k.node[q].size = 0 /\ k.node[q].write_ref_count = 0
    BY <1>21 DEF Wakes
  <2>2. Len(a) <= 0
    <3>1. Len(w) \in Nat /\ Len(w) <= 1
      BY <1>3, <2>1, LenProperties
    <3> HIDE DEF w
    <3> QED
      BY <1>8, <3>1, SMTT(60)
  <2>3. a = <<>> /\ Len(a) <= 1
    BY <1>8, <2>2, EmptySeq, LenProperties, SMTT(60)
  <2>4. \A q \in Pipe : Len(x.node[q].waiters) <= 1
    BY <1>10, <1>11, <2>1, <2>3
  <2>5. ASSUME NEW q \in Pipe
        PROVE  x.node[q].size = k.node[q].size /\ x.node[q].write_ref_count = k.node[q].write_ref_count
    BY <1>10, <1>11 DEF SameCounts
  <2>6. \A q \in Pipe : is_buffer_ready(x, q) <=> is_buffer_ready(k, q)
    BY <2>5 DEF is_buffer_ready
  <2>7. \A u \in Task : x.state[u] \in {"BLOCKED", "WOKEN", "SIGNALLED"} => v[u] = r[u] /\ v[u] \in Pipe /\ u # t
    BY <1>12, <1>16
  <2>8. \A u \in Task : x.state[u] = "BLOCKED" => ~is_buffer_ready(x, v[u])
    BY <1>11, <2>1, <2>6, <2>7
  <2>9. \A u \in Task : x.state[u] = "WOKEN" => is_buffer_ready(x, v[u])
    BY <1>11, <2>1, <2>6, <2>7
  <2>10. \A q \in e : x.node[q].size = 0 /\ x.node[q].write_ref_count = 0
    BY <1>1, <2>1, <2>5
  <2>11. k.state[t] = "WOKEN" => is_buffer_ready(x, p)
    BY <1>3, <2>1, <2>6 DEF p
  <2> QED
    BY <2>3, <2>4, <2>8, <2>9, <2>10, <2>11 DEF Wakes
<1> QED
  BY <1>3, <1>11, <1>19, <1>20, <1>21 DEF x, v, p

============================================================================
