----------------------------- MODULE FilesProofs -----------------------------
(***************************************************************************)
(* For every number of tasks, handles, pipes and descriptors: reference    *)
(* counts, the table of handles and the two counts of a pipe are exact,    *)
(* and a pipe with one reader at a time neither leaves it blocked nor      *)
(* reports an end of file too early.                                       *)
(***************************************************************************)
EXTENDS FilesSteps

USE Zenon

\* The step keeps the invariant, and keeps a reader that is alone from being stuck.
Preserved == Inv' /\ (SoleReader => SoleReader')

\* The invariant of the next state, put together from its parts.
LEMMA Preserves ==
    ASSUME Consistent(K', fd', reading', eof'), dups' \in 0..MaxDup,
           OneReader /\ Wakes(K, reading, eof) => Wakes(K', reading', eof')
    PROVE  Preserved
BY DEF Preserved, Inv, SoleReader

\* A task that makes a system call is not inside pipe_read.
LEMMA Caller ==
    ASSUME Inv, NEW t \in Task, User(t)
    PROVE  /\ Consistent(K, fd, reading, eof) /\ dups \in 0..MaxDup /\ reading[t] = NULL
           /\ K.state[t] # "UNUSED" /\ K.state[t] \notin Waiting
           /\ fd \in Tables /\ Good(K, References(fd)) /\ \A u \in Task : Len(fd[u]) <= MaxFd
<1>1. Consistent(K, fd, reading, eof) /\ dups \in 0..MaxDup
  BY DEF Inv
<1>2. Readers(K, fd, reading) /\ fd \in Tables /\ Good(K, References(fd)) /\ \A u \in Task : Len(fd[u]) <= MaxFd
  BY <1>1 DEF Consistent, TablesFit
<1>3. K.state[t] = "RUNNABLE"
  BY DEF User
<1>4. K.state[t] # "UNUSED" /\ K.state[t] \notin Waiting
  BY <1>3 DEF Waiting
<1>5. reading[t] = NULL
  BY <1>2, <1>4 DEF Readers, Waiting
<1> QED
  BY <1>1, <1>2, <1>4, <1>5

\* A descriptor that is open points to an open handle.
LEMMA DescriptorOpen ==
    ASSUME Inv, NEW t \in Task, NEW id, NEW i \in Descriptor(t, id)
    PROVE  /\ i \in DOMAIN fd[t] /\ fd[t][i].file # NULL /\ fd[t][i].identifier = id
           /\ fd[t][i].file \in Handle /\ K.handle[fd[t][i].file].live
<1>1. fd \in Tables /\ Good(K, References(fd)) /\ Len(fd[t]) <= MaxFd
  BY DEF Inv, Consistent, TablesFit
<1>2. i \in DOMAIN fd[t] /\ fd[t][i].file # NULL /\ fd[t][i].identifier = id
  BY DEF Descriptor
<1>3. fd[t][i].file \in Handle /\ K.handle[fd[t][i].file].live
  BY <1>1, <1>2, UsedIsOpen
<1> QED
  BY <1>2, <1>3

\* sys_open keeps the invariant.
LEMMA SysOpen ==
    ASSUME Inv, NEW t \in Task, sys_open(t)
    PROVE  Preserved
<1>1. User(t) /\ K.used < MaxHandle /\ AddedAt(fd[t]) <= MaxFd
  BY DEF sys_open
<1>2. /\ K' = vfs_open(K, Tty, "O_RDONLY") /\ fd' = Added(fd, t, K.used + 1)
      /\ reading' = reading /\ eof' = eof /\ dups' = dups
  BY DEF sys_open, Added
<1>3. /\ Consistent(vfs_open(K, Tty, "O_RDONLY"), Added(fd, t, K.used + 1), reading, eof)
      /\ Wakes(K, reading, eof) => Wakes(vfs_open(K, Tty, "O_RDONLY"), reading, eof)
  BY <1>1, Caller, OpenStep
<1> QED
  BY <1>1, <1>2, <1>3, Caller, Preserves

\* sys_pipe keeps the invariant.
LEMMA PipeCreate ==
    ASSUME Inv, NEW t \in Task, pipe_create(t)
    PROVE  Preserved
<1> DEFINE p == K.made + 1
           x == OneMade(vfs_open(vfs_open(K, p, "O_RDONLY"), p, "O_WRONLY"))
           y == task_add_fd(fd[t], K.used + 1)
           g == Added(fd, t, K.used + 1)
           f == Added(g, t, K.used + 2)
<1>1. User(t) /\ K.made < MaxPipe /\ K.used + 1 < MaxHandle /\ AddedAt(y) <= MaxFd
  BY DEF pipe_create
<1>2. /\ Consistent(K, fd, reading, eof) /\ reading[t] = NULL /\ K.state[t] # "UNUSED" /\ fd \in Tables
      /\ K \in Kernel /\ Len(fd[t]) <= MaxFd /\ dups \in 0..MaxDup
  BY <1>1, Caller DEF Good
<1>3. AddedAt(fd[t]) <= MaxFd
  <2>1. K.used + 1 \in Handle /\ MaxFd \in Nat /\ K.used + 1 # NULL
    BY <1>1, <1>2, KernelFields, FilesAssumption, SMTT(60) DEF Handle, NULL
  <2>2. fd[t] \in Seq(Descriptors)
    BY <1>2 DEF Tables
  <2>3. /\ y \in Seq(Descriptors) /\ AddedAt(fd[t]) \in DOMAIN y /\ y[AddedAt(fd[t])].file = K.used + 1
        /\ \A j \in Nat : j # AddedAt(fd[t]) => /\ j \in DOMAIN y <=> j \in DOMAIN fd[t]
                                                /\ j \in DOMAIN fd[t] => y[j] = fd[t][j]
    BY <2>1, <2>2, AddFd
  <2>4. DOMAIN fd[t] = 1..Len(fd[t]) /\ Len(fd[t]) \in Nat
    BY <2>2, LenProperties
  <2>5. DOMAIN y = 1..Len(y) /\ Len(y) \in Nat
    BY <2>3, LenProperties
  <2> HIDE DEF y
  <2>6. CASE Closed(fd[t]) # {}
    <3>1. Closed(fd[t]) \in SUBSET Nat
      BY <2>4, SMTT(60) DEF Closed
    <3>2. Min(Closed(fd[t])) \in Closed(fd[t])
      BY <2>6, <3>1, MinOfNats
    <3>3. AddedAt(fd[t]) \in DOMAIN fd[t]
      BY <2>6, <3>2 DEF AddedAt, Closed
    <3> QED
      BY <1>2, <2>1, <2>4, <3>3, SMTT(60)
  <2>7. CASE Closed(fd[t]) = {}
    <3>1. \A j \in Nat : j \in DOMAIN y => y[j].file # NULL
      BY <2>1, <2>3, <2>7 DEF Closed
    <3>2. Closed(y) = {}
      BY <2>5, <3>1, SMTT(60) DEF Closed
    <3>3. AddedAt(y) = Len(y) + 1
      BY <3>2 DEF AddedAt
    <3> QED
      BY <1>1, <2>1, <2>3, <2>5, <3>3, SMTT(60)
  <2> QED
    BY <2>6, <2>7
<1>4. Consistent(x, f, reading, eof) /\ (Wakes(K, reading, eof) => Wakes(x, reading, eof))
  BY <1>1, <1>2, <1>3, PipeCreateStep
<1>5. K' = x
  BY DEF pipe_create, OneMade
<1>6. fd' = f
  <2>1. fd' = [fd EXCEPT ![t] = task_add_fd(y, K.used + 2)]
    BY DEF pipe_create
  <2>2. f = [[fd EXCEPT ![t] = task_add_fd(@, K.used + 1)] EXCEPT ![t] = task_add_fd(@, K.used + 2)]
    BY DEF Added
  <2>3. fd \in [Task -> Seq(Descriptors)]
    BY <1>2 DEF Tables
  <2> QED
    BY <2>1, <2>2, <2>3
<1>7. reading' = reading /\ eof' = eof /\ dups' = dups
  BY DEF pipe_create
<1> HIDE DEF x, f
<1> QED
  BY <1>2, <1>4, <1>5, <1>6, <1>7, Preserves

\* sys_dup, onto a new descriptor or over an open one, keeps the invariant.
LEMMA SysDup ==
    ASSUME Inv, NEW t \in Task, NEW old, NEW new \in NewFd \cup {-1}, sys_dup(t, old, new)
    PROVE  Preserved
<1>1. /\ User(t) /\ new # old /\ dups < MaxDup /\ dups' = dups + 1 /\ reading' = reading /\ eof' = eof
      /\ \E i \in Descriptor(t, old) :
            IF new = -1 THEN sys_dup_no_newfd(t, i) ELSE sys_dup_with_newfd(t, i, new)
  BY DEF sys_dup
<1>2. PICK i \in Descriptor(t, old) :
            IF new = -1 THEN sys_dup_no_newfd(t, i) ELSE sys_dup_with_newfd(t, i, new)
  BY <1>1
<1> DEFINE h == fd[t][i].file
           x == vfs_bump_refcount(K, h)
<1>3. /\ i \in DOMAIN fd[t] /\ h # NULL /\ fd[t][i].identifier = old /\ h \in Handle /\ K.handle[h].live
  BY DescriptorOpen, SMTT(60)
<1>4. /\ Consistent(K, fd, reading, eof) /\ reading[t] = NULL /\ K.state[t] # "UNUSED" /\ fd \in Tables
      /\ K.state[t] \notin Waiting /\ dups \in 0..MaxDup
  BY <1>1, Caller
<1>5. dups' \in 0..MaxDup
  BY <1>1, <1>4, FilesAssumption, SMTT(60)
<1>6. CASE new = -1
  <2>1. AddedAt(fd[t]) <= MaxFd /\ K' = x /\ fd' = Added(fd, t, h)
    BY <1>2, <1>6 DEF sys_dup_no_newfd, Added
  <2>2. /\ Consistent(x, Added(fd, t, h), reading, eof)
        /\ Wakes(K, reading, eof) => Wakes(x, reading, eof)
    BY <1>3, <1>4, <2>1, DupStep
  <2> QED
    BY <1>1, <1>5, <2>1, <2>2, Preserves
<1>7. CASE new # -1
  <2> DEFINE there == {j \in DOMAIN fd[t] : fd[t][j].identifier = new}
  <2>1. sys_dup_with_newfd(t, i, new) /\ new \in Nat
    BY <1>2, <1>7, FilesAssumption
  <2>2. CASE there = {}
    <3>1. AddedAt(fd[t]) <= MaxFd /\ K' = x /\ fd' = Renamed(fd, t, h, new)
      BY <2>1, <2>2 DEF sys_dup_with_newfd, Renamed
    <3>2. /\ Consistent(x, Renamed(fd, t, h, new), reading, eof)
          /\ Wakes(K, reading, eof) => Wakes(x, reading, eof)
      BY <1>3, <1>4, <2>1, <3>1, DupNewStep
    <3> QED
      BY <1>1, <1>5, <3>1, <3>2, Preserves
  <2>3. CASE there # {}
    <3> DEFINE j == Min(there)
               y == vfs_bump_refcount(vfs_close(K, fd[t][j].file), h)
    <3>1. K' = y /\ fd' = Pointed(fd, t, j, h)
      BY <2>1, <2>3 DEF sys_dup_with_newfd, Pointed
    <3>2. j \in there
      <4>1. fd[t] \in Seq(Descriptors)
        BY <1>4 DEF Tables
      <4>2. there \in SUBSET Nat
        BY <4>1, LenProperties, SMTT(60)
      <4> QED
        BY <2>3, <4>2, MinOfNats
    <3>3. j \in DOMAIN fd[t] /\ j # i
      BY <1>1, <1>3, <3>2
    <3> HIDE DEF j
    <3>4. /\ Consistent(y, Pointed(fd, t, j, h), reading, eof)
          /\ Wakes(K, reading, eof) => Wakes(y, reading, eof)
      BY <1>3, <1>4, <3>3, DupOverStep
    <3> QED
      BY <1>1, <1>5, <3>1, <3>4, Preserves
  <2> QED
    BY <2>2, <2>3
<1> QED
  BY <1>6, <1>7

\* sys_close keeps the invariant.
LEMMA SysClose ==
    ASSUME Inv, NEW t \in Task, NEW id, sys_close(t, id)
    PROVE  Preserved
<1>1. User(t) /\ reading' = reading /\ eof' = eof /\ dups' = dups
  BY DEF sys_close
<1>2. PICK i \in Descriptor(t, id) : /\ K' = vfs_close(K, fd[t][i].file)
                                     /\ fd' = [fd EXCEPT ![t][i].file = NULL]
  BY DEF sys_close
<1>3. i \in DOMAIN fd[t] /\ fd[t][i].file # NULL
  BY DescriptorOpen, SMTT(60)
<1>4. /\ Consistent(K, fd, reading, eof) /\ reading[t] = NULL /\ K.state[t] # "UNUSED" /\ dups \in 0..MaxDup
  BY <1>1, Caller
<1>5. /\ Consistent(vfs_close(K, fd[t][i].file), Pointed(fd, t, i, NULL), reading, eof)
      /\ Wakes(K, reading, eof) => Wakes(vfs_close(K, fd[t][i].file), reading, eof)
  BY <1>3, <1>4, CloseDescriptor
<1>6. fd' = Pointed(fd, t, i, NULL)
  BY <1>2 DEF Pointed
<1> QED
  BY <1>1, <1>2, <1>4, <1>5, <1>6, Preserves

\* pipe_write keeps the invariant.
LEMMA PipeWrite ==
    ASSUME Inv, NEW t \in Task, NEW id, NEW size \in 1..PIPE_BUF_SIZE, pipe_write(t, id, size)
    PROVE  Preserved
<1>1. PICK i \in Descriptor(t, id) :
        LET h == K.handle[fd[t][i].file]
            written == Fits(h.node, size)
        IN  /\ User(t) /\ h.node \in Pipe
            /\ K.node[h.node].write_ref_count # 0
            /\ written > 0
            /\ K' = wait_wake_up([K EXCEPT !.node[h.node].size = @ + written], h.node)
            /\ UNCHANGED <<fd, reading, eof, dups>>
  BY DEF pipe_write
<1> DEFINE p == K.handle[fd[t][i].file].node
           n == Fits(p, size)
<1>2. /\ User(t) /\ p \in Pipe /\ K.node[p].write_ref_count # 0 /\ n > 0
      /\ fd' = fd /\ reading' = reading /\ eof' = eof /\ dups' = dups
  BY <1>1
<1>3. K' = wait_wake_up(Filled(K, p, n), p)
  BY <1>1 DEF Filled
<1>4. Consistent(K, fd, reading, eof) /\ dups \in 0..MaxDup /\ K \in Kernel
  BY <1>2, Caller DEF Good
<1> HIDE DEF p
<1>5. n \in Nat /\ K.node[p].size + n <= PIPE_BUF_SIZE
  <2>1. p \in Node /\ K.node \in [Node -> NodeRecord]
    BY <1>2, <1>4, Bounds, KernelFields
  <2>2. K.node[p].size \in 0..PIPE_BUF_SIZE /\ PIPE_BUF_SIZE \in Nat
    BY <2>1, FilesAssumption DEF NodeRecord
  <2>3. size \in Nat /\ PIPE_BUF_SIZE - K.node[p].size \in Nat
    BY <2>2, SMTT(60)
  <2>4. n \in Nat /\ n <= PIPE_BUF_SIZE - K.node[p].size
    BY <2>3, MinOfTwo DEF Fits
  <2> QED
    BY <2>2, <2>4, SMTT(60)
<1> HIDE DEF n
<1>6. /\ Consistent(wait_wake_up(Filled(K, p, n), p), fd, reading, eof)
      /\ Wakes(K, reading, eof) => Wakes(wait_wake_up(Filled(K, p, n), p), reading, eof)
  BY <1>2, <1>4, <1>5, WriteStep
<1> QED
  BY <1>2, <1>3, <1>4, <1>6, Preserves

\* pipe_read, whether it takes bytes, reports an end of file or blocks, keeps the invariant.
LEMMA PipeRead ==
    ASSUME Inv, NEW t \in Task, NEW id, NEW size \in 1..PIPE_BUF_SIZE, pipe_read(t, id, size)
    PROVE  Preserved
<1>1. PICK i \in Descriptor(t, id) :
        LET h == K.handle[fd[t][i].file]
            p == h.node
        IN  /\ User(t) /\ p \in Pipe /\ h.mode = "O_RDONLY" /\ K.node[p].read_ref_count # 0
            /\ OneReader => K.node[p].waiters = <<>>
            /\ IF is_buffer_ready(K, p)
               THEN Taken(K, p, size, FALSE) /\ UNCHANGED reading
               ELSE /\ K' = [K EXCEPT !.node[p].waiters = Append(@, t), !.state[t] = "BLOCKED"]
                    /\ reading' = [reading EXCEPT ![t] = p]
                    /\ UNCHANGED eof
            /\ UNCHANGED <<fd, dups>>
  BY DEF pipe_read
<1> DEFINE p == K.handle[fd[t][i].file].node
<1>2. /\ User(t) /\ p \in Pipe /\ K.handle[fd[t][i].file].mode = "O_RDONLY" /\ K.node[p].read_ref_count # 0
      /\ OneReader => K.node[p].waiters = <<>>
      /\ fd' = fd /\ dups' = dups
  BY <1>1
<1>3. i \in DOMAIN fd[t] /\ fd[t][i].file # NULL
  BY DescriptorOpen, SMTT(60)
<1>4. /\ Consistent(K, fd, reading, eof) /\ reading[t] = NULL /\ dups \in 0..MaxDup
  BY <1>2, Caller
<1>5. CASE is_buffer_ready(K, p)
  <2> DEFINE x == Emptied(K, p, size)
             m == IF K.node[p].size = 0 THEN eof \cup {p} ELSE eof
  <2>1. reading' = reading /\ K' = x /\ eof' = m
    BY <1>1, <1>5 DEF Taken, Emptied
  <2>2. K.node[p].open_count # 0
    BY <1>2, <1>4, OpenPipe
  <2>3. size \in Nat
    BY FilesAssumption, SMTT(60)
  <2>4. /\ Consistent(x, fd, reading, m)
        /\ Wakes(K, reading, eof) /\ is_buffer_ready(K, p) /\ K.node[p].waiters = <<>> => Wakes(x, reading, m)
    <3>1. FALSE \in BOOLEAN
      OBVIOUS
    <3>2. m = IF K.node[p].size = 0 /\ ~FALSE THEN eof \cup {p} ELSE eof
      OBVIOUS
    <3> HIDE DEF m
    <3> QED
      BY <1>2, <1>4, <2>2, <2>3, <3>1, <3>2, TakenStep
  <2> HIDE DEF x, m
  <2> QED
    BY <1>2, <1>4, <1>5, <2>1, <2>4, Preserves
<1>6. CASE ~is_buffer_ready(K, p)
  <2> DEFINE x == Blocked(K, p, t)
             v == [reading EXCEPT ![t] = p]
  <2>1. reading' = v /\ K' = x /\ eof' = eof
    BY <1>1, <1>6 DEF Blocked
  <2>2. /\ Consistent(x, fd, v, eof)
        /\ Wakes(K, reading, eof) /\ K.node[p].waiters = <<>> => Wakes(x, v, eof)
    BY <1>2, <1>3, <1>4, <1>6, BlockStep
  <2> HIDE DEF x, v
  <2> QED
    BY <1>2, <1>4, <2>1, <2>2, Preserves
<1> QED
  BY <1>5, <1>6

\* The rest of pipe_read after a wake-up keeps the invariant.
LEMMA PipeReadResumed ==
    ASSUME Inv, NEW t \in Task, NEW size \in 1..PIPE_BUF_SIZE, pipe_read_resumed(t, size)
    PROVE  Preserved
<1> DEFINE p == reading[t]
           y == Resumed(K, p, t)
           v == [reading EXCEPT ![t] = NULL]
           x == Emptied(y, p, size)
           cut == K.state[t] = "SIGNALLED"
           m == IF y.node[p].size = 0 /\ ~cut THEN eof \cup {p} ELSE eof
<1>1. /\ K.state[t] \in {"WOKEN", "SIGNALLED"} /\ reading' = v /\ fd' = fd /\ dups' = dups
  BY DEF pipe_read_resumed
<1>2. K' = x /\ eof' = m
  BY DEF pipe_read_resumed, Taken, Emptied, Resumed
<1>3. Consistent(K, fd, reading, eof) /\ dups \in 0..MaxDup
  BY DEF Inv
<1>4. /\ p \in Pipe /\ y.node[p].open_count # 0 /\ Consistent(y, fd, v, eof)
      /\ Wakes(K, reading, eof) => /\ Wakes(y, v, eof) /\ y.node[p].waiters = <<>>
                                   /\ K.state[t] = "WOKEN" => is_buffer_ready(y, p)
  BY <1>1, <1>3, ResumeStep
<1>5. size \in Nat /\ cut \in BOOLEAN /\ (~cut => K.state[t] = "WOKEN")
  <2>1. size \in Nat
    BY FilesAssumption, SMTT(60)
  <2> QED
    BY <1>1, <2>1
<1> HIDE DEF p, y, v, cut
<1>6. /\ Consistent(x, fd, v, m)
      /\ Wakes(y, v, eof) /\ (cut \/ is_buffer_ready(y, p)) /\ y.node[p].waiters = <<>> => Wakes(x, v, m)
  BY <1>4, <1>5, TakenStep
<1> HIDE DEF x, m
<1> QED
  BY <1>1, <1>2, <1>3, <1>4, <1>5, <1>6, Preserves

\* A signal to a blocked reader keeps the invariant.
LEMMA SysSigsend ==
    ASSUME Inv, NEW t \in Task, NEW receiver \in Task, sys_sigsend(t, receiver)
    PROVE  Preserved
<1> DEFINE x == Turned(K, receiver, "SIGNALLED")
<1>1. /\ K.state[receiver] = "BLOCKED" /\ K' = x /\ fd' = fd /\ reading' = reading /\ eof' = eof
      /\ dups' = dups
  BY DEF sys_sigsend, Turned
<1>2. Consistent(K, fd, reading, eof) /\ dups \in 0..MaxDup
  BY DEF Inv
<1>3. Consistent(x, fd, reading, eof) /\ (Wakes(K, reading, eof) => Wakes(x, reading, eof))
  BY <1>1, <1>2, SignalStep
<1> HIDE DEF x
<1> QED
  BY <1>1, <1>2, <1>3, Preserves

\* task_fork keeps the invariant.
LEMMA TaskFork ==
    ASSUME Inv, NEW t \in Task, NEW child \in Task, task_fork(t, child)
    PROVE  Preserved
<1> DEFINE x == BumpAll(Turned(K, child, "RUNNABLE"), fd[t])
           g == Inherited(fd, t, child)
<1>1. User(t) /\ K.state[child] = "UNUSED" /\ reading' = reading /\ eof' = eof /\ dups' = dups
  BY DEF task_fork
<1>2. K' = x /\ fd' = g
  BY DEF task_fork, Turned, Inherited
<1>3. Consistent(K, fd, reading, eof) /\ K.state[t] # "UNUSED" /\ dups \in 0..MaxDup
  BY <1>1, Caller
<1>4. Consistent(x, g, reading, eof) /\ (Wakes(K, reading, eof) => Wakes(x, reading, eof))
  BY <1>1, <1>3, ForkStep
<1> HIDE DEF x, g
<1> QED
  BY <1>1, <1>2, <1>3, <1>4, Preserves

\* task_exit keeps the invariant.
LEMMA TaskExit ==
    ASSUME Inv, NEW t \in Task, task_exit(t)
    PROVE  Preserved
<1> DEFINE x == Turned(K, t, "ZOMBIE")
<1>1. User(t) /\ fd' = fd /\ reading' = reading /\ eof' = eof /\ dups' = dups
  BY DEF task_exit
<1>2. K' = x
  BY DEF task_exit, Turned
<1>3. Consistent(K, fd, reading, eof) /\ K.state[t] \notin Waiting /\ dups \in 0..MaxDup
  BY <1>1, Caller
<1>4. "ZOMBIE" \in State \ Waiting /\ "ZOMBIE" # "UNUSED"
  BY DEF State, Waiting
<1>5. Consistent(x, fd, reading, eof) /\ (Wakes(K, reading, eof) => Wakes(x, reading, eof))
  BY <1>3, <1>4, StateChange
<1> HIDE DEF x
<1> QED
  BY <1>1, <1>2, <1>3, <1>5, Preserves

\* A table without open descriptors can go.
LEMMA TableFreed ==
    ASSUME NEW k, NEW f, NEW r, NEW e, Consistent(k, f, r, e), NEW t \in Task, r[t] = NULL,
           \A i \in DOMAIN f[t] : f[t][i].file = NULL
    PROVE  Consistent(k, [f EXCEPT ![t] = <<>>], r, e)
<1> DEFINE g == [f EXCEPT ![t] = <<>>]
<1>1. /\ f \in Tables /\ r \in [Task -> Pipe \cup {NULL}] /\ e \subseteq Pipe /\ Good(k, References(f))
      /\ TablesFit(k, f) /\ Fresh(k, e) /\ Readers(k, f, r)
  BY DEF Consistent
<1>2. g \in Tables /\ g[t] = <<>> /\ \A u \in Task : u # t => g[u] = f[u]
  BY <1>1, SMTT(60) DEF Tables
<1> HIDE DEF g
<1>3. ASSUME NEW h \in Handle PROVE Pointing(g, h) = Pointing(f, h)
  <2>1. h # NULL
    BY Bounds
  <2>2. DOMAIN g[t] = {}
    BY <1>2, SMTT(60)
  <2>3. ASSUME NEW a \in Task \X (1..MaxFd)
        PROVE  (a[2] \in DOMAIN g[a[1]] /\ g[a[1]][a[2]].file = h)
                  <=> (a[2] \in DOMAIN f[a[1]] /\ f[a[1]][a[2]].file = h)
    <3>1. a[1] \in Task
      OBVIOUS
    <3>2. CASE a[1] = t
      BY <2>1, <2>2, <3>2
    <3>3. CASE a[1] # t
      BY <1>2, <3>1, <3>3
    <3> QED
      BY <3>2, <3>3
  <2> QED
    BY <2>3 DEF Pointing
<1>4. References(g) = References(f)
  BY <1>3 DEF References
<1>5. TablesFit(k, g)
  <2>1. Len(<<>>) <= MaxFd
    BY FilesAssumption, SMTT(60)
  <2> QED
    BY <1>1, <1>2, <2>1 DEF TablesFit
<1>6. Readers(k, g, r)
  <2>1. \A u \in Task : r[u] # NULL => g[u] = f[u]
    BY <1>2
  <2>2. ASSUME NEW u \in Task, r[u] # NULL
        PROVE  \E i \in DOMAIN g[u] : /\ g[u][i].file # NULL
                                      /\ k.handle[g[u][i].file].node = r[u]
                                      /\ k.handle[g[u][i].file].mode = "O_RDONLY"
    <3>1. PICK i \in DOMAIN f[u] : /\ f[u][i].file # NULL
                                   /\ k.handle[f[u][i].file].node = r[u]
                                   /\ k.handle[f[u][i].file].mode = "O_RDONLY"
      BY <1>1, <2>2 DEF Readers
    <3> QED
      BY <2>1, <2>2, <3>1
  <2>3. \A u \in Task : r[u] # NULL <=> k.state[u] \in {"BLOCKED", "WOKEN", "SIGNALLED"}
    BY <1>1 DEF Readers
  <2>4. \A p \in Pipe : \A i, j \in DOMAIN k.node[p].waiters :
          k.node[p].waiters[i] = k.node[p].waiters[j] => i = j
    BY <1>1 DEF Readers
  <2>5. \A p \in Pipe, u \in Task : Waits(k, p, u) <=> r[u] = p
    BY <1>1 DEF Readers
  <2> QED
    BY <2>2, <2>3, <2>4, <2>5 DEF Readers
<1>7. Consistent(k, g, r, e)
  BY <1>1, <1>2, <1>4, <1>5, <1>6 DEF Consistent
<1> QED
  BY <1>7 DEF g

\* task_destroy, which closes every descriptor of the task, keeps the invariant.
LEMMA TaskDestroy ==
    ASSUME Inv, NEW t \in Task, task_destroy(t)
    PROVE  Preserved
<1> DEFINE open == {i \in DOMAIN fd[t] : fd[t][i].file # NULL}
           i == Min(open)
<1>1. K.state[t] \in {"ZOMBIE", "CLEANUP"} /\ reading' = reading /\ eof' = eof /\ dups' = dups
  BY DEF task_destroy
<1>2. Consistent(K, fd, reading, eof) /\ dups \in 0..MaxDup /\ Readers(K, fd, reading) /\ fd \in Tables
  BY DEF Inv, Consistent
<1>3. K.state[t] \notin Waiting
  BY <1>1 DEF Waiting
<1>4. reading[t] = NULL
  BY <1>2, <1>3 DEF Readers, Waiting
<1>5. CASE open = {}
  <2> DEFINE x == Turned(K, t, "FREED")
             g == [fd EXCEPT ![t] = <<>>]
  <2>1. K' = x /\ fd' = g
    BY <1>5 DEF task_destroy, Turned
  <2>2. "FREED" \in State \ Waiting /\ "FREED" # "UNUSED"
    BY DEF State, Waiting
  <2>3. Consistent(x, fd, reading, eof) /\ (Wakes(K, reading, eof) => Wakes(x, reading, eof))
    BY <1>2, <1>3, <2>2, StateChange
  <2>4. \A j \in DOMAIN fd[t] : fd[t][j].file = NULL
    BY <1>5
  <2> HIDE DEF x
  <2>5. Consistent(x, g, reading, eof)
    BY <1>4, <2>3, <2>4, TableFreed
  <2> HIDE DEF g
  <2> QED
    BY <1>1, <1>2, <2>1, <2>3, <2>5, Preserves
<1>6. CASE open # {}
  <2> DEFINE y == Turned(K, t, "CLEANUP")
             x == vfs_close(y, fd[t][i].file)
             g == Pointed(fd, t, i, NULL)
  <2>1. K' = x /\ fd' = g
    BY <1>6 DEF task_destroy, Turned, Pointed
  <2>2. i \in open
    <3>1. fd[t] \in Seq(Descriptors)
      BY <1>2 DEF Tables
    <3>2. open \in SUBSET Nat
      BY <3>1, LenProperties, SMTT(60)
    <3> QED
      BY <1>6, <3>2, MinOfNats
  <2>3. i \in DOMAIN fd[t] /\ fd[t][i].file # NULL
    BY <2>2
  <2>4. "CLEANUP" \in State \ Waiting /\ "CLEANUP" # "UNUSED"
    BY DEF State, Waiting
  <2>5. /\ Consistent(y, fd, reading, eof) /\ (Wakes(K, reading, eof) => Wakes(y, reading, eof))
        /\ y.state[t] = "CLEANUP"
    BY <1>2, <1>3, <2>4, StateChange, SMTT(60)
  <2>6. y.state[t] # "UNUSED"
    BY <2>4, <2>5
  <2> HIDE DEF y, i
  <2>7. Consistent(x, g, reading, eof) /\ (Wakes(y, reading, eof) => Wakes(x, reading, eof))
    BY <1>4, <2>3, <2>5, <2>6, CloseDescriptor
  <2> HIDE DEF x, g
  <2> QED
    BY <1>1, <1>2, <2>1, <2>5, <2>7, Preserves
<1> QED
  BY <1>5, <1>6

----------------------------------------------------------------------------
\* No step breaks the invariant.
LEMMA StepKeeps == Inv /\ [Next]_vars => Preserved
<1> SUFFICES ASSUME Inv, [Next]_vars PROVE Preserved
  OBVIOUS
<1>1. CASE UNCHANGED vars
  <2>1. K' = K /\ fd' = fd /\ reading' = reading /\ eof' = eof /\ dups' = dups
    BY <1>1 DEF vars
  <2> QED
    BY <2>1, Preserves DEF Inv
<1>2. CASE Next
  <2>1. PICK t \in Task :
        \/ sys_open(t)
        \/ pipe_create(t)
        \/ \E old \in Ids(t), new \in NewFd \cup {-1} : sys_dup(t, old, new)
        \/ \E id \in Ids(t) : sys_close(t, id)
        \/ \E id \in Ids(t), size \in 1..PIPE_BUF_SIZE : pipe_write(t, id, size)
        \/ \E id \in Ids(t), size \in 1..PIPE_BUF_SIZE : pipe_read(t, id, size)
        \/ \E size \in 1..PIPE_BUF_SIZE : pipe_read_resumed(t, size)
        \/ \E receiver \in Task : sys_sigsend(t, receiver)
        \/ \E child \in Task : task_fork(t, child)
        \/ task_exit(t) \/ task_destroy(t)
    BY <1>2 DEF Next
  <2>2. ASSUME NEW old \in Ids(t), NEW new \in NewFd \cup {-1}, sys_dup(t, old, new) PROVE Preserved
    BY <2>2, SysDup
  <2>3. ASSUME NEW id \in Ids(t), sys_close(t, id) PROVE Preserved
    BY <2>3, SysClose
  <2>4. ASSUME NEW id \in Ids(t), NEW size \in 1..PIPE_BUF_SIZE, pipe_write(t, id, size) PROVE Preserved
    BY <2>4, PipeWrite
  <2>5. ASSUME NEW id \in Ids(t), NEW size \in 1..PIPE_BUF_SIZE, pipe_read(t, id, size) PROVE Preserved
    BY <2>5, PipeRead
  <2>6. ASSUME NEW size \in 1..PIPE_BUF_SIZE, pipe_read_resumed(t, size) PROVE Preserved
    BY <2>6, PipeReadResumed
  <2>7. ASSUME NEW child \in Task, task_fork(t, child) PROVE Preserved
    BY <2>7, TaskFork
  <2>8. ASSUME NEW receiver \in Task, sys_sigsend(t, receiver) PROVE Preserved
    BY <2>8, SysSigsend
  <2> QED
    BY <2>1, <2>2, <2>3, <2>4, <2>5, <2>6, <2>7, <2>8, SysOpen, PipeCreate, TaskExit, TaskDestroy
<1> QED
  BY <1>1, <1>2

----------------------------------------------------------------------------
\* The first task's descriptors when those in S are open, and the kernel before
\* the first pipe.
Std(S) == [t \in Task |-> IF t # 1 THEN <<>>
                          ELSE [i \in 1..3 |-> [identifier |-> i - 1, file |-> IF i \in S THEN i ELSE NULL]]]
Idle(k) ==
    /\ k.made = 0 /\ k.state = [t \in Task |-> IF t = 1 THEN "RUNNABLE" ELSE "UNUSED"]
    /\ \A p \in Pipe : /\ k.node[p].open_count = 0 /\ k.node[p].size = 0 /\ k.node[p].waiters = <<>>
                       /\ ~k.node[p].released

\* The descriptors of the first task: number i points to handle i.
LEMMA StdIs ==
    ASSUME NEW S
    PROVE  /\ Std(S) \in Tables /\ 1 \in Task
           /\ \A t \in Task : Len(Std(S)[t]) <= MaxFd
           /\ \A t \in Task : t # 1 => Std(S)[t] = <<>>
           /\ \A t \in Task, i \in 1..MaxFd, h \in Handle :
                 At(Std(S), t, i, h) <=> t = 1 /\ i \in 1..3 /\ i \in S /\ h = i
<1> DEFINE a == [i \in 1..3 |-> [identifier |-> i - 1, file |-> IF i \in S THEN i ELSE NULL]]
<1>1. 1 \in Task /\ 3 <= MaxFd /\ 1..3 \subseteq Handle /\ NULL \notin Handle
  BY Bounds, SMTT(60) DEF Task, Handle
<1>2. \A i \in 1..3 : i - 1 \in Nat /\ (IF i \in S THEN i ELSE NULL) \in Handle \cup {NULL}
  BY <1>1, SMTT(60)
<1>3. a \in [1..3 -> Descriptors]
  BY <1>2 DEF Descriptors
<1>4. a \in Seq(Descriptors) /\ Len(a) = 3 /\ DOMAIN a = 1..3
  BY <1>3, SMTT(60)
<1>5. <<>> \in Seq(Descriptors) /\ Len(<<>>) = 0 /\ DOMAIN <<>> = {} /\ 0 <= MaxFd
  BY Bounds, SMTT(60)
<1>6. \A i \in 1..3 : a[i].file = IF i \in S THEN i ELSE NULL
  OBVIOUS
<1>7. Std(S) = [t \in Task |-> IF t # 1 THEN <<>> ELSE a]
  BY DEF Std
<1> HIDE DEF a
<1>8. Std(S)[1] = a /\ \A t \in Task : t # 1 => Std(S)[t] = <<>>
  BY <1>1, <1>7
<1>9. Std(S) \in Tables
  BY <1>4, <1>5, <1>7 DEF Tables
<1>10. ASSUME NEW t \in Task PROVE Len(Std(S)[t]) <= MaxFd
  BY <1>1, <1>4, <1>5, <1>8
<1>11. ASSUME NEW t \in Task, NEW i \in 1..MaxFd, NEW h \in Handle
       PROVE  At(Std(S), t, i, h) <=> t = 1 /\ i \in 1..3 /\ i \in S /\ h = i
  <2>1. CASE t = 1
    <3>1. At(Std(S), t, i, h) <=> i \in 1..3 /\ a[i].file = h
      BY <1>4, <1>8, <2>1 DEF At
    <3> QED
      BY <1>1, <1>6, <2>1, <3>1
  <2>2. CASE t # 1
    BY <1>5, <1>8, <2>2 DEF At
  <2> QED
    BY <2>1, <2>2
<1> QED
  BY <1>1, <1>8, <1>9, <1>10, <1>11

\* One descriptor more or fewer.
LEMMA StdChange ==
    ASSUME NEW S, NEW i \in 1..3, i \notin S
    PROVE  LET c == References(Std(S))
               d == References(Std(S \cup {i}))
           IN  /\ i \in Handle /\ c[i] \in Nat /\ d[i] = c[i] + 1 /\ d[i] \in Nat /\ d[i] > 0
               /\ \A h \in Handle : h # i => d[h] = c[h]
<1> DEFINE f == Std(S)
           g == Std(S \cup {i})
<1>1. 1 \in Task /\ i \in 1..MaxFd /\ i \in Handle
  BY Bounds, StdIs, SMTT(60) DEF Handle
<1>2. OneDescriptor(f, g, 1, i)
  <2>1. ASSUME NEW u \in Task, NEW j \in 1..MaxFd, u # 1 \/ j # i, NEW h \in Handle
        PROVE  At(g, u, j, h) <=> At(f, u, j, h)
    <3>1. At(g, u, j, h) <=> u = 1 /\ j \in 1..3 /\ j \in S \cup {i} /\ h = j
      BY StdIs
    <3>2. At(f, u, j, h) <=> u = 1 /\ j \in 1..3 /\ j \in S /\ h = j
      BY StdIs
    <3> QED
      BY <2>1, <3>1, <3>2
  <2> QED
    BY <2>1 DEF OneDescriptor
<1>3. At(g, 1, i, i) /\ \A h \in Handle : ~At(f, 1, i, h)
  BY <1>1, StdIs
<1> HIDE DEF f, g
<1>4. /\ References(f)[i] \in Nat /\ References(g)[i] = References(f)[i] + 1
      /\ \A h \in Handle : h # i => References(g)[h] = References(f)[h]
  BY ONLY <1>1, <1>2, <1>3, PointMore, SMTT(60)
<1>5. References(g)[i] \in Nat /\ References(g)[i] > 0
  BY <1>4, SMTT(60)
<1> QED
  BY <1>1, <1>4, <1>5 DEF f, g

\* Opening the terminal for the next standard descriptor keeps the tables exact.
LEMMA StdOpened ==
    ASSUME NEW k, NEW S, Good(k, References(Std(S))), Idle(k), k.used + 1 \in 1..3, k.used + 1 \notin S,
           k.used \in Nat, NEW mode \in Modes
    PROVE  LET x == vfs_open(k, Tty, mode)
           IN  Good(x, References(Std(S \cup {k.used + 1}))) /\ Idle(x) /\ x.used = k.used + 1
<1> DEFINE x == vfs_open(k, Tty, mode)
           i == k.used + 1
           c == References(Std(S))
           d == References(Std(S \cup {i}))
<1>1. k.used < MaxHandle /\ Tty \in Node /\ Tty \notin Pipe /\ k \in Kernel /\ k.node \in [Node -> NodeRecord]
  BY Bounds, KernelFields, SMTT(60) DEF Good
<1>2. c[i] = 0
  BY <1>1, NextHandle
<1>3. d[i] = c[i] + 1 /\ \A h \in Handle : h # i => d[h] = c[h]
  BY StdChange
<1>4. d[i] = 1
  BY <1>2, <1>3, SMTT(60)
<1> HIDE DEF c, d, x
<1>5. Good(x, d) /\ Opened(k, Tty, mode, x)
  BY <1>1, <1>3, <1>4, OpenGood DEF c, x
<1>6. x.made = k.made /\ x.state = k.state /\ x.used = i /\ x.node = [k.node EXCEPT ![Tty] = OpenedNode(k, Tty, mode)]
  BY <1>5 DEF Opened
<1>7. \A p \in Pipe : x.node[p] = k.node[p]
  BY <1>1, <1>6, Bounds
<1>8. Idle(x)
  BY <1>6, <1>7 DEF Idle
<1> QED
  BY <1>5, <1>6, <1>8 DEF d, x

\* Closing a standard descriptor at the start keeps the tables exact.
LEMMA StdClosed ==
    ASSUME NEW k, NEW S, Good(k, References(Std(S))), Idle(k), NEW i \in 0..2, i + 1 \in S
    PROVE  LET x == CloseAtStart(k, i)
               T == IF i \in InitiallyClosed THEN S \ {i + 1} ELSE S
           IN  Good(x, References(Std(T))) /\ Idle(x)
<1> DEFINE h == i + 1
           x == vfs_close(k, h)
           T == S \ {h}
           c == References(Std(S))
           d == References(Std(T))
           n == k.handle[h].node
<1>1. CASE i \notin InitiallyClosed
  BY <1>1 DEF CloseAtStart
<1>2. CASE i \in InitiallyClosed
  <2>1. h \in 1..3 /\ h \notin T /\ T \cup {h} = S
    BY SMTT(60)
  <2> HIDE DEF h, T
  <2>2. /\ h \in Handle /\ d[h] \in Nat /\ c[h] = d[h] + 1 /\ c[h] \in Nat /\ c[h] > 0
        /\ \A g \in Handle : g # h => d[g] = c[g]
    BY <2>1, StdChange
  <2>3. k.handle[h].live
    <3>1. IF k.handle[h].live THEN TRUE ELSE c[h] = 0
      BY <2>2 DEF Good, HandlesExact
    <3>2. c[h] # 0
      BY <2>2, SMTT(60)
    <3> QED
      BY <3>1, <3>2
  <2>4. d[h] = c[h] - 1
    BY <2>2, SMTT(60)
  <2> HIDE DEF c, d, x
  <2>5. Good(x, d) /\ CloseOf(k, h, c, x)
    BY <2>2, <2>3, <2>4, CloseGood DEF c, x
  <2>6. n \in Node /\ k.node[n].open_count > 0 /\ k \in Kernel /\ k.node \in [Node -> NodeRecord]
    <3>1. n \in Node /\ k.node[n].open_count > 0
      BY <2>2, <2>3, OpenHandle, SMTT(60)
    <3> QED
      BY <3>1, KernelFields DEF Good
  <2>7. n \notin Pipe
    <3>1. \A p \in Pipe : k.node[p].open_count = 0
      BY DEF Idle
    <3> HIDE DEF n
    <3> QED
      BY <2>6, <3>1, SMTT(60)
  <2>8. x.made = k.made /\ x.state = k.state /\ (x.node = k.node \/ x.node = [k.node EXCEPT ![n] = ClosedNode(k, h)])
    BY <2>5, <2>7 DEF CloseOf, ClosedHandle, Unreferenced, LastWriter
  <2>9. \A p \in Pipe : x.node[p] = k.node[p]
    <3> HIDE DEF n
    <3> QED
      BY <2>6, <2>7, <2>8, Bounds
  <2>10. Idle(x)
    BY <2>8, <2>9 DEF Idle
  <2>11. CloseAtStart(k, i) = x
    BY <1>2 DEF CloseAtStart, x, h
  <2> QED
    BY <1>2, <2>5, <2>10, <2>11 DEF d, T, h
<1> QED
  BY <1>1, <1>2

\* The kernel before the first handle.
LEMMA EmptyKernel ==
    ASSUME NEW k, k = [handle |-> [h \in Handle |-> NoHandle],
                       used |-> 0, made |-> 0,
                       file_handles |-> <<>>, file_handles_open_count |-> 0,
                       node |-> [n \in Node |-> [open_count |-> 0, read_ref_count |-> 0, write_ref_count |-> 0,
                                                 size |-> 0, waiters |-> <<>>, released |-> FALSE]],
                       state |-> [t \in Task |-> IF t = 1 THEN "RUNNABLE" ELSE "UNUSED"]]
    PROVE  Good(k, References(Std({}))) /\ Idle(k) /\ k.used = 0
<1> DEFINE c == References(Std({}))
<1>1. /\ k.handle = [h \in Handle |-> NoHandle] /\ k.used = 0 /\ k.made = 0 /\ k.file_handles = <<>>
      /\ k.file_handles_open_count = 0
      /\ k.node = [n \in Node |-> [open_count |-> 0, read_ref_count |-> 0, write_ref_count |-> 0,
                                   size |-> 0, waiters |-> <<>>, released |-> FALSE]]
      /\ k.state = [t \in Task |-> IF t = 1 THEN "RUNNABLE" ELSE "UNUSED"]
  OBVIOUS
<1>2. \A h \in Handle : k.handle[h] = NoHandle /\ k.handle[h].live = FALSE
  BY <1>1 DEF NoHandle
<1>3. \A n \in Node : /\ k.node[n].open_count = 0 /\ k.node[n].read_ref_count = 0 /\ k.node[n].write_ref_count = 0
                      /\ k.node[n].size = 0 /\ k.node[n].waiters = <<>> /\ k.node[n].released = FALSE
  BY <1>1
<1>4. NoHandle \in HandleRecord
  <2>1. 1 \in 1..(MaxHandle + VFS_FILE_HANDLE_REALLOC_SIZE) /\ 0 \in Int /\ FALSE \in BOOLEAN
        /\ "O_RDONLY" \in {"O_RDONLY", "O_WRONLY"} /\ Tty \in Node
    BY Bounds, SMTT(60)
  <2> QED
    BY <2>1 DEF NoHandle, HandleRecord
<1>5. k \in Kernel
  <2>1. k.handle \in [Handle -> HandleRecord]
    BY <1>1, <1>4
  <2>2. k.node \in [Node -> NodeRecord]
    <3>1. [open_count |-> 0, read_ref_count |-> 0, write_ref_count |-> 0,
           size |-> 0, waiters |-> <<>>, released |-> FALSE] \in NodeRecord
      BY Bounds, SMTT(60) DEF NodeRecord
    <3> QED
      BY <1>1, <3>1
  <2>3. k.state \in [Task -> State]
    BY <1>1 DEF State
  <2>4. k.used \in 0..MaxHandle /\ k.made \in 0..MaxPipe /\ k.file_handles \in Seq(Handle \cup {NULL})
        /\ k.file_handles_open_count \in Nat
    BY <1>1, Bounds, SMTT(60)
  <2>5. IsTables(k)
    BY DEF IsTables, Fields
  <2> QED
    BY <2>1, <2>2, <2>3, <2>4, <2>5, InKernel
<1>6. HandlesExact(k, c)
  <2>1. ASSUME NEW h \in Handle PROVE c[h] = 0
    <3> DEFINE none == {}
    <3>1. ASSUME NEW a \in Pointing(Std({}), h) PROVE FALSE
      <4>1. /\ a \in Task \X (1..MaxFd) /\ At(Std(none), a[1], a[2], h)
        BY DEF Pointing, At
      <4>2. a[1] \in Task /\ a[2] \in 1..MaxFd
        BY <4>1
      <4> HIDE DEF none
      <4>3. a[2] \in none
        <5>1. \A t \in Task, i \in 1..MaxFd, g \in Handle :
                 At(Std(none), t, i, g) <=> t = 1 /\ i \in 1..3 /\ i \in none /\ g = i
          BY StdIs
        <5> QED
          BY <4>1, <4>2, <5>1
      <4> QED
        BY <4>3 DEF none
    <3>2. Pointing(Std({}), h) = {}
      BY <3>1
    <3> QED
      BY <3>2, FS_EmptySet DEF References
  <2> QED
    BY <1>2, <2>1 DEF HandlesExact
<1>7. SlotsExact(k)
  <2>1. DOMAIN k.file_handles = {} /\ Len(k.file_handles) = 0
    BY <1>1, SMTT(60)
  <2>2. Full(k.file_handles) = {}
    BY <2>1 DEF Full
  <2>3. Cardinality(Full(k.file_handles)) = 0
    BY <2>2, FS_EmptySet
  <2>4. k.file_handles_open_count <= k.used /\ Len(k.file_handles) < MaxHandle + VFS_FILE_HANDLE_REALLOC_SIZE
    BY <1>1, <2>1, Bounds, SMTT(60)
  <2> QED
    BY <1>1, <1>2, <2>2, <2>3, <2>4 DEF SlotsExact
<1>8. NodesExact(k)
  <2>1. ASSUME NEW n, NEW m PROVE Ends(k.handle, n, m) = 0
    <3>1. Side(k.handle, n, m) = {}
      BY <1>2 DEF Side
    <3> QED
      BY <3>1, SideFinite
  <2>2. \A p \in Pipe : p \in Node /\ ~(p <= k.made)
    BY <1>1, Bounds, SMTT(60) DEF Pipe
  <2>3. 0 = 0 + 0
    BY SMTT(60)
  <2> QED
    BY <1>3, <2>1, <2>2, <2>3 DEF NodesExact
<1>9. Idle(k)
  BY <1>1, <1>3, Bounds DEF Idle
<1> QED
  BY <1>1, <1>5, <1>6, <1>7, <1>8, <1>9 DEF Good

\* The kernel starts in the invariant, and nobody waits.
LEMMA Start == Init => Inv /\ SoleReader
<1> SUFFICES ASSUME Init PROVE Inv /\ SoleReader
  OBVIOUS
<1> DEFINE Empty == [handle |-> [h \in Handle |-> NoHandle],
                     used |-> 0, made |-> 0,
                     file_handles |-> <<>>, file_handles_open_count |-> 0,
                     node |-> [n \in Node |-> [open_count |-> 0, read_ref_count |-> 0, write_ref_count |-> 0,
                                               size |-> 0, waiters |-> <<>>, released |-> FALSE]],
                     state |-> [t \in Task |-> IF t = 1 THEN "RUNNABLE" ELSE "UNUSED"]]
           k1 == vfs_open(Empty, Tty, "O_RDONLY")
           k2 == vfs_open(k1, Tty, "O_WRONLY")
           k3 == vfs_open(k2, Tty, "O_WRONLY")
           k4 == CloseAtStart(k3, 0)
           k5 == CloseAtStart(k4, 1)
           k6 == CloseAtStart(k5, 2)
           S1 == {} \cup {1}
           S2 == S1 \cup {2}
           S3 == S2 \cup {3}
           S4 == IF 0 \in InitiallyClosed THEN S3 \ {1} ELSE S3
           S5 == IF 1 \in InitiallyClosed THEN S4 \ {2} ELSE S4
           S6 == IF 2 \in InitiallyClosed THEN S5 \ {3} ELSE S5
<1>1. Good(Empty, References(Std({}))) /\ Idle(Empty) /\ Empty.used = 0
  <2> HIDE DEF Empty
  <2> QED
    BY EmptyKernel DEF Empty
<1>2. K = k6
  BY DEF Init, StdioHandles
<1> HIDE DEF Empty
<1>3. "O_RDONLY" \in Modes /\ "O_WRONLY" \in Modes
  BY DEF Modes
<1>4. Good(k1, References(Std(S1))) /\ Idle(k1) /\ k1.used = 1
  <2>1. Empty.used + 1 = 1 /\ Empty.used + 1 \in 1..3 /\ Empty.used + 1 \notin {} /\ Empty.used \in Nat
    BY <1>1, SMTT(60)
  <2>2. /\ Good(k1, References(Std({} \cup {Empty.used + 1}))) /\ Idle(k1) /\ k1.used = Empty.used + 1
    BY ONLY <1>1, <1>3, <2>1, StdOpened, Zenon
  <2> QED
    BY ONLY <2>1, <2>2, Zenon
<1> HIDE DEF k1
<1>5. Good(k2, References(Std(S2))) /\ Idle(k2) /\ k2.used = 2
  <2>1. k1.used + 1 = 2 /\ k1.used + 1 \in 1..3 /\ k1.used + 1 \notin S1 /\ k1.used \in Nat
    BY <1>4, SMTT(60)
  <2> HIDE DEF S1
  <2>2. /\ Good(k2, References(Std(S1 \cup {k1.used + 1}))) /\ Idle(k2) /\ k2.used = k1.used + 1
    BY ONLY <1>3, <1>4, <2>1, StdOpened, Zenon
  <2> QED
    BY ONLY <2>1, <2>2, Zenon
<1> HIDE DEF k2
<1>6. Good(k3, References(Std(S3))) /\ Idle(k3)
  <2>1. k2.used + 1 = 3 /\ k2.used + 1 \in 1..3 /\ k2.used + 1 \notin S2 /\ k2.used \in Nat
    BY <1>5, SMTT(60)
  <2> HIDE DEF S2
  <2>2. /\ Good(k3, References(Std(S2 \cup {k2.used + 1}))) /\ Idle(k3)
    BY ONLY <1>3, <1>5, <2>1, StdOpened, Zenon
  <2> QED
    BY ONLY <2>1, <2>2, Zenon
<1> HIDE DEF k3
<1>7. /\ 0 \in 0..2 /\ 1 \in 0..2 /\ 2 \in 0..2 /\ 0 + 1 = 1 /\ 1 + 1 = 2 /\ 2 + 1 = 3
      /\ 1 \in S3 /\ 2 \in S4 /\ 3 \in S5
  BY SMTT(60)
<1> HIDE DEF S3
<1>8. Good(k4, References(Std(S4))) /\ Idle(k4)
  BY ONLY <1>6, <1>7, StdClosed, Zenon
<1> HIDE DEF k4, S4
<1>9. Good(k5, References(Std(S5))) /\ Idle(k5)
  BY ONLY <1>7, <1>8, StdClosed, Zenon
<1> HIDE DEF k5, S5
<1>10. Good(K, References(Std(S6))) /\ Idle(K)
  BY ONLY <1>2, <1>7, <1>9, StdClosed, Zenon
<1>11. fd = Std(S6)
  <2>1. \A i \in 1..3 : i \in S6 <=> i - 1 \notin InitiallyClosed
    BY SMTT(60) DEF S5, S4, S3
  <2> HIDE DEF S6
  <2>2. fd = [t \in Task |-> IF t # 1 THEN <<>>
                             ELSE [i \in 1..3 |-> [identifier |-> i - 1,
                                     file |-> IF i - 1 \in InitiallyClosed THEN NULL ELSE i]]]
    BY DEF Init
  <2>3. \A i \in 1..3 : (IF i - 1 \in InitiallyClosed THEN NULL ELSE i) = (IF i \in S6 THEN i ELSE NULL)
    BY <2>1
  <2>4. [i \in 1..3 |-> [identifier |-> i - 1, file |-> IF i - 1 \in InitiallyClosed THEN NULL ELSE i]]
        = [i \in 1..3 |-> [identifier |-> i - 1, file |-> IF i \in S6 THEN i ELSE NULL]]
    BY <2>3
  <2> QED
    BY <2>2, <2>4 DEF Std
<1> HIDE DEF k6, S6
<1>12. reading = [t \in Task |-> NULL] /\ eof = {} /\ dups = 0
  BY DEF Init
<1>13. \A t \in Task : reading[t] = NULL /\ K.state[t] = IF t = 1 THEN "RUNNABLE" ELSE "UNUSED"
  BY <1>10, <1>12 DEF Idle
<1>14. \A t \in Task : K.state[t] \notin {"BLOCKED", "WOKEN", "SIGNALLED"} /\ (K.state[t] = "UNUSED" => t # 1)
  BY <1>13
<1>15. \A p \in Pipe : /\ K.node[p].open_count = 0 /\ K.node[p].size = 0 /\ K.node[p].waiters = <<>>
                       /\ ~K.node[p].released
  BY <1>10 DEF Idle
<1>16. reading \in [Task -> Pipe \cup {NULL}] /\ fd \in Tables /\ eof \subseteq Pipe /\ dups \in 0..MaxDup
  BY <1>11, <1>12, StdIs, Bounds, SMTT(60)
<1>17. TablesFit(K, fd)
  BY <1>11, <1>14, StdIs DEF TablesFit
<1>18. Fresh(K, eof)
  BY <1>12, <1>15 DEF Fresh
<1>19. \A p \in Pipe : DOMAIN K.node[p].waiters = {} /\ Len(K.node[p].waiters) <= 1
  BY <1>15, SMTT(60)
<1>20. Readers(K, fd, reading)
  <2>1. \A p \in Pipe, t \in Task : ~Waits(K, p, t) /\ reading[t] # p
    BY <1>13, <1>19, Bounds DEF Waits
  <2> QED
    BY <1>13, <1>14, <1>19, <2>1 DEF Readers
<1>21. Wakes(K, reading, eof)
  BY <1>12, <1>14, <1>19 DEF Wakes
<1> QED
  BY <1>10, <1>11, <1>16, <1>17, <1>18, <1>20, <1>21 DEF Inv, Consistent, SoleReader

----------------------------------------------------------------------------
\* The invariant, and what it says of one reader at a time, hold in every behaviour.
THEOREM Consistency == Spec => [](Inv /\ SoleReader)
<1>1. Init => Inv /\ SoleReader
  BY Start
<1>2. (Inv /\ SoleReader) /\ [Next]_vars => (Inv /\ SoleReader)'
  BY StepKeeps DEF Preserved
<1> QED
  BY <1>1, <1>2, PTL DEF Spec

\* Whatever tasks open, create, duplicate, close, read, write, fork, exit and destroy,
\* the tables keep their types: no count is negative and no index is out of range.
THEOREM TypesHold == Spec => []TypeOK
<1>1. Inv => TypeOK
  BY DEF Inv, TypeOK, Consistent, Good, Tables
<1> QED
  BY <1>1, Consistency, PTL

\* The refcount of an open handle is the number of descriptors that point to it, and
\* no descriptor points to a freed handle, for any number of tasks and descriptors.
THEOREM RefcountHolds == Spec => []RefcountExact
<1>1. Inv => RefcountExact
  <2> SUFFICES ASSUME Inv PROVE RefcountExact
    OBVIOUS
  <2>1. fd \in Tables /\ Good(K, References(fd)) /\ \A u \in Task : Len(fd[u]) <= MaxFd
    BY DEF Inv, Consistent, TablesFit
  <2>2. ASSUME NEW t \in Task, NEW d \in Range(fd[t]), d.file # NULL PROVE d.file \in Open
    <3>1. PICK i \in DOMAIN fd[t] : d = fd[t][i]
      BY DEF Range
    <3>2. fd[t][i].file \in Handle /\ K.handle[fd[t][i].file].live
      BY <2>1, <2>2, <3>1, UsedIsOpen
    <3> QED
      BY <3>1, <3>2 DEF Open
  <2>3. ASSUME NEW h \in Open
        PROVE  K.handle[h].refcount =
                  Cardinality({e \in Task \X (1..MaxFd) :
                                  e[2] \in DOMAIN fd[e[1]] /\ fd[e[1]][e[2]].file = h})
    <3>1. h \in Handle /\ K.handle[h].live
      BY DEF Open
    <3>2. K.handle[h].refcount = References(fd)[h]
      BY <2>1, <3>1 DEF Good, HandlesExact
    <3>3. References(fd)[h] = Cardinality(Pointing(fd, h))
      BY <3>1 DEF References
    <3> QED
      BY <3>2, <3>3 DEF Pointing
  <2> QED
    BY <2>2, <2>3 DEF RefcountExact
<1> QED
  BY <1>1, Consistency, PTL

\* The table of handles has every open handle in the slot its id names and nothing
\* else, and counts its full slots, however often it grew and handles were freed.
THEOREM TableHolds == Spec => []TableExact
<1>1. Inv => TableExact
  <2> SUFFICES ASSUME Inv PROVE TableExact
    OBVIOUS
  <2>1. K \in Kernel /\ SlotsExact(K)
    BY DEF Inv, Consistent, Good
  <2>2. K.file_handles \in Seq(Handle \cup {NULL})
    BY <2>1, KernelFields
  <2>3. \A h \in Open : K.handle[h].id \in DOMAIN K.file_handles /\ K.file_handles[K.handle[h].id] = h
    BY <2>1 DEF SlotsExact, Open
  <2>4. K.file_handles_open_count = Cardinality({i \in DOMAIN K.file_handles : K.file_handles[i] # NULL})
    BY <2>1 DEF SlotsExact, Full
  <2>5. ASSUME NEW h \in Range(K.file_handles) \ {NULL} PROVE h \in Open
    <3>1. PICK i \in DOMAIN K.file_handles : h = K.file_handles[i]
      BY DEF Range
    <3>2. i \in Full(K.file_handles)
      BY <3>1 DEF Full
    <3>3. h \in Handle
      BY <2>2, <3>1, ElementOfSeq, SMTT(60)
    <3>4. K.handle[h].live
      BY <2>1, <3>1, <3>2 DEF SlotsExact
    <3> QED
      BY <3>3, <3>4 DEF Open
  <2>6. ASSUME NEW h \in Open PROVE h \in Range(K.file_handles) \ {NULL}
    <3>1. h # NULL
      BY Bounds DEF Open
    <3> QED
      BY <2>3, <3>1 DEF Range
  <2>7. Range(K.file_handles) \ {NULL} = Open
    BY <2>5, <2>6
  <2> QED
    BY <2>3, <2>4, <2>7 DEF TableExact
<1> QED
  BY <1>1, Consistency, PTL

\* The open handles of one side of a node.
LEMMA OpenOnIs ==
    ASSUME NEW n, NEW m
    PROVE  OpenOn(n, m) = Side(K.handle, n, m)
BY DEF OpenOn, Open, Side

\* The reader and writer counts of every pipe are the numbers of its open handles, it
\* is released exactly when they are gone, and never under a blocked or woken reader.
THEOREM PipeEndsHold == Spec => []PipeEndsExact
<1>1. Inv => PipeEndsExact
  <2> SUFFICES ASSUME Inv PROVE PipeEndsExact
    OBVIOUS
  <2>1. /\ fd \in Tables /\ reading \in [Task -> Pipe \cup {NULL}] /\ Good(K, References(fd))
        /\ Readers(K, fd, reading) /\ \A u \in Task : Len(fd[u]) <= MaxFd
    BY DEF Inv, Consistent, TablesFit
  <2>2. K \in Kernel /\ NodesExact(K) /\ K.made \in 0..MaxPipe
    BY <2>1, KernelFields DEF Good
  <2>3. ASSUME NEW p \in 1..K.made
        PROVE  /\ K.node[p].read_ref_count = Cardinality(OpenOn(p, "O_RDONLY"))
               /\ K.node[p].write_ref_count = Cardinality(OpenOn(p, "O_WRONLY"))
               /\ K.node[p].released <=> OpenOn(p, "O_RDONLY") \cup OpenOn(p, "O_WRONLY") = {}
    <3> DEFINE r == Ends(K.handle, p, "O_RDONLY")
               w == Ends(K.handle, p, "O_WRONLY")
    <3>1. p \in Pipe /\ p <= K.made /\ p \in Node
      BY <2>2, Bounds, SMTT(60) DEF Pipe, Node
    <3>2. /\ r = Cardinality(OpenOn(p, "O_RDONLY")) /\ w = Cardinality(OpenOn(p, "O_WRONLY"))
      BY OpenOnIs DEF Ends
    <3>3. /\ r \in Nat /\ w \in Nat /\ (r = 0 <=> OpenOn(p, "O_RDONLY") = {})
          /\ (w = 0 <=> OpenOn(p, "O_WRONLY") = {})
      BY OpenOnIs, SideFinite
    <3>4. /\ K.node[p].open_count = r + w /\ K.node[p].read_ref_count = r /\ K.node[p].write_ref_count = w
          /\ K.node[p].released <=> K.node[p].open_count = 0
      BY <2>2, <3>1 DEF NodesExact
    <3> HIDE DEF r, w
    <3>5. K.node[p].open_count = 0 <=> r = 0 /\ w = 0
      BY <3>3, <3>4, SMTT(60)
    <3> QED
      BY <3>2, <3>3, <3>4, <3>5
  <2>4. ASSUME NEW t \in Task, reading[t] # NULL
        PROVE  ~K.node[reading[t]].released /\ t \in Range(K.node[reading[t]].waiters)
    <3>1. reading[t] \in Pipe /\ ~K.node[reading[t]].released
      BY <2>1, <2>4, ReadIsOpen
    <3>2. Waits(K, reading[t], t)
      BY <2>1, <3>1 DEF Readers
    <3> QED
      BY <3>1, <3>2 DEF Waits, Range
  <2> QED
    BY <2>3, <2>4 DEF PipeEndsExact
<1> QED
  BY <1>1, Consistency, PTL

\* With one reader of a pipe at a time, pipe_write and the close of the last writer
\* never leave it blocked with something to read or an end of file to return.
THEOREM NoReaderStuck == ASSUME OneReader PROVE Spec => []NoStuckReader
<1>1. Inv /\ SoleReader => NoStuckReader
  BY DEF SoleReader, Wakes, NoStuckReader
<1> QED
  BY <1>1, Consistency, PTL

\* With one reader of a pipe at a time, a read that returned zero and that no signal cut
\* short was the last one: the pipe is empty and has no writer from then on.
THEOREM EofHolds == ASSUME OneReader PROVE Spec => []EofIsFinal
<1>1. Inv /\ SoleReader => EofIsFinal
  <2> SUFFICES ASSUME Inv, SoleReader, NEW p \in eof
               PROVE  K.node[p].size = 0 /\ OpenOn(p, "O_WRONLY") = {}
    BY DEF EofIsFinal
  <2>1. K.node[p].size = 0 /\ K.node[p].write_ref_count = 0
    BY DEF SoleReader, Wakes
  <2>2. p \in Pipe /\ NodesExact(K)
    BY DEF Inv, Consistent, Good
  <2>3. Ends(K.handle, p, "O_WRONLY") = 0
    BY <2>1, <2>2 DEF NodesExact
  <2> QED
    BY <2>1, <2>3, OpenOnIs, SideFinite
<1> QED
  BY <1>1, Consistency, PTL
============================================================================
