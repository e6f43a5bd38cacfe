------------------------------- MODULE Files -------------------------------
(***************************************************************************)
(* Open files: the VFS table of file handles, the descriptor tables of the *)
(* tasks that share handles through fork and dup, and the pipes behind     *)
(* them (vfs.c, pipe/, task.c, syscall/dup.c, close.c, open.c, pipe.c).    *)
(*                                                                         *)
(* A system call runs with interrupts off and is one step; only pipe_read  *)
(* has two, up to the yield in wait_on_condition and from the moment the   *)
(* task is switched to again.  A handle is never reused: it stays "freed", *)
(* so a descriptor that still points to it can be seen.  Of the bytes in a *)
(* pipe only their number is kept: RingBuf shows that the buffer is a      *)
(* FIFO.  The other nodes are one character device without hooks that      *)
(* touch this state; its data is not modelled.  Calls that return an error *)
(* without a change of state are left out.                                 *)
(***************************************************************************)
EXTENDS Integers, Sequences, FiniteSets, FiniteSetsExt, Functions

CONSTANTS MaxTask,                       \* bound: tasks ever created
          MaxHandle,                     \* bound: handles ever allocated
          MaxPipe,                       \* bound: pipes ever created
          MaxFd,                         \* bound: slots of a descriptor table
          VFS_FILE_HANDLE_REALLOC_SIZE,
          PIPE_BUF_SIZE,
          MaxDup,                        \* bound: calls of dup
          NewFd,             \* the descriptors dup2 is called with
          InitiallyClosed,   \* the standard descriptors the first program closes
          OneReader          \* whether a pipe has at most one reading task at a time

ASSUME FilesAssumption ==
    /\ {MaxTask, VFS_FILE_HANDLE_REALLOC_SIZE, PIPE_BUF_SIZE} \subseteq Nat \ {0}
    /\ {MaxHandle, MaxFd} \subseteq Nat \ 0..2 /\ {MaxPipe, MaxDup} \subseteq Nat
    /\ NewFd \subseteq Nat /\ InitiallyClosed \subseteq 0..2 /\ OneReader \in BOOLEAN

Task   == 1..MaxTask
Handle == 1..MaxHandle
Pipe   == 1..MaxPipe
Tty    == 0
Node   == Pipe \cup {Tty}
NULL   == 0

VARIABLES dups,      \* the number of calls of dup so far
          K,         \* the kernel's tables: handles, nodes and task states
          fd,        \* task->fd, a sequence of descriptors
          reading,   \* the pipe the task is inside pipe_read of, or NULL
          eof        \* the pipes from which a read that no signal cut short has returned zero

vars == <<K, fd, reading, eof, dups>>

\* K.made is the number of pipes created, K.used the number of handles allocated.
HandleRecord == [live : BOOLEAN, node : Node, id : 1..(MaxHandle + VFS_FILE_HANDLE_REALLOC_SIZE),
                 refcount : Int, mode : {"O_RDONLY", "O_WRONLY"}]
NodeRecord == [open_count : Nat, read_ref_count : Nat, write_ref_count : Nat,
               size : 0..PIPE_BUF_SIZE, waiters : Seq(Task), released : BOOLEAN]
\* A blocked reader that can run again was woken by the pipe or, before that, by a signal.
State == {"UNUSED", "RUNNABLE", "BLOCKED", "WOKEN", "SIGNALLED", "ZOMBIE", "CLEANUP", "FREED"}

Kernel == [handle : [Handle -> HandleRecord], used : 0..MaxHandle, made : 0..MaxPipe,
           file_handles : Seq(Handle \cup {NULL}), file_handles_open_count : Nat,
           node : [Node -> NodeRecord], state : [Task -> State]]
Descriptors == [identifier : Nat, file : Handle \cup {NULL}]

\* The types of the tables.
TypeOK ==
    /\ K \in Kernel /\ fd \in [Task -> Seq(Descriptors)]
    /\ reading \in [Task -> Pipe \cup {NULL}] /\ eof \subseteq Pipe
    /\ dups \in 0..MaxDup

Open == {h \in Handle : K.handle[h].live}
OpenOn(n, m) == {h \in Open : K.handle[h].node = n /\ K.handle[h].mode = m}

----------------------------------------------------------------------------
\* The table of handles (vfs.c).

\* The slot allocate_file_handle takes: the first one behind the old end when the
\* table is full and grows, else the first empty one.
FreeSlot(k) ==
    LET empty == {i \in DOMAIN k.file_handles : k.file_handles[i] = NULL}
    IN  IF k.file_handles_open_count = Len(k.file_handles)
        THEN [at |-> k.file_handles_open_count + 1, found |-> TRUE,
              table |-> k.file_handles \o [i \in 1..VFS_FILE_HANDLE_REALLOC_SIZE |-> NULL]]
        ELSE [at |-> IF empty = {} THEN 1 ELSE Min(empty), found |-> empty # {},
              table |-> k.file_handles]

allocate_file_handle(k, n, mode) ==
    LET h == k.used + 1
        s == FreeSlot(k)
    IN  [k EXCEPT !.used = h,
                  !.handle[h] = [live |-> TRUE, node |-> n, id |-> s.at, refcount |-> 1,
                                 mode |-> mode],
                  !.file_handles = IF s.found THEN [s.table EXCEPT ![s.at] = h] ELSE s.table,
                  !.file_handles_open_count = IF s.found THEN @ + 1 ELSE @]

\* What is left of a handle's record before its allocation and after kfree.
NoHandle == [live |-> FALSE, node |-> Tty, id |-> 1, refcount |-> 0, mode |-> "O_RDONLY"]

DeallocateKeepsSlot(k, h) == [k EXCEPT !.file_handles_open_count = @ - 1,
                                       !.handle[h] = NoHandle]

deallocate_file_handle(k, h) ==
    [k EXCEPT !.file_handles[k.handle[h].id] = NULL, !.file_handles_open_count = @ - 1,
              !.handle[h] = NoHandle]

\* wait_wake_up on a wait object that wakes one task.
wait_wake_up(k, p) ==
    IF k.node[p].waiters = <<>> THEN k
    ELSE [k EXCEPT !.state[Head(k.node[p].waiters)] = "WOKEN"]

pipe_open(k, p, mode) ==
    IF mode = "O_RDONLY" THEN [k EXCEPT !.node[p].read_ref_count = @ + 1]
    ELSE [k EXCEPT !.node[p].write_ref_count = @ + 1]

SidesSwapped(k, p, mode) ==
    IF mode = "O_WRONLY" THEN [k EXCEPT !.node[p].read_ref_count = @ - 1]
    ELSE wait_wake_up([k EXCEPT !.node[p].write_ref_count = @ - 1], p)

WakesNobody(k, p, mode) ==
    IF mode = "O_RDONLY" THEN [k EXCEPT !.node[p].read_ref_count = @ - 1]
    ELSE [k EXCEPT !.node[p].write_ref_count = @ - 1]

\* The last writer that leaves wakes a reader.
pipe_close(k, p, mode) ==
    LET r == k.node[p].read_ref_count
        w == k.node[p].write_ref_count
    IN  IF mode = "O_RDONLY" THEN [k EXCEPT !.node[p].read_ref_count = IF r > 0 THEN r - 1 ELSE r]
        ELSE IF w = 1 THEN wait_wake_up([k EXCEPT !.node[p].write_ref_count = 0], p)
        ELSE [k EXCEPT !.node[p].write_ref_count = IF w > 0 THEN w - 1 ELSE w]

\* vfs_open; the new handle is k.used + 1.
vfs_open(k, n, mode) ==
    LET a == allocate_file_handle([k EXCEPT !.node[n].open_count = @ + 1], n, mode)
    IN  IF n \in Pipe THEN pipe_open(a, n, mode) ELSE a

\* pipe_on_release: the buffer, the wait object and the metadata are freed.
on_release(k, n) ==
    IF n \in Pipe THEN [k EXCEPT !.node[n] = [@ EXCEPT !.released = TRUE, !.size = 0]] ELSE k

\* The end of vfs_close for the last reference to h; release: no other handle is
\* open on the node.
Dropped(k, h, c, release) ==
    LET n == k.handle[h].node
        o == [c EXCEPT !.node[n].open_count = @ - 1]
    IN  deallocate_file_handle(IF release THEN on_release(o, n) ELSE o, h)

\* vfs_close: the last reference closes the handle, the last handle releases the node.
vfs_close(k, h) ==
    LET n == k.handle[h].node
        d == [k EXCEPT !.handle[h].refcount = @ - 1]
        c == IF n \in Pipe THEN pipe_close(d, n, k.handle[h].mode) ELSE d
    IN  IF h = NULL THEN k
        ELSE IF d.handle[h].refcount # 0 THEN d
        ELSE Dropped(k, h, c, c.node[n].open_count = 1)

NoBump(k, h) == k

vfs_bump_refcount(k, h) == IF h = NULL THEN k ELSE [k EXCEPT !.handle[h].refcount = @ + 1]

----------------------------------------------------------------------------
\* Descriptors (task.c, syscall.c).

\* task_add_fd: the first slot that was closed, else a new one with the largest
\* identifier plus one.  AddedAt is its place.
Closed(table) == {i \in DOMAIN table : table[i].file = NULL}
AddedAt(table) == IF Closed(table) = {} THEN Len(table) + 1 ELSE Min(Closed(table))
task_add_fd(table, h) ==
    IF Closed(table) # {} THEN [table EXCEPT ![Min(Closed(table))].file = h]
    ELSE Append(table, [identifier |-> Max({d.identifier : d \in Range(table)} \cup {-1}) + 1,
                        file |-> h])

\* syscall_get_descriptor_by_fd: the places of descriptor id that are open.
Descriptor(t, id) == {i \in DOMAIN fd[t] : fd[t][i].identifier = id /\ fd[t][i].file # NULL}
Ids(t) == {d.identifier : d \in Range(fd[t])}

\* task_setup_stdio, after which the program closes some of the three.
StdioHandles == vfs_open(vfs_open(vfs_open(
    [handle |-> [h \in Handle |-> NoHandle],
     used |-> 0, made |-> 0,
     file_handles |-> <<>>, file_handles_open_count |-> 0,
     node |-> [n \in Node |-> [open_count |-> 0, read_ref_count |-> 0, write_ref_count |-> 0,
                               size |-> 0, waiters |-> <<>>, released |-> FALSE]],
     state |-> [t \in Task |-> IF t = 1 THEN "RUNNABLE" ELSE "UNUSED"]],
    Tty, "O_RDONLY"), Tty, "O_WRONLY"), Tty, "O_WRONLY")

CloseAtStart(k, i) == IF i \in InitiallyClosed THEN vfs_close(k, i + 1) ELSE k

Init ==
    /\ K = CloseAtStart(CloseAtStart(CloseAtStart(StdioHandles, 0), 1), 2)
    /\ fd = [t \in Task |-> IF t # 1 THEN <<>>
                            ELSE [i \in 1..3 |-> [identifier |-> i - 1,
                                    file |-> IF i - 1 \in InitiallyClosed THEN NULL ELSE i]]]
    /\ reading = [t \in Task |-> NULL] /\ eof = {} /\ dups = 0

\* No task is in the middle of being destroyed, which nothing can interrupt.
Undisturbed == \A u \in Task : K.state[u] # "CLEANUP"

\* Task t is in user mode and makes a system call.
User(t) == K.state[t] = "RUNNABLE" /\ Undisturbed

\* sys_open of the device; the mode matters only to pipes.
sys_open(t) ==
    /\ User(t) /\ K.used < MaxHandle /\ AddedAt(fd[t]) <= MaxFd
    /\ K' = vfs_open(K, Tty, "O_RDONLY")
    /\ fd' = [fd EXCEPT ![t] = task_add_fd(@, K.used + 1)]
    /\ UNCHANGED <<reading, eof, dups>>

\* pipe_create: both ends of a new pipe.
pipe_create(t) ==
    LET table == task_add_fd(fd[t], K.used + 1)
    IN  /\ User(t) /\ K.made < MaxPipe /\ K.used + 1 < MaxHandle /\ AddedAt(table) <= MaxFd
        /\ K' = [vfs_open(vfs_open(K, K.made + 1, "O_RDONLY"), K.made + 1, "O_WRONLY")
                    EXCEPT !.made = @ + 1]
        /\ fd' = [fd EXCEPT ![t] = task_add_fd(table, K.used + 2)]
        /\ UNCHANGED <<reading, eof, dups>>

\* sys_dup without a new descriptor (sys_dup_no_newfd).
sys_dup_no_newfd(t, i) ==
    /\ AddedAt(fd[t]) <= MaxFd
    /\ K' = vfs_bump_refcount(K, fd[t][i].file)
    /\ fd' = [fd EXCEPT ![t] = task_add_fd(@, fd[t][i].file)]

\* sys_dup with a chosen descriptor; the C library never passes newfd = oldfd.
\* A closed slot that task_add_fd reuses is renamed.
sys_dup_with_newfd(t, i, newfd) ==
    LET h == fd[t][i].file
        there == {j \in DOMAIN fd[t] : fd[t][j].identifier = newfd}
        j == Min(there)
        at == AddedAt(fd[t])
    IN  IF there = {}
        THEN /\ at <= MaxFd
             /\ fd' = [fd EXCEPT ![t] = [task_add_fd(@, h) EXCEPT ![at].identifier = newfd]]
             /\ K' = vfs_bump_refcount(K, h)
        ELSE /\ fd' = [fd EXCEPT ![t][j].file = h]
             /\ K' = vfs_bump_refcount(vfs_close(K, fd[t][j].file), h)

sys_dup(t, oldfd, newfd) ==
    /\ User(t) /\ newfd # oldfd /\ dups < MaxDup
    /\ \E i \in Descriptor(t, oldfd) :
          IF newfd = -1 THEN sys_dup_no_newfd(t, i) ELSE sys_dup_with_newfd(t, i, newfd)
    /\ dups' = dups + 1
    /\ UNCHANGED <<reading, eof>>

sys_close(t, id) ==
    /\ User(t)
    /\ \E i \in Descriptor(t, id) :
          /\ K' = vfs_close(K, fd[t][i].file)
          /\ fd' = [fd EXCEPT ![t][i].file = NULL]
    /\ UNCHANGED <<reading, eof, dups>>

FitsAlways(p, size) == size

\* The bytes of a write that fit into the buffer.
Fits(p, size) == Min({size, PIPE_BUF_SIZE - K.node[p].size})

\* pipe_write: as many bytes as fit; none without a reader.
pipe_write(t, id, size) ==
    \E i \in Descriptor(t, id) :
        LET h == K.handle[fd[t][i].file]
            written == Fits(h.node, size)
        IN  /\ User(t) /\ h.node \in Pipe /\ h.mode = "O_WRONLY"
            /\ K.node[h.node].write_ref_count # 0 /\ K.node[h.node].read_ref_count # 0
            /\ written > 0
            /\ K' = wait_wake_up([K EXCEPT !.node[h.node].size = @ + written], h.node)
            /\ UNCHANGED <<fd, reading, eof, dups>>

LastWriterIsNone(k, p) == k.node[p].write_ref_count <= 1 \/ k.node[p].size > 0

is_buffer_ready(k, p) == k.node[p].write_ref_count = 0 \/ k.node[p].size > 0

\* The end of pipe_read: what is there, up to size.  A caller takes zero for the
\* end of the file, whether or not a signal cut the read short.
Taken(k, p, size, cut) ==
    /\ K' = [k EXCEPT !.node[p].size = @ - Min({size, @})]
    /\ eof' = IF k.node[p].size = 0 /\ ~cut THEN eof \cup {p} ELSE eof

\* pipe_read up to the yield, or to its end when the condition holds at once.
pipe_read(t, id, size) ==
    \E i \in Descriptor(t, id) :
        LET h == K.handle[fd[t][i].file]
            p == h.node
        IN  /\ User(t) /\ p \in Pipe /\ h.mode = "O_RDONLY" /\ K.node[p].read_ref_count # 0
            /\ OneReader => K.node[p].waiters = <<>>
            /\ IF is_buffer_ready(K, p)
               THEN Taken(K, p, size, FALSE) /\ UNCHANGED reading
               ELSE /\ K' = [K EXCEPT !.node[p].waiters = Append(@, t), !.state[t] = "BLOCKED"]
                    /\ reading' = [reading EXCEPT ![t] = p]
                    /\ UNCHANGED eof
            /\ UNCHANGED <<fd, dups>>

\* dequeue_waiter: the first entry of the task goes.
dequeue_waiter(w, t) ==
    LET at == {i \in DOMAIN w : w[i] = t}
        j == Min(at)
    IN  IF at = {} THEN w ELSE SubSeq(w, 1, j - 1) \o SubSeq(w, j + 1, Len(w))

\* sys_sigsend to a task blocked in pipe_read: it can run again.  The signal itself is
\* handled on the way back to user space (see Signals).
sys_sigsend(t, receiver) ==
    /\ User(t) /\ K.state[receiver] = "BLOCKED"
    /\ K' = [K EXCEPT !.state[receiver] = "SIGNALLED"]
    /\ UNCHANGED <<fd, reading, eof, dups>>

\* pipe_read after the yield: wait_on_condition ends when the state is no longer
\* BLOCKED, whatever changed it; the task leaves the waiters and takes what is there.
pipe_read_resumed(t, size) ==
    /\ K.state[t] \in {"WOKEN", "SIGNALLED"} /\ Undisturbed
    /\ Taken([K EXCEPT !.node[reading[t]].waiters = dequeue_waiter(@, t), !.state[t] = "RUNNABLE"],
             reading[t], size, K.state[t] = "SIGNALLED")
    /\ reading' = [reading EXCEPT ![t] = NULL]
    /\ UNCHANGED <<fd, dups>>

\* What the loop of task_fork over a descriptor table does to the handles: each one
\* gets as many references as descriptors point to it.
BumpAll(k, table) ==
    [k EXCEPT !.handle = [h \in Handle |->
        [k.handle[h] EXCEPT !.refcount = @ + Cardinality({i \in DOMAIN table : table[i].file = h})]]]

\* task_fork: the child shares every handle of its parent.
task_fork(t, child) ==
    /\ User(t) /\ K.state[child] = "UNUSED" /\ \A u \in 1..(child - 1) : K.state[u] # "UNUSED"
    /\ K' = BumpAll([K EXCEPT !.state[child] = "RUNNABLE"], fd[t])
    /\ fd' = [fd EXCEPT ![child] = fd[t]]
    /\ UNCHANGED <<reading, eof, dups>>

\* task_exit leaves the descriptors open.
task_exit(t) ==
    /\ User(t)
    /\ K' = [K EXCEPT !.state[t] = "ZOMBIE"]
    /\ UNCHANGED <<fd, reading, eof, dups>>

\* task_destroy, once the zombie has been reaped (see TaskLifecycle): a step for every
\* open descriptor, none of another task between them, and one that frees the table.
task_destroy(t) ==
    LET open == {i \in DOMAIN fd[t] : fd[t][i].file # NULL}
        i == Min(open)
    IN  /\ K.state[t] \in {"ZOMBIE", "CLEANUP"}
        /\ \A u \in Task \ {t} : K.state[u] # "CLEANUP"
        /\ IF open = {}
           THEN K' = [K EXCEPT !.state[t] = "FREED"] /\ fd' = [fd EXCEPT ![t] = <<>>]
           ELSE /\ K' = vfs_close([K EXCEPT !.state[t] = "CLEANUP"], fd[t][i].file)
                /\ fd' = [fd EXCEPT ![t][i].file = NULL]
        /\ UNCHANGED <<reading, eof, dups>>

Next ==
    \E t \in Task :
        \/ sys_open(t)
        \/ pipe_create(t)
        \/ \E old \in Ids(t), new \in NewFd \cup {-1} : sys_dup(t, old, new)
        \/ \E id \in Ids(t) : sys_close(t, id)
        \/ \E id \in Ids(t), size \in 1..PIPE_BUF_SIZE : pipe_write(t, id, size)
        \/ \E id \in Ids(t), size \in 1..PIPE_BUF_SIZE : pipe_read(t, id, size)
        \/ \E size \in 1..PIPE_BUF_SIZE : pipe_read_resumed(t, size)
        \/ \E receiver \in Task : sys_sigsend(t, receiver)
        \/ \E child \in Task : task_fork(t, child)
        \/ task_exit(t) \/ task_destroy(t)

Spec == Init /\ [][Next]_vars

----------------------------------------------------------------------------
\* RefcountExact: the refcount of an open handle is the number of descriptors of
\* all tasks, zombies included, that point to it, and no descriptor points to a
\* handle that has been freed.  (Shared handles after fork, dup, dup2 over an open
\* descriptor, close and task_destroy.)
RefcountExact ==
    /\ \A t \in Task : \A d \in Range(fd[t]) : d.file # NULL => d.file \in Open
    /\ \A h \in Open : K.handle[h].refcount =
          Cardinality({e \in Task \X (1..MaxFd) :
                          e[2] \in DOMAIN fd[e[1]] /\ fd[e[1]][e[2]].file = h})

\* TableExact: every open handle is in the slot its id names, the table holds no
\* freed handle, and the count of open handles is the number of full slots, on
\* which the choice between growing the table and searching it rests.
TableExact ==
    /\ \A h \in Open : K.handle[h].id \in DOMAIN K.file_handles
                       /\ K.file_handles[K.handle[h].id] = h
    /\ K.file_handles_open_count = Cardinality({i \in DOMAIN K.file_handles :
                                                    K.file_handles[i] # NULL})
    /\ Range(K.file_handles) \ {NULL} = Open

\* PipeEndsExact: the reader and writer counts of a pipe are the numbers of open
\* handles of each side, however many descriptors share them, a pipe is released
\* exactly when its last handle has gone, and never while a blocked or resumed reader
\* has yet to use its buffer and its wait object.
PipeEndsExact ==
    /\ \A p \in 1..K.made :
          /\ K.node[p].read_ref_count = Cardinality(OpenOn(p, "O_RDONLY"))
          /\ K.node[p].write_ref_count = Cardinality(OpenOn(p, "O_WRONLY"))
          /\ K.node[p].released <=> OpenOn(p, "O_RDONLY") \cup OpenOn(p, "O_WRONLY") = {}
    /\ \A t \in Task : reading[t] # NULL =>
          ~K.node[reading[t]].released /\ t \in Range(K.node[reading[t]].waiters)

\* NoStuckReader: the only reader of a pipe is not left blocked once there are
\* bytes to read or the last writer has gone (wake-ups of pipe_write, pipe_close).
NoStuckReader ==
    \A t \in Task : K.state[t] = "BLOCKED" => ~is_buffer_ready(K, reading[t])

\* EofIsFinal: when a read of a pipe that no signal cut short has returned zero, which
\* read() documents as the end of the file, the pipe is empty and has no writer, now
\* and ever after, whatever signals other reads of it were cut short by.
EofIsFinal ==
    \A p \in eof : K.node[p].size = 0 /\ OpenOn(p, "O_WRONLY") = {}
=============================================================================
