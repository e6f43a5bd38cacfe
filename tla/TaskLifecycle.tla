--------------------------- MODULE TaskLifecycle ---------------------------
(***************************************************************************)
(* The life of user tasks: fork, exit, wait, the reaping of zombies and    *)
(* the destruction of dead tasks (task.c, wait.c, scheduler.c).            *)
(*                                                                         *)
(* System calls run with interrupts off, so each is one step up to the     *)
(* point where it yields.  task_wait has two: up to the yield inside       *)
(* wait_on_condition, and from the moment the task is switched to again.   *)
(* Which runnable task comes next is left open here (Scheduler models the  *)
(* choice).  A task_t is never reused: it stays "FREED", so that a pointer *)
(* to it can be told from a pointer to a live task.                        *)
(***************************************************************************)
EXTENDS Integers, Sequences, FiniteSets, SequencesExt

CONSTANTS MaxTask,   \* bound: number of tasks ever created
          Code,      \* exit codes
          Signals    \* whether tasks send signals to each other

LifecycleAssumption ==
    MaxTask \in Nat \ {0} /\ Code # {} /\ Signals \in BOOLEAN

Tasks == 1..MaxTask
NoTask == 0       \* the null pointer
IdleTask == 0       \* as the current task: the idle task

VARIABLES state,      \* task->state; "UNUSED" before and "FREED" after its life
          queue,      \* the scheduler queue the task is linked into
          parent,     \* task->parent
          children,   \* the list from task->first_child along next_sibling
          exit_code,
          current,
          pc,         \* "user", or the wait of task_wait the task is in
          child,      \* the local variable of task_wait
          any_child_zombie_found,
          status,     \* the last <<child, exit code>> a task's wait returned
          exited,     \* the tasks that have called task_exit
          reaped,     \* how often task_wait has returned each task
          fault       \* task_wait used a null or stale any_child_zombie_found

tree  == <<parent, children, exit_code>>
waits == <<pc, child, any_child_zombie_found, status, reaped>>
vars  == <<state, queue, tree, current, waits, exited, fault>>

State == {"UNUSED", "WAITING", "RUNNING", "BLOCKED", "ZOMBIE", "DEAD", "FREED"}
Queue == {"none", "WAITING", "BLOCKED", "ZOMBIE"}
Live(t) == state[t] \notin {"UNUSED", "FREED"}

\* The types; the current task is the one task that is RUNNING.
TypeOK ==
    /\ state \in [Tasks -> State] /\ queue \in [Tasks -> Queue]
    /\ parent \in [Tasks -> Tasks \cup {NoTask}]
    /\ \A t \in Tasks : children[t] \in Seq(Tasks) /\ IsInjective(children[t])
    /\ exit_code \in [Tasks -> Code]
    /\ current \in Tasks \cup {IdleTask}
    /\ pc \in [Tasks -> {"user", "wait_child", "wait_any"}]
    /\ child \in [Tasks -> Tasks \cup {NoTask}]
    /\ any_child_zombie_found \in Tasks \cup {NoTask}
    /\ status \in [Tasks -> (Tasks \X Code) \cup {<<>>}]
    /\ exited \subseteq Tasks /\ reaped \in [Tasks -> Nat] /\ fault \in BOOLEAN
    /\ \A t \in Tasks : state[t] = "RUNNING" <=> t = current

\* The first user task has been created and runs.
Init ==
    /\ state = [t \in Tasks |-> IF t = 1 THEN "RUNNING" ELSE "UNUSED"]
    /\ queue = [t \in Tasks |-> "none"]
    /\ parent = [t \in Tasks |-> NoTask] /\ children = [t \in Tasks |-> <<>>]
    /\ exit_code = [t \in Tasks |-> CHOOSE c \in Code : TRUE]
    /\ current = 1
    /\ pc = [t \in Tasks |-> "user"] /\ child = [t \in Tasks |-> NoTask]
    /\ any_child_zombie_found = NoTask
    /\ status = [t \in Tasks |-> <<>>]
    /\ exited = {} /\ reaped = [t \in Tasks |-> 0] /\ fault = FALSE

----------------------------------------------------------------------------
\* The scheduler.

\* cleanup_dead_tasks: the dead tasks on the zombie queue are destroyed.
Cleaned(st, qu) == {t \in Tasks : qu[t] = "ZOMBIE" /\ st[t] = "DEAD"}

\* scheduler_reschedule, with st and qu the states and queues it finds.
Reschedule(st, qu) ==
    LET dead == Cleaned(st, qu)
        back == {t \in Tasks : t = current /\ st[t] = "RUNNING"}
        ready == back \cup {t \in Tasks \ dead : qu[t] = "WAITING"}
    IN  \E n \in IF ready = {} THEN {IdleTask} ELSE ready :
          /\ current' = n
          /\ state' = [t \in Tasks |-> IF t = n THEN "RUNNING"
                                      ELSE IF t \in back THEN "WAITING"
                                      ELSE IF t \in dead THEN "FREED" ELSE st[t]]
          /\ queue' = [t \in Tasks |-> IF t = n \/ t \in dead THEN "none"
                                      ELSE IF t \in back THEN "WAITING" ELSE qu[t]]

\* The current task executes user code: it can be interrupted, or make a call.
InUserMode == ~fault /\ current # IdleTask /\ pc[current] = "user"

\* scheduler_tick, or the system call that yields; the idle task yields too.
scheduler_tick ==
    /\ ~fault /\ (current = IdleTask \/ InUserMode)
    /\ Reschedule(state, queue)
    /\ UNCHANGED <<tree, waits, exited, fault>>

----------------------------------------------------------------------------
\* task_fork: a new task at the end of the caller's list of children.
task_fork ==
    /\ InUserMode
    /\ \E c \in Tasks :
          /\ state[c] = "UNUSED" /\ \A b \in 1..(c - 1) : state[b] # "UNUSED"
          /\ state' = [state EXCEPT ![c] = "WAITING"]
          /\ queue' = [queue EXCEPT ![c] = "WAITING"]
          /\ parent' = [parent EXCEPT ![c] = current]
          /\ children' = [children EXCEPT ![current] = Append(@, c)]
    /\ UNCHANGED <<exit_code, current, waits, exited, fault>>

WakesParentOnly(t) ==
    {w \in Tasks : pc[w] = "wait_any" /\ w = parent[t]}

\* The tasks waiting on t->waiting_queue, and t's parent when it waits on its
\* children_wait_queue.
WokenByExit(t) ==
    {w \in Tasks : \/ pc[w] = "wait_child" /\ child[w] = t
                   \/ pc[w] = "wait_any" /\ w = parent[t]}

\* task_exit.  The children that are zombies leave the zombie queue for good;
\* the others get a new parent, but stay in the list they are in.
task_exit ==
    /\ InUserMode
    /\ LET t == current
           wake == WokenByExit(t)
           orphans == ToSet(children[t])
           dead == {c \in orphans : state[c] = "ZOMBIE"}
           st == [s \in Tasks |-> IF s = t THEN "ZOMBIE" ELSE IF s \in wake THEN "WAITING"
                                  ELSE IF s \in dead THEN "DEAD" ELSE state[s]]
           qu == [s \in Tasks |-> IF s = t THEN "ZOMBIE" ELSE IF s \in wake THEN "WAITING"
                                  ELSE IF s \in dead THEN "none" ELSE queue[s]]
       IN  /\ \E code \in Code : exit_code' = [exit_code EXCEPT ![t] = code]
           /\ parent' = [c \in Tasks |-> IF c \in orphans \ dead THEN parent[t] ELSE parent[c]]
           /\ exited' = exited \cup {t}
           /\ Reschedule(st, qu)
    /\ UNCHANGED <<children, waits, fault>>

----------------------------------------------------------------------------
\* Waiting.  A call that returns an error, or 0 because of WNOHANG, changes
\* nothing and has no action.

\* The end of task_wait: c leaves the list of children and is DEAD, in
\* whatever queue it is.
Reap(p, c) ==
    /\ state' = [state EXCEPT ![c] = "DEAD"]
    /\ children' = [children EXCEPT ![p] = Remove(@, c)]
    /\ status' = [status EXCEPT ![p] = <<c, exit_code[c]>>]
    /\ reaped' = [reaped EXCEPT ![c] = @ + 1]
    /\ UNCHANGED queue

\* wait_on_condition when the condition does not hold yet.
Block(where, c) ==
    /\ Reschedule([state EXCEPT ![current] = "BLOCKED"],
                  [queue EXCEPT ![current] = "BLOCKED"])
    /\ pc' = [pc EXCEPT ![current] = where]
    /\ child' = [child EXCEPT ![current] = c]

\* wait(pid) for a child that is a zombie: the condition holds at once.
wait_reap ==
    /\ InUserMode
    /\ \E c \in ToSet(children[current]) : state[c] = "ZOMBIE" /\ Reap(current, c)
    /\ UNCHANGED <<parent, exit_code, current, pc, child, any_child_zombie_found, exited, fault>>

\* wait(pid) for a child that is not.
wait_block ==
    /\ InUserMode
    /\ \E c \in ToSet(children[current]) : state[c] # "ZOMBIE" /\ Block("wait_child", c)
    /\ UNCHANGED <<tree, any_child_zombie_found, status, reaped, exited, fault>>

\* wait for any child, the first zombie in the list.
wait_any_reap ==
    /\ InUserMode
    /\ LET zombies == SelectSeq(children[current], LAMBDA c : state[c] = "ZOMBIE")
       IN  /\ zombies # <<>>
           /\ any_child_zombie_found' = Head(zombies)
           /\ Reap(current, Head(zombies))
    /\ UNCHANGED <<parent, exit_code, current, pc, child, exited, fault>>

wait_any_block ==
    /\ InUserMode
    /\ children[current] # <<>>
    /\ \A c \in ToSet(children[current]) : state[c] # "ZOMBIE"
    /\ Block("wait_any", NoTask)
    /\ UNCHANGED <<tree, any_child_zombie_found, status, reaped, exited, fault>>

\* The task was woken, by an exit or by a signal, and is switched to again: the
\* loop of wait_on_condition ends without another look at the condition.
wait_child_return ==
    /\ ~fault /\ current # IdleTask /\ pc[current] = "wait_child"
    /\ Reap(current, child[current])
    /\ pc' = [pc EXCEPT ![current] = "user"]
    /\ child' = [child EXCEPT ![current] = NoTask]
    /\ UNCHANGED <<parent, exit_code, current, any_child_zombie_found, exited, fault>>

\* Likewise: any_child_zombie_found is what an earlier call left behind.  It is
\* dereferenced and unlinked; a null pointer, or one to a task that is not in
\* the list, is not followed further.
wait_any_return ==
    /\ ~fault /\ current # IdleTask /\ pc[current] = "wait_any"
    /\ IF any_child_zombie_found \in ToSet(children[current])
       THEN Reap(current, any_child_zombie_found) /\ UNCHANGED fault
       ELSE fault' = TRUE /\ UNCHANGED <<state, queue, children, status, reaped>>
    /\ pc' = [pc EXCEPT ![current] = "user"]
    /\ UNCHANGED <<parent, exit_code, current, child, any_child_zombie_found, exited>>

\* sys_sigsend_impl: a blocked receiver becomes runnable.
sys_sigsend_impl(t) ==
    /\ state[t] = "BLOCKED"
    /\ state' = [state EXCEPT ![t] = "WAITING"]
    /\ queue' = [queue EXCEPT ![t] = "WAITING"]

sys_sigsend ==
    /\ Signals /\ InUserMode
    /\ \E t \in Tasks \ {current} : Live(t) /\ sys_sigsend_impl(t)
    /\ UNCHANGED <<tree, current, waits, exited, fault>>

\* A fault ends the run.
Halted == fault /\ UNCHANGED vars

Next ==
    \/ scheduler_tick \/ task_fork \/ task_exit \/ wait_reap \/ wait_block
    \/ wait_any_reap \/ wait_any_block \/ wait_child_return \/ wait_any_return
    \/ sys_sigsend \/ Halted

Spec == Init /\ [][Next]_vars

----------------------------------------------------------------------------
\* No exit is missed: a parent that is blocked in wait(pid) has a child that
\* has not exited, whatever the order of the wait and the exit.
NoMissedExit ==
    \A p \in Tasks : pc[p] = "wait_child" /\ queue[p] = "BLOCKED"
                       => child[p] \notin exited

\* cleanup_dead_tasks frees a task only after that task has exited and a wait
\* has returned it, exactly once; so never a stack some task still runs on.
FreedAfterReaped ==
    \A t \in Tasks : state[t] = "FREED" => t \in exited /\ reaped[t] = 1

\* The list of children of a task that has not been freed leads to no freed
\* task: task_wait and task_exit can follow it.
ChildrenExist ==
    \A p \in Tasks : Live(p) => \A c \in ToSet(children[p]) : Live(c)

\* A task that has called task_exit never runs again and never gets back into
\* the queue of runnable tasks (task.c:524, "We should never enter this part").
NeverResurrected ==
    \A t \in exited : t # current /\ queue[t] \in {"none", "ZOMBIE"}

\* task.c:501: children of an exiting task are handed over to its parent, so
\* that a task that has yet to exit has a parent it can wake (task.c:483).
ParentExists ==
    \A t \in Tasks : Live(t) /\ t \notin exited /\ parent[t] # NoTask => Live(parent[t])
=============================================================================
