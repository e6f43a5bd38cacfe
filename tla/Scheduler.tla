----------------------------- MODULE Scheduler -----------------------------
(***************************************************************************)
(* Tasks that are created, run, are preempted, wait on a queue-type wait   *)
(* object and are woken from an interrupt: scheduler.c and wait.c over the *)
(* linked queues of RunQueues.  (Tasks exit in TaskLifecycle.)             *)
(*                                                                         *)
(* There is one CPU.  A system call runs with interrupts off (the gate of  *)
(* int 0x80 clears IF), so it can only be left at scheduler_yield.  The    *)
(* kernel tasks (hd_sync, kernel_init, the debugger) start with IF set and *)
(* can be interrupted between any two steps of wait_on_condition_impl.     *)
(*                                                                         *)
(* pc[t] is where a task is: "none" (no such task), "run" (user mode, or   *)
(* kernel code that does not wait) or a step of its wait.                  *)
(***************************************************************************)
EXTENDS RunQueues, Sequences

CONSTANTS KernelTask,   \* the tasks that run with interrupts enabled
          MaxInflight   \* bound on the uncompleted operations of a task

ASSUME KernelTaskAssumption == KernelTask \subseteq Task \ {Idle}
ASSUME InflightAssumption == MaxInflight \in Nat

VARIABLES S,            \* the queue record, see RunQueues
          pc,
          waiters,      \* wait_obj->waiters[0 .. count - 1]
          inflight      \* operations a task started that are not completed

vars == <<S, pc, waiters, inflight>>

InWait == {"enter", "moved", "test", "yield", "leave"}
Place == InWait \cup {"none", "run"}

TypeOK == /\ S \in QueueRecord
          /\ pc \in [Task -> Place]
          /\ waiters \in Seq(Task)
          /\ inflight \in [Task -> 0..MaxInflight]

\* scheduler_init: the idle task runs, nothing else exists yet.
Init ==
    /\ S = [state |-> [t \in Task |-> IF t = Idle THEN "RUNNING" ELSE "WAITING"],
            next  |-> [t \in Task |-> NULL],
            prev  |-> [t \in Task |-> NULL],
            head  |-> [q \in Queued |-> NULL],
            num   |-> [q \in Counted |-> 0],
            current |-> Idle, fault |-> "none"]
    /\ pc = [t \in Task |-> IF t = Idle THEN "run" ELSE "none"]
    /\ waiters = <<>>
    /\ inflight = [t \in Task |-> 0]

cur == S.current
At(p) == S.fault = "none" /\ pc[cur] = p
Goto(p) == pc' = [pc EXCEPT ![cur] = p]

\* IF is set in user mode, in the idle task and in the kernel tasks.
Interruptible == S.fault = "none" /\ (pc[cur] = "run" \/ cur \in KernelTask)

----------------------------------------------------------------------------
\* A timer interrupt on which scheduler_tick reschedules.  The interrupted task
\* continues where it was.
scheduler_tick ==
    /\ Interruptible
    /\ S' = Dispatch(S)
    /\ UNCHANGED <<pc, waiters, inflight>>

\* scheduler_yield, called by a task that can go on running.
scheduler_yield ==
    /\ At("run") /\ cur # Idle
    /\ S' = Dispatch(S)
    /\ UNCHANGED <<pc, waiters, inflight>>

\* scheduler_add_task: the state of a new task is already TASK_WAITING when it
\* is moved to TASK_WAITING.
scheduler_add_task(t) ==
    /\ At("run") /\ pc[t] = "none"
    /\ S' = scheduler_move_task_to_state(S, t, "WAITING")
    /\ pc' = [pc EXCEPT ![t] = "run"]
    /\ UNCHANGED <<waiters, inflight>>

----------------------------------------------------------------------------
\* The condition task t waits for: the operation it started last is completed.
\* (A task that returned early from a wait may have left an older one behind.)
condition(t) == inflight[t] = 0

\* A driver starts an operation and calls wait_on_condition.
wait_on_condition ==
    /\ At("run") /\ cur # Idle /\ inflight[cur] < MaxInflight
    /\ inflight' = [inflight EXCEPT ![cur] = @ + 1]
    /\ Goto("enter")
    /\ UNCHANGED <<S, waiters>>

\* wait_on_condition_impl, one action for each step an interrupt can separate
\* from the next: first the move to the blocked queue,
wait_move ==
    /\ At("enter")
    /\ S' = scheduler_move_task_to_state(S, cur, "BLOCKED")
    /\ Goto("moved")
    /\ UNCHANGED <<waiters, inflight>>

enqueue_waiter ==
    /\ At("moved")
    /\ waiters' = Append(waiters, cur)
    /\ Goto("test")
    /\ UNCHANGED <<S, inflight>>

\* while (task->state == block_state && !condition(arg)) scheduler_yield();
wait_test ==
    /\ At("test")
    /\ Goto(IF S.state[cur] = "BLOCKED" /\ ~condition(cur) THEN "yield" ELSE "leave")
    /\ UNCHANGED <<S, waiters, inflight>>

wait_yield ==
    /\ At("yield")
    /\ S' = Dispatch(S)
    /\ Goto("test")
    /\ UNCHANGED <<waiters, inflight>>

\* The first entry of the task goes; the later ones move one place forward.
dequeue_waiter(t) ==
    LET at == {i \in 1..Len(waiters) : waiters[i] = t}
    IN  IF at = {} THEN waiters
        ELSE LET i == CHOOSE i \in at : \A j \in at : i <= j
             IN  SubSeq(waiters, 1, i - 1) \o SubSeq(waiters, i + 1, Len(waiters))

LeaveWithoutDequeue ==
    /\ At("leave")
    /\ S' = IF S.state[cur] = "BLOCKED"
            THEN scheduler_move_task_to_state(S, cur, "RUNNING") ELSE S
    /\ Goto("run")
    /\ UNCHANGED <<waiters, inflight>>

\* Leave the queue; a task that never yielded is still BLOCKED.
wait_leave ==
    /\ At("leave")
    /\ waiters' = dequeue_waiter(cur)
    /\ S' = IF S.state[cur] = "BLOCKED"
            THEN scheduler_move_task_to_state(S, cur, "RUNNING") ELSE S
    /\ Goto("run")
    /\ UNCHANGED inflight

\* An interrupt completes an operation of task t and calls wait_wake_up, which
\* moves the FIRST waiter to the waiting queue, whoever that is.
wait_wake_up(t) ==
    /\ Interruptible
    /\ inflight[t] > 0
    /\ inflight' = [inflight EXCEPT ![t] = @ - 1]
    /\ S' = IF waiters = <<>> THEN S
            ELSE scheduler_move_task_to_state(S, waiters[1], "WAITING")
    /\ UNCHANGED <<pc, waiters>>

Wait == \/ wait_on_condition \/ wait_move \/ enqueue_waiter
        \/ wait_test \/ wait_yield \/ wait_leave

Next == \/ scheduler_tick \/ scheduler_yield \/ Wait
        \/ \E t \in Task : scheduler_add_task(t) \/ wait_wake_up(t)

Spec == Init /\ [][Next]_vars

----------------------------------------------------------------------------
\* OnlyCurrentRuns: a task whose state is TASK_RUNNING is the current one, however
\* wake-ups, preemption and waits interleave, even after a queue was damaged.
OnlyCurrentRuns == \A t \in Task : S.state[t] = "RUNNING" => t = S.current

\* WaitersExact: a task is on the wait object's list exactly while it is between
\* enqueue_waiter and dequeue_waiter, and once.
WaitersExact ==
    \A t \in Task : Cardinality({i \in 1..Len(waiters) : waiters[i] = t})
                      = IF pc[t] \in {"test", "yield", "leave"} THEN 1 ELSE 0

\* "Adds task to the end of the appropriate queue, based on it's current state":
\* a task that waits for the CPU can be found from waiting_queue.
AllWaitingQueued ==
    \A t \in Task : S.state[t] = "WAITING" /\ pc[t] # "none" /\ t # S.current
                      => t \in Reach(S.next, S.head["WAITING"])
=============================================================================
