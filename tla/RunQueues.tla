----------------------------- MODULE RunQueues -----------------------------
(***************************************************************************)
(* The intrusive, doubly linked task queues of the scheduler and the       *)
(* operations scheduler.c performs on them, each as a function from one    *)
(* queue record to the next.  All of them run with interrupts off (under   *)
(* scheduler_lock, inside an interrupt gate, or after the cli of           *)
(* scheduler_yield), so each is one atomic step of whoever calls it.       *)
(*                                                                         *)
(* A queue record S has                                                    *)
(*   S.state[t]        task->state                                         *)
(*   S.next[t], S.prev[t]   task->next, task->prev                         *)
(*   S.head[q]         waiting_queue, blocked_queue, sleeping_queue,       *)
(*                     zombie_queue, indexed by the state they hold        *)
(*   S.num[q]          num_waiting, num_blocked, num_sleeping              *)
(*   S.current         scheduler_stats->current_task                       *)
(*   S.fault           "hang" once a list walk cannot end, "selfswitch"    *)
(*                     once a task was switched to itself, "abort" after   *)
(*                     abort(), else "none"                                *)
(***************************************************************************)
EXTENDS Integers, FiniteSets

CONSTANTS Task,      \* the task_t objects, the idle task included
          Idle,      \* the task whose pid is idle_task_pid
          NULL,      \* the null pointer
          CounterSize   \* the values of size_t: 2^32 in the code

ASSUME IdleAssumption == Idle \in Task
ASSUME NullAssumption == NULL \notin Task
ASSUME CounterAssumption == CounterSize \in Nat \ {0}

\* task_state_t, without the states' numeric values
Queued  == {"WAITING", "BLOCKED", "SLEEPING", "ZOMBIE"}
Counted == {"WAITING", "BLOCKED", "SLEEPING"}
TaskState == Queued \cup {"RUNNING", "DEAD"}

Link == Task \cup {NULL}

QueueRecord ==
    [state : [Task -> TaskState], next : [Task -> Link], prev : [Task -> Link],
     head : [Queued -> Link], num : [Counted -> 0..(CounterSize - 1)],
     current : Task, fault : {"none", "hang", "selfswitch", "abort"}]

----------------------------------------------------------------------------
\* The element reached from h after n steps of "p = p->next".
Walk(next, h) ==
    LET w[n \in 0..Cardinality(Task)] ==
            IF n = 0 THEN h
            ELSE IF w[n - 1] = NULL THEN NULL ELSE next[w[n - 1]]
    IN  w

\* The tasks a traversal that starts at h visits.
Reach(next, h) == {t \in Task : \E n \in 0..Cardinality(Task) : Walk(next, h)[n] = t}

\* while (last->next != NULL) last = last->next: never ends on a cycle.
Endless(next, h) == \A t \in Reach(next, h) : next[t] # NULL
LastOf(next, h) == CHOOSE t \in Reach(next, h) : next[t] = NULL

RemoveForgetsPrev(S, t) ==
    LET n1 == IF S.prev[t] # NULL
              THEN [S.next EXCEPT ![S.prev[t]] = S.next[t]] ELSE S.next
    IN  [S EXCEPT !.next = [n1 EXCEPT ![t] = NULL],
                  !.prev = [@ EXCEPT ![t] = NULL],
                  !.head = [q \in Queued |->
                               IF S.head[q] = t THEN n1[t] ELSE S.head[q]]]

\* remove_from_queue: the pointers are re-read after each write, as in the code.
remove_from_queue(S, t) ==
    LET n1 == IF S.prev[t] # NULL
              THEN [S.next EXCEPT ![S.prev[t]] = S.next[t]] ELSE S.next
        p1 == IF n1[t] # NULL
              THEN [S.prev EXCEPT ![n1[t]] = S.prev[t]] ELSE S.prev
    IN  [S EXCEPT !.next = [n1 EXCEPT ![t] = NULL],
                  !.prev = [p1 EXCEPT ![t] = NULL],
                  !.head = [q \in Queued |->
                               IF S.head[q] = t THEN n1[t] ELSE S.head[q]]]

\* add_to_queue: append to the queue of the task's state.
add_to_queue(S, t) ==
    LET q == S.state[t]
    IN  IF q \notin Queued THEN S
        ELSE IF S.head[q] = NULL
        THEN [S EXCEPT !.head[q] = t, !.prev[t] = NULL, !.next[t] = NULL]
        ELSE IF Endless(S.next, S.head[q]) THEN [S EXCEPT !.fault = "hang"]
        ELSE LET last == LastOf(S.next, S.head[q])
             IN  [S EXCEPT !.next = [[@ EXCEPT ![last] = t] EXCEPT ![t] = NULL],
                           !.prev[t] = last]

\* The statistics: guarded decrement for the old state, increment for the new,
\* both on unsigned counters that wrap at CounterSize.
Inc(n) == IF n = CounterSize - 1 THEN 0 ELSE n + 1
Dec(n) == IF n = 0 THEN CounterSize - 1 ELSE n - 1
Leave(num, q) == [x \in Counted |-> IF x = q /\ num[x] > 0 THEN Dec(num[x]) ELSE num[x]]
Enter(num, q) == [x \in Counted |-> IF x = q THEN Inc(num[x]) ELSE num[x]]

scheduler_move_task_to_state(S, t, q) ==
    LET r == remove_from_queue(S, t)
    IN  add_to_queue([r EXCEPT !.state[t] = q,
                               !.num = Enter(Leave(@, S.state[t]), q)], t)

PopCountSigned(num) == [num EXCEPT !["WAITING"] = @ - 1]

\* num_waiting-- of scheduler_get_next_task, which has no guard.
PopCount(num) == [num EXCEPT !["WAITING"] = Dec(@)]

----------------------------------------------------------------------------
\* scheduler_get_next_task after the idle task is known not to be in front of
\* others: <<record, task or NULL>>.
TakeFirst(S) ==
    LET first == S.head["WAITING"]
    IN  IF first # Idle
        THEN << [S EXCEPT !.head["WAITING"] = S.next[first],
                          !.next[first] = NULL, !.num = PopCount(@)], first >>
        ELSE IF S.state[S.current] \in {"RUNNING", "WAITING"} THEN << S, NULL >>
        ELSE << [S EXCEPT !.head["WAITING"] = NULL, !.next[first] = NULL,
                          !.prev[first] = NULL, !.num = PopCount(@)], first >>

\* The idle task is first and others wait: move it to the end.
RotateIdle(S) ==
    LET last == LastOf(S.next, Idle)
        n1   == [S.next EXCEPT ![last] = Idle]
    IN  [S EXCEPT !.head["WAITING"] = n1[Idle],
                  !.next = [n1 EXCEPT ![Idle] = NULL],
                  !.prev = [[S.prev EXCEPT ![Idle] = last]
                               EXCEPT ![n1[Idle]] = NULL]]

scheduler_get_next_task(S) ==
    LET first == S.head["WAITING"]
    IN  IF first = NULL THEN << S, NULL >>
        ELSE IF first = Idle /\ S.next[Idle] # NULL
        THEN IF Endless(S.next, Idle) THEN << [S EXCEPT !.fault = "hang"], NULL >>
             ELSE TakeFirst(RotateIdle(S))
        ELSE TakeFirst(S)

\* The forced switch away from a zombie or dead current task.
ForceIdle(S) ==
    LET first == S.head["WAITING"]
    IN  IF first = NULL THEN << [S EXCEPT !.fault = "abort"], NULL >>
        ELSE IF first # Idle THEN << S, first >>
        ELSE LET h == S.next[first]
             IN  << [S EXCEPT !.head["WAITING"] = h,
                              !.prev = [x \in Task |-> IF x \in {h, first} THEN NULL ELSE @[x]],
                              !.next[first] = NULL, !.num = PopCount(@)], first >>

SwitchKeepsRunning(S, new) == [S EXCEPT !.state[new] = "RUNNING", !.current = new]

\* The second half of scheduler_reschedule: states, re-enqueueing, the switch.
SwitchTo(S, new) ==
    LET old == S.current
        s1  == IF S.state[old] = "RUNNING" THEN [S.state EXCEPT ![old] = "WAITING"] ELSE S.state
        s2  == [s1 EXCEPT ![new] = "RUNNING"]
        S2  == [S EXCEPT !.state = s2]
        S3  == IF s2[old] = "WAITING"
               THEN [add_to_queue(S2, old) EXCEPT !.num = Enter(@, "WAITING")] ELSE S2
    IN  [S3 EXCEPT !.current = new,
                   !.fault = IF new = old /\ @ = "none" THEN "selfswitch" ELSE @]

\* scheduler_reschedule without cleanup_dead_tasks
Dispatch(S) ==
    LET r    == scheduler_get_next_task(S)
        gone == S.state[S.current] \in {"ZOMBIE", "DEAD"}
        f    == IF gone /\ r[2] = NULL THEN ForceIdle(r[1]) ELSE r
    IN  IF f[2] = NULL \/ f[1].fault # "none" THEN f[1] ELSE SwitchTo(f[1], f[2])
=============================================================================
