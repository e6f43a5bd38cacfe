---------------------------- MODULE QueueMoves ----------------------------
(***************************************************************************)
(* scheduler_move_task_to_state by itself: tasks that are not on the CPU   *)
(* are moved between the linked queues in any order.  Started from intact  *)
(* queues the function keeps them intact, and is the Move of TaskQueues.   *)
(* (What scheduler_get_next_task does to them is the subject of Scheduler.)*)
(***************************************************************************)
EXTENDS RunQueues, Sequences

VARIABLES S, exists     \* the queue record; the tasks created so far

vars == <<S, exists>>

Init ==
    /\ S = [state |-> [t \in Task |-> IF t = Idle THEN "RUNNING" ELSE "WAITING"],
            next  |-> [t \in Task |-> NULL],
            prev  |-> [t \in Task |-> NULL],
            head  |-> [q \in Queued |-> NULL],
            num   |-> [q \in Counted |-> 0],
            current |-> Idle, fault |-> "none"]
    /\ exists = {Idle}

\* scheduler_add_task
scheduler_add_task(t) ==
    /\ t \notin exists
    /\ S' = scheduler_move_task_to_state(S, t, "WAITING")
    /\ exists' = exists \cup {t}

\* A wake-up, a signal, or the parent's exit moves another task.
MoveOther(t, q) ==
    /\ t \in exists \ {S.current}
    /\ S' = scheduler_move_task_to_state(S, t, q)
    /\ UNCHANGED exists

Next == \E t \in Task :
            \/ scheduler_add_task(t)
            \/ \E q \in Queued \cup {"DEAD"} : MoveOther(t, q)

Spec == Init /\ [][Next]_vars

----------------------------------------------------------------------------
\* The queue as a sequence: what a walk from its head visits.
Chain(q) == [i \in 1..Cardinality(Reach(S.next, S.head[q])) |->
                Walk(S.next, S.head[q])[i - 1]]

\* IntactQueues: every walk ends; next and prev of neighbours agree; exactly the
\* created tasks in a queued state other than the current one are found, each in
\* the queue of its state.
IntactQueues ==
    /\ S.fault = "none"
    /\ \A q \in Queued :
          LET c == Chain(q)
          IN  /\ S.head[q] # NULL => ~Endless(S.next, S.head[q]) /\ S.prev[S.head[q]] = NULL
              /\ \A i \in 1..(Len(c) - 1) : S.prev[c[i + 1]] = c[i]
              /\ {c[i] : i \in DOMAIN c} =
                     {t \in exists \ {S.current} : S.state[t] = q}
=============================================================================
