---------------------------- MODULE TaskQueues ----------------------------
(***************************************************************************)
(* What the scheduler's queues promise: one sequence of tasks per state, a *)
(* task in at most one of them, a moved task at the end of its new queue   *)
(* and every other task where it was.                                      *)
(***************************************************************************)
EXTENDS Sequences

CONSTANTS Task, Queue

VARIABLE queues       \* [Queue -> Seq(Task)]

qvars == <<queues>>

QInit == queues = [q \in Queue |-> <<>>]

Without(s, t) == SelectSeq(s, LAMBDA x : x # t)

\* t leaves the queue it is in; it joins q, or no queue when q is not one.
Move(t, q) ==
    queues' = [r \in Queue |-> IF r = q THEN Append(Without(queues[r], t), t)
                                        ELSE Without(queues[r], t)]

\* The first task of a queue is taken out.
Take(q) ==
    /\ queues[q] # <<>>
    /\ queues' = [queues EXCEPT ![q] = Tail(@)]

QNext == \/ \E t \in Task, q \in Queue \cup {"RUNNING", "DEAD"} : Move(t, q)
         \/ \E q \in Queue : Take(q)

=============================================================================
