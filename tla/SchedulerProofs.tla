-------------------------- MODULE SchedulerProofs --------------------------
(***************************************************************************)
(* For every set of tasks, kernel tasks and counter width: the scheduler's *)
(* state keeps its type and at most one task, the current one, is RUNNING. *)
(***************************************************************************)
EXTENDS Scheduler, SequenceTheorems, FiniteSetTheorems, WellFoundedInduction, TLAPS

\* Every non-empty set of naturals has a least element: what the first match of
\* a search loop in the code is.
LEMMA LeastNatural ==
    ASSUME NEW A \in SUBSET Nat, A # {}
    PROVE  \E n \in A : \A j \in A : n <= j
<1> DEFINE R == OpToRel(<, Nat)
<1>1. IsWellFoundedOn(R, Nat)
  BY NatLessThanWellFounded
<1>2. R = {ss \in Nat \X Nat : ss[1] < ss[2]}
  BY DEF OpToRel
<1> HIDE DEF R
<1>3. PICK x \in A : \A y \in A : ~ (<<y, x>> \in R)
  BY <1>1, WFMin
<1>4. ASSUME NEW y \in Nat, y < x
      PROVE  <<y, x>> \in R
  <2>1. <<y, x>> \in Nat \X Nat /\ <<y, x>>[1] = y /\ <<y, x>>[2] = x
    OBVIOUS
  <2> QED
    BY <1>2, <1>4, <2>1
<1>5. \A y \in A : ~(y < x)
  BY <1>3, <1>4
<1> QED
  BY <1>5

USE IdleAssumption, NullAssumption, CounterAssumption, KernelTaskAssumption, InflightAssumption

\* The counters stay within size_t.
LEMMA CountersInRange ==
    ASSUME NEW num \in [Counted -> 0..(CounterSize - 1)], NEW q
    PROVE  /\ Leave(num, q) \in [Counted -> 0..(CounterSize - 1)]
           /\ Enter(num, q) \in [Counted -> 0..(CounterSize - 1)]
           /\ PopCount(num) \in [Counted -> 0..(CounterSize - 1)]
  BY DEF Leave, Enter, PopCount, Inc, Dec, Counted

\* A walk visits tasks; one that ends has a last task.
LEMMA LastIsTask ==
    ASSUME NEW next, NEW h, ~Endless(next, h)
    PROVE  LastOf(next, h) \in Task
  BY DEF Endless, LastOf, Reach

\* remove_from_queue changes links only.
LEMMA RemoveType ==
    ASSUME NEW R \in QueueRecord, NEW t \in Task
    PROVE  /\ remove_from_queue(R, t) \in QueueRecord
           /\ remove_from_queue(R, t).state = R.state
           /\ remove_from_queue(R, t).current = R.current
           /\ remove_from_queue(R, t).num = R.num
<1> DEFINE n1 == IF R.prev[t] # NULL
                 THEN [R.next EXCEPT ![R.prev[t]] = R.next[t]] ELSE R.next
           p1 == IF n1[t] # NULL
                 THEN [R.prev EXCEPT ![n1[t]] = R.prev[t]] ELSE R.prev
<1>1. n1 \in [Task -> Link]
  BY DEF QueueRecord, Link
<1>2. p1 \in [Task -> Link]
  BY <1>1 DEF QueueRecord, Link
<1> HIDE DEF n1, p1
<1>3. remove_from_queue(R, t) =
          [R EXCEPT !.next = [n1 EXCEPT ![t] = NULL],
                    !.prev = [p1 EXCEPT ![t] = NULL],
                    !.head = [q \in Queued |-> IF R.head[q] = t THEN n1[t] ELSE R.head[q]]]
  BY DEF remove_from_queue, n1, p1
<1>4. /\ [n1 EXCEPT ![t] = NULL] \in [Task -> Link]
      /\ [p1 EXCEPT ![t] = NULL] \in [Task -> Link]
      /\ [q \in Queued |-> IF R.head[q] = t THEN n1[t] ELSE R.head[q]] \in [Queued -> Link]
  BY <1>1, <1>2 DEF QueueRecord, Link
<1> QED
  BY <1>3, <1>4 DEF QueueRecord

\* add_to_queue changes links and may find that a walk does not end.
LEMMA AddType ==
    ASSUME NEW R \in QueueRecord, NEW t \in Task
    PROVE  /\ add_to_queue(R, t) \in QueueRecord
           /\ add_to_queue(R, t).state = R.state
           /\ add_to_queue(R, t).current = R.current
<1> DEFINE q == R.state[t]
           last == LastOf(R.next, R.head[q])
<1>1. CASE q \notin Queued
  BY <1>1 DEF add_to_queue
<1>2. CASE q \in Queued /\ R.head[q] = NULL
  <2>1. add_to_queue(R, t) = [R EXCEPT !.head[q] = t, !.prev[t] = NULL, !.next[t] = NULL]
    BY <1>2 DEF add_to_queue
  <2>2. /\ [R.head EXCEPT ![q] = t] \in [Queued -> Link]
        /\ [R.prev EXCEPT ![t] = NULL] \in [Task -> Link]
        /\ [R.next EXCEPT ![t] = NULL] \in [Task -> Link]
    BY DEF QueueRecord, Link
  <2> HIDE DEF q
  <2> QED
    BY <2>1, <2>2 DEF QueueRecord
<1>3. CASE q \in Queued /\ R.head[q] # NULL /\ Endless(R.next, R.head[q])
  <2>1. add_to_queue(R, t) = [R EXCEPT !.fault = "hang"]
    BY <1>3 DEF add_to_queue
  <2> QED
    BY <2>1 DEF QueueRecord
<1>4. CASE q \in Queued /\ R.head[q] # NULL /\ ~Endless(R.next, R.head[q])
  <2>1. last \in Task
    BY <1>4, LastIsTask
  <2>2. add_to_queue(R, t) =
           [R EXCEPT !.next = [[@ EXCEPT ![last] = t] EXCEPT ![t] = NULL], !.prev[t] = last]
    BY <1>4 DEF add_to_queue
  <2> HIDE DEF last
  <2>3. /\ [[R.next EXCEPT ![last] = t] EXCEPT ![t] = NULL] \in [Task -> Link]
        /\ [R.prev EXCEPT ![t] = last] \in [Task -> Link]
    BY <2>1 DEF QueueRecord, Link
  <2> QED
    BY <2>2, <2>3 DEF QueueRecord
<1> QED
  BY <1>1, <1>2, <1>3, <1>4

\* scheduler_move_task_to_state sets the state of its task and of no other.
LEMMA MoveType ==
    ASSUME NEW R \in QueueRecord, NEW t \in Task, NEW q \in TaskState
    PROVE  /\ scheduler_move_task_to_state(R, t, q) \in QueueRecord
           /\ scheduler_move_task_to_state(R, t, q).state = [R.state EXCEPT ![t] = q]
           /\ scheduler_move_task_to_state(R, t, q).current = R.current
<1> DEFINE r == remove_from_queue(R, t)
           num == Enter(Leave(r.num, R.state[t]), q)
           m == [r EXCEPT !.state[t] = q, !.num = num]
<1>1. r \in QueueRecord /\ r.state = R.state /\ r.current = R.current
  BY RemoveType
<1>2. num \in [Counted -> 0..(CounterSize - 1)]
  BY <1>1, CountersInRange DEF QueueRecord
<1>3. scheduler_move_task_to_state(R, t, q) = add_to_queue(m, t)
  BY DEF scheduler_move_task_to_state
<1> HIDE DEF r, num
<1>4. m \in QueueRecord /\ m.state = [R.state EXCEPT ![t] = q] /\ m.current = R.current
  BY <1>1, <1>2 DEF QueueRecord
<1> HIDE DEF m
<1> QED
  BY <1>3, <1>4, AddType

\* A result of scheduler_get_next_task: the record, with the states and the
\* current task as they were, and a task or NULL.
Chosen(R, r) == /\ r[1] \in QueueRecord
                /\ r[1].state = R.state
                /\ r[1].current = R.current
                /\ r[2] \in Link

\* Taking the first task of the waiting queue.
LEMMA TakeFirstType ==
    ASSUME NEW R \in QueueRecord, R.head["WAITING"] # NULL
    PROVE  Chosen(R, TakeFirst(R))
<1> DEFINE first == R.head["WAITING"]
           num == PopCount(R.num)
<1>1. first \in Task
  BY DEF QueueRecord, Link, Queued
<1>2. num \in [Counted -> 0..(CounterSize - 1)]
  BY CountersInRange DEF QueueRecord
<1>3. CASE first # Idle
  <2> DEFINE m == [R EXCEPT !.head["WAITING"] = R.next[first],
                            !.next[first] = NULL, !.num = num]
  <2>1. TakeFirst(R) = << m, first >>
    BY <1>3 DEF TakeFirst
  <2>2. /\ [R.head EXCEPT !["WAITING"] = R.next[first]] \in [Queued -> Link]
        /\ [R.next EXCEPT ![first] = NULL] \in [Task -> Link]
    BY <1>1 DEF QueueRecord, Link
  <2> HIDE DEF first, num
  <2>3. m \in QueueRecord /\ m.state = R.state /\ m.current = R.current
    BY <1>2, <2>2 DEF QueueRecord
  <2> HIDE DEF m
  <2> QED
    BY <1>1, <2>1, <2>3 DEF Chosen, Link
<1>4. CASE first = Idle /\ R.state[R.current] \in {"RUNNING", "WAITING"}
  <2>1. TakeFirst(R) = << R, NULL >>
    BY <1>4 DEF TakeFirst
  <2> QED
    BY <2>1 DEF Chosen, Link
<1>5. CASE first = Idle /\ R.state[R.current] \notin {"RUNNING", "WAITING"}
  <2> DEFINE m == [R EXCEPT !.head["WAITING"] = NULL, !.next[first] = NULL,
                            !.prev[first] = NULL, !.num = num]
  <2>1. TakeFirst(R) = << m, first >>
    BY <1>5 DEF TakeFirst
  <2>2. /\ [R.head EXCEPT !["WAITING"] = NULL] \in [Queued -> Link]
        /\ [R.next EXCEPT ![first] = NULL] \in [Task -> Link]
        /\ [R.prev EXCEPT ![first] = NULL] \in [Task -> Link]
    BY DEF QueueRecord, Link
  <2> HIDE DEF first, num
  <2>3. m \in QueueRecord /\ m.state = R.state /\ m.current = R.current
    BY <1>2, <2>2 DEF QueueRecord
  <2> HIDE DEF m
  <2> QED
    BY <1>1, <2>1, <2>3 DEF Chosen, Link
<1> QED
  BY <1>3, <1>4, <1>5

\* Moving the idle task behind the others.  The new head is a task: the link the
\* idle task had, or the idle task itself if it was the last on its own list.
LEMMA RotateType ==
    ASSUME NEW R \in QueueRecord, R.next[Idle] # NULL, ~Endless(R.next, Idle)
    PROVE  /\ RotateIdle(R) \in QueueRecord
           /\ RotateIdle(R).state = R.state
           /\ RotateIdle(R).current = R.current
           /\ RotateIdle(R).head["WAITING"] # NULL
<1> DEFINE last == LastOf(R.next, Idle)
           n1 == [R.next EXCEPT ![last] = Idle]
<1>1. last \in Task
  BY LastIsTask
<1> HIDE DEF last
<1>2. n1 \in [Task -> Link] /\ n1[Idle] # NULL
  BY <1>1 DEF QueueRecord, Link
<1> HIDE DEF n1
<1> DEFINE hd == [R.head EXCEPT !["WAITING"] = n1[Idle]]
           nx == [n1 EXCEPT ![Idle] = NULL]
           pv == [[R.prev EXCEPT ![Idle] = last] EXCEPT ![n1[Idle]] = NULL]
           m  == [R EXCEPT !.head = hd, !.next = nx, !.prev = pv]
<1>3. RotateIdle(R) = m
  BY DEF RotateIdle, n1, last, QueueRecord
<1>4. /\ hd \in [Queued -> Link] /\ hd["WAITING"] # NULL
      /\ nx \in [Task -> Link] /\ pv \in [Task -> Link]
  BY <1>1, <1>2 DEF QueueRecord, Link, Queued
<1> HIDE DEF hd, nx, pv
<1>5. m \in QueueRecord /\ m.state = R.state /\ m.current = R.current /\ m.head = hd
  BY <1>4 DEF QueueRecord
<1> QED
  BY <1>3, <1>4, <1>5

\* scheduler_get_next_task
LEMMA GetNextType ==
    ASSUME NEW R \in QueueRecord
    PROVE  Chosen(R, scheduler_get_next_task(R))
<1> DEFINE first == R.head["WAITING"]
<1>1. CASE first = NULL
  BY <1>1 DEF scheduler_get_next_task, Chosen, Link
<1>2. CASE first # NULL /\ first = Idle /\ R.next[Idle] # NULL /\ Endless(R.next, Idle)
  <2>1. scheduler_get_next_task(R) = << [R EXCEPT !.fault = "hang"], NULL >>
    BY <1>2 DEF scheduler_get_next_task
  <2> QED
    BY <2>1 DEF Chosen, QueueRecord, Link
<1>3. CASE first # NULL /\ first = Idle /\ R.next[Idle] # NULL /\ ~Endless(R.next, Idle)
  <2>1. scheduler_get_next_task(R) = TakeFirst(RotateIdle(R))
    BY <1>3 DEF scheduler_get_next_task
  <2>2. Chosen(RotateIdle(R), TakeFirst(RotateIdle(R)))
    BY <1>3, RotateType, TakeFirstType
  <2> QED
    BY <1>3, <2>1, <2>2, RotateType DEF Chosen
<1>4. CASE first # NULL /\ ~(first = Idle /\ R.next[Idle] # NULL)
  <2>1. scheduler_get_next_task(R) = TakeFirst(R)
    BY <1>4 DEF scheduler_get_next_task
  <2> QED
    BY <1>4, <2>1, TakeFirstType
<1> QED
  BY <1>1, <1>2, <1>3, <1>4

\* The forced choice of the idle task.
LEMMA ForceIdleType ==
    ASSUME NEW R \in QueueRecord
    PROVE  Chosen(R, ForceIdle(R))
<1> DEFINE first == R.head["WAITING"]
           h == R.next[first]
           num == PopCount(R.num)
           pv == [x \in Task |-> IF x \in {h, first} THEN NULL ELSE R.prev[x]]
<1>1. CASE first = NULL
  <2>1. ForceIdle(R) = << [R EXCEPT !.fault = "abort"], NULL >>
    BY <1>1 DEF ForceIdle
  <2> QED
    BY <2>1 DEF Chosen, QueueRecord, Link
<1>2. CASE first # NULL /\ first # Idle
  BY <1>2 DEF ForceIdle, Chosen, QueueRecord, Queued
<1>3. CASE first = Idle
  <2> DEFINE m == [R EXCEPT !.head["WAITING"] = h, !.prev = pv,
                            !.next[first] = NULL, !.num = num]
  <2>1. ForceIdle(R) = << m, first >>
    BY <1>3 DEF ForceIdle
  <2>2. num \in [Counted -> 0..(CounterSize - 1)]
    BY CountersInRange DEF QueueRecord
  <2>3. /\ first \in Task
        /\ [R.head EXCEPT !["WAITING"] = h] \in [Queued -> Link]
        /\ pv \in [Task -> Link]
        /\ [R.next EXCEPT ![first] = NULL] \in [Task -> Link]
    BY <1>3 DEF QueueRecord, Link
  <2> HIDE DEF first, h, num, pv
  <2>4. m \in QueueRecord /\ m.state = R.state /\ m.current = R.current
    BY <2>2, <2>3 DEF QueueRecord
  <2> HIDE DEF m
  <2> QED
    BY <2>1, <2>3, <2>4 DEF Chosen, Link
<1> QED
  BY <1>1, <1>2, <1>3

\* At most the current task of the record is RUNNING.
OneRuns(R) == \A t \in Task : R.state[t] = "RUNNING" => t = R.current

\* A move keeps it so, unless it makes a task other than the current one RUNNING.
LEMMA MoveKeepsOneRuns ==
    ASSUME NEW R \in QueueRecord, OneRuns(R), NEW t \in Task, NEW q \in TaskState,
           q = "RUNNING" => t = R.current
    PROVE  /\ scheduler_move_task_to_state(R, t, q) \in QueueRecord
           /\ OneRuns(scheduler_move_task_to_state(R, t, q))
<1>1. R.state \in [Task -> TaskState]
  BY DEF QueueRecord
<1> DEFINE m == scheduler_move_task_to_state(R, t, q)
<1>2. m \in QueueRecord /\ m.state = [R.state EXCEPT ![t] = q] /\ m.current = R.current
  BY MoveType
<1> HIDE DEF m
<1>3. OneRuns(m)
  BY <1>1, <1>2 DEF OneRuns
<1> QED
  BY <1>2, <1>3 DEF m

\* The switch: the old task stops being RUNNING before the new one starts.
LEMMA SwitchType ==
    ASSUME NEW R \in QueueRecord, OneRuns(R), NEW new \in Task
    PROVE  SwitchTo(R, new) \in QueueRecord /\ OneRuns(SwitchTo(R, new))
<1> DEFINE old == R.current
           s1 == IF R.state[old] = "RUNNING" THEN [R.state EXCEPT ![old] = "WAITING"]
                 ELSE R.state
           s2 == [s1 EXCEPT ![new] = "RUNNING"]
           R2 == [R EXCEPT !.state = s2]
           A  == add_to_queue(R2, old)
           R3 == IF s2[old] = "WAITING" THEN [A EXCEPT !.num = Enter(A.num, "WAITING")]
                 ELSE R2
<1>1. old \in Task
  BY DEF QueueRecord
<1>2. /\ s2 \in [Task -> TaskState]
      /\ \A t \in Task : s2[t] = "RUNNING" => t = new
  BY <1>1 DEF QueueRecord, OneRuns, TaskState, Queued
<1>3. SwitchTo(R, new) =
          [R3 EXCEPT !.current = new,
                     !.fault = IF new = old /\ R3.fault = "none" THEN "selfswitch" ELSE R3.fault]
  BY DEF SwitchTo
<1> HIDE DEF s2
<1>4. R2 \in QueueRecord /\ R2.state = s2
  BY <1>2 DEF QueueRecord
<1> HIDE DEF R2
<1>5. A \in QueueRecord /\ A.state = s2
  BY <1>1, <1>4, AddType
<1> HIDE DEF A, old
<1>6. Enter(A.num, "WAITING") \in [Counted -> 0..(CounterSize - 1)]
  BY <1>5, CountersInRange DEF QueueRecord
<1>7. R3 \in QueueRecord /\ R3.state = s2
  BY <1>4, <1>5, <1>6 DEF QueueRecord
<1> HIDE DEF R3
<1> DEFINE f == IF new = old /\ R3.fault = "none" THEN "selfswitch" ELSE R3.fault
           m == [R3 EXCEPT !.current = new, !.fault = f]
<1>8. f \in {"none", "hang", "selfswitch", "abort"}
  BY <1>7 DEF QueueRecord
<1>9. SwitchTo(R, new) = m
  BY <1>3
<1> HIDE DEF f
<1>10. m \in QueueRecord /\ m.state = s2 /\ m.current = new
  BY <1>7, <1>8 DEF QueueRecord
<1> HIDE DEF m
<1> QED
  BY <1>2, <1>9, <1>10 DEF OneRuns

\* scheduler_reschedule
LEMMA DispatchType ==
    ASSUME NEW R \in QueueRecord, OneRuns(R)
    PROVE  Dispatch(R) \in QueueRecord /\ OneRuns(Dispatch(R))
<1> DEFINE r == scheduler_get_next_task(R)
           gone == R.state[R.current] \in {"ZOMBIE", "DEAD"}
           f == IF gone /\ r[2] = NULL THEN ForceIdle(r[1]) ELSE r
<1>1. Chosen(R, r)
  BY GetNextType
<1>2. Dispatch(R) = IF f[2] = NULL \/ f[1].fault # "none" THEN f[1] ELSE SwitchTo(f[1], f[2])
  BY DEF Dispatch
<1> HIDE DEF r
<1>3. Chosen(r[1], ForceIdle(r[1]))
  BY <1>1, ForceIdleType DEF Chosen
<1>4. Chosen(R, f)
  BY <1>1, <1>3 DEF Chosen
<1> HIDE DEF f
<1>5. f[1] \in QueueRecord /\ OneRuns(f[1])
  BY <1>4 DEF Chosen, OneRuns
<1>6. f[2] # NULL => f[2] \in Task
  BY <1>4 DEF Chosen, Link
<1> QED
  BY <1>2, <1>5, <1>6, SwitchType

----------------------------------------------------------------------------
\* The list of waiters stays a sequence of tasks.
LEMMA DequeueType ==
    ASSUME waiters \in Seq(Task), NEW t
    PROVE  dequeue_waiter(t) \in Seq(Task)
<1> DEFINE at == {i \in 1..Len(waiters) : waiters[i] = t}
           i == CHOOSE i \in at : \A j \in at : i <= j
<1>1. CASE at = {}
  BY <1>1 DEF dequeue_waiter
<1>2. CASE at # {}
  <2>1. dequeue_waiter(t) = SubSeq(waiters, 1, i - 1) \o SubSeq(waiters, i + 1, Len(waiters))
    BY <1>2 DEF dequeue_waiter
  <2>2. i \in 1..Len(waiters)
    <3>1. at \in SUBSET Nat
      OBVIOUS
    <3> HIDE DEF at
    <3>2. \E n \in at : \A j \in at : n <= j
      BY <1>2, <3>1, LeastNatural
    <3>3. i \in at
      BY <3>2
    <3> QED
      BY <3>3 DEF at
  <2> HIDE DEF i
  <2>3. SubSeq(waiters, 1, i - 1) \in Seq(Task)
    BY <2>2, SubSeqProperties
  <2>4. SubSeq(waiters, i + 1, Len(waiters)) \in Seq(Task)
    BY <2>2, SubSeqProperties
  <2> QED
    BY <2>1, <2>3, <2>4, ConcatProperties
<1> QED
  BY <1>1, <1>2

IInv == TypeOK /\ OnlyCurrentRuns

\* The initial state, where only the idle task runs.
LEMMA InitIInv == Init => IInv
  BY DEF Init, IInv, TypeOK, OnlyCurrentRuns, QueueRecord, TaskState, Queued, Counted,
         Link, Place, InWait

\* Every step of every actor keeps the invariant.
LEMMA NextIInv == IInv /\ [Next]_vars => IInv'
<1> SUFFICES ASSUME IInv, [Next]_vars PROVE IInv'
  OBVIOUS
<1>0. /\ S \in QueueRecord /\ OneRuns(S) /\ cur \in Task
      /\ pc \in [Task -> Place] /\ waiters \in Seq(Task)
      /\ inflight \in [Task -> 0..MaxInflight]
  BY DEF IInv, TypeOK, OnlyCurrentRuns, OneRuns, cur, QueueRecord
<1>d. Dispatch(S) \in QueueRecord /\ OneRuns(Dispatch(S))
  BY <1>0, DispatchType
<1>k. SUFFICES /\ S' \in QueueRecord /\ OneRuns(S')
               /\ pc' \in [Task -> Place] /\ waiters' \in Seq(Task)
               /\ inflight' \in [Task -> 0..MaxInflight]
  BY DEF IInv, TypeOK, OnlyCurrentRuns, OneRuns
<1>1. CASE scheduler_tick
  BY <1>0, <1>d, <1>1 DEF scheduler_tick
<1>2. CASE scheduler_yield
  BY <1>0, <1>d, <1>2 DEF scheduler_yield
<1>3. ASSUME NEW t \in Task, scheduler_add_task(t)
      PROVE  /\ S' \in QueueRecord /\ OneRuns(S')
             /\ pc' \in [Task -> Place] /\ waiters' \in Seq(Task)
             /\ inflight' \in [Task -> 0..MaxInflight]
  <2>1. S' \in QueueRecord /\ OneRuns(S')
    BY <1>0, <1>3, MoveKeepsOneRuns DEF scheduler_add_task, TaskState, Queued
  <2> QED
    BY <1>0, <1>3, <2>1 DEF scheduler_add_task, Place
<1>4. CASE wait_on_condition
  BY <1>0, <1>4 DEF wait_on_condition, Goto, Place, InWait
<1>5. CASE wait_move
  <2>1. S' \in QueueRecord /\ OneRuns(S')
    BY <1>0, <1>5, MoveKeepsOneRuns DEF wait_move, TaskState, Queued
  <2> QED
    BY <1>0, <1>5, <2>1 DEF wait_move, Goto, Place, InWait
<1>6. CASE enqueue_waiter
  BY <1>0, <1>6 DEF enqueue_waiter, Goto, Place, InWait
<1>7. CASE wait_test
  BY <1>0, <1>7 DEF wait_test, Goto, Place, InWait
<1>8. CASE wait_yield
  BY <1>0, <1>d, <1>8 DEF wait_yield, Goto, Place, InWait
<1>9. CASE wait_leave
  <2>1. S' \in QueueRecord /\ OneRuns(S')
    BY <1>0, <1>9, MoveKeepsOneRuns DEF wait_leave, TaskState, cur
  <2>2. waiters' \in Seq(Task)
    BY <1>0, <1>9, DequeueType DEF wait_leave
  <2> QED
    BY <1>0, <1>9, <2>1, <2>2 DEF wait_leave, Goto, Place
<1>10. ASSUME NEW t \in Task, wait_wake_up(t)
       PROVE  /\ S' \in QueueRecord /\ OneRuns(S')
              /\ pc' \in [Task -> Place] /\ waiters' \in Seq(Task)
              /\ inflight' \in [Task -> 0..MaxInflight]
  <2>1. waiters # <<>> => waiters[1] \in Task
    BY <1>0
  <2>2. S' \in QueueRecord /\ OneRuns(S')
    BY <1>0, <1>10, <2>1, MoveKeepsOneRuns DEF wait_wake_up, TaskState, Queued
  <2> QED
    BY <1>0, <1>10, <2>2 DEF wait_wake_up
<1>11. CASE UNCHANGED vars
  BY <1>0, <1>11 DEF vars
<1> QED
  BY <1>1, <1>2, <1>3, <1>4, <1>5, <1>6, <1>7, <1>8, <1>9, <1>10, <1>11 DEF Next, Wait

\* The scheduler's state has its type in every reachable state.
THEOREM TypeCorrect == Spec => []TypeOK
<1>1. IInv => TypeOK
  BY DEF IInv
<1> QED
  BY <1>1, InitIInv, NextIInv, PTL DEF Spec

\* In every reachable state at most one task, the current one, is RUNNING, for
\* any number of tasks and whichever of them can be interrupted in a wait.
THEOREM OnlyTheCurrentTaskRuns == Spec => []OnlyCurrentRuns
<1>1. IInv => OnlyCurrentRuns
  BY DEF IInv
<1> QED
  BY <1>1, InitIInv, NextIInv, PTL DEF Spec

----------------------------------------------------------------------------
\* The list of waiters without counting: nobody is on it twice, and the tasks on
\* it are those between enqueue_waiter and dequeue_waiter.
Listed(t) == \E i \in 1..Len(waiters) : waiters[i] = t
OnList == {"test", "yield", "leave"}
WInv == /\ \A i, j \in 1..Len(waiters) : waiters[i] = waiters[j] => i = j
        /\ \A t \in Task : Listed(t) <=> pc[t] \in OnList

\* Appending adds its task behind the others.
LEMMA EnqueueEntries ==
    ASSUME waiters \in Seq(Task), NEW t \in Task, waiters' = Append(waiters, t)
    PROVE  /\ Len(waiters) \in Nat
           /\ Len(waiters') = Len(waiters) + 1
           /\ waiters'[Len(waiters) + 1] = t
           /\ \A k \in 1..Len(waiters) : waiters'[k] = waiters[k]
  OBVIOUS

\* dequeue_waiter takes out the only entry of a listed task; those behind it move
\* one place forward.
LEMMA DequeueEntries ==
    ASSUME waiters \in Seq(Task), NEW i \in 1..Len(waiters), NEW t, waiters[i] = t,
           \A j \in 1..Len(waiters) : waiters[j] = t => i = j
    PROVE  /\ dequeue_waiter(t) \in Seq(Task)
           /\ Len(dequeue_waiter(t)) = Len(waiters) - 1
           /\ \A k \in 1..(Len(waiters) - 1) :
                 dequeue_waiter(t)[k] = IF k < i THEN waiters[k] ELSE waiters[k + 1]
<1> DEFINE at == {k \in 1..Len(waiters) : waiters[k] = t}
           front == SubSeq(waiters, 1, i - 1)
           back == SubSeq(waiters, i + 1, Len(waiters))
<1>1. at = {i}
  OBVIOUS
<1>2. (CHOOSE k \in at : \A j \in at : k <= j) = i
  BY <1>1
<1>3. dequeue_waiter(t) = front \o back
  BY <1>1, <1>2 DEF dequeue_waiter
<1>4. /\ front \in Seq(Task) /\ Len(front) = i - 1
      /\ \A k \in 1..(i - 1) : front[k] = waiters[k]
  BY SubSeqProperties
<1>5. /\ back \in Seq(Task) /\ Len(back) = Len(waiters) - i
      /\ \A k \in 1..(Len(waiters) - i) : back[k] = waiters[i + k]
  <2>1. CASE i = Len(waiters)
    BY <2>1, SubSeqProperties
  <2>2. CASE i < Len(waiters)
    BY <2>2, SubSeqProperties
  <2> QED
    BY <2>1, <2>2
<1> HIDE DEF front, back, at
<1>6. /\ front \o back \in Seq(Task)
      /\ Len(front \o back) = Len(front) + Len(back)
      /\ \A k \in 1..(Len(front) + Len(back)) :
            (front \o back)[k] = IF k <= Len(front) THEN front[k] ELSE back[k - Len(front)]
  <2>1. front \in Seq(Task) /\ back \in Seq(Task)
    BY <1>4, <1>5
  <2> QED
    BY <2>1, ConcatProperties, Zenon
<1>7. ASSUME NEW k \in 1..(Len(waiters) - 1)
      PROVE  (front \o back)[k] = IF k < i THEN waiters[k] ELSE waiters[k + 1]
  <2>1. CASE k < i
    BY <1>4, <1>5, <1>6, <2>1
  <2>2. CASE ~(k < i)
    <3>1. k - (i - 1) \in 1..(Len(waiters) - i) /\ i + (k - (i - 1)) = k + 1
      BY <2>2
    <3>2. (front \o back)[k] = back[k - (i - 1)]
      BY <1>4, <1>5, <1>6, <2>2
    <3> QED
      BY <1>5, <2>2, <3>1, <3>2
  <2> QED
    BY <2>1, <2>2
<1> QED
  BY <1>3, <1>4, <1>5, <1>6, <1>7

\* Only enqueue_waiter and wait_leave move a task in or out of the list, each
\* together with its step of pc.
LEMMA NextWInv == IInv /\ WInv /\ [Next]_vars => WInv'
<1> SUFFICES ASSUME IInv, WInv, [Next]_vars PROVE WInv'
  OBVIOUS
<1>0. /\ cur \in Task /\ pc \in [Task -> Place] /\ waiters \in Seq(Task) /\ Len(waiters) \in Nat
  BY DEF IInv, TypeOK, cur, QueueRecord
<1>s. ASSUME waiters' = waiters, \A u \in Task : pc'[u] \in OnList <=> pc[u] \in OnList
      PROVE  WInv'
  BY <1>s DEF WInv, Listed
<1>1. CASE scheduler_tick \/ scheduler_yield \/ UNCHANGED vars \/ \E t \in Task : wait_wake_up(t)
  BY <1>1, <1>s DEF scheduler_tick, scheduler_yield, wait_wake_up, vars
<1>2. ASSUME NEW t \in Task, scheduler_add_task(t) PROVE WInv'
  BY <1>0, <1>2, <1>s DEF scheduler_add_task, OnList
<1>3. CASE wait_on_condition \/ wait_move \/ wait_test \/ wait_yield
  BY <1>0, <1>3, <1>s DEF wait_on_condition, wait_move, wait_test, wait_yield, At, Goto, OnList
<1>4. CASE enqueue_waiter
  <2>1. /\ waiters' = Append(waiters, cur) /\ pc[cur] = "moved"
        /\ pc' = [pc EXCEPT ![cur] = "test"]
    BY <1>4 DEF enqueue_waiter, At, Goto
  <2>2. /\ Len(waiters') = Len(waiters) + 1 /\ waiters'[Len(waiters) + 1] = cur
        /\ \A k \in 1..Len(waiters) : waiters'[k] = waiters[k]
    BY <1>0, <2>1, EnqueueEntries
  <2>3. \A k \in 1..Len(waiters) : waiters[k] # cur
    BY <1>0, <2>1 DEF WInv, Listed, OnList
  <2>4. \A i, j \in 1..Len(waiters') : waiters'[i] = waiters'[j] => i = j
    <3> SUFFICES ASSUME NEW i \in 1..Len(waiters'), NEW j \in 1..Len(waiters'),
                        waiters'[i] = waiters'[j]
                 PROVE  i = j
      OBVIOUS
    <3>1. CASE i \in 1..Len(waiters) /\ j \in 1..Len(waiters)
      BY <2>2, <3>1 DEF WInv
    <3>2. CASE i = Len(waiters) + 1 /\ j \in 1..Len(waiters)
      BY <2>2, <2>3, <3>2
    <3>3. CASE j = Len(waiters) + 1 /\ i \in 1..Len(waiters)
      BY <2>2, <2>3, <3>3
    <3> QED
      BY <1>0, <2>2, <3>1, <3>2, <3>3
  <2>5. ASSUME NEW u \in Task
        PROVE  (\E i \in 1..Len(waiters') : waiters'[i] = u) <=> (u = cur \/ Listed(u))
    <3>1. Len(waiters) + 1 \in 1..Len(waiters') /\ 1..Len(waiters) \subseteq 1..Len(waiters')
      BY <1>0, <2>2
    <3>2. \A i \in 1..Len(waiters') : i = Len(waiters) + 1 \/ i \in 1..Len(waiters)
      BY <1>0, <2>2
    <3> QED
      BY <2>2, <3>1, <3>2 DEF Listed
  <2>6. \A u \in Task : pc'[u] \in OnList <=> (u = cur \/ pc[u] \in OnList)
    BY <1>0, <2>1 DEF OnList
  <2> QED
    BY <2>4, <2>5, <2>6 DEF WInv, Listed
<1>5. CASE wait_leave
  <2>1. /\ waiters' = dequeue_waiter(cur) /\ pc[cur] = "leave"
        /\ pc' = [pc EXCEPT ![cur] = "run"]
    BY <1>5 DEF wait_leave, At, Goto
  <2>2. PICK n \in 1..Len(waiters) : waiters[n] = cur
    BY <1>0, <2>1 DEF WInv, Listed, OnList
  <2>3. \A j \in 1..Len(waiters) : waiters[j] = cur => n = j
    BY <2>2 DEF WInv
  <2>4. /\ Len(waiters') = Len(waiters) - 1
        /\ \A k \in 1..(Len(waiters) - 1) :
              waiters'[k] = IF k < n THEN waiters[k] ELSE waiters[k + 1]
    BY <1>0, <2>1, <2>2, <2>3, DequeueEntries
  <2>5. \A i, j \in 1..Len(waiters') : waiters'[i] = waiters'[j] => i = j
    <3> SUFFICES ASSUME NEW i \in 1..(Len(waiters) - 1), NEW j \in 1..(Len(waiters) - 1),
                        waiters'[i] = waiters'[j]
                 PROVE  i = j
      BY <2>4
    <3> DEFINE a == IF i < n THEN i ELSE i + 1
               b == IF j < n THEN j ELSE j + 1
    <3>1. a \in 1..Len(waiters) /\ b \in 1..Len(waiters)
      BY <1>0
    <3>2. waiters'[i] = waiters[a] /\ waiters'[j] = waiters[b]
      BY <2>4
    <3>3. a = b
      BY <3>1, <3>2 DEF WInv
    <3> QED
      BY <1>0, <3>3
  <2>6. ASSUME NEW u \in Task
        PROVE  (\E i \in 1..Len(waiters') : waiters'[i] = u) <=> (u # cur /\ Listed(u))
    <3>1. ASSUME NEW i \in 1..(Len(waiters) - 1), waiters'[i] = u
          PROVE  u # cur /\ Listed(u)
      <4> DEFINE a == IF i < n THEN i ELSE i + 1
      <4>1. a \in 1..Len(waiters) /\ a # n /\ waiters[a] = u
        BY <1>0, <2>4, <3>1
      <4> QED
        BY <2>3, <4>1 DEF Listed
    <3>2. ASSUME NEW a \in 1..Len(waiters), waiters[a] = u, u # cur
          PROVE  \E i \in 1..(Len(waiters) - 1) : waiters'[i] = u
      <4> DEFINE i == IF a < n THEN a ELSE a - 1
      <4>1. a # n
        BY <2>2, <3>2
      <4>2. i \in 1..(Len(waiters) - 1) /\ (IF i < n THEN i ELSE i + 1) = a
        BY <1>0, <4>1
      <4>3. waiters'[i] = u
        BY <2>4, <3>2, <4>2
      <4> QED
        BY <4>2, <4>3
    <3> QED
      BY <2>4, <3>1, <3>2 DEF Listed
  <2>7. \A u \in Task : pc'[u] \in OnList <=> (u # cur /\ pc[u] \in OnList)
    BY <1>0, <2>1 DEF OnList
  <2> QED
    BY <2>5, <2>6, <2>7 DEF WInv, Listed
<1> QED
  BY <1>1, <1>2, <1>3, <1>4, <1>5 DEF Next, Wait

\* A wake-up, a preemption or a wait that ends early never leaves a task on the
\* wait object's list after its wait, drops a waiting one or lists it twice.
THEOREM WaitersAreExact == Spec => []WaitersExact
<1>1. Init => WInv
  BY DEF Init, WInv, Listed, OnList
<1>2. IInv /\ WInv => WaitersExact
  <2> SUFFICES ASSUME IInv, WInv, NEW t \in Task
               PROVE  Cardinality({i \in 1..Len(waiters) : waiters[i] = t})
                        = IF pc[t] \in OnList THEN 1 ELSE 0
    BY DEF WaitersExact, OnList
  <2> DEFINE at == {i \in 1..Len(waiters) : waiters[i] = t}
  <2>1. CASE pc[t] \in OnList
    <3>1. PICK n \in 1..Len(waiters) : waiters[n] = t
      BY <2>1 DEF WInv, Listed
    <3>2. at = {n}
      BY <3>1 DEF WInv
    <3> QED
      BY <2>1, <3>2, FS_Singleton
  <2>2. CASE pc[t] \notin OnList
    <3>1. at = {}
      BY <2>2 DEF WInv, Listed
    <3> QED
      BY <2>2, <3>1, FS_EmptySet
  <2> QED
    BY <2>1, <2>2
<1> QED
  BY <1>1, <1>2, InitIInv, NextIInv, NextWInv, PTL DEF Spec
============================================================================
