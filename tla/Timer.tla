------------------------------- MODULE Timer -------------------------------
(***************************************************************************)
(* The timeouts of pit.c, their expiry inside the timer interrupt, the     *)
(* sleep of wait.c on top of them, and the preemption scheduler_tick does  *)
(* from within the interrupt handler.                                      *)
(*                                                                         *)
(* scheduler_tick is itself a timeout callback: it switches to another     *)
(* task in the middle of the loop of pit_timer_callback.  The loop, and    *)
(* the end-of-interrupt command that follows it, are continued when the    *)
(* interrupted task runs again.  Which task is chosen next is left open    *)
(* here (Scheduler models the choice).                                     *)
(***************************************************************************)
EXTENDS Integers, FiniteSets

CONSTANTS Task, Idle,   \* the tasks, and the one that never sleeps
          KernelTask,   \* those that run kernel code with interrupts enabled
          Signalled,    \* those that get signals while they sleep
          SlotCount,    \* PIT_TIMEOUT_CALLBACK_SIZE
          SchedTick,    \* SCHEDULER_TICK_TIME
          Millis,       \* the durations tasks sleep for
          TickMod,      \* the values of the tick counter: 2^32 in the code
          MaxTick       \* bound on the ticks explored (TickMod: no bound)

TimerAssumption ==
    /\ Idle \in Task /\ KernelTask \subseteq Task \ {Idle}
    /\ SlotCount \in Nat \ {0} /\ SchedTick \in Nat \ {0}
    /\ TickMod \in Nat \ {0} /\ MaxTick \in Nat
    /\ Millis \subseteq Nat \ {0}

Slot == 0..(SlotCount - 1)

VARIABLES tick,
          timeouts,   \* per slot: active, expire_tick, callback
          left,       \* milliseconds a slot's timeout has to go (history)
          current,
          pc,         \* where each task is, see Place
          scan,       \* where a task's pit_timer_callback is; SlotCount: not in it
          runnable,   \* tasks that are running or in the waiting queue
          done,       \* tasks whose sleep timer has fired (meta->done)
          tid,        \* timeout_id of the task's sleep
          in_service  \* the PIC waits for the EOI of IRQ 0 and holds back others

vars == <<tick, timeouts, left, current, pc, scan, runnable, done, tid, in_service>>
clock == <<tick, timeouts, left>>
sleep == <<done, tid>>

\* "new": created, not run yet; "user": can be interrupted; "block", "asleep",
\* "cancel": the steps of wait_sleep.
Place == {"new", "user", "block", "asleep", "cancel"}

TypeOK ==
    /\ tick \in 0..(TickMod - 1)
    /\ timeouts \in [Slot -> [active : BOOLEAN, expire : 0..(TickMod - 1),
                              callback : Task \cup {"scheduler_tick"}]]
    /\ left \in [Slot -> Nat]
    /\ current \in runnable /\ runnable \subseteq Task
    /\ pc \in [Task -> Place] /\ scan \in [Task -> 0..SlotCount]
    /\ done \subseteq Task /\ tid \in [Task -> -1..(SlotCount - 1)]
    /\ in_service \in BOOLEAN

----------------------------------------------------------------------------

\* pit_register_timeout: the first slot that is not active, -1 if there is none.
FreeSlot(T) == IF \E i \in Slot : ~T[i].active
               THEN CHOOSE i \in Slot : ~T[i].active /\ \A j \in 0..(i - 1) : T[j].active
               ELSE -1

Arm(T, ms, cb) ==
    [T EXCEPT ![FreeSlot(T)] = [active |-> TRUE, expire |-> (tick + ms) % TickMod, callback |-> cb]]

pit_register_timeout(T, ms, cb) ==
    /\ timeouts' = Arm(T, ms, cb)
    /\ left' = [left EXCEPT ![FreeSlot(T)] = ms]

\* scheduler_init arms the scheduler's timeout; the idle task runs.
Init ==
    /\ tick = 0
    /\ timeouts = [i \in Slot |-> [active |-> i = 0, expire |-> IF i = 0 THEN SchedTick ELSE 0,
                                   callback |-> "scheduler_tick"]]
    /\ left = [i \in Slot |-> IF i = 0 THEN SchedTick ELSE 0]
    /\ current = Idle /\ runnable = Task
    /\ pc = [t \in Task |-> IF t = Idle THEN "user" ELSE "new"]
    /\ scan = [t \in Task |-> SlotCount]
    /\ done = {} /\ tid = [t \in Task |-> -1]
    /\ in_service = FALSE

InHandler(t) == scan[t] < SlotCount

----------------------------------------------------------------------------
\* IRQ 0: delivered when IF is set and the PIC is not waiting for an EOI.
pit_irq ==
    /\ ~in_service /\ ~InHandler(current)
    /\ pc[current] = "user" \/ current \in KernelTask
    /\ tick < MaxTick
    /\ tick' = (tick + 1) % TickMod
    /\ left' = [i \in Slot |-> IF left[i] > 0 THEN left[i] - 1 ELSE 0]
    /\ scan' = [scan EXCEPT ![current] = 0]
    /\ in_service' = TRUE
    /\ UNCHANGED <<timeouts, current, pc, runnable, sleep>>

Expired(i) == timeouts[i].active /\ tick >= timeouts[i].expire

\* The next slot at which the loop finds an expired timeout.
Due(i) == /\ i \in scan[current]..(SlotCount - 1) /\ Expired(i)
          /\ \A j \in scan[current]..(i - 1) : ~Expired(j)

\* The slot as it is while its callback runs.
Fired(i) == [timeouts EXCEPT ![i].active = FALSE]

\* switch_to_stack: a new task starts at task_switch_return_point, which sends the
\* EOI; any other goes on where it was switched away from.
switch_to(t) ==
    /\ current' = t
    /\ in_service' = (in_service /\ pc[t] # "new")

\* Whom a reschedule can pick among the tasks that can run: the idle task only if
\* there is no other, the current one only if nobody else but idle waits.
Choice(ready) == IF ready \ {current, Idle} # {} THEN ready \ {current, Idle}
                 ELSE IF current \in ready THEN {current} ELSE {Idle}

\* The callback of a sleep, pit_callback: set done, wake the sleeper.
fire_sleep(i) ==
    LET t == timeouts[i].callback
    IN  /\ t \in Task
        /\ timeouts' = Fired(i)
        /\ done' = done \cup {t}
        /\ runnable' = runnable \cup {t}
        /\ scan' = [scan EXCEPT ![current] = i + 1]
        /\ UNCHANGED <<tick, left, current, pc, tid, in_service>>

\* The callback scheduler_tick: it arms the next tick, then reschedules.
fire_scheduler(i, t) ==
    /\ timeouts[i].callback = "scheduler_tick"
    /\ pit_register_timeout(Fired(i), SchedTick, "scheduler_tick")
    /\ t \in Choice(runnable)
    /\ switch_to(t)
    /\ scan' = [scan EXCEPT ![current] = i + 1]
    /\ pc' = IF pc[t] = "new" THEN [pc EXCEPT ![t] = "user"] ELSE pc
    /\ UNCHANGED <<tick, runnable, sleep>>

pit_timer_callback ==
    \E i \in Slot : Due(i) /\ (fire_sleep(i) \/ \E t \in Task : fire_scheduler(i, t))

\* The loop is over: pic_send_eoi, back to the interrupted code.
pit_return ==
    /\ InHandler(current) /\ \A i \in scan[current]..(SlotCount - 1) : ~Expired(i)
    /\ scan' = [scan EXCEPT ![current] = SlotCount]
    /\ in_service' = FALSE
    /\ UNCHANGED <<clock, current, pc, runnable, sleep>>

----------------------------------------------------------------------------
At(p) == ~InHandler(current) /\ pc[current] = p

\* The rest of scheduler_yield once the caller's own place is known.
leave_cpu(place, ready) ==
    \E t \in Choice(ready) :
        /\ switch_to(t)
        /\ pc' = [pc EXCEPT ![current] = place,
                            ![t] = IF t = current THEN place
                                   ELSE IF @ = "new" THEN "user" ELSE @]

scheduler_yield ==
    /\ At("user") /\ current # Idle
    /\ leave_cpu("user", runnable)
    /\ UNCHANGED <<clock, scan, runnable, sleep>>

\* wait_sleep, first part: arm the timeout.  The result -1 is not looked at.
wait_sleep(ms) ==
    /\ At("user") /\ current # Idle
    /\ tid' = [tid EXCEPT ![current] = FreeSlot(timeouts)]
    /\ IF FreeSlot(timeouts) = -1 THEN UNCHANGED <<timeouts, left>>
       ELSE pit_register_timeout(timeouts, ms, current)
    /\ done' = done \ {current}
    /\ pc' = [pc EXCEPT ![current] = "block"]
    /\ UNCHANGED <<tick, current, scan, runnable, in_service>>

\* wait_on_condition_impl up to the yield; at once over if the timer has fired.
wait_block ==
    /\ At("block")
    /\ IF current \in done
       THEN /\ pc' = [pc EXCEPT ![current] = "user"]
            /\ UNCHANGED <<runnable, current, in_service>>
       ELSE /\ runnable' = runnable \ {current}
            /\ leave_cpu("asleep", runnable \ {current})
    /\ UNCHANGED <<clock, scan, sleep>>

ResumeAlwaysCancels ==
    /\ At("asleep")
    /\ pc' = [pc EXCEPT ![current] = "cancel"]
    /\ UNCHANGED <<clock, current, scan, runnable, sleep, in_service>>

\* The task runs again: if (!meta->done) pit_cancel_timeout(timeout_id).
wait_resume ==
    /\ At("asleep")
    /\ pc' = [pc EXCEPT ![current] = IF current \in done THEN "user" ELSE "cancel"]
    /\ UNCHANGED <<clock, current, scan, runnable, sleep, in_service>>

pit_cancel_timeout ==
    /\ At("cancel")
    /\ timeouts' = [i \in Slot |-> IF i = tid[current] THEN [timeouts[i] EXCEPT !.active = FALSE]
                                   ELSE timeouts[i]]
    /\ pc' = [pc EXCEPT ![current] = "user"]
    /\ UNCHANGED <<tick, left, current, scan, runnable, sleep, in_service>>

\* sys_sigsend to a sleeping task.
sys_sigsend(t) ==
    /\ At("user") /\ current # Idle
    /\ t \in Signalled /\ pc[t] = "asleep" /\ t \notin runnable
    /\ runnable' = runnable \cup {t}
    /\ UNCHANGED <<clock, current, pc, scan, sleep, in_service>>

Handler == pit_timer_callback \/ pit_return
Sleep == wait_block \/ wait_resume \/ pit_cancel_timeout

Next == \/ pit_irq \/ Handler \/ Sleep \/ scheduler_yield
        \/ \E ms \in Millis : wait_sleep(ms)
        \/ \E t \in Task : sys_sigsend(t)

Spec == Init /\ [][Next]_vars

\* The timer ticks whenever its interrupt can be delivered, and handlers and the
\* steps of a sleep run to their end.
FairSpec == Spec /\ WF_vars(pit_irq) /\ WF_vars(Handler) /\ WF_vars(Sleep)

----------------------------------------------------------------------------
\* SchedulerArmed: exactly one timeout is scheduler_tick's, in every state: the
\* re-registration in the callback always finds the slot that just fired.
SchedulerArmed ==
    Cardinality({i \in Slot : timeouts[i].active /\ timeouts[i].callback = "scheduler_tick"}) = 1

\* SleeperOwnsSlot: while a sleep's timer has not fired, the slot it remembers is
\* its own, so that a signal cancels no other timeout.
SleeperOwnsSlot ==
    \A t \in Task :
        pc[t] \in {"block", "asleep", "cancel"} /\ t \notin done /\ tid[t] # -1
            => timeouts[tid[t]].active /\ timeouts[tid[t]].callback = t

\* NeverEarly: the handler takes no timeout before its time ("will be called after
\* a given time").
NeverEarly ==
    [][InHandler(current) =>
          \A i \in Slot : timeouts[i].active /\ left[i] > 0 => timeouts'[i] = timeouts[i]]_vars

\* AtMostOneTickLate: although the loop is suspended when scheduler_tick switches
\* tasks, the timeouts in the slots behind it fire on the next tick.
AtMostOneTickLate == \A i \in Slot : timeouts[i].active => tick <= timeouts[i].expire + 1

\* "The total max length of a single run of the task (in milliseconds) is
\* SCHEDULER_TICK_TIME * SCHEDULE_RESCHEDULE_COUNT": a task that others wait for
\* is taken off the CPU.
RunsEnd == \A t \in Task : (current = t /\ runnable \ {t, Idle} # {}) ~> (current # t)
=============================================================================
