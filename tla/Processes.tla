----------------------------- MODULE Processes ------------------------------
(***************************************************************************)
(* What the kernel does for its tasks, side by side: wait objects and the  *)
(* scheduler (which this module extends), the timer and sleeping, fork,    *)
(* exit and wait, and signals.  A behaviour uses one of them ("subject").  *)
(* The modules instantiated here do the modelling.                         *)
(***************************************************************************)
EXTENDS Scheduler

CONSTANTS a, b, c   \* tasks that sleep

VARIABLES subject,
          tick, timeouts, left, timer_current, timer_pc, scan, runnable, done, tid, in_service,
          state, queue, parent, children, exit_code, current, life_pc, child,
          any_child_zombie_found, status, exited, reaped, fault,
          task, sends, calls

----------------------------------------------------------------------------
\* Three tasks beside idle: one in the kernel with interrupts enabled, two that also
\* get signals; three slots, so that they run out.
T == INSTANCE Timer WITH
    Task <- {Idle, a, b, c}, KernelTask <- {c}, Signalled <- {a, b}, SlotCount <- 3, SchedTick <- 2,
    Millis <- {1, 3}, TickMod <- 100, MaxTick <- 7, current <- timer_current, pc <- timer_pc

\* Four tasks, so that a task has a grandparent and two children.
L == INSTANCE TaskLifecycle WITH MaxTask <- 4, Code <- {"c1", "c2"}, Signals <- TRUE, pc <- life_pc

\* SIGINT, SIGKILL and SIGCHLD; handlers with and without a mask and the two flags.
Act(h, mask, nodefer, resethand) == [handler |-> h, mask |-> mask, nodefer |-> nodefer, resethand |-> resethand]
G == INSTANCE Signals WITH
    Task <- {2, 3}, Sig <- {2, 9, 17}, SIGKILL <- 9, MaxSends <- 2, MaxCalls <- 3,
    Action <- {Act("IGN", {}, FALSE, FALSE), Act("handler", {}, FALSE, FALSE), Act("handler", {17}, TRUE, FALSE),
               Act("handler", {2}, FALSE, FALSE), Act("handler", {}, FALSE, TRUE)}

ASSUME T!TimerAssumption /\ L!LifecycleAssumption /\ G!SignalsAssumption

----------------------------------------------------------------------------
timerVars == <<tick, timeouts, left, timer_current, timer_pc, scan, runnable, done, tid, in_service>>
lifeVars == <<state, queue, parent, children, exit_code, current, life_pc, child,
              any_child_zombie_found, status, exited, reaped, fault>>
signalVars == <<task, sends, calls>>
AllVars == <<subject, vars, timerVars, lifeVars, signalVars>>

\* The variables of a part that is not the subject are 0.
NoTimer == /\ tick = 0 /\ timeouts = 0 /\ left = 0 /\ timer_current = 0 /\ timer_pc = 0
           /\ scan = 0 /\ runnable = 0 /\ done = 0 /\ tid = 0 /\ in_service = 0
NoLife == /\ state = 0 /\ queue = 0 /\ parent = 0 /\ children = 0 /\ exit_code = 0 /\ current = 0
          /\ life_pc = 0 /\ child = 0 /\ any_child_zombie_found = 0 /\ status = 0 /\ exited = 0
          /\ reaped = 0 /\ fault = 0
NoSignals == task = 0 /\ sends = 0 /\ calls = 0

AllInit == \/ subject = "scheduler" /\ Init /\ NoTimer /\ NoLife /\ NoSignals
           \/ subject = "timer" /\ Init /\ T!Init /\ NoLife /\ NoSignals
           \/ subject = "lifecycle" /\ Init /\ NoTimer /\ L!Init /\ NoSignals
           \/ subject = "signals" /\ Init /\ NoTimer /\ NoLife /\ G!Init

\* All but the life of tasks are bounded or may stop.
AllNext ==
    \/ subject = "scheduler" /\ Next /\ UNCHANGED <<subject, timerVars, lifeVars, signalVars>>
    \/ subject = "timer" /\ T!Next /\ UNCHANGED <<subject, vars, lifeVars, signalVars>>
    \/ subject = "lifecycle" /\ L!Next /\ UNCHANGED <<subject, vars, timerVars, signalVars>>
    \/ subject = "signals" /\ G!Next /\ UNCHANGED <<subject, vars, timerVars, lifeVars>>
    \/ subject # "lifecycle" /\ UNCHANGED AllVars

AllSpec == AllInit /\ [][AllNext]_AllVars

----------------------------------------------------------------------------
\* Exactly one timeout is the scheduler's; a sleep whose timer has not fired owns the
\* slot it remembers; no timeout fires later than one tick after its time, and none
\* before it (TypeOK, SchedulerArmed, SleeperOwnsSlot, AtMostOneTickLate, NeverEarly in
\* Timer).
TimeoutsExact ==
    /\ [](subject = "timer" => /\ T!TypeOK /\ T!SchedulerArmed
                               /\ T!SleeperOwnsSlot /\ T!AtMostOneTickLate)
    /\ [][subject = "timer" /\ T!InHandler(timer_current) =>
             \A i \in T!Slot : timeouts[i].active /\ left[i] > 0 => timeouts'[i] = timeouts[i]]_timerVars

\* A parent blocked in wait(pid) has a child that has not exited; a task is freed only
\* after it has exited and was waited for, once; no list of children leads to a freed
\* task; a task that has exited never runs again (TypeOK, NoMissedExit,
\* FreedAfterReaped, ChildrenExist, NeverResurrected in TaskLifecycle).
LivesExact == subject = "lifecycle" => /\ L!TypeOK /\ L!NoMissedExit /\ L!FreedAfterReaped
                                       /\ L!ChildrenExist /\ L!NeverResurrected

\* A handler is not entered again before it has returned, without SA_NODEFER; masks nest
\* like the handlers and end empty; the program goes on when the last handler has
\* returned; a task that waits has no signal it could take but one that came before
\* (NoReentry, MasksNest, HandlersBalance, NoSleepOnSignal in Signals).
HandlersNest == subject = "signals" => /\ G!NoReentry /\ G!MasksNest
                                       /\ G!HandlersBalance /\ G!NoSleepOnSignal
=============================================================================
