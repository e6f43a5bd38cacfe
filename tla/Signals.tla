------------------------------ MODULE Signals ------------------------------
(***************************************************************************)
(* Signals: task/sighandler.c and the system calls sigsend, sigact,        *)
(* sigreturn, setpgid, with what fork and exec do to them.                 *)
(*                                                                         *)
(* Every system call ends, in syscall_stub, with                           *)
(* task_signal_dispatch_pending, which runs with interrupts off like the   *)
(* call: call and dispatch are one step.  A call that blocks returns in a  *)
(* second step.  `at' is what the task executes in user mode: its program, *)
(* a handler, or the address 0; `frames' are the sigframes on its stack,   *)
(* the latest first.                                                       *)
(***************************************************************************)
EXTENDS Integers, Sequences, FiniteSets, SequencesExt, FiniteSetsExt

CONSTANTS Task,       \* process ids, all above 1
          Sig,        \* signal numbers
          SIGKILL,    \* one of them
          Action,     \* what sigact installs
          MaxSends, MaxCalls  \* bounds: signals sent, and other calls

SignalsAssumption ==
    /\ Task \subseteq Nat \ {0, 1} /\ Sig \subseteq 0..31 /\ SIGKILL \in Sig
    /\ \A a \in Action : a.handler \in {"DFL", "IGN", "handler"} /\ a.mask \subseteq Sig /\ {a.nodefer, a.resethand} \subseteq BOOLEAN

VARIABLES task,    \* the tasks that exist
          sends, calls

vars == <<task, sends, calls>>

Default == [handler |-> "DFL", mask |-> {}, nodefer |-> FALSE, resethand |-> FALSE]
\* SIGCHLD, SIGCONT, SIGURG and SIGWINCH are ignored, the others end the task.
default_actions(s) == IF s \in {0, 17, 18, 23, 28} THEN "IGNORE" ELSE "TERMINATE"

Unused == [state |-> "unused"]
First == Min(Task)

Init ==
    /\ task = [t \in Task |-> IF t # First THEN Unused
                              ELSE [state |-> "user", at |-> "main", frames |-> <<>>, pending |-> {}, blocked |-> {},
                                    sig_handlers |-> [s \in Sig |-> Default], pgid |-> t, execed |-> FALSE, passed |-> FALSE]]
    /\ sends = 0 /\ calls = 0

Exists(t) == task[t].state # "unused"

----------------------------------------------------------------------------
\* task_signal_dispatch_pending.

Deliverable(u) == u.pending \ u.blocked

\* task_exit: the task never runs again.
Exit(u) == [u EXCEPT !.state = "zombie"]

\* task_reset_sighandler keeps the mask.
Reset(u, s) == [u EXCEPT !.sig_handlers[s].handler = "DFL", !.sig_handlers[s].nodefer = FALSE, !.sig_handlers[s].resethand = FALSE]

\* Mutant: the signal itself is blocked only when the mask of its handler has it.
BlocksMask(u, s) == u.sig_handlers[s].mask

\* What is blocked while the handler of s runs.
Deferred(u, s) == u.sig_handlers[s].mask \cup (IF u.sig_handlers[s].nodefer THEN {} ELSE {s})

\* The handler is read after it may have been reset.
Launch(u, s) ==
    LET frame == [sig |-> s, blocked |-> u.blocked, at |-> u.at, nodefer |-> u.sig_handlers[s].nodefer]
        v == [u EXCEPT !.blocked = @ \cup Deferred(u, s)]
        w == IF u.sig_handlers[s].resethand THEN Reset(v, s) ELSE v
    IN  [w EXCEPT !.frames = <<frame>> \o @,
                  !.at = IF w.sig_handlers[s].handler = "DFL" THEN "null" ELSE "handler"]

\* One signal is taken at each return to user mode, the lowest; `passed' records that
\* others are left.
task_signal_dispatch_pending(u) ==
    LET s == Min(Deliverable(u))
        v == [u EXCEPT !.pending = @ \ {s}, !.passed = Deliverable(u) # {s}]
        h == u.sig_handlers[s].handler
    IN  IF Deliverable(u) = {} THEN [u EXCEPT !.passed = FALSE]
        ELSE IF h = "IGN" \/ (h = "DFL" /\ default_actions(s) = "IGNORE") THEN v
        ELSE IF h = "DFL" THEN Exit(v)
        ELSE Launch(v, s)

----------------------------------------------------------------------------
\* System calls of a task in user mode; its program ends in a fault at address 0.

Return(f, t) == task' = [f EXCEPT ![t] = task_signal_dispatch_pending(@)]

Running(t) == Exists(t) /\ task[t].state = "user" /\ task[t].at # "null"

Call(t) == Running(t) /\ calls < MaxCalls /\ calls' = calls + 1 /\ UNCHANGED sends

sys_sigsend_impl(u, s) ==
    [u EXCEPT !.pending = @ \cup {s}, !.state = IF @ = "BLOCKED" THEN "WAITING" ELSE @, !.passed = @ \/ u.state = "user"]

\* The receivers of pid: a task, the group of the sender, or the group -pid.
Receivers(t, pid) ==
    IF pid > 0 THEN {pid} \cap {u \in Task : Exists(u)}
    ELSE {u \in Task : Exists(u) /\ pid # -1 /\ task[u].pgid = IF pid = 0 THEN task[t].pgid ELSE -pid}

sys_sigsend(t, pid, s) ==
    /\ Running(t) /\ sends < MaxSends /\ sends' = sends + 1 /\ UNCHANGED calls
    /\ Return([u \in Task |-> IF u \in Receivers(t, pid) THEN sys_sigsend_impl(task[u], s) ELSE task[u]], t)

sys_sigact(t, s, act) ==
    /\ Call(t) /\ s # SIGKILL
    /\ Return([task EXCEPT ![t].sig_handlers[s] = act], t)

task_sigreturn(u) == [u EXCEPT !.frames = Tail(@), !.at = u.frames[1].at, !.blocked = u.frames[1].blocked]

\* The handler returns into the trampoline of its frame.
sys_sigreturn(t) ==
    /\ Running(t) /\ task[t].at = "handler"
    /\ Return([task EXCEPT ![t] = task_sigreturn(@)], t)
    /\ UNCHANGED <<sends, calls>>

sys_setpgid(t, who, pgid) ==
    /\ Call(t) /\ Exists(who)
    /\ Return([task EXCEPT ![who].pgid = IF pgid > 0 THEN pgid ELSE who], t)

\* A call that waits for a condition: the wait is over when the task is woken.
Block(t) == Call(t) /\ task' = [task EXCEPT ![t].state = "BLOCKED"]

Unblock(t) ==
    /\ Exists(t) /\ task[t].state = "WAITING"
    /\ Return([task EXCEPT ![t].state = "user"], t)
    /\ UNCHANGED <<sends, calls>>

\* The child inherits all but the pending signals, and returns without a dispatch.
task_fork(t) ==
    /\ Call(t)
    /\ \E c \in {u \in Task : ~Exists(u)} :
          Return([task EXCEPT ![c] = [task[t] EXCEPT !.pending = {}, !.passed = FALSE]], t)

\* A new program, with the handlers and the mask of the old one.
task_exec(t) ==
    /\ Call(t)
    /\ Return([task EXCEPT ![t].at = "main", ![t].frames = <<>>, ![t].execed = TRUE], t)

Next ==
    \E t \in Task :
        \/ \E s \in Sig, pid \in Task \cup {0, -1} \cup {-u : u \in Task} : sys_sigsend(t, pid, s)
        \/ \E s \in Sig, act \in Action : sys_sigact(t, s, act)
        \/ \E who \in Task, pgid \in Task \cup {0} : sys_setpgid(t, who, pgid)
        \/ sys_sigreturn(t) \/ Block(t) \/ Unblock(t) \/ task_fork(t) \/ task_exec(t)

Spec == Init /\ [][Next]_vars

----------------------------------------------------------------------------
Alive == {t \in Task : Exists(t) /\ task[t].state # "zombie"}

\* A handler that did not ask for it (SA_NODEFER) is not entered again before it has
\* returned: the signals of the frames below it are all blocked.
NoReentry ==
    \A t \in Alive : \A i, j \in DOMAIN task[t].frames :
        i < j /\ ~task[t].frames[j].nodefer => task[t].frames[i].sig # task[t].frames[j].sig

\* Masks nest like the handlers: each frame blocked at least what the one below it
\* did, and when the last handler has returned nothing is blocked, unless the task
\* was replaced by exec inside a handler.
MasksNest ==
    \A t \in Alive :
        LET u == task[t]
            masks == <<u.blocked>> \o [i \in DOMAIN u.frames |-> u.frames[i].blocked]
        IN  /\ \A i \in 1..Len(u.frames) : masks[i + 1] \subseteq masks[i]
            /\ ~u.execed => Last(masks) = {}

\* The program goes on exactly when the last handler has returned.
HandlersBalance == \A t \in Alive : task[t].at = "main" <=> task[t].frames = <<>>

\* A task that waits has no signal it could take, unless the signal was there before
\* it began to wait: it came while the task was in user mode, or the last return to
\* user mode took another one.  wait_on_condition does not look at the signals, so
\* that these two cases sleep until something else wakes the task.
NoSleepOnSignal ==
    \A t \in Alive : task[t].state = "BLOCKED" /\ ~task[t].passed => Deliverable(task[t]) = {}
=============================================================================
