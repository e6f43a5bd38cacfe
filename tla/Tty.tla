-------------------------------- MODULE Tty --------------------------------
(***************************************************************************)
(* /dev/tty: the line discipline between the keyboard interrupt and the    *)
(* tasks that read, write and configure the terminal (vfs/device/tty), on  *)
(* top of the console and of the wait queue of task/wait.c.                *)
(*                                                                         *)
(* A system call and the handler of a key run with interrupts off: each is *)
(* one step, except that a read which waits continues in a second one when *)
(* its task is switched to again.  The state of a step is one record:      *)
(*                                                                         *)
(*   term     the console                 buffer, line   committed, edited *)
(*   icanon, echo   the local modes       ready          ready_lines       *)
(*   fg       the foreground group        waiters        of wait_obj       *)
(*   state    of each task: in user mode, BLOCKED in a read, WAITING to be *)
(*            switched to, or gone                                         *)
(*   pending  whether SIGINT is pending                                    *)
(*   spilt    a character was stored behind the end of current_line, over  *)
(*            current_line_pos: the model ends here                        *)
(*                                                                         *)
(* The model starts after the first open: until then current_line_pos is   *)
(* not initialized.                                                        *)
(***************************************************************************)
EXTENDS Terminal

CONSTANTS Task, Group,  \* the tasks, and the process group of each
          Writers,      \* the tasks that write and configure, the others only read
          BufSize,      \* TTY_BUFFER_SIZE
          Sizes,        \* the sizes of reads
          Words,        \* what tasks write
          Keys,         \* the keys that are pressed
          MaxKeys, MaxCalls   \* bounds: key events, and calls other than reads

TtyAssumption == Group \in [Task -> Nat] /\ BufSize \in Nat \ {0}

VARIABLES c,        \* the record
          keys, calls,
          odd,      \* since the last open: a newline came or went other than as a line
          crowded   \* two tasks have waited at the same time

vars == <<c, keys, calls, odd, crowded>>

Init ==
    /\ c = [term |-> terminal_init, icanon |-> TRUE, echo |-> TRUE, buffer |-> <<>>, line |-> <<>>, ready |-> 0,
            spilt |-> FALSE, fg |-> 0, waiters |-> <<>>, state |-> [t \in Task |-> "user"], pending |-> [t \in Task |-> FALSE]]
    /\ keys = 0 /\ calls = 0 /\ odd = FALSE /\ crowded = FALSE

Dec(n) == (n - 1) % Word
Inc(n) == (n + 1) % Word

----------------------------------------------------------------------------
\* The wait queue.

\* Mutant: a single waiter is overlooked.
WakesFromTwo(s) == IF Len(s.waiters) < 2 THEN s ELSE [s EXCEPT !.state[s.waiters[1]] = "WAITING"]

\* The first waiter stays in the queue until it runs.
wait_wake_up(s) == IF s.waiters = <<>> THEN s ELSE [s EXCEPT !.state[s.waiters[1]] = "WAITING"]

dequeue_waiter(s, t) == [s EXCEPT !.waiters = SelectSeq(@, LAMBDA w : w # t)]

is_buffer_ready(s) == IF s.icanon THEN s.ready > 0 ELSE s.buffer # <<>>

----------------------------------------------------------------------------
\* What a key or a cursor report adds to the input, val, and what is shown of it.

\* ds_ringbuf_push, which fails when the buffer is full.
Pushed(s, val) == IF Len(s.buffer) = BufSize THEN s ELSE [s EXCEPT !.buffer = Append(@, val)]

\* put_char_to_line_with_val refuses a character when the line is full, before the echo,
\* and stores it after the echo, which may itself have added to the line.
Accepts(s) == s.icanon => Len(s.line) < BufSize

Stored(s, val) ==
    IF ~s.icanon THEN wait_wake_up(Pushed(s, val))
    ELSE IF Len(s.line) < BufSize THEN [s EXCEPT !.line = Append(@, val)]
    ELSE [s EXCEPT !.spilt = TRUE]

\* tty_push_char_to_buffer, for one character of a cursor report: its own echo cannot
\* complete another request, as its first character ends the escape mode.
Report(s, val) ==
    IF ~Accepts(s) THEN s
    ELSE Stored(IF s.echo THEN [s EXCEPT !.term = terminal_write_char(@, val)] ELSE s, val)

\* The rest of terminal_write_char, which has made u of the console: the report it may
\* push, then the end of the escape mode.
Delivered(s, u) ==
    IF u.reply = <<>> THEN [s EXCEPT !.term = u]
    ELSE [FoldLeft(Report, [s EXCEPT !.term = [u EXCEPT !.reply = <<>>]], u.reply)
            EXCEPT !.term = terminal_reset_escape_mode_state(@)]

putchar(s, ch) == Delivered(s, terminal_write_char(s.term, ch))

\* One character typed: k.val enters the line, and k.shown is echoed for it.
put_char_to_line_with_val(s, k) ==
    IF ~Accepts(s) THEN s
    ELSE Stored(IF s.echo THEN FoldLeft(putchar, s, k.shown) ELSE s, k.val)

put_char_to_line(val) == [val |-> val, shown |-> <<val>>]

\* A key without a character: an arrow, after its modifiers, or the number of another.
handle_non_ascii(body) ==
    <<[val |-> "ESC", shown |-> <<"^">>], put_char_to_line("[")>> \o [i \in DOMAIN body |-> put_char_to_line(body[i])]

\* One character of push_curr_line_to_buffer: a full buffer drops its oldest character.
Commit(s, val) ==
    IF Len(s.buffer) < BufSize THEN [s EXCEPT !.buffer = Append(@, val)]
    ELSE [s EXCEPT !.buffer = Append(Tail(@), val), !.ready = IF s.buffer[1] = "NL" THEN Dec(@) ELSE @]

push_curr_line_to_buffer(s) == [FoldLeft(Commit, s, s.line) EXCEPT !.line = <<>>, !.ready = Inc(@)]

\* sys_sigsend(-fg_pgid, SIGINT) while cur is the current task (0: the idle task).
Interrupted(s, cur) ==
    LET group == IF s.fg = 0 THEN (IF cur = 0 THEN 0 ELSE Group[cur]) ELSE s.fg
        hit == {t \in Task : s.fg # 1 /\ Group[t] = group /\ s.state[t] # "gone"}
    IN  [s EXCEPT !.pending = [t \in Task |-> @[t] \/ t \in hit],
                  !.state = [t \in Task |-> IF t \in hit /\ @[t] = "BLOCKED" THEN "WAITING" ELSE @[t]]]

\* What a key types.
Strokes(key) ==
    CASE key = "up" -> handle_non_ascii(<<"A">>)
      [] key = "ctrl-up" -> handle_non_ascii(<<"5", "A">>)
      [] key = "page-up" -> handle_non_ascii(<<"4", "9", "~">>)
      [] key = "shift" -> <<>>
      [] key = "ctrl-c" -> <<[val |-> "ETX", shown |-> <<"^", "C">>]>>
      [] key = "ctrl-j" -> <<[val |-> "NL", shown |-> <<"^", "J">>]>>
      [] OTHER -> <<put_char_to_line(key)>>

EndLine(s) == wait_wake_up(push_curr_line_to_buffer(s))

\* handle_key_event for a key that is pressed.
handle_key_event(s, key, cur) ==
    CASE key = "BS" /\ s.icanon ->
            IF s.line = <<>> THEN s ELSE putchar([s EXCEPT !.line = Front(@)], "BS")
      [] key = "NL" /\ s.icanon -> EndLine(FoldLeft(put_char_to_line_with_val, s, Strokes(key)))
      [] OTHER -> FoldLeft(put_char_to_line_with_val,
                           IF key = "ctrl-c" THEN Interrupted(s, cur) ELSE s, Strokes(key))

KeyEvent(key) ==
    /\ keys < MaxKeys /\ keys' = keys + 1
    /\ \E cur \in {t \in Task : c.state[t] = "user"} \cup {0} : c' = handle_key_event(c, key, cur)
    /\ odd' = (odd \/ ~c.icanon \/ key = "ctrl-j" \/ (key = "NL" /\ Len(c.line) = BufSize))
    /\ UNCHANGED <<calls, crowded>>

----------------------------------------------------------------------------
\* System calls of a task.

\* task_signal_dispatch_pending at the end of every call: SIGINT ends the task.
Return(s, t) == [s EXCEPT !.state[t] = IF s.pending[t] THEN "gone" ELSE "user"]

\* The bytes a read of n takes: up to the first newline in canonical mode.
Taken(s, n) ==
    LET most == IF n < Len(s.buffer) THEN n ELSE Len(s.buffer)
        ends == {i \in 1..most : s.icanon /\ s.buffer[i] = "NL"}
    IN  IF ends = {} THEN most ELSE CHOOSE i \in ends : \A j \in ends : i =< j

\* tty_read after its wait, for n bytes.
Take(s, n) ==
    LET k == Taken(s, n)
        line == s.icanon /\ k > 0 /\ s.buffer[k] = "NL"
    IN  [s EXCEPT !.buffer = SubSeq(@, k + 1, Len(@)), !.ready = IF line THEN Dec(@) ELSE @]

\* tty_read: when nothing is ready the task blocks.
tty_read(t) ==
    /\ c.state[t] = "user"
    /\ IF is_buffer_ready(c)
       THEN \E n \in Sizes : c' = Return(Take(c, n), t)
       ELSE c' = [c EXCEPT !.state[t] = "BLOCKED", !.waiters = Append(@, t)]
    /\ odd' = (odd \/ ~c.icanon) /\ crowded' = (crowded \/ Len(c'.waiters) > 1)
    /\ UNCHANGED <<keys, calls>>

\* The task is switched to: the loop of wait_on_condition ends because its state has
\* changed, and does not evaluate the condition.
Resume(t) ==
    /\ c.state[t] = "WAITING"
    /\ \E n \in Sizes : c' = Return(Take(dequeue_waiter(c, t), n), t)
    /\ odd' = (odd \/ ~c.icanon \/ ~is_buffer_ready(c))
    /\ UNCHANGED <<keys, calls, crowded>>

Call(t) == t \in Writers /\ c.state[t] = "user" /\ calls < MaxCalls /\ calls' = calls + 1 /\ UNCHANGED <<keys, crowded>>

tty_write(t) ==
    /\ Call(t)
    /\ \E w \in Words : c' = Return(FoldLeft(putchar, c, w), t)
    /\ odd' = (odd \/ ~c.icanon)

\* open flushes the input.
open(t) ==
    /\ Call(t)
    /\ c' = Return([c EXCEPT !.buffer = <<>>, !.ready = 0, !.line = <<>>], t)
    /\ odd' = FALSE

tty_ioctl_tcsets(t) ==
    /\ Call(t)
    /\ \E icanon, echo \in BOOLEAN : c' = Return([c EXCEPT !.icanon = icanon, !.echo = echo], t)
    /\ odd' = (odd \/ c'.icanon # c.icanon)

tty_ioctl_set_fg_pgid(t) ==
    /\ Call(t)
    /\ \E g \in {1} \cup {Group[u] : u \in Task} : c' = Return([c EXCEPT !.fg = g], t)
    /\ UNCHANGED odd

Next ==
    /\ ~c.spilt
    /\ \/ \E key \in Keys : KeyEvent(key)
       \/ \E t \in Task : \/ tty_read(t) \/ Resume(t) \/ tty_write(t) \/ open(t)
                          \/ tty_ioctl_tcsets(t) \/ tty_ioctl_set_fg_pgid(t)

Spec == Init /\ [][Next]_vars

----------------------------------------------------------------------------
Newlines(s) == Cardinality({i \in DOMAIN s.buffer : s.buffer[i] = "NL"})

\* In canonical mode ready_lines is the number of lines in the buffer, through lines
\* that push older ones out of a full buffer and reads that take part of a line, as
\* long as no newline entered it in another way, and no line was full when Enter came
\* (it is committed without a newline), since the terminal was opened.
ReadyLinesExact == ~odd /\ ~c.spilt => c.ready = Newlines(c)

\* A task does not stay blocked with a line to read: the key that commits the line
\* wakes it, or somebody else who waits.  Two waiting tasks break this: the first
\* stays at the head of the queue until it runs and is woken twice.
ReaderWoken ==
    ~odd /\ ~crowded /\ (\E t \in Task : c.state[t] = "BLOCKED") /\ c.ready > 0
        => \E t \in Task : c.state[t] = "WAITING"

\* The wait queue holds exactly the tasks that are inside a read, once each.
WaitersExact ==
    /\ ToSet(c.waiters) = {t \in Task : c.state[t] \in {"BLOCKED", "WAITING"}}
    /\ IsInjective(c.waiters)

\* The escape buffer is empty outside of a sequence and holds only arguments in one,
\* also when the console re-enters itself through the echo of a cursor report.
ReentryClean ==
    /\ c.term.esc # "csi" => c.term.buf = <<>>
    /\ \A i \in DOMAIN c.term.buf : Middle(c.term.buf[i])

\* The line is overrun only by a key whose echo completes a request for the cursor that a
\* program has begun: without one every character is in the line or refused.
Spills == c'.spilt => keys' # keys /\ c.icanon /\ c.echo /\ c.term.esc = "csi"
SpillsByReport == [][Spills]_vars

\* Without ECHO a key changes nothing on the display, except that a backspace in
\* canonical mode erases a cell even so.
Quiet == keys' # keys /\ ~c.echo => c'.term = c.term \/ Len(c'.line) < Len(c.line)
QuietWithoutEcho == [][Quiet]_vars

\* A program in raw mode that asks for the cursor (as textedit does for the size of
\* the display) finds the whole report in its input, with the position the cursor had.
Reported ==
    ~c.icanon /\ c.buffer = <<>> /\ c.term.esc = "no" /\ c.term.rem =< 0 /\ c'.buffer # <<>> /\ (\E t \in Task : tty_write(t))
      => c'.buffer = <<"ESC", "[", Digit[c.term.hw[1] + 2], ";", Digit[c.term.hw[2] + 2], "R">>
ReportDelivered == [][Reported]_vars
=============================================================================
