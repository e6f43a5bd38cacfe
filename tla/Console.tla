------------------------------ MODULE Console -------------------------------
(***************************************************************************)
(* The way from the keyboard to a program, side by side: the keyboard      *)
(* driver, the terminal device, and the shell's line editor behind it.  A  *)
(* behaviour uses one of them ("subject").  The modules instantiated here  *)
(* do the modelling.                                                       *)
(***************************************************************************)
EXTENDS Integers

VARIABLES subject,
          c, keys, calls, odd, crowded,
          buffer, pressed, locks, event, panic, held, last, wire, todo, repeats,
          comm_buffer, comm_buffer_len, comm_cursor_loc, history, curr_history_entry, row, col, entered,
          recalled, garbled

----------------------------------------------------------------------------
\* Two tasks in groups of their own, one of which only reads; a request for the cursor,
\* and the beginning of one that the typed keys complete.
T == INSTANCE Tty WITH
    Width <- 5, Height <- 2, TabAlign <- 3, Word <- 128, Task <- {1, 2}, Group <- [t \in {1, 2} |-> t + 1],
    Writers <- {1}, BufSize <- 7, Sizes <- {4, 7}, Words <- {<<"ESC", "[", "6", "n">>, <<"ESC", "[", "6">>},
    Keys <- {"n", "NL", "BS", "ctrl-c", "up"}, MaxKeys <- 3, MaxCalls <- 2

\* A key of each kind: a modifier, an extended one, a lock, and the one of four bytes.
K == INSTANCE Keyboard WITH Keys <- {"LSHIFT", "RCTRL", "CAPS", "PRNT"}, MaxWire <- 7, MaxRepeats <- 1

\* Lines of up to two characters, with one that printf prints otherwise, and one
\* command more than the history holds.
E == INSTANCE LineEditor WITH
    Char <- {"x", "%"}, Blank <- " ", Percent <- "%", NUL <- "NUL", HISTORY_MAXENTRIES <- 2,
    Width <- 8, MaxLine <- 2, MaxEntered <- 3, MaxGarbled <- 1

ASSUME T!TerminalAssumption /\ T!TtyAssumption

----------------------------------------------------------------------------
ttyVars == <<c, keys, calls, odd, crowded>>
keyboardVars == <<buffer, pressed, locks, event, panic, held, last, wire, todo, repeats>>
editorVars == <<comm_buffer, comm_buffer_len, comm_cursor_loc, history, curr_history_entry, row, col,
                entered, recalled, garbled>>
AllVars == <<subject, ttyVars, keyboardVars, editorVars>>

\* The variables of a part that is not the subject are 0.
NoTty == c = 0 /\ keys = 0 /\ calls = 0 /\ odd = 0 /\ crowded = 0
NoKeyboard == /\ buffer = 0 /\ pressed = 0 /\ locks = 0 /\ event = 0 /\ panic = 0 /\ held = 0
              /\ last = 0 /\ wire = 0 /\ todo = 0 /\ repeats = 0
NoEditor == /\ comm_buffer = 0 /\ comm_buffer_len = 0 /\ recalled = 0 /\ garbled = 0 /\ comm_cursor_loc = 0 /\ history = 0 /\ curr_history_entry = 0
            /\ row = 0 /\ col = 0 /\ entered = 0

AllInit == \/ subject = "tty" /\ T!Init /\ NoKeyboard /\ NoEditor
           \/ subject = "keyboard" /\ NoTty /\ K!Init /\ NoEditor
           \/ subject = "editor" /\ NoTty /\ NoKeyboard /\ E!Init

AllNext == \/ subject = "tty" /\ T!Next /\ UNCHANGED <<subject, keyboardVars, editorVars>>
           \/ subject = "keyboard" /\ K!Next /\ UNCHANGED <<subject, ttyVars, editorVars>>
           \/ subject = "editor" /\ E!Next /\ UNCHANGED <<subject, ttyVars, keyboardVars>>

AllSpec == AllInit /\ [][AllNext]_AllVars

----------------------------------------------------------------------------
\* ready_lines counts the lines of the buffer; no reader sleeps on a terminal with a line
\* to read, a second waiter aside; the wait object lists the tasks inside a read; a
\* report typed in the middle of a write leaves the console consistent and tells the
\* cursor there is, and alone can overrun the line; without ECHO keys leave the display
\* alone (the properties of Tty).
TerminalExact ==
    /\ [](subject = "tty" => /\ T!ReadyLinesExact /\ T!ReaderWoken
                             /\ T!WaitersExact /\ T!ReentryClean)
    /\ [][subject = "tty" => T!Spills /\ T!Quiet /\ T!Reported]_ttyVars

\* The events are the keys that went up and down, in order; the driver never aborts on
\* what the keyboard sends, and when every byte was read no key is left to report; every
\* printable character can be typed, whatever the locks (the properties of Keyboard).
KeysExact ==
    /\ [](subject = "keyboard" => K!NeverPanics /\ K!NothingLost /\ K!EveryCharacterHasAKey)
    /\ [][subject = "keyboard" => K!Reported]_keyboardVars

\* The row shows the line being edited, that line is executed and the history holds the
\* latest commands (RowShowsLine, LineExecuted, HistoryExact in LineEditor).
EditorExact == subject = "editor" => E!RowShowsLine /\ E!LineExecuted /\ E!HistoryExact
=============================================================================
