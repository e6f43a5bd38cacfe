----------------------------- MODULE LineEditor -----------------------------
(***************************************************************************)
(* The line editor and the history of the shell (usermode/bin/sh.c), with  *)
(* the row of the terminal it draws on.                                    *)
(*                                                                         *)
(*   comm_buffer, comm_buffer_len   the bytes of the line; what is behind   *)
(*                                  the line need not be NUL               *)
(*   comm_cursor_loc                the cursor in it                       *)
(*   history, curr_history_entry    newest first, and the one shown, from  *)
(*                                  1 on, 0 for none                       *)
(*   row, col    the cells of the row and the column of its cursor         *)
(*   entered     history variable: the commands in the order of entry      *)
(*   recalled    history variable: an entry was loaded for this line       *)
(*   garbled     history variable: such an entry was a format for printf   *)
(***************************************************************************)
EXTENDS Integers, Sequences, SequencesExt

CONSTANTS Char, Blank, Percent, NUL,
          HISTORY_MAXENTRIES,
          Width,             \* the columns of the row
          MaxLine,           \* bound: the characters of a line
          MaxEntered,        \* bound: the commands entered
          MaxGarbled         \* bound: the characters a conversion prints

VARIABLES comm_buffer, comm_buffer_len, comm_cursor_loc, history, curr_history_entry, row, col,
          entered, recalled, garbled

vars == <<comm_buffer, comm_buffer_len, comm_cursor_loc, history, curr_history_entry, row, col,
          entered, recalled, garbled>>

\* The bytes from..to - 1 of the buffer, and the string it is to strdup and parse_command.
Bytes(from, to) == [i \in 1 .. to - from |-> comm_buffer[from + i - 1]]
Line == Bytes(0, comm_buffer_len)
Text == Bytes(0, CHOOSE n \in 0 .. MaxLine :
                     comm_buffer[n] = NUL /\ \A i \in 0 .. n - 1 : comm_buffer[i] # NUL)

Cells(r, from, chars) == [i \in 1 .. Width |-> IF i \in from .. from + Len(chars) - 1
                                               THEN chars[i - from + 1] ELSE r[i]]

\* print_prompt: "$ " on a new row.
Prompt == Cells([i \in 1 .. Width |-> Blank], 1, <<"$">>)

\* The cursor goes back, as far as the first column.
Back(column, n) == IF column > n THEN column - n ELSE 1

\* What is printed, and by how many columns the cursor goes back afterwards.
Draw(from, chars, back) ==
    /\ row' = Cells(row, from, chars)
    /\ col' = Back(from + Len(chars), back)

NewLine == /\ comm_buffer' = [i \in 0 .. MaxLine |-> NUL] /\ comm_buffer_len' = 0 /\ comm_cursor_loc' = 0
           /\ curr_history_entry' = 0 /\ row' = Prompt /\ col' = 3
           /\ recalled' = FALSE /\ garbled' = FALSE

Init == /\ comm_buffer = [i \in 0 .. MaxLine |-> NUL] /\ comm_buffer_len = 0 /\ comm_cursor_loc = 0
        /\ history = <<>> /\ curr_history_entry = 0 /\ entered = <<>>
        /\ row = Prompt /\ col = 3 /\ recalled = FALSE /\ garbled = FALSE

Behind(n) == Bytes(n, comm_buffer_len)

\* A character is put at the cursor; the rest of the line moves up, over the byte that
\* was behind it.
Inserted(c) ==
    /\ comm_buffer_len < MaxLine
    /\ comm_buffer' = [j \in 0 .. MaxLine |->
          IF j = comm_cursor_loc THEN c
          ELSE IF comm_cursor_loc < j /\ j <= comm_buffer_len THEN comm_buffer[j - 1] ELSE comm_buffer[j]]
    /\ comm_buffer_len' = comm_buffer_len + 1 /\ comm_cursor_loc' = comm_cursor_loc + 1
    /\ UNCHANGED <<history, curr_history_entry, entered, recalled, garbled>>

\* Mutant: the rest of the line is not drawn again.
DrawsOne(c) == Inserted(c) /\ Draw(col, <<c>>, 0)

Insert(c) == Inserted(c) /\ Draw(col, <<c>> \o Behind(comm_cursor_loc), comm_buffer_len - comm_cursor_loc)

Backspace ==
    /\ comm_cursor_loc > 0
    /\ comm_buffer' = [j \in 0 .. MaxLine |->
          IF j = comm_buffer_len - 1 THEN NUL
          ELSE IF comm_cursor_loc - 1 <= j /\ j < comm_buffer_len - 1 THEN comm_buffer[j + 1] ELSE comm_buffer[j]]
    /\ comm_buffer_len' = comm_buffer_len - 1 /\ comm_cursor_loc' = comm_cursor_loc - 1
    /\ Draw(Back(col, 1), Behind(comm_cursor_loc) \o <<Blank>>, Len(Behind(comm_cursor_loc)) + 1)
    /\ UNCHANGED <<history, curr_history_entry, entered, recalled, garbled>>

Move(loc, column) ==
    /\ comm_cursor_loc' = loc /\ col' = column
    /\ UNCHANGED <<comm_buffer, comm_buffer_len, history, curr_history_entry, row, entered, recalled, garbled>>

Right == comm_cursor_loc < comm_buffer_len /\ Move(comm_cursor_loc + 1, col + 1)
Left == comm_cursor_loc > 0 /\ Move(comm_cursor_loc - 1, Back(col, 1))
Home == Move(0, 3)
End == Move(comm_buffer_len, comm_buffer_len + 3)

\* printf(comm_buffer): a line with a % is a format without arguments, and anything may
\* be printed for it.
Printed(line) ==
    IF \E i \in DOMAIN line : line[i] = Percent
    THEN {[i \in 1 .. n |-> Percent] : n \in 0 .. MaxGarbled} ELSE {line}

\* strcpy leaves the bytes behind its NUL.  The row is cleared from column 3 on, then the
\* entry is printed.
load_history_entry(e) ==
    LET line == IF e \in DOMAIN history THEN history[e] ELSE <<>>
        cleared == [i \in 1 .. Width |-> IF i >= 3 THEN Blank ELSE row[i]]
    IN  /\ comm_buffer' = [j \in 0 .. MaxLine |-> IF j < Len(line) THEN line[j + 1]
                                                  ELSE IF j = Len(line) THEN NUL ELSE comm_buffer[j]]
        /\ comm_buffer_len' = Len(line) /\ comm_cursor_loc' = Len(line)
        /\ \E printed \in Printed(line) : row' = Cells(cleared, 3, printed) /\ col' = 3 + Len(printed)
        /\ curr_history_entry' = e /\ recalled' = TRUE
        /\ garbled' = (garbled \/ \E i \in DOMAIN line : line[i] = Percent)
        /\ UNCHANGED <<history, entered>>

Up == curr_history_entry < Len(history) /\ load_history_entry(curr_history_entry + 1)
Down == load_history_entry(IF curr_history_entry > 0 THEN curr_history_entry - 1 ELSE 0)

\* The entries move up by one; the oldest of a full history is dropped.
add_curr_buffer_to_history(h, line) ==
    <<line>> \o SubSeq(h, 1, IF Len(h) = HISTORY_MAXENTRIES THEN Len(h) - 1 ELSE Len(h))

\* The command is handled: it goes to the history unless it is only blanks.
Enter ==
    LET blank == \A i \in DOMAIN Text : Text[i] = Blank
    IN  /\ Len(entered) < MaxEntered
        /\ history' = IF blank THEN history ELSE add_curr_buffer_to_history(history, Text)
        /\ entered' = IF blank THEN entered ELSE Append(entered, Text)
        /\ NewLine

Next == (\E c \in Char : Insert(c)) \/ Backspace \/ Right \/ Left \/ Home \/ End \/ Up \/ Down \/ Enter

Spec == Init /\ [][Next]_vars

----------------------------------------------------------------------------
\* The editor draws only what a key changes, and yet the row always shows the prompt, the
\* line and nothing else, with the cursor of the terminal where the next character goes,
\* unless an entry loaded for it had a % in it.
RowShowsLine == \/ garbled
                \/ row = Cells(Prompt, 3, Line) /\ col = comm_cursor_loc + 3

\* What Enter executes begins with the line as it was edited, and is nothing else unless
\* an entry of the history was loaded for it: then bytes of an older, longer entry can
\* follow.
LineExecuted == /\ IsPrefix(Line, Text)
                /\ recalled \/ Text = Line

\* The history is the last HISTORY_MAXENTRIES commands as they were executed, newest
\* first, whatever was recalled, edited and entered again in between.
HistoryExact ==
    LET n == IF Len(entered) < HISTORY_MAXENTRIES THEN Len(entered) ELSE HISTORY_MAXENTRIES
    IN  history = Reverse(SubSeq(entered, Len(entered) - n + 1, Len(entered)))
=============================================================================
