------------------------------- MODULE Screen -------------------------------
(***************************************************************************)
(* Programs that write to the console: every write is one of Words, a      *)
(* sequence of characters, whole or in part a control sequence.            *)
(***************************************************************************)
EXTENDS Terminal

CONSTANTS Words, MaxWrites   \* what is written, and the bound on the number of writes

VARIABLES term, writes

vars == <<term, writes>>

Init == term = terminal_init /\ writes = 0

terminal_write(t, w) == FoldLeft(terminal_write_char, t, w)

tty_write ==
    /\ writes < MaxWrites
    /\ \E w \in Words : term' = terminal_write(term, w)
    /\ writes' = writes + 1

Next == tty_write

Spec == Init /\ [][Next]_vars

----------------------------------------------------------------------------
\* The cursor, and the position that was saved, are on the display whatever the
\* arguments of the commands that move it, also when adding them wraps around: the
\* position is used as an index into cell_buffer without a check.
CursorInside == {term.row, term.srow} \subseteq Rows /\ {term.col, term.scol} \subseteq Cols

\* The escape buffer is released with the escape mode: outside of a control sequence
\* there are no characters of an older one, which the next one would parse again.
EscapeClean == (term.esc # "csi" => term.buf = <<>>) /\ \A i \in DOMAIN term.buf : Middle(term.buf[i])

\* font_decor is what its flags say: a rendition command that changes a decoration
\* never leaves the cached value behind.
DecorFresh == term.decor = recalc_font_decor(term.style)

\* The display shows the cursor where the next character goes.
CursorShown == term.hw = <<term.row, term.col>>

\* A tab that is erased gives back the column it started in, also one that ended at
\* the border and moved to the next line ("properly handles situations where the
\* previous character was \t", terminal.h), unless autowrap is off in the last row.
BackspaceUndoesTab ==
    term.esc = "no" /\ term.rem =< 0 /\ (term.wrap \/ term.row < Height - 1) =>
        LET t == terminal_write(term, <<"HT", "BS">>)
        IN  t.col = term.col /\ (term.row < Height - 1 => t.row = term.row)

\* What cell_buffer holds as the space of a tab or as erased is blank on the display,
\* unless a tab was drawn over text: the two copies of the screen scroll together.
CopiesAgree == \A p \in Rows \X Cols : term.cells[p] = Blank => term.screen[p] = " "
=============================================================================
