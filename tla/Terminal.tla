------------------------------ MODULE Terminal ------------------------------
(***************************************************************************)
(* The text console, arch/i386/terminal.c, as operators on its state       *)
(*                                                                         *)
(*   row, col, srow, scol   the cursor and the saved cursor                *)
(*   cells                  cell_buffer: character and tab-space flag      *)
(*   screen                 what putentryat put on the display             *)
(*   esc, buf               the escape automaton and its buffer            *)
(*   wrap, style, decor     autowrap, rendition, the cached font_decor     *)
(*   hw, visible            the cursor the display shows                   *)
(*   rem                    utf8_remaining                                 *)
(*   reply                  the cursor report CSI 6 n is about to push     *)
(*                                                                         *)
(* A character is a string; "lead2", "lead3" and "cont" are bytes of UTF-8 *)
(* sequences.  The colours of a cell are never read.                       *)
(***************************************************************************)
EXTENDS Integers, Sequences, SequencesExt, FiniteSets, TLC

CONSTANTS Width, Height, \* of the display (vga_width, vga_height)
          TabAlign,      \* TERMINAL_TAB_ALIGN
          Word           \* the number of values of a size_t

TerminalAssumption ==
    /\ Width \in Nat \ {0} /\ Height \in Nat /\ Height >= 2 /\ TabAlign \in Nat \ {0}
    /\ Word \in Nat /\ Word > Width /\ Word > Height
    /\ Width < 9 /\ Height < 9   \* a cursor report has one digit for each

Rows == 0..(Height - 1)
Cols == 0..(Width - 1)
Blank == [ch |-> "NUL", tab |-> FALSE]

\* terminal_reset_styling.
DefaultStyle == [bg |-> "black", fg |-> "light_grey", bold |-> FALSE, underline |-> FALSE, overline |-> FALSE,
                 strike |-> FALSE, blink |-> "no", inverse |-> FALSE]

recalc_font_decor(s) == {d \in {"underline", "overline", "strike"} : s[d]} \cup ({s.blink} \ {"no"})

terminal_init ==
    [row |-> 0, col |-> 0, srow |-> 0, scol |-> 0, cells |-> [p \in Rows \X Cols |-> Blank],
     screen |-> [p \in Rows \X Cols |-> " "], esc |-> "no", buf |-> <<>>, wrap |-> TRUE,
     style |-> DefaultStyle, decor |-> {}, hw |-> <<0, 0>>, visible |-> FALSE, rem |-> 0, reply |-> <<>>]

set_cursor_position(t) == [t EXCEPT !.hw = <<t.row, t.col>>]

\* erase_at_pos for a set of positions.
Erase(t, ps) == [t EXCEPT !.cells = [p \in ps |-> Blank] @@ @, !.screen = [p \in ps |-> " "] @@ @]

terminal_scroll_up(t) ==
    LET above(f) == [p \in Rows \X Cols |-> IF p[1] < Height - 1 THEN f[<<p[1] + 1, p[2]>>] ELSE f[p]]
    IN  Erase([t EXCEPT !.cells = above(@), !.screen = above(@)], {Height - 1} \X Cols)

terminal_scroll_down(t) ==
    LET below(f) == [p \in Rows \X Cols |-> IF p[1] > 0 THEN f[<<p[1] - 1, p[2]>>] ELSE f[p]]
    IN  Erase([t EXCEPT !.cells = below(@), !.screen = below(@)], {0} \X Cols)

\* n lines at once; after Height lines there is nothing left to scroll.
Lines(n) == [i \in 1..(IF n > Height THEN Height ELSE n) |-> i]
ScrolledUp(t, n) == FoldLeft(LAMBDA u, i : terminal_scroll_up(u), t, Lines(n))
ScrolledDown(t, n) == FoldLeft(LAMBDA u, i : terminal_scroll_down(u), t, Lines(n))

----------------------------------------------------------------------------
\* Control sequences.

Digit == <<"0", "1", "2", "3", "4", "5", "6", "7", "8", "9">>
Value == [d \in ToSet(Digit) |-> CHOOSE n \in 0..9 : Digit[n + 1] = d]

\* The arguments and the mode letter of the buffer: every character that is no digit
\* ends an argument, and the first one that is no semicolon is the mode.
Parse(buf) ==
    FoldLeft(LAMBDA a, c : IF a.mode # "NUL" THEN a
                           ELSE IF c \in DOMAIN Value THEN [a EXCEPT !.number = (10 * @ + Value[c]) % Word]
                           ELSE [args |-> Append(a.args, a.number), number |-> 0,
                                 mode |-> IF c = ";" THEN "NUL" ELSE c],
             [args |-> <<>>, number |-> 0, mode |-> "NUL"],
             IF buf # <<>> /\ buf[1] = "?" THEN Tail(buf) ELSE buf)

OneIfZero(n) == IF n = 0 THEN 1 ELSE n

Back(x, n) == IF n >= x THEN 0 ELSE x - n

\* The sum is a size_t and may wrap.
Forth(x, n, size) == IF (n + x) % Word >= size THEN size - 1 ELSE (n + x) % Word

Clamp(x, size) == IF x >= size THEN size - 1 ELSE x

\* The commands that move the cursor (A to H, u).
MoveCursor(t, mode, args) ==
    LET n == OneIfZero(args[1])
        column == IF Len(args) < 2 THEN 0 ELSE Back(args[2], 1)
    IN  CASE mode = "A" -> [t EXCEPT !.row = Back(@, n)]
          [] mode = "B" -> [t EXCEPT !.row = Forth(@, n, Height)]
          [] mode = "C" -> [t EXCEPT !.col = Forth(@, n, Width)]
          [] mode = "D" -> [t EXCEPT !.col = Back(@, n)]
          [] mode = "E" -> [t EXCEPT !.row = Forth(@, n, Height), !.col = 0]
          [] mode = "F" -> [t EXCEPT !.row = Back(@, n), !.col = 0]
          [] mode = "G" -> [t EXCEPT !.col = Clamp(n - 1, Width)]
          [] mode = "H" -> [t EXCEPT !.row = Clamp(Back(args[1], 1), Height), !.col = Clamp(column, Width)]
          [] mode = "u" -> [t EXCEPT !.row = t.srow, !.col = t.scol]

\* The positions J and K erase.
InDisplay(t, n) ==
    {p \in Rows \X Cols : CASE n = 0 -> p[1] > t.row \/ (p[1] = t.row /\ p[2] >= t.col)
                            [] n = 1 -> p[1] < t.row \/ (p[1] = t.row /\ p[2] =< t.col)
                            [] OTHER -> n = 2}
InLine(t, n) == {p \in {t.row} \X Cols : CASE n = 0 -> p[2] >= t.col [] n = 1 -> p[2] =< t.col [] OTHER -> n = 2}

Colours == <<"black", "red", "green", "brown", "blue", "magenta", "cyan", "light_grey">>
Bright == <<"dark_grey", "light_red", "light_green", "light_brown", "light_blue", "light_magenta", "light_cyan", "white">>

\* The rendition commands that touch a decoration call recalc_font_decor.
Decorated(t, s) == [t EXCEPT !.style = s, !.decor = recalc_font_decor(s)]

StopBlinking(t) == Decorated(t, [t.style EXCEPT !.blink = "no"])

\* One argument of the command m.
Rendition(t, n) ==
    CASE n = 0 -> Decorated(t, DefaultStyle)
      [] n \in {1, 22} -> [t EXCEPT !.style.bold = (n = 1)]
      [] n \in {4, 24} -> Decorated(t, [t.style EXCEPT !.underline = (n = 4)])
      [] n = 5 -> Decorated(t, [t.style EXCEPT !.blink = "slow"])
      [] n = 6 -> Decorated(t, [t.style EXCEPT !.blink = "fast"])
      [] n = 25 -> StopBlinking(t)
      [] n \in {7, 27} -> [t EXCEPT !.style.inverse = (n = 7)]
      [] n \in {9, 29} -> Decorated(t, [t.style EXCEPT !.strike = (n = 9)])
      [] n \in {53, 55} -> Decorated(t, [t.style EXCEPT !.overline = (n = 53)])
      [] n \in 30..37 -> [t EXCEPT !.style.fg = Colours[n - 29]]
      [] n \in 40..47 -> [t EXCEPT !.style.bg = Colours[n - 39]]
      [] n = 39 -> [t EXCEPT !.style.fg = "light_grey"]
      [] n = 49 -> [t EXCEPT !.style.bg = "black"]
      [] n \in 90..97 -> [t EXCEPT !.style.fg = Bright[n - 89]]
      [] n \in 100..107 -> [t EXCEPT !.style.bg = Bright[n - 99]]
      [] OTHER -> t

CursorReport(t) == <<"ESC", "[", Digit[t.row + 2], ";", Digit[t.col + 2], "R">>

\* The command mode with its arguments, of which n is the first.
Command(t, mode, args, n) ==
    CASE mode \in {"A", "B", "C", "D", "E", "F", "G", "H", "u"} -> set_cursor_position(MoveCursor(t, mode, args))
      [] mode = "s" -> [t EXCEPT !.srow = t.row, !.scol = t.col]
      [] mode = "J" -> Erase(t, InDisplay(t, n))
      [] mode = "K" -> Erase(t, InLine(t, n))
      [] mode = "S" -> ScrolledUp(t, OneIfZero(n))
      [] mode = "T" -> ScrolledDown(t, OneIfZero(n))
      [] mode \in {"h", "l"} /\ n = 7 -> [t EXCEPT !.wrap = (mode = "h")]
      [] mode \in {"h", "l"} /\ n = 25 -> [t EXCEPT !.visible = (mode = "h")]
      [] mode = "m" -> FoldLeft(Rendition, t, args)
      [] mode = "n" /\ n = 6 -> [t EXCEPT !.reply = CursorReport(t)]
      [] OTHER -> t

Execute(t, p) == Command(t, p.mode, p.args, p.args[1])
terminal_handle_csi_sequence(t) == Execute(t, Parse(t.buf))

\* Bytes 0x20 to 0x3F, and 0x40 to 0x7E.
Middle(c) == c \in DOMAIN Value \cup {";", "?", " "}
Control(c) == c \in {"ESC", "NL", "HT", "BS", "ETX", "lead2", "lead3", "cont"}

terminal_reset_escape_mode_state(t) == [t EXCEPT !.esc = "no", !.buf = <<>>]

\* A cursor report is pushed before the mode is reset: Tty does both.
ResetUnlessReporting(t) == IF t.reply = <<>> THEN terminal_reset_escape_mode_state(t) ELSE t

\* terminal_write_char in escape mode.
Escape(t, c) ==
    CASE t.esc = "esc" /\ c = "[" -> [t EXCEPT !.esc = "csi"]
      [] t.esc = "csi" /\ Middle(c) -> [t EXCEPT !.buf = Append(@, c)]
      [] t.esc = "csi" /\ ~Middle(c) /\ ~Control(c) ->
            ResetUnlessReporting(terminal_handle_csi_sequence([t EXCEPT !.buf = Append(@, c)]))
      [] OTHER -> terminal_reset_escape_mode_state(t)

----------------------------------------------------------------------------
\* Text.

\* The start of the next line; at the bottom the display scrolls.
NextLine(t) == IF t.row + 1 < Height THEN [t EXCEPT !.row = @ + 1, !.col = 0]
               ELSE IF t.wrap THEN terminal_scroll_up([t EXCEPT !.col = 0])
               ELSE [t EXCEPT !.col = 0]

\* Mutant: the scan for tab spaces passes the tab itself.
TabsPassed(t, row, col) == {c \in 0..col : \A d \in c..col : t.cells[<<row, d>>].tab \/ t.cells[<<row, d>>].ch = "HT"}

\* The columns from col backwards whose cells are spaces of a tab.
TabsBefore(t, row, col) == {c \in 1..col : \A d \in c..col : t.cells[<<row, d>>].tab}

Backspace(t) ==
    LET row == IF t.col = 0 THEN t.row - 1 ELSE t.row
        col == IF t.col = 0 THEN Width - 1 ELSE t.col - 1
        tabs == TabsBefore(t, row, col)
        stop == col - Cardinality(tabs)
    IN  IF t.col = 0 /\ t.row = 0 THEN t
        ELSE set_cursor_position(Erase([t EXCEPT !.row = row, !.col = stop], {row} \X (tabs \cup {stop})))

\* The cursor goes on to column col, or to the next line at the end of the row.
MoveTo(t, col) == IF col = Width THEN NextLine(t) ELSE [t EXCEPT !.col = col]

\* A tab marks the cells it passes as its own; on the display it clears only the
\* cell of the cursor, once per column.
Tab(t) ==
    LET stop == t.col + (TabAlign - (t.col % TabAlign))
        end == IF stop > Width THEN Width ELSE stop
        spaces == [p \in {t.row} \X ((t.col + 1)..(end - 1)) |-> [ch |-> " ", tab |-> TRUE]]
    IN  MoveTo([t EXCEPT !.cells = spaces @@ @, !.screen[<<t.row, t.col>>] = " "], end)

Put(t, shown) == MoveTo([t EXCEPT !.screen[<<t.row, t.col>>] = shown], t.col + 1)

Advance(t, c) == CASE c = "NL" -> NextLine(t)
                   [] c = "HT" -> Tab(t)
                   [] OTHER -> Put(t, IF c = "cont" THEN "wide" ELSE c)

Draw(t, c) == Advance([t EXCEPT !.cells[<<t.row, t.col>>] = [ch |-> c, tab |-> FALSE]], c)

\* The bytes of one UTF-8 character are counted down; a byte of ASCII leaves the
\* count alone.
Decode(t, c) == CASE c = "lead2" -> [t EXCEPT !.rem = 1]
                  [] c = "lead3" -> [t EXCEPT !.rem = 2]
                  [] c = "cont" -> [t EXCEPT !.rem = @ - 1]
                  [] OTHER -> t

Decoded(t, c) ==
    CASE t.rem > 0 -> t
      [] t.rem =< 0 /\ t.esc = "no" /\ c = "ESC" -> [t EXCEPT !.esc = "esc"]
      [] t.rem =< 0 /\ t.esc # "no" -> Escape(t, c)
      [] t.rem =< 0 /\ t.esc = "no" /\ c = "BS" -> Backspace(t)
      [] OTHER -> set_cursor_position(Draw(t, c))

terminal_write_char(t, c) == Decoded(Decode(t, c), c)
=============================================================================
