------------------------------- MODULE Fbcon --------------------------------
(***************************************************************************)
(* The framebuffer console, drivers/vga/fbcon.c, with the fonts it draws   *)
(* with.  char_buffer holds the characters; fb is what the pixels of each  *)
(* cell show: the ink of a glyph and whether the cursor bar lies over it.  *)
(* The console's calls and the blink handler, which the timer interrupt    *)
(* runs every 100 ms and which registers itself again first, interleave.   *)
(*                                                                         *)
(* outdated and stray are history: something was put on the display that   *)
(* could not be drawn, or a bar was moved or could not be erased, and      *)
(* nothing has drawn the whole display since.  tick counts handler runs.   *)
(***************************************************************************)
EXTENDS Integers, Sequences, SequencesExt

CONSTANTS GlyphCount,      \* PSF1_GLYPH_COUNT
          End, Separator,  \* 0xFFFF and 0xFFFE
          High, Low,       \* 0xD800 .. 0xDBFF and 0xDC00 .. 0xDFFF
          Plane,           \* 0x10000, the first code point of a pair
          Replacement,     \* 0xFFFD
          Columns, Rows,   \* fbcon_get_columns, fbcon_get_rows
          Entries, Space,  \* the cells that are written, and the blank
          SLOW_BLINK_COUNTER,
          Tables,          \* the unicode tables the file of each mode may have
          MaxPuts          \* bound on the calls of the console

VARIABLES char_buffer, fb, cursor, cursor_enabled, cursor_blink_state,
          quick_blink_state, slow_blink_state, slow_blink_counter,
          font, calls, outdated, stray, tick

console == <<char_buffer, fb, cursor, cursor_enabled, cursor_blink_state>>
blink == <<quick_blink_state, slow_blink_state, slow_blink_counter, tick>>
vars == <<console, blink, font, calls, outdated, stray>>

Cell == (0 .. Rows - 1) \X (0 .. Columns - 1)
Mode == {"normal", "bold"}
Char == {e.codepoint : e \in Entries}
Zero == [codepoint |-> 0, font_mode |-> "normal", font_decor |-> {}]   \* black on black

----------------------------------------------------------------------------
\* The glyph tables, drivers/vga/font.c.  The unicode table of a PSF1 file is a sequence
\* of 16-bit words: the code points of glyph 0, an end mark, those of glyph 1, and so
\* on; Separator starts a combining sequence and a word of High begins a surrogate pair.
Pair(high, low) == Plane + (high - Min(High)) * Cardinality(Low) + (low - Min(Low))

\* The first pass: how many entries the map is allocated for.
RECURSIVE CountFrom(_, _, _)
CountFrom(table, i, glyph) ==
    IF i > Len(table) \/ glyph >= GlyphCount THEN 0
    ELSE IF table[i] = End THEN CountFrom(table, i + 1, glyph + 1)
    ELSE IF table[i] = Separator THEN CountFrom(table, i + 1, glyph)
    ELSE 1 + CountFrom(table, i + (IF table[i] \in High THEN 2 ELSE 1), glyph)

\* The second pass: the entries in the order of the file.
RECURSIVE FillFrom(_, _, _)
FillFrom(table, i, glyph) ==
    LET pair == table[i] \in High /\ i < Len(table)
        cp == IF pair THEN Pair(table[i], table[i + 1]) ELSE table[i]
    IN  IF i > Len(table) \/ glyph >= GlyphCount THEN <<>>
        ELSE IF table[i] = End THEN FillFrom(table, i + 1, glyph + 1)
        ELSE IF table[i] = Separator THEN FillFrom(table, i + 1, glyph)
        ELSE <<[codepoint |-> cp, glyph_index |-> glyph]>>
             \o FillFrom(table, i + (IF pair THEN 2 ELSE 1), glyph)

\* The insertion sort: the key goes behind the last entry that is not greater.
InsertKey(sorted, key) ==
    LET k == Cardinality({j \in DOMAIN sorted : sorted[j].codepoint =< key.codepoint})
    IN  InsertAt(sorted, k + 1, key)

parse_unicode_table(table) == FoldLeft(InsertKey, <<>>, FillFrom(table, 1, 0))

\* A PSF1 file is refused unless it has the magic, glyphs of 16 rows, 512 of them and
\* a unicode table; a refused one leaves the font as it was.
parse_psf(old, mode, file) ==
    IF file.valid /\ file.height16 /\ file.mode512 /\ file.unicode
    THEN [loaded |-> TRUE, map |-> [old.map EXCEPT ![mode] = parse_unicode_table(file.table)],
          file |-> [old.file EXCEPT ![mode] = file.table]]
    ELSE old

find_glyph(map, codepoint) ==
    LET RECURSIVE Search(_, _)
        Search(lo, hi) ==
            LET mid == lo + (hi - lo) \div 2
            IN  IF lo >= hi THEN -1
                ELSE IF map[mid + 1].codepoint = codepoint THEN map[mid + 1].glyph_index
                ELSE IF map[mid + 1].codepoint < codepoint THEN Search(mid + 1, hi)
                ELSE Search(lo, mid)
    IN  Search(0, Len(map))

\* The glyph font_render_char draws: the one of the character, of the replacement
\* character, or glyph 0.
GlyphOf(map, codepoint) ==
    LET i == find_glyph(map, codepoint)
        r == find_glyph(map, Replacement)
    IN  IF i >= 0 THEN i ELSE IF r >= 0 THEN r ELSE 0

----------------------------------------------------------------------------
NoInk == [mode |-> "none", decor |-> {}, glyph |-> 0]

\* font_render_char: the pixels of a cell, the bar included, are drawn over; before a
\* font is loaded nothing is.
Ink(cell, codepoint) ==
    IF cell = Zero THEN NoInk
    ELSE [mode |-> cell.font_mode, decor |-> cell.font_decor,
          glyph |-> GlyphOf(font.map[cell.font_mode], codepoint)]

font_render_char(pixels, p, cell, codepoint) ==
    IF font.loaded THEN [pixels EXCEPT ![p] = [ink |-> Ink(cell, codepoint), bar |-> FALSE]] ELSE pixels

draw_cursor(pixels, visible) ==
    IF visible THEN [pixels EXCEPT ![cursor].bar = TRUE]
    ELSE font_render_char(pixels, cursor, char_buffer[cursor], char_buffer[cursor].codepoint)

\* A blinking character is a blank while its state is on.
Hidden(cell, quick, slow) == ("quick" \in cell.font_decor /\ quick) \/ ("slow" \in cell.font_decor /\ slow)
Shown(cell, quick, slow) == IF Hidden(cell, quick, slow) THEN Space ELSE cell.codepoint

fbcon_rerender_all(pixels, quick, slow) ==
    IF font.loaded
    THEN [p \in Cell |-> [ink |-> Ink(char_buffer[p], Shown(char_buffer[p], quick, slow)), bar |-> FALSE]]
    ELSE pixels

----------------------------------------------------------------------------

SlowStep == IF slow_blink_counter = 1 THEN [counter |-> SLOW_BLINK_COUNTER, slow |-> ~slow_blink_state]
            ELSE [counter |-> slow_blink_counter - 1, slow |-> slow_blink_state]

fbcon_blink_handler ==
    LET pixels == fbcon_rerender_all(fb, ~quick_blink_state, SlowStep.slow)
    IN  /\ quick_blink_state' = ~quick_blink_state
        /\ slow_blink_counter' = SlowStep.counter
        /\ slow_blink_state' = SlowStep.slow
        /\ cursor_blink_state' = IF cursor_enabled THEN ~cursor_blink_state ELSE cursor_blink_state
        /\ fb' = IF cursor_enabled THEN draw_cursor(pixels, ~cursor_blink_state) ELSE pixels
        /\ outdated' = (outdated /\ ~font.loaded)
        /\ stray' = (stray /\ ~font.loaded)
        /\ tick' = (tick + 1) % (2 * SLOW_BLINK_COUNTER)
        /\ UNCHANGED <<char_buffer, cursor, cursor_enabled, font, calls>>

----------------------------------------------------------------------------
Call == calls < MaxPuts /\ calls' = calls + 1 /\ UNCHANGED <<blink, font>>

fbcon_putentryat(cell, p) ==
    /\ Call
    /\ char_buffer' = [char_buffer EXCEPT ![p] = cell]
    /\ fb' = font_render_char(fb, p, cell, cell.codepoint)
    /\ outdated' = (outdated \/ ~font.loaded)
    /\ UNCHANGED <<cursor, cursor_enabled, cursor_blink_state, stray>>

Up(f, zero) == [p \in Cell |-> IF p[1] + 1 < Rows THEN f[<<p[1] + 1, p[2]>>] ELSE zero]
Down(f, zero) == [p \in Cell |-> IF p[1] > 0 THEN f[<<p[1] - 1, p[2]>>] ELSE zero]
Black == [ink |-> NoInk, bar |-> FALSE]

\* Mutant: the pixels of the last row stay.
KeepsLastRow ==
    /\ Call
    /\ char_buffer' = Up(char_buffer, Zero)
    /\ fb' = IF font.loaded
             THEN [p \in Cell |-> IF p[1] = Rows - 1 THEN fb[p]
                                  ELSE [ink |-> Ink(char_buffer'[p], char_buffer'[p].codepoint), bar |-> FALSE]]
             ELSE fb
    /\ outdated' = ~font.loaded
    /\ stray' = (stray /\ ~font.loaded)
    /\ UNCHANGED <<cursor, cursor_enabled, cursor_blink_state>>

\* Every row but the last is drawn from char_buffer; the last one is cleared.
fbcon_scroll_up ==
    /\ Call
    /\ char_buffer' = Up(char_buffer, Zero)
    /\ fb' = [p \in Cell |-> IF p[1] = Rows - 1 THEN Black
                             ELSE IF font.loaded
                             THEN [ink |-> Ink(char_buffer'[p], char_buffer'[p].codepoint), bar |-> FALSE]
                             ELSE fb[p]]
    /\ outdated' = ~font.loaded
    /\ stray' = (stray /\ ~font.loaded)
    /\ UNCHANGED <<cursor, cursor_enabled, cursor_blink_state>>

\* The pixels are moved, and the bar with them; cursor_x and cursor_y are not.
fbcon_scroll_down ==
    /\ Call
    /\ fb' = Down(fb, Black)
    /\ char_buffer' = Down(char_buffer, Zero)
    /\ stray' = TRUE
    /\ UNCHANGED <<cursor, cursor_enabled, cursor_blink_state, outdated>>

fbcon_set_cursor_position(p) ==
    /\ Call
    /\ cursor' = p
    /\ fb' = IF cursor_enabled THEN [draw_cursor(fb, FALSE) EXCEPT ![p].bar = TRUE] ELSE fb
    /\ cursor_blink_state' = (cursor_enabled \/ cursor_blink_state)
    /\ stray' = (stray \/ ~font.loaded)
    /\ UNCHANGED <<char_buffer, cursor_enabled, outdated>>

fbcon_enable_cursor ==
    /\ Call
    /\ cursor_enabled' = TRUE
    /\ cursor_blink_state' = TRUE
    /\ fb' = draw_cursor(fb, TRUE)
    /\ UNCHANGED <<char_buffer, cursor, outdated, stray>>

fbcon_disable_cursor ==
    /\ Call
    /\ cursor_enabled' = FALSE
    /\ cursor_blink_state' = FALSE
    /\ fb' = draw_cursor(fb, FALSE)
    /\ stray' = (stray \/ ~font.loaded)
    /\ UNCHANGED <<char_buffer, cursor, outdated>>

\* What is on the display keeps its pixels until it is drawn again.
font_load_psf(mode, file) ==
    /\ font.file[mode] = <<>> /\ (mode = "bold" => font.file["normal"] # <<>>)   \* main.c
    /\ font' = parse_psf(font, mode, file)
    /\ outdated' = TRUE
    /\ UNCHANGED <<console, blink, calls, stray>>

File(mode) == {[valid |-> TRUE, height16 |-> TRUE, mode512 |-> m, unicode |-> TRUE, table |-> t] :
                 m \in BOOLEAN, t \in Tables[mode]}

----------------------------------------------------------------------------
\* vga_rgb_init has filled the framebuffer with black.
fbcon_init ==
    /\ char_buffer = [p \in Cell |-> Zero]
    /\ fb = [p \in Cell |-> Black]
    /\ cursor = <<0, 0>>
    /\ cursor_enabled = FALSE /\ cursor_blink_state = FALSE
    /\ quick_blink_state = TRUE /\ slow_blink_state = TRUE
    /\ slow_blink_counter = SLOW_BLINK_COUNTER
    /\ font = [loaded |-> FALSE, map |-> [m \in Mode |-> <<>>], file |-> [m \in Mode |-> <<>>]]
    /\ calls = 0 /\ tick = 0 /\ outdated = FALSE /\ stray = FALSE

Next ==
    \/ fbcon_blink_handler
    \/ \E e \in Entries, p \in Cell : fbcon_putentryat(e, p)
    \/ fbcon_scroll_up
    \/ fbcon_scroll_down
    \/ \E p \in Cell : fbcon_set_cursor_position(p)
    \/ fbcon_enable_cursor
    \/ fbcon_disable_cursor
    \/ \E m \in Mode : \E f \in File(m) : font_load_psf(m, f)

Spec == fbcon_init /\ [][Next]_vars

----------------------------------------------------------------------------
\* The pairs of a code point and a glyph a table lists, by counting the end marks.
Ref(table) ==
    LET starts == {i \in DOMAIN table : i = 1 \/ table[i - 1] \notin High}
        glyph(i) == Cardinality({j \in starts : j < i /\ table[j] = End})
        cp(i) == IF table[i] \in High /\ i < Len(table) THEN Pair(table[i], table[i + 1]) ELSE table[i]
    IN  {<<cp(i), glyph(i)>> : i \in {j \in starts : table[j] \notin {End, Separator} /\ glyph(j) < GlyphCount}}

\* A character is drawn with a glyph its font file lists it under, and is found
\* whenever the file lists it: the two passes over the table agree on the entries, no
\* entry is beyond the allocated map, and the binary search runs over a sorted one.
GlyphsFound ==
    \A m \in Mode :
      LET t == font.file[m]
      IN  /\ Len(font.map[m]) = CountFrom(t, 1, 0)
          /\ \A cp \in {e[1] : e \in Ref(t)} \union Char :
               LET g == find_glyph(font.map[m], cp)
               IN  IF \E e \in Ref(t) : e[1] = cp THEN <<cp, g>> \in Ref(t) ELSE g = -1

\* Between two runs of the blink handler the ink of every cell is that of its
\* character, or a blank where the character blinks, once the fonts are there and the
\* display was drawn since: a write, a scroll or a cursor move never leaves the pixels
\* of a character that is gone.
InkCurrent ==
    font.loaded /\ ~outdated =>
        \A p \in Cell : \/ fb[p].ink = Ink(char_buffer[p], char_buffer[p].codepoint)
                        \/ char_buffer[p].font_decor # {} /\ fb[p].ink = Ink(char_buffer[p], Space)

\* There is never a second cursor bar, and none when the cursor is off, except where
\* scrolling down (or a missing font) left one since the last full redraw.
OneBar ==
    stray \/ {p \in Cell : fb[p].bar} \subseteq (IF cursor_enabled THEN {cursor} ELSE {})

\* Each run of the handler makes the framebuffer exactly the picture of the state:
\* every character of char_buffer, the blinking ones off in their phase, and the bar
\* at the cursor in its own phase.  So nothing a call leaves wrong lasts 100 ms.
Redrawn ==
    tick' # tick /\ font.loaded =>
        fb' = [p \in Cell |-> [ink |-> Ink(char_buffer[p], Shown(char_buffer[p], quick_blink_state', slow_blink_state')),
                               bar |-> cursor_enabled /\ cursor_blink_state' /\ p = cursor]]
Redraws == [][Redrawn]_vars

\* Slow blinking changes with every fourth run of the handler and quick blinking with
\* every run, in step.
BlinkPhases == /\ quick_blink_state = (tick % 2 = 0)
               /\ slow_blink_state = (tick < SLOW_BLINK_COUNTER)

T == INSTANCE TextMode WITH
        VGA_WIDTH <- Columns, VGA_HEIGHT <- Rows, Space <- 0,
        terminal_buffer <- [i \in 0 .. Rows * Columns - 1 |-> char_buffer[<<i \div Columns, i % Columns>>].codepoint],
        cursor <- cursor[1] * Columns + cursor[2],
        shown <- cursor_enabled

\* The framebuffer console keeps the characters and the cursor as the text display
\* does, so the console above can use either: fbcon implements TextMode, and the blink
\* handler and the fonts are invisible to it.
ImplementsTextMode == T!Spec
=============================================================================
