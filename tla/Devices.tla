------------------------------ MODULE Devices -------------------------------
(***************************************************************************)
(* The disks and the display, side by side: the ATA driver with its cache  *)
(* and queues, the console's interpreter of what is written, and the       *)
(* framebuffer console under it.  A behaviour uses one of them             *)
(* ("subject").  The modules instantiated here do the modelling.           *)
(***************************************************************************)
EXTENDS Disk

VARIABLES subject,
          term, writes,
          char_buffer, fb, cursor, cursor_enabled, cursor_blink_state, quick_blink_state,
          slow_blink_state, slow_blink_counter, font, puts, outdated, stray, tick

----------------------------------------------------------------------------
\* Text and layout, renditions, and sequences that are cut off or malformed.
Csi(w) == <<"ESC", "[">> \o w
Texts == {<<"a">>, <<"NL">>, <<"HT">>, <<"BS">>, <<"lead3", "cont", "cont">>, <<"lead2", "cont", "a">>,
          <<"lead2">>, <<"cont">>, <<"1">>, <<"ESC">>}
Commands ==
    {Csi(<<x>>) : x \in {"A", "B", "C", "D", "E", "F", "H", "J", "K", "S", "T", "s", "u", "m"}}
        \cup {Csi(<<"1", "2", "7", x>>) : x \in {"B", "C", "T"}}
        \cup {Csi(<<"3", "G">>), Csi(<<"2", ";", "4", "H">>), Csi(<<"1", "J">>), Csi(<<"2", "J">>),
              Csi(<<"1", "K">>), Csi(<<"2", "K">>), Csi(<<"7", "l">>), Csi(<<"?", "7", "h">>),
              Csi(<<"?", "2", "5", "h">>), Csi(<<"2", "5", "l">>), Csi(<<"4", ";", "6", "m">>),
              Csi(<<"5", ";", "2", "5", "m">>), Csi(<<"3", "1", ";", "1", "0", "7", "m">>),
              Csi(<<>>), Csi(<<"1", "NL">>)}
Written == Texts \cup Commands
C == INSTANCE Screen WITH
    Width <- 4, Height <- 2, TabAlign <- 3, Word <- 128, MaxWrites <- 4, Words <- Written

\* Characters in both fonts, blinking and not; a table with a surrogate pair, a
\* combining sequence and the replacement character, and one that ends within a pair.
Entries == {[codepoint |-> 1, font_mode |-> "bold", font_decor |-> {}],
            [codepoint |-> 1, font_mode |-> "normal", font_decor |-> {"quick"}],
            [codepoint |-> 19, font_mode |-> "normal", font_decor |-> {"slow"}]}
Tables == [normal |-> {<<9, 11, 2, 1, 15, 14, 13, 15, 5>>}, bold |-> {<<19, 15, 8>>}]
F == INSTANCE Fbcon WITH
    GlyphCount <- 2, End <- 15, Separator <- 14, High <- {8, 9}, Low <- {10, 11}, Plane <- 16, Replacement <- 13,
    Columns <- 2, Rows <- 2, Space <- 2, SLOW_BLINK_COUNTER <- 4, MaxPuts <- 2, calls <- puts

ASSUME C!TerminalAssumption

----------------------------------------------------------------------------
screenVars == <<term, writes>>
fbconVars == <<char_buffer, fb, cursor, cursor_enabled, cursor_blink_state, quick_blink_state,
               slow_blink_state, slow_blink_counter, font, puts, outdated, stray, tick>>
AllVars == <<subject, vars, screenVars, fbconVars>>

\* The variables of a part that is not the subject are 0.
NoScreen == term = 0 /\ writes = 0
NoFbcon == /\ char_buffer = 0 /\ fb = 0 /\ cursor = 0 /\ cursor_enabled = 0 /\ cursor_blink_state = 0
           /\ quick_blink_state = 0 /\ slow_blink_state = 0 /\ slow_blink_counter = 0 /\ font = 0
           /\ puts = 0 /\ outdated = 0 /\ stray = 0 /\ tick = 0

AllInit == \/ subject = "disk" /\ Init /\ NoScreen /\ NoFbcon
           \/ subject = "screen" /\ Init /\ C!Init /\ NoFbcon
           \/ subject = "fbcon" /\ Init /\ NoScreen /\ F!fbcon_init

AllNext == \/ subject = "disk" /\ Next /\ UNCHANGED <<subject, screenVars, fbconVars>>
           \/ subject = "screen" /\ C!Next /\ UNCHANGED <<subject, vars, fbconVars>>
           \/ subject = "fbcon" /\ F!Next /\ UNCHANGED <<subject, vars, screenVars>>

AllSpec == AllInit /\ [][AllNext]_AllVars

----------------------------------------------------------------------------
\* The cursor is on the display, and shown, where the next character goes, whatever moves
\* it; the escape buffer is released with the escape mode; the cached decoration is what
\* its flags say; a tab that is erased gives back its column; what cell_buffer holds as
\* blank is blank on the display (the properties of Screen).
ScreenExact == subject = "screen" => /\ C!CursorInside /\ C!EscapeClean /\ C!DecorFresh
                                     /\ C!CursorShown /\ C!BackspaceUndoesTab /\ C!CopiesAgree

\* The framebuffer console implements the text display (TextMode); a character is drawn
\* with a glyph its font file lists it under, the pixels of a cell are those of its
\* character, and each run of the blink handler draws the state of the console, with
\* one cursor bar and the blinking in phase (the properties of Fbcon).
FbconExact ==
    /\ [](subject = "fbcon" => F!GlyphsFound /\ F!InkCurrent /\ F!OneBar /\ F!BlinkPhases)
    /\ (subject = "fbcon" => F!T!vga_text_init)
    /\ [][subject = "fbcon" => F!Redrawn /\ [F!T!Next]_(F!T!vars)]_fbconVars
=============================================================================
