------------------------------ MODULE Keyboard ------------------------------
(***************************************************************************)
(* The keyboard driver, arch/i386/drivers/keyboard.c: the interrupt        *)
(* handler collects the bytes of scan code set 2 in "buffer", key_handler  *)
(* keeps the modifiers and locks and calls the listener with an event.     *)
(*                                                                         *)
(* The keyboard itself is outside the program: it sends the byte sequences *)
(* keyboard_defines.h describes, and "todo" holds, as a history, what was  *)
(* done to its keys and is not reported yet.  A key code is a string; a    *)
(* key that types a character without Shift is named by that character.    *)
(***************************************************************************)
EXTENDS Integers, FiniteSets, Sequences, SequencesExt

CONSTANTS Keys,      \* the keys somebody uses
          MaxWire,   \* bytes on their way to the driver
          MaxRepeats \* key repeats the keyboard sends

VARIABLES buffer,   \* the first buffer_pos bytes of "buffer"
          pressed,  \* the modifier keys the driver believes to be down
          locks,    \* the locks that are on
          event,    \* the event the listener got last
          panic,    \* abort() was called
          held, last, wire, todo, repeats

vars == <<buffer, pressed, locks, event, panic, held, last, wire, todo, repeats>>

EXTENDED == \hE0
RELEASE == \hF0

\* The keys behind the byte 0xE0.
ExtendedKeys ==
    {<<\h11, "RALT">>, <<\h14, "RCTRL">>, <<\h1F, "LSYS">>, <<\h27, "RSYS">>, <<\h2F, "APPS">>,
     <<\h4A, "n/">>, <<\h5A, "nENTER">>, <<\h69, "END">>, <<\h6B, "LEFT">>, <<\h6C, "HOME">>,
     <<\h70, "INSERT">>, <<\h71, "DELETE">>, <<\h72, "DOWN">>, <<\h74, "RIGHT">>, <<\h75, "UP">>,
     <<\h7A, "PGDN">>, <<\h7D, "PGUP">>}

SimpleKeys ==
    {<<\h01, "F9">>, <<\h03, "F5">>, <<\h04, "F3">>, <<\h05, "F1">>, <<\h06, "F2">>, <<\h07, "F12">>,
     <<\h09, "F10">>, <<\h0A, "F8">>, <<\h0B, "F6">>, <<\h0C, "F4">>, <<\h0D, "TAB">>, <<\h0E, "GRAVE">>,
     <<\h11, "LALT">>, <<\h12, "LSHIFT">>, <<\h14, "LCTRL">>, <<\h15, "q">>, <<\h16, "1">>, <<\h1A, "z">>,
     <<\h1B, "s">>, <<\h1C, "a">>, <<\h1D, "w">>, <<\h1E, "2">>, <<\h21, "c">>, <<\h22, "x">>,
     <<\h23, "d">>, <<\h24, "e">>, <<\h25, "4">>, <<\h26, "3">>, <<\h29, " ">>, <<\h2A, "v">>,
     <<\h2B, "f">>, <<\h2C, "t">>, <<\h2D, "r">>, <<\h2E, "5">>, <<\h31, "n">>, <<\h32, "b">>,
     <<\h33, "h">>, <<\h34, "g">>, <<\h35, "y">>, <<\h36, "6">>, <<\h3A, "m">>, <<\h3B, "j">>,
     <<\h3C, "u">>, <<\h3D, "7">>, <<\h3E, "8">>, <<\h41, ",">>, <<\h42, "k">>, <<\h43, "i">>,
     <<\h44, "o">>, <<\h45, "0">>, <<\h46, "9">>, <<\h49, ".">>, <<\h4A, "/">>, <<\h4B, "l">>,
     <<\h4C, ";">>, <<\h4D, "p">>, <<\h4E, "-">>, <<\h52, "APOS">>, <<\h54, "[">>, <<\h55, "=">>,
     <<\h58, "CAPS">>, <<\h59, "RSHIFT">>, <<\h5A, "ENTER">>, <<\h5B, "]">>, <<\h5D, "\\">>, <<\h66, "BACKSPACE">>,
     <<\h69, "n1">>, <<\h6B, "n4">>, <<\h6C, "n7">>, <<\h70, "n0">>, <<\h71, "nDEL">>, <<\h72, "n2">>,
     <<\h73, "n5">>, <<\h74, "n6">>, <<\h75, "n8">>, <<\h76, "ESC">>, <<\h77, "NUM">>, <<\h78, "F11">>,
     <<\h79, "n+">>, <<\h7A, "n3">>, <<\h7B, "n-">>, <<\h7C, "n*">>, <<\h7D, "n9">>, <<\h7E, "SCROLL">>,
     <<\h83, "F7">>}

\* get_key_code: every other byte is an abort().
get_key_code(byte, extended, printscreen) ==
    LET table == IF extended THEN ExtendedKeys ELSE SimpleKeys
    IN  IF printscreen THEN "PRNT"
        ELSE IF \E k \in table : k[1] = byte THEN (CHOOSE k \in table : k[1] = byte)[2]
        ELSE "abort"

----------------------------------------------------------------------------
Letters == {<<"q", "Q">>, <<"w", "W">>, <<"e", "E">>, <<"r", "R">>, <<"t", "T">>, <<"y", "Y">>, <<"u", "U">>,
            <<"i", "I">>, <<"o", "O">>, <<"p", "P">>, <<"a", "A">>, <<"s", "S">>, <<"d", "D">>, <<"f", "F">>,
            <<"g", "G">>, <<"h", "H">>, <<"j", "J">>, <<"k", "K">>, <<"l", "L">>, <<"z", "Z">>, <<"x", "X">>,
            <<"c", "C">>, <<"v", "V">>, <<"b", "B">>, <<"n", "N">>, <<"m", "M">>}

Shifted == {<<"1", "!">>, <<"2", "@">>, <<"3", "#">>, <<"4", "$">>, <<"5", "%">>, <<"6", "^">>, <<"7", "&">>,
            <<"8", "*">>, <<"9", "(">>, <<"0", ")">>, <<"GRAVE", "~">>, <<"-", "_">>, <<"=", "+">>, <<"\\", "|">>,
            <<"[", "{">>, <<"]", "}">>, <<";", ":">>, <<"APOS", "\"">>, <<",", "<">>, <<".", ">">>, <<"/", "?">>}

Numpad == {<<"n0", "0">>, <<"n1", "1">>, <<"n2", "2">>, <<"n3", "3">>, <<"n4", "4">>, <<"n5", "5">>, <<"n6", "6">>,
           <<"n7", "7">>, <<"n8", "8">>, <<"n9", "9">>}

Unchanging == {<<"n*", "*">>, <<"n-", "-">>, <<"n+", "+">>, <<"n/", "/">>, <<"BACKSPACE", "BS">>, <<"TAB", "HT">>,
               <<"DELETE", "DEL">>, <<"ENTER", "NL">>, <<"nENTER", "NL">>, <<" ", " ">>}

Shift(down) == down \cap {"LSHIFT", "RSHIFT"} # {}
UpperCase(down, on) == ("CAPS" \in on) # Shift(down)

\* get_ascii_code: "" is the character 0.
get_ascii_code(keycode, down, on) ==
    LET In(table) == \E k \in table : k[1] = keycode
        Of(table) == CHOOSE k \in table : k[1] = keycode
    IN  CASE In(Shifted) -> Of(Shifted)[IF Shift(down) THEN 2 ELSE 1]
          [] In(Letters) -> Of(Letters)[IF UpperCase(down, on) THEN 2 ELSE 1]
          [] In(Unchanging) -> Of(Unchanging)[2]
          [] In(Numpad) -> IF "NUM" \in on THEN Of(Numpad)[2] ELSE ""
          [] keycode = "nDEL" -> IF "NUM" \in on THEN "," ELSE "DEL"
          [] OTHER -> ""

Locks == {"CAPS", "NUM", "SCROLL"}
Modifiers == {"LSHIFT", "RSHIFT", "LALT", "RALT", "LCTRL", "RCTRL", "LSYS", "RSYS"}

NoEvent == [key_code |-> "none", ascii |-> "", pressed |-> FALSE, mods |-> {}]

\* key_handler and build_keyboard_event, then the call of the listener.
key_handler(byte, release, extended, printscreen) ==
    LET keycode == get_key_code(byte, extended, printscreen)
        down == IF keycode \notin Modifiers THEN pressed
                ELSE IF release THEN pressed \ {keycode} ELSE pressed \cup {keycode}
        on == IF keycode \notin Locks \/ release THEN locks
              ELSE IF keycode \in locks THEN locks \ {keycode} ELSE locks \cup {keycode}
    IN  IF keycode = "abort" THEN panic' = TRUE /\ UNCHANGED <<pressed, locks, event>>
        ELSE /\ pressed' = down /\ locks' = on
             /\ event' = [key_code |-> keycode, ascii |-> get_ascii_code(keycode, down, on),
                          pressed |-> ~release, mods |-> down]
             /\ UNCHANGED panic

----------------------------------------------------------------------------
\* What the keyboard sends (keyboard_defines.h).
PrintPressed == <<EXTENDED, \h12, EXTENDED, \h7C>>
PrintReleased == <<EXTENDED, RELEASE, \h7C, EXTENDED, RELEASE, \h12>>

ByteOf(key, table) == (CHOOSE k \in table : k[2] = key)[1]
IsExtended(key) == \E k \in ExtendedKeys : k[2] = key

Make(key) == IF key = "PRNT" THEN PrintPressed
             ELSE IF IsExtended(key) THEN <<EXTENDED, ByteOf(key, ExtendedKeys)>>
             ELSE <<ByteOf(key, SimpleKeys)>>
Break(key) == IF key = "PRNT" THEN PrintReleased
              ELSE IF IsExtended(key) THEN <<EXTENDED, RELEASE, ByteOf(key, ExtendedKeys)>>
              ELSE <<RELEASE, ByteOf(key, SimpleKeys)>>

Sends(bytes, key, down, now) ==
    /\ Len(wire) + Len(bytes) =< MaxWire
    /\ wire' = wire \o bytes
    /\ todo' = Append(todo, [key_code |-> key, pressed |-> down, mods |-> now \cap Modifiers])
    /\ UNCHANGED <<buffer, pressed, locks, event, panic>>

Press(key) == /\ key \notin held /\ held' = held \cup {key} /\ last' = key
              /\ Sends(Make(key), key, TRUE, held') /\ UNCHANGED repeats
Release(key) == /\ key \in held /\ held' = held \ {key} /\ last' = "none"
                /\ Sends(Break(key), key, FALSE, held') /\ UNCHANGED repeats

\* The key pressed last repeats while it is down.
Repeat == /\ last # "none" /\ repeats < MaxRepeats /\ repeats' = repeats + 1
          /\ Sends(Make(last), last, TRUE, held) /\ UNCHANGED <<held, last>>

----------------------------------------------------------------------------
\* Mutant: the bytes of print screen are not told from a released extended key.
NoPrintRelease(s) == s \in {<<RELEASE>>, <<EXTENDED>>, <<EXTENDED, RELEASE>>} \/ IsStrictPrefix(s, PrintPressed)

\* The bytes after which irq_callback waits for another one.
Unfinished(s) == \/ s = <<RELEASE>>
                 \/ IsStrictPrefix(s, PrintPressed) \/ IsStrictPrefix(s, PrintReleased)

\* A third byte that fits nothing is overwritten by the next one.
Ignored(s) == Len(s) = 3 /\ s[2] # RELEASE
Unrecognized(s) == Len(s) > 3 /\ s \notin {PrintPressed, PrintReleased}

\* The key_handler calls of irq_callback, by what the buffer holds.
Handles(s) == key_handler(Last(s), RELEASE \in ToSet(s), Len(s) > 1 /\ s[1] = EXTENDED,
                          s \in {PrintPressed, PrintReleased})

buffer_dump_and_panic == buffer' = <<>> /\ panic' = TRUE /\ UNCHANGED <<pressed, locks, event>>

irq_callback ==
    /\ wire # <<>> /\ ~panic
    /\ LET s == Append(buffer, Head(wire))
       IN  IF Unfinished(s) THEN buffer' = s /\ UNCHANGED <<pressed, locks, event, panic, todo>>
           ELSE IF Ignored(s) THEN UNCHANGED <<buffer, pressed, locks, event, panic, todo>>
           ELSE IF Unrecognized(s) THEN buffer_dump_and_panic /\ UNCHANGED todo
           ELSE Handles(s) /\ buffer' = <<>> /\ todo' = Tail(todo)
    /\ wire' = Tail(wire)
    /\ UNCHANGED <<held, last, repeats>>

Init == /\ buffer = <<>> /\ pressed = {} /\ locks = {"NUM"} /\ event = NoEvent /\ panic = FALSE
        /\ held = {} /\ last = "none" /\ wire = <<>> /\ todo = <<>> /\ repeats = 0

Next == \/ irq_callback \/ Repeat
        \/ \E key \in Keys : Press(key) \/ Release(key)

Spec == Init /\ [][Next]_vars

----------------------------------------------------------------------------
\* The driver never panics on the keys of its tables, and the buffer never holds
\* more bytes than the six it has room for.
NeverPanics == ~panic /\ Len(buffer) < 6

\* Every press, release and repeat is reported once, in order, as the key it was and
\* with the modifiers that were really down: irq_callback finds the key boundaries in
\* the stream of bytes although sequences are prefixes of one another.
Reported ==
    Len(todo') < Len(todo) =>
        [key_code |-> event'.key_code, pressed |-> event'.pressed, mods |-> event'.mods] = Head(todo)
KeysReported == [][Reported]_vars

\* When every byte was read nothing is left to report, and the driver's modifiers are
\* the keys that are down.
NothingLost == wire = <<>> => todo = <<>> /\ buffer = <<>> /\ pressed = held \cap Modifiers

\* Whatever the locks (looked at when no key is down), every printable ASCII character can be typed with or without
\* Shift, and no two keys share a code (get_key_code and get_ascii_code over all
\* scan codes).
Typed == {get_ascii_code(k[2], down, locks) : k \in SimpleKeys \cup ExtendedKeys, down \in {{}, {"LSHIFT"}}}
EveryCharacterHasAKey ==
    held \cup {last} = {"none"} /\ wire = <<>> =>
    /\ Cardinality(Typed \ {"", "NL", "HT", "BS", "DEL"}) = 95
    /\ \A k, l \in SimpleKeys \cup ExtendedKeys : k[2] = l[2] => k = l
=============================================================================
