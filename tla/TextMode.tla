------------------------------ MODULE TextMode ------------------------------
(***************************************************************************)
(* The VGA text display, drivers/vga/text_mode.c: the characters of the    *)
(* video memory in the order of their addresses, and the hardware cursor.  *)
(* It is also what the console expects of either display (terminal.c calls *)
(* the same operations of the one it detected).                            *)
(***************************************************************************)
EXTENDS Integers

CONSTANTS VGA_WIDTH, VGA_HEIGHT, Char, Space

VARIABLES terminal_buffer, cursor, shown

vars == <<terminal_buffer, cursor, shown>>

Cells == 0 .. VGA_WIDTH * VGA_HEIGHT - 1
Xs == 0 .. VGA_WIDTH - 1
Ys == 0 .. VGA_HEIGHT - 1

vga_text_init == /\ terminal_buffer = [i \in Cells |-> Space]
                 /\ cursor = 0
                 /\ shown = FALSE

vga_text_putentryat(c, row, column) ==
    /\ terminal_buffer' = [terminal_buffer EXCEPT ![row * VGA_WIDTH + column] = c]
    /\ UNCHANGED <<cursor, shown>>

vga_text_enable_cursor == shown' = TRUE /\ UNCHANGED <<terminal_buffer, cursor>>

vga_text_disable_cursor == shown' = FALSE /\ UNCHANGED <<terminal_buffer, cursor>>

vga_text_set_cursor_position(row, column) ==
    cursor' = row * VGA_WIDTH + column /\ UNCHANGED <<terminal_buffer, shown>>

vga_text_scroll_up ==
    /\ terminal_buffer' = [i \in Cells |-> IF i + VGA_WIDTH \in Cells THEN terminal_buffer[i + VGA_WIDTH]
                                           ELSE Space]
    /\ UNCHANGED <<cursor, shown>>

vga_text_scroll_down ==
    /\ terminal_buffer' = [i \in Cells |-> IF i >= VGA_WIDTH THEN terminal_buffer[i - VGA_WIDTH] ELSE Space]
    /\ UNCHANGED <<cursor, shown>>

Next == \/ \E c \in Char, y \in Ys, x \in Xs : vga_text_putentryat(c, y, x)
        \/ \E y \in Ys, x \in Xs : vga_text_set_cursor_position(y, x)
        \/ vga_text_enable_cursor
        \/ vga_text_disable_cursor
        \/ vga_text_scroll_up
        \/ vga_text_scroll_down

Spec == vga_text_init /\ [][Next]_vars
=============================================================================
