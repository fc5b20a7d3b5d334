------------------------------- MODULE Terminal -------------------------------
(***************************************************************************)
(* The framebuffer terminal of kernel/arch/x86_64/tty.c (the boot loader's *)
(* uefi_tty.c is the same code): the cursor and where characters are drawn.*)
(* terminal_write handles its characters one after the other; WriteChar is *)
(* one turn of its loop.                                                   *)
(***************************************************************************)
EXTENDS Integers

CONSTANTS
    ScreenWidth, ScreenHeight,   \* pixels of the graphics mode
    CharWidth, CharHeight,       \* size of a glyph in the PSF font
    Colours, DefaultColour,      \* foreground and background; white on black
    CursorArgs                   \* coordinates passed to terminal_cursor

ASSUME ScreenAssumption ==
    /\ ScreenWidth \in Nat /\ ScreenHeight \in Nat
    /\ CharWidth \in Nat \ {0} /\ CharHeight \in Nat \ {0}
    /\ ScreenWidth >= CharWidth /\ ScreenHeight >= CharHeight
    /\ CursorArgs \subseteq Nat
    /\ DefaultColour \in Colours

TERMINAL_WIDTH  == ScreenWidth \div CharWidth
TERMINAL_HEIGHT == ScreenHeight \div CharHeight

VARIABLES
    column, row,       \* terminal_column, terminal_row
    colour,            \* fg_colour and bg_colour
    drawn              \* top left pixels and colours of the last glyph, if any

vars == <<column, row, colour, drawn>>

(* terminal_init with a font whose magic is right.  With another it returns *)
(* before it sets the size, and early_kmain goes on all the same           *)
(* (kernel.c:16-22); that case is left out.                                *)
Init ==
    /\ column = 0 /\ row = 0
    /\ colour = DefaultColour
    /\ drawn = {}

RowAfter == IF row + 1 = TERMINAL_HEIGHT THEN 0 ELSE row + 1

\* Mutant: the column is compared before it is advanced.
AdvanceToLate(col) ==
    IF column = TERMINAL_WIDTH
    THEN column' = 0 /\ row' = RowAfter
    ELSE column' = col /\ UNCHANGED row

\* The column moves to col; at the end of the line it wraps.
AdvanceTo(col) ==
    IF col = TERMINAL_WIDTH
    THEN column' = 0 /\ row' = RowAfter
    ELSE column' = col /\ UNCHANGED row

\* Mutant: column and row are swapped.
PutEntryAtSwapped(col, r) ==
    drawn' = {[x |-> r * 8, y |-> col * 16, colour |-> colour]}

(* terminal_putentryat: glyph cells are 8 by 16 whatever the font says *)
PutEntryAt(col, r) ==
    drawn' = {[x |-> col * 8, y |-> r * 16, colour |-> colour]}

(* terminal_putchar *)
PutChar ==
    /\ PutEntryAt(column, row)
    /\ AdvanceTo(column + 1)
    /\ UNCHANGED colour

(* '\n' in terminal_write, and terminal_newline *)
NewLine ==
    /\ row' = RowAfter
    /\ column' = IF row + 1 = TERMINAL_HEIGHT THEN 0 ELSE column
    /\ UNCHANGED <<colour, drawn>>

(* '\r' *)
CarriageReturn ==
    /\ column' = 0
    /\ UNCHANGED <<row, colour, drawn>>

(* '\t': to the next multiple of four *)
Tab ==
    /\ AdvanceTo(column + 4 - (column % 4))
    /\ UNCHANGED <<colour, drawn>>

\* Any other character is drawn if it is between 0x20 and 0xDB, else dropped.
WriteChar == NewLine \/ CarriageReturn \/ Tab \/ PutChar

(* terminal_cursor *)
Cursor(x, y) ==
    /\ column' = IF x >= TERMINAL_WIDTH THEN 0 ELSE x
    /\ row' = IF y >= TERMINAL_HEIGHT THEN 0 ELSE y
    /\ UNCHANGED <<colour, drawn>>

(* terminal_setcolour *)
SetColour(c) ==
    /\ colour' = c
    /\ UNCHANGED <<column, row, drawn>>

Next ==
    \/ WriteChar
    \/ \E x, y \in CursorArgs : Cursor(x, y)
    \/ \E c \in Colours : SetColour(c)

Spec == Init /\ [][Next]_vars

-----------------------------------------------------------------------------
TypeOK ==
    /\ column \in Nat /\ row \in Nat
    /\ colour \in Colours
    /\ drawn \subseteq [x : Nat, y : Nat, colour : Colours]

(* "defines the number of characters across the terminal width" and "the   *)
(* number of lines" (tty.c:20-21): the cursor stays within them, although  *)
(* the wraps test for equality only.                                       *)
CursorOnScreen == column < TERMINAL_WIDTH /\ row < TERMINAL_HEIGHT

(* A glyph is drawn inside the framebuffer and inside its line of pixels   *)
(* (tty.c:92-103 computes the address without a check).                    *)
DrawnOnScreen ==
    \A g \in drawn : /\ g.x + CharWidth =< ScreenWidth
                     /\ g.y + CharHeight =< ScreenHeight
=============================================================================
