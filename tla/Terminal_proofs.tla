--------------------------- MODULE Terminal_proofs ---------------------------
(***************************************************************************)
(* For every screen, the terminal draws inside the framebuffer if a line   *)
(* has a multiple of four characters and glyphs are 8 by 16.               *)
(***************************************************************************)
EXTENDS Terminal, TLAPS

IInv == TypeOK /\ CursorOnScreen /\ DrawnOnScreen

(* The terminal has at least one line and one column. *)
LEMMA Sizes ==
    /\ TERMINAL_WIDTH \in Nat /\ TERMINAL_HEIGHT \in Nat
    /\ TERMINAL_WIDTH > 0 /\ TERMINAL_HEIGHT > 0
BY ScreenAssumption, Z3T(60) DEF TERMINAL_WIDTH, TERMINAL_HEIGHT

(* terminal_init leaves the cursor in the top left corner. *)
LEMMA InvInit == Init => IInv
BY Sizes, ScreenAssumption DEF Init, IInv, TypeOK, CursorOnScreen, DrawnOnScreen

(* The wrap tests of tty.c keep the row on the screen. *)
LEMMA RowAfterOnScreen ==
    ASSUME row \in Nat, row < TERMINAL_HEIGHT
    PROVE  RowAfter \in Nat /\ RowAfter < TERMINAL_HEIGHT
BY Sizes DEF RowAfter

(* The cursor wraps correctly if it advances at most to the end of a line. *)
LEMMA AdvanceOnScreen ==
    ASSUME column \in Nat, row \in Nat, CursorOnScreen,
           NEW col \in Nat, col =< TERMINAL_WIDTH, AdvanceTo(col)
    PROVE  column' \in Nat /\ row' \in Nat /\ CursorOnScreen'
BY Sizes, RowAfterOnScreen DEF AdvanceTo, CursorOnScreen, TERMINAL_WIDTH, TERMINAL_HEIGHT

(* Every step keeps the cursor and the glyphs on the screen. *)
LEMMA InvNext ==
    ASSUME TERMINAL_WIDTH % 4 = 0, CharWidth = 8, CharHeight = 16
    PROVE  IInv /\ [Next]_vars => IInv'
<1> SUFFICES ASSUME IInv, [Next]_vars PROVE IInv'
  OBVIOUS
<1>1. column \in Nat /\ row \in Nat /\ colour \in Colours /\ CursorOnScreen
  BY DEF IInv, TypeOK
<1>2. CASE NewLine
  <2>1. row' \in Nat /\ column' \in Nat /\ CursorOnScreen'
    BY <1>1, <1>2, RowAfterOnScreen, Sizes
       DEF NewLine, CursorOnScreen, TERMINAL_WIDTH, TERMINAL_HEIGHT
  <2> QED
    BY <1>2, <2>1 DEF NewLine, IInv, TypeOK, DrawnOnScreen
<1>3. CASE CarriageReturn
  BY <1>3, Sizes DEF CarriageReturn, IInv, TypeOK, CursorOnScreen, DrawnOnScreen,
                     TERMINAL_WIDTH, TERMINAL_HEIGHT
<1>4. CASE Tab
  <2>1. column + 4 - (column % 4) \in Nat /\ column + 4 - (column % 4) =< TERMINAL_WIDTH
    BY <1>1, Sizes DEF CursorOnScreen
  <2>2. row' \in Nat /\ column' \in Nat /\ CursorOnScreen'
    BY <1>1, <1>4, <2>1, AdvanceOnScreen DEF Tab
  <2> QED
    BY <1>4, <2>2 DEF Tab, IInv, TypeOK, DrawnOnScreen
<1>5. CASE PutChar
  <2>1. column + 1 \in Nat /\ column + 1 =< TERMINAL_WIDTH
    BY <1>1, Sizes DEF CursorOnScreen
  <2>2. row' \in Nat /\ column' \in Nat /\ CursorOnScreen'
    BY <1>1, <1>5, <2>1, AdvanceOnScreen DEF PutChar
  <2>3. column * 8 + 8 =< ScreenWidth /\ row * 16 + 16 =< ScreenHeight
    BY <1>1, ScreenAssumption DEF CursorOnScreen, TERMINAL_WIDTH, TERMINAL_HEIGHT
  <2>4. drawn' = {[x |-> column * 8, y |-> row * 16, colour |-> colour]} /\ colour' = colour
    BY <1>5 DEF PutChar, PutEntryAt
  <2>5. TypeOK'
    BY <1>1, <2>2, <2>4 DEF TypeOK
  <2>6. DrawnOnScreen'
    BY <2>3, <2>4 DEF DrawnOnScreen
  <2> QED
    BY <2>2, <2>5, <2>6 DEF IInv
<1>6. CASE \E x, y \in CursorArgs : Cursor(x, y)
  BY <1>6, Sizes, ScreenAssumption DEF Cursor, IInv, TypeOK, CursorOnScreen, DrawnOnScreen,
                     TERMINAL_WIDTH, TERMINAL_HEIGHT
<1>7. CASE \E c \in Colours : SetColour(c)
  BY <1>7 DEF SetColour, IInv, TypeOK, CursorOnScreen, DrawnOnScreen
<1>8. CASE UNCHANGED vars
  BY <1>8 DEF vars, IInv, TypeOK, CursorOnScreen, DrawnOnScreen
<1> QED
  BY <1>2, <1>3, <1>4, <1>5, <1>6, <1>7, <1>8 DEF Next, WriteChar

(* terminal_write, terminal_putchar and terminal_cursor, in any order,     *)
(* keep the cursor on the screen and draw inside the framebuffer.          *)
THEOREM TerminalSafe ==
    ASSUME TERMINAL_WIDTH % 4 = 0, CharWidth = 8, CharHeight = 16
    PROVE  Spec => [](TypeOK /\ CursorOnScreen /\ DrawnOnScreen)
<1>1. IInv => TypeOK /\ CursorOnScreen /\ DrawnOnScreen
  BY DEF IInv
<1> QED
  BY <1>1, InvInit, InvNext, PTL DEF Spec
=============================================================================
