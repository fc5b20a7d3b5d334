------------------------------ MODULE MCTerminal ------------------------------
(* Terminal on screens of a few characters.                                *)
EXTENDS Terminal

MCDefault    == "grey"
MCColours    == {"grey", "red"}
MCCursorArgs == {0, 1, 5, 8, 9}
=============================================================================
