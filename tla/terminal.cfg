SPECIFICATION Spec
CONSTANTS
    ScreenWidth = 67
    ScreenHeight = 50
    CharWidth = 8
    CharHeight = 16
    Colours <- MCColours
    DefaultColour <- MCDefault
    CursorArgs <- MCCursorArgs
INVARIANTS
    CursorOnScreen
    DrawnOnScreen
