CONSTANTS
    SCREEN_COLS = 2
    SCREEN_ROWS = 3
    Words = 10
    Blank = Blank
    Char = {Blank, x}
    Other = Other
    XyByte <- MCXyByte
    Adrmod = {0, 1}
SPECIFICATION Spec
INVARIANTS TypeOK RowOffset GuardUntouched
PROPERTY ImplementsScreen
