SPECIFICATION MouseSpec
CONSTANTS
    nButtons = 4
    Positions = {0, 4}
    EMULATION_WINDOW = 3
    EMULATION_TIMEOUT = 1
    MaxTime = 2
INVARIANT ButtonsKept
