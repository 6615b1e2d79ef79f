\* The pointer and the keyboard, two clients, a window below the root.
SPECIFICATION Spec
CONSTANTS
    pointer = pointer
    keyboard = keyboard
    a = a
    b = b
    Device = {pointer, keyboard}
    Pointer = pointer
    Keyboard = keyboard
    Client = {a, b}
    NoClient = NoClient
    NoDevice = NoDevice
    Depth = 2
    Owner <- NobodyOwns
    ActiveGrabs <- Actives
    PassiveGrabs <- Passives
    Selections <- Selecting
    Detail = {1}
    Repeats = TRUE
    MaxEvents <- Events
INVARIANTS TypeOK InOrder FrozenByGrab OwnerCanThaw GrabEnds
PROPERTIES Finishes
CHECK_DEADLOCK FALSE
