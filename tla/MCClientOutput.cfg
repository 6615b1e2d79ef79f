\* Two clients.
SPECIFICATION FairSpec
CONSTANTS
    Clients = {1, 2}
    Lengths = {3}
    Critical = {3}
    Word = 2
    BUFSIZE = 4
    Sizes = {4}
    Room = 2
    Grabbers = {1}
    Sleepers = {1}
    MemoryFails = TRUE
    MaxMessages = 2
    MaxRequests <- Requesting
    MaxClients = 2
    MaxGone = 1
INVARIANTS NotForgotten BrokenListened
PROPERTIES ImplementsStream Arrives
CHECK_DEADLOCK FALSE
