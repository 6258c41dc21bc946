SPECIFICATION BothSpec
CONSTANTS
    N = 2
    CircWindow = 3
    StreamWindow = 2
    Increment = 2
    MaxRead = 2
    MaxChunks = 4
    MaxData = 4
INVARIANTS RendezvousSound
PROPERTIES RendezvousMoves
CHECK_DEADLOCK FALSE
