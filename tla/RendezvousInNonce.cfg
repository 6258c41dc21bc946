SPECIFICATION SafeSpec
CONSTANTS
    N = 2
    CircWindow = 4
    StreamWindow = 2
    Increment = 2
    MaxRead = 1
    MaxChunks = 4
INVARIANTS NoncesInStep
CHECK_DEADLOCK FALSE
