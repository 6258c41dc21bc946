SPECIFICATION SafeSpec
CONSTANTS
    CircWindow = 4
    StreamWindow = 4
    Increment = 2
    MaxRead = 2
    PauseAbove = 2
    ResumeBelow = 1
    MaxCells = 9
    MaxOther = 0
    MaxStalls = 1
    MaxFull = 0
INVARIANTS DeliveredInOrder
CHECK_DEADLOCK FALSE
