SPECIFICATION FlowSpec
CONSTANTS
    Streams = {s1, s2}
    CircWindow = 3
    StreamWindow = 2
    Increment = 2
    AuthMax = 2
    MaxData = 3
    MaxWriteFailures = 1
    PuCirc = 3
    PuStream = 3
    PuIncrement = 2
    PuRead = 2
    PuPause = 1
    PuResume = 1
    PuCells = 7
    PuOther = 2
    PuStalls = 1
    PuFull = 1
INVARIANTS BackwardSound PumpSound
PROPERTIES StreamsMove AllSettled
CHECK_DEADLOCK FALSE
