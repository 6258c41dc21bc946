SPECIFICATION SafeSpec
CONSTANTS
    Streams = {s1, s2}
    CircWindow = 4
    StreamWindow = 2
    Increment = 2
    AuthMax = 2
    MaxData = 5
    MaxOther = 1
    MaxTargetErrors = 1
SYMMETRY StreamSymmetry
INVARIANTS TypeOK WindowConserved StreamWindowConserved NothingRefused
PROPERTIES RefinesCreditWindow
CHECK_DEADLOCK FALSE
