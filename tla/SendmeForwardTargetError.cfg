SPECIFICATION SafeSpec
CONSTANTS
    Streams = {s1, s2}
    CircWindow = 4
    StreamWindow = 2
    Increment = 2
    AuthMax = 2
    MaxData = 5
    MaxOther = 0
    MaxTargetErrors = 1
SYMMETRY StreamSymmetry
INVARIANTS
    SendmeAuthInSync
CHECK_DEADLOCK FALSE
