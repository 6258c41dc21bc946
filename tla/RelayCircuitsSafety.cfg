SPECIFICATION SafeSpec
CONSTANTS
    None = None
    Circuits = {c1, c2}
    Links = {x1, x2}
    Outs = {o1}
    MaxChans = 1
    MaxWorkers = 1
    MaxResults = 1
    MaxCookies = 1
    SendsFail = TRUE
    QueueFills = {x1, x2}
    PeerCreates = FALSE
    Repeats = TRUE
SYMMETRY Symmetry
INVARIANTS PendingExact NoDangling TablesExact
CHECK_DEADLOCK FALSE
