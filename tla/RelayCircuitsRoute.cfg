SPECIFICATION SafeSpec
CONSTANTS
    None = None
    Circuits = {c1, c2}
    Links = {x1}
    Outs = {o1, o2}
    MaxChans = 2
    MaxWorkers = 2
    MaxResults = 1
    MaxCookies = 1
    SendsFail = FALSE
    QueueFills = {}
    PeerCreates = FALSE
    Repeats = FALSE
INVARIANTS RouteAgrees
CHECK_DEADLOCK FALSE
