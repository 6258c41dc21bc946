SPECIFICATION LiveSpec
CONSTANTS
    None = None
    Circuits = {c1, c2}
    Links = {x1}
    Outs = {o1}
    MaxChans = 1
    MaxWorkers = 1
    MaxResults = 1
    MaxCookies = 1
    SendsFail = FALSE
    QueueFills = {x1, o1}
    PeerCreates = FALSE
    Repeats = FALSE
    SkCircuits = {c1, c2, c3}
    SkRelayed = {c1, c2}
    SkSlow = {c2}
    SkChannels = {h1, h2}
    SkMuxMax = 2
    SkBurstThreshold = 1
    SkBurstSize = 2
    SkHardLimit = 3
    SkMaxBudget = 1
    SkMaxCells = 2
    SkMaxTicks = 1
    SkMaxFails = 1
INVARIANTS SkAccountsAgree
PROPERTIES MarkedFreed SkDrains
CHECK_DEADLOCK FALSE
