SPECIFICATION ClientSpec
CONSTANTS
    CbCircs = {"c1", "c2", "c3"}
    CbConns = {"n1", "n2"}
    CbChans = {"h1", "h2"}
    CbTimers = {"t1", "t2"}
    CbHops = 2
    CbMuxMax = 2
    CbMaxConcurrent = 2
    CbPreemptiveMin = 2
    CbPoolSize = 2
    CbWedgeThreshold = 2
    CbMaxBuilds = 3
    CbMaxFaults = 2
    CbMaxClients = 1
    GuRelays = {"g1", "g2", "e"}
    GuFlags <- GuardFlags
    GuSelf = "self"
    GuEntryNode = "self"
    GuSampledMax = 2
    GuConfirmedMax = 2
    GuPrimaryMax = 2
    GuMinCircs = 1
    GuScaleAt = 2
    GuL2Count = 1
    GuL3Count = 1
    GuL2Rotate = 2
    GuL3Rotate = 1
    GuMaxTime = 1
    GuMaxBuilds = 2
    GuMaxUses = 1
    GuMaxChurn = 2
    CfCircs = {"c1", "c2"}
    CfMaxLegs = 2
    CfBuf = 3
    CfTimeout = 1
    CfRtts = {2}
    CfMaxSeq = 4
    CfMaxTime = 2
    CfMaxFaults = 1
    FgIds = {1, 2}
    FgLens = {1, 3}
    FgMaxLen = 3
    FgSlots = 1
    FgTimeout = 1
    FgMaxMsgs = 3
    FgMaxTime = 2
    NpMoor = {"x", "y", "z", "w"}
    NpSpace = 5
    NpSkipped = {2}
    NpTries = 5
    NpMapMax = 3
    NpLife = 1
    NpTtl = 1
    NpMaxTime = 2
    CrNames = {"p", "q"}
    CrMaxAsked = 3
    CrMaxData = 2
    DsConns = {"k1", "k2"}
    DsQuestions = {"web", "app"}
    DsTxids = {1, 2}
    DsReplies <- Replies
    DsSize = 2
    DsTtlMin = 1
    DsTtlMax = 2
    DsTtlNx = 1
    DsMaxTime = 1
    DsMaxClients = 3
    HsRelays = {"r1"}
    HsClients = {"c1", "c2"}
    HsAuth = {}
    HsSlots = 1
    HsRpSlots = 2
    HsCookieMax = 1
    HsCookieTtl = 0
    HsReplaySlots = 1
    HsReplayTtl = 0
    HsPeriod = 1
    HsLifetime = 2
    HsMaxIntroductions = 2
    HsFailTtl = 1
    HsMaxTime = 1
    HsMaxFaults = 1
    HsMaxReplays = 1
    HsMaxPublishes = 0
    HkMaxGen = 4
    HkMaxFails = 1
    DhN = 3
    DhRunning = {1, 2, 3}
    DhReplicas = 2
    DhSmallNet = 3
    DhAddrs = {2, 5}
    DhOld = 1
    DhLengths = {2}
    DhMaxData = 3
    DhMaxStored = 2
    DhTtl = 0
    DhRateSlots = 1
    DhRateInterval = 1
    DhEvictAfter = 0
    DhPeriod = 1
    DhLevels = 2
    DhPrgs <- Prgs
    DhSeeds <- SeedPairs
    DhMasks = {{1, 2}}
    DhMaxPublishes = 1
    DhMaxLookups = 1
    DhMaxFaults = 1
    DhMaxTime = 1
INVARIANTS CbNoDangling CbRefsExact GuListsAgree GuPathsSound CfInOrder FgReassembled
           NpOneToOne DsOwnAnswer HsRendezvousOnce HkKeysSound DhLookupExact
CHECK_DEADLOCK FALSE
