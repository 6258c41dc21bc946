SPECIFICATION NetworkSpec
CONSTANTS
    LnPkCells = 2
    LnCtCells = 1
    LnRekeyRecords = 1
    LnRekeyInterval = 2
    LnSocketFills = TRUE
    LnMaxCells = 2
    LnMaxTime = 3
    CeCircs = {"c1", "c2"}
    CeBridged = {"c2"}
    CeHops = 2
    CePq = {1, 2}
    CeListed = TRUE
    CeKemLen = 3
    CePayload = 2
    CeRelayData = 2
    CeCreateLimit = 2
    CeMaxThreads = 1
    CeMaxEarly = 1
    CeMaxRotations = 1
    CeMaxFaults = 1
    ExCircs = {"c1", "c2"}
    ExIds = {1, 2}
    ExSlots = 2
    ExFds = 2
    ExMapMax = 2
    ExHosts <- ExitHosts
    ExLiterals = {"a1", "p"}
    ExInternal = {"lan"}
    ExPrivate = {"p"}
    ExPolicy <- ExitPolicy
    ExPorts = {25, 80}
    ExHash <- ExitHash
    ExCacheSize = 1
    ExTtl = 1
    ExCerts <- ExitCerts
    ExProviders = 1
    ExMaxTime = 1
    ExMaxCells = 2
    TrRegistered <- Registered
    TrWire = 8
    TrBuf = 4
    TrBatch = 3
    TrRekey = 2
    TrMaxCells = 4
    TrMaxFaults = 1
    RgDas = {1}
    RgThreads = {"t1"}
    RgWindow = 1
    RgSlack = 0
    RgSlots = 1
    RgProbes = 1
    RgStuck = 1
    RgKeyLife = 2
    RgMaxTime = 3
    RgMaxSolved = 1
    RgMaxCalls = 3
    DaNodes = {"d1", "d2"}
    DaIds = {1, 2}
    DaAddrs = {"a"}
    DaBandwidths = {1}
    DaBanned <- BannedAtSecond
    DaStale = 1
    DaProbeFails = 1
    DaMaxRelays = 2
    DaMaxTime = 2
    DaMaxPublish = 1
    DaMaxTasks = 2
    DaMaxNet = 1
INVARIANTS LinkInStep TrInStep CeKeysAgree ExCacheExact ExMapLive RgOneShot DaAcceptedBuilt
CHECK_DEADLOCK FALSE
