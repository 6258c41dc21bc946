SPECIFICATION ServicesSpec
CONSTANTS
    ScSlots = {"i1", "i2"}
    ScDomains = {"web"}
    ScServices = {"svc"}
    ScCircs = {"c1", "c2"}
    ScPending = {"p1"}
    ScInflight = {"k1"}
    ScCacheMax = 1
    ScQueueMax = 1
    ScMaxClients = 2
    ScMaxBuilt = 1
    ScMaxFaults = 1
    HsRelays = {"r1"}
    HsClients = {"c1"}
    HsAuth = {}
    HsSlots = 2
    HsRpSlots = 2
    HsCookieMax = 1
    HsCookieTtl = 0
    HsReplaySlots = 2
    HsReplayTtl = 3
    HsPeriod = 1
    HsLifetime = 2
    HsMaxIntroductions = 2
    HsFailTtl = 1
    HsMaxTime = 1
    HsMaxFaults = 1
    HsMaxReplays = 1
    HsMaxPublishes = 1
INVARIANTS ScPointersLive ScIsolated
PROPERTIES ScAnswered HsRecovers
CHECK_DEADLOCK FALSE
