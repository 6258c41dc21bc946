---------------------------- MODULE HiddenService ----------------------------
(***************************************************************************)
(* Introduction and rendezvous of one hidden service (hidden_service.c and *)
(* the hs_ timers of main.c), its introduction and rendezvous relays       *)
(* (relay.c), the descriptor store of a directory authority and clients    *)
(* that connect (hidden_service.c, directory.c).                           *)
(*                                                                         *)
(* The service's main thread and its republish thread, the relays and the  *)
(* clients' worker threads interleave.  A key or proof-of-work seed is the *)
(* number of the period it was made in; a rendezvous cookie is the client  *)
(* that drew it (one attempt per client); an introduction circuit has its  *)
(* own link, and is named by the slot of the service it is in.             *)
(***************************************************************************)
EXTENDS Integers, Sequences, FiniteSets

CONSTANTS
    HsRelays,         \* relays that can be introduction points
    HsClients,
    HsAuth,           \* authorised clients; {} without client authorisation
    HsSlots,          \* desired_intro_points
    HsRpSlots,        \* rp_circuits[8]
    HsCookieMax,      \* MAX_RP_COOKIES
    HsCookieTtl,      \* RP_COOKIE_TTL_SECS, in ticks
    HsReplaySlots,    \* INTRO2_REPLAY_SLOTS
    HsReplayTtl,
    HsPeriod,         \* MOOR_TIME_PERIOD_SECS, in ticks
    HsLifetime,       \* MOOR_HS_INTRO_MAX_LIFETIME_SEC
    HsMaxIntroductions,
    HsFailTtl,        \* MOOR_HS_INTRO_FAIL_TTL_SEC
    HsMaxTime, HsMaxFaults, HsMaxReplays, HsMaxPublishes     \* bounds

ASSUME HsAssumption ==
    /\ IsFiniteSet(HsClients) /\ "nobody" \notin HsClients
    /\ {HsRpSlots, HsReplaySlots, HsReplayTtl} \subseteq Nat

VARIABLES
    hs,           \* the service: [slots, flag, period, seed, rev, rp]; seed 0 is PoW off
    hsCtx,        \* slots whose circuit is in g_hs_intro_ctxs and read by hs_intro_read_cb
    hsRelay,      \* slot -> what its relay keeps of ESTABLISH_INTRO, or HsNull
    hsStore,      \* descriptor at the authority
    hsThread,     \* descriptor the republish thread is sending, or HsNoDesc
    hsSeen,       \* the replay ring, oldest first
    hsTaken,      \* INTRODUCE2 accepted so far; numbers the rendezvous circuits (history)
    hsNet,        \* INTRODUCE2 on its way: <<slot, cookie>>
    hsCookies,    \* g_rp_cookies at the rendezvous relay: [cookie, at]
    hsJoin,       \* circuits joined there: <<client, number of the service's circuit>>
    hsClient,     \* [HsClients -> [pc, desc, intro]]
    hsFailed,     \* the clients' introduction failure cache: [relay, until]
    hsRevSeen,    \* the clients' anti-replay revision
    hsNow,
    hsBudget      \* [faults, replays, publishes] still allowed

hsClients == <<hsClient, hsFailed, hsRevSeen>>
hsReplay == <<hsSeen, hsTaken>>
hsRendezvous == <<hsCookies, hsJoin>>
hsVars == <<hs, hsCtx, hsRelay, hsStore, hsThread, hsReplay, hsNet, hsRendezvous,
            hsClients, hsNow, hsBudget>>

HsNull == [relay |-> "none"]
HsNoDesc == [rev |-> 0, key |-> 0, tp |-> 0, seed |-> 0, intros |-> {}]
HsNobody == "nobody"
HsNoRp == [cookie |-> HsNobody, at |-> 0, nth |-> 0]
HsSlotSet == 1..HsSlots
HsRpSet == 1..HsRpSlots
HsPeriodNow == 1 + hsNow \div HsPeriod
HsSpend(f) == hsBudget[f] > 0 /\ hsBudget' = [hsBudget EXCEPT ![f] = @ - 1]

-----------------------------------------------------------------------------
(* Introduction points of the service. *)

HsMissing(s) == {i \in HsSlotSet : s.slots[i] = HsNull}

\* moor_hs_establish_intro over the NULL slots; `where' maps the slots whose
\* circuit, ESTABLISH_INTRO and INTRO_ESTABLISHED succeed to their relay.
HsEstablish(s, where) ==
    [s EXCEPT !.slots = [i \in HsSlotSet |->
        IF i \in DOMAIN where THEN [relay |-> where[i], at |-> hsNow, n |-> 0] ELSE @[i]]]

\* What the relay of slot i keeps after relay_handle_establish_intro_v2: the
\* blinded key and the seed in the cell.
HsRelayKeeps(s, where) ==
    [i \in HsSlotSet |-> IF i \in DOMAIN where
                         THEN [relay |-> where[i], key |-> s.period, seed |-> s.seed]
                         ELSE hsRelay[i]]

HsNextRev(s) == IF s.rev < hsNow THEN hsNow ELSE s.rev + 1

\* moor_hs_publish_descriptor: the live slots; nothing is sent without one.
\* It is sealed with a key of the clock's period tp, the blinded key is the
\* one of the last rotation.
HsDescriptor(s) ==
    [rev |-> s.rev, key |-> s.period, tp |-> HsPeriodNow, seed |-> s.seed,
     intros |-> {s.slots[i].relay : i \in HsSlotSet \ HsMissing(s)}]
HsCanPublish(s) == HsMissing(s) # HsSlotSet

\* moor_hs_check_intro_rotation that forgets the slots it did not rotate.
MutHsRotated(s) ==
    LET out == {i \in HsSlotSet \ HsMissing(s) :
                   hsNow - s.slots[i].at >= HsLifetime \/ s.slots[i].n >= HsMaxIntroductions}
    IN  [s EXCEPT !.slots = [i \in HsSlotSet |-> IF i \in out THEN HsNull ELSE @[i]],
                  !.flag = @ \/ out # {}]

\* moor_hs_check_intro_rotation: old or worn circuits are destroyed; a slot
\* without circuit asks for re-establishment at the next tick.
HsRotated(s) ==
    LET out  == {i \in HsSlotSet \ HsMissing(s) :
                   hsNow - s.slots[i].at >= HsLifetime \/ s.slots[i].n >= HsMaxIntroductions}
        left == [s EXCEPT !.slots = [i \in HsSlotSet |-> IF i \in out THEN HsNull ELSE @[i]]]
    IN  [left EXCEPT !.flag = @ \/ HsMissing(left) # {}]

\* hs_intro_rotation_cb, every 10 s.  With the flag: clear it, purge the read
\* contexts, establish, publish.  Then the rotation check (its circuits are
\* destroyed, the relays drop theirs), then every circuit that has no read
\* context gets one.
HsIntroTimer(where) ==
    /\ DOMAIN where \subseteq IF hs.flag THEN HsMissing(hs) ELSE {}
    /\ IF hs.flag /\ DOMAIN where # HsMissing(hs) THEN HsSpend("faults") ELSE UNCHANGED hsBudget
    /\ LET built == HsEstablish([hs EXCEPT !.flag = FALSE,
                                           !.rev = IF hs.flag THEN HsNextRev(hs) ELSE @], where)
           done  == HsRotated(IF hs.flag THEN built ELSE hs)
           gone  == HsMissing(done)
       IN  /\ hs' = done
           /\ hsStore' = IF hs.flag /\ HsCanPublish(built) THEN HsDescriptor(built) ELSE hsStore
           /\ hsRelay' = [i \in HsSlotSet |-> IF i \in gone THEN HsNull
                                              ELSE HsRelayKeeps(hs, where)[i]]
           /\ hsCtx' = (IF hs.flag THEN {} ELSE hsCtx \ gone) \cup (HsSlotSet \ gone)
           /\ hsNet' = {m \in hsNet : m[1] \notin gone}
    /\ UNCHANGED <<hsThread, hsReplay, hsRendezvous, hsClients, hsNow>>

\* The relay of slot i loses the circuit (its link, its process or an idle
\* recycle); the service may never be told.
HsRelayLoses(i) ==
    /\ hsRelay[i] # HsNull
    /\ HsSpend("faults")
    /\ hsRelay' = [hsRelay EXCEPT ![i] = HsNull]
    /\ hsNet' = {m \in hsNet : m[1] # i}
    /\ UNCHANGED <<hs, hsCtx, hsStore, hsThread, hsReplay, hsRendezvous, hsClients, hsNow>>

\* hs_intro_read_cb with DESTROY (the link stays) or a lost link (its context
\* is emptied): the circuit is freed, the slot cleared, the flag set.
HsIntroLost(i, lostLink) ==
    /\ i \in hsCtx
    /\ hs.slots[i] # HsNull
    /\ hsRelay[i] = HsNull
    /\ hs' = [hs EXCEPT !.slots[i] = HsNull, !.flag = TRUE]
    /\ hsCtx' = IF lostLink THEN hsCtx \ {i} ELSE hsCtx
    /\ UNCHANGED <<hsRelay, hsStore, hsThread, hsReplay, hsNet, hsRendezvous, hsClients,
                   hsNow, hsBudget>>

\* hs_blinded_key_rotation_cb.
HsKeyRotation ==
    /\ hs.period # HsPeriodNow
    /\ hs' = [hs EXCEPT !.period = HsPeriodNow]
    /\ UNCHANGED <<hsCtx, hsRelay, hsStore, hsThread, hsReplay, hsNet, hsRendezvous, hsClients,
                   hsNow, hsBudget>>

\* hs_pow_seed_rotation_cb: a new seed and a higher revision.
HsSeedRotation ==
    /\ hs.seed # 0
    /\ hs.seed <= hsNow
    /\ hs' = [hs EXCEPT !.seed = hsNow + 1, !.rev = @ + 1]
    /\ UNCHANGED <<hsCtx, hsRelay, hsStore, hsThread, hsReplay, hsNet, hsRendezvous, hsClients,
                   hsNow, hsBudget>>

\* hs_desc_republish_thread: the descriptor is built from the state of the
\* main thread and sent to the authority later.
HsRepublish ==
    /\ hsThread = HsNoDesc
    /\ HsSpend("publishes")
    /\ hs' = [hs EXCEPT !.rev = HsNextRev(hs)]
    /\ hsThread' = IF HsCanPublish(hs) THEN HsDescriptor([hs EXCEPT !.rev = HsNextRev(hs)])
                   ELSE HsNoDesc
    /\ UNCHANGED <<hsCtx, hsRelay, hsStore, hsReplay, hsNet, hsRendezvous, hsClients, hsNow>>

HsRepublished ==
    /\ hsThread # HsNoDesc
    /\ hsStore' = hsThread
    /\ hsThread' = HsNoDesc
    /\ UNCHANGED <<hs, hsCtx, hsRelay, hsReplay, hsNet, hsRendezvous, hsClients, hsNow, hsBudget>>

\* The service restarts: moor_hs_init establishes and publishes with the
\* saved revision and a new seed; the relays drop its circuits, a joined one
\* later (HsJoinDrops).
HsRestart(where) ==
    /\ HsSpend("faults")
    /\ DOMAIN where # {}
    /\ LET fresh == [hs EXCEPT !.slots = [i \in HsSlotSet |-> HsNull], !.flag = FALSE,
                               !.period = HsPeriodNow, !.seed = IF @ = 0 THEN 0 ELSE hsNow + 1,
                               !.rev = HsNextRev(hs), !.rp = [r \in HsRpSet |-> HsNoRp]]
           built == HsEstablish(fresh, where)
       IN  /\ hs' = built
           /\ hsStore' = HsDescriptor(built)
           /\ hsRelay' = [i \in HsSlotSet |-> IF i \in DOMAIN where
                                              THEN HsRelayKeeps(fresh, where)[i] ELSE HsNull]
    /\ hsCtx' = DOMAIN where
    /\ hsThread' = HsNoDesc
    /\ hsSeen' = <<>>
    /\ hsNet' = {}
    /\ UNCHANGED <<hsTaken, hsRendezvous, hsClients, hsNow>>

-----------------------------------------------------------------------------
(* Clients. *)

HsSet(c, f) == hsClient' = [hsClient EXCEPT ![c] = f]

\* The copy in the hash table: found under the client's current period and
\* opened with that period's key; the copy kept for the period before is
\* sealed with the wrong key and never opens.
HsOpensDht(c) == hsStore.tp = HsPeriodNow /\ (HsAuth = {} \/ c \in HsAuth)

\* The copy at the authority: one period around the clock opens it, a
\* revision below the one seen before is refused, and the layer for
\* authorised clients is not removed.
HsOpensDa == /\ hsStore.tp \in HsPeriodNow - 1 .. HsPeriodNow + 1
             /\ hsStore.rev >= hsRevSeen
             /\ HsAuth = {}

\* RELAY_ESTABLISH_RENDEZVOUS: expired cookies go first.
HsFreshCookies == {k \in hsCookies : hsNow - k.at <= HsCookieTtl}
HsCookieStored == Cardinality(HsFreshCookies) < HsCookieMax

\* ESTABLISH_RENDEZVOUS and the wait for its answer; the relay answers
\* nothing when its table is full.
HsAwaitEstablished(c) ==
    IF HsCookieStored
    THEN /\ hsCookies' = HsFreshCookies \cup {[cookie |-> c, at |-> hsNow]}
         /\ HsSet(c, [hsClient[c] EXCEPT !.pc = "rp", !.desc = hsStore])
    ELSE /\ hsCookies' = HsFreshCookies
         /\ HsSet(c, [hsClient[c] EXCEPT !.pc = "failed"])

\* moor_hs_client_connect_start up to RENDEZVOUS_ESTABLISHED: descriptor from
\* the hash table, else from the authority; verify it (stored descriptors are
\* the service's own); rendezvous circuit.
HsConnectStart(c) ==
    /\ hsClient[c].pc = "idle"
    /\ IF HsOpensDht(c) \/ HsOpensDa
       THEN HsAwaitEstablished(c)
       ELSE HsSet(c, [hsClient[c] EXCEPT !.pc = "failed"]) /\ UNCHANGED hsCookies
    /\ hsRevSeen' = IF ~HsOpensDht(c) /\ HsOpensDa THEN hsStore.rev ELSE hsRevSeen
    /\ UNCHANGED <<hs, hsCtx, hsRelay, hsStore, hsThread, hsReplay, hsNet, hsJoin, hsFailed,
                   hsNow, hsBudget>>

\* Introduction points that are not in the failure cache, or all of them
\* (and the cache emptied) when every one is.
HsKnownBad == {f \in hsFailed : f.until > hsNow}
HsCandidates(d) ==
    LET good == d.intros \ {f.relay : f \in HsKnownBad}
    IN  IF good = {} THEN d.intros ELSE good

\* relay_handle_introduce1: the circuits of relay r that take an INTRODUCE1
\* made from descriptor d.  The proof of work is solved over the identity
\* key and verified over the blinded key, so none passes with a difficulty.
HsTakes(r, d) ==
    {i \in HsSlotSet : /\ hsRelay[i] # HsNull
                       /\ hsRelay[i].relay = r
                       /\ hsRelay[i].key = d.key
                       /\ hsRelay[i].seed = 0}

\* INTRODUCE1 through one candidate; the relay forwards it as INTRODUCE2 to
\* the first circuit that takes it, or drops it.  Afterwards the client
\* destroys the introduction circuit and waits for RENDEZVOUS2.
HsIntroduce(c, r) ==
    /\ hsClient[c].pc = "rp"
    /\ r \in HsCandidates(hsClient[c].desc)
    /\ LET takes == HsTakes(r, hsClient[c].desc)
       IN  hsNet' = IF takes = {} THEN hsNet
                    ELSE hsNet \cup {<<CHOOSE i \in takes : \A j \in takes : i <= j, c>>}
    /\ hsFailed' = IF hsClient[c].desc.intros \subseteq {f.relay : f \in HsKnownBad}
                   THEN {} ELSE HsKnownBad
    /\ HsSet(c, [hsClient[c] EXCEPT !.pc = "wait", !.desc = HsNoDesc, !.intro = r])
    /\ UNCHANGED <<hs, hsCtx, hsRelay, hsStore, hsThread, hsReplay, hsRendezvous, hsRevSeen,
                   hsNow, hsBudget>>

\* RENDEZVOUS2 arrives.
HsConnected(c) ==
    /\ hsClient[c].pc = "wait"
    /\ \E p \in hsJoin : p[1] = c
    /\ HsSet(c, [hsClient[c] EXCEPT !.pc = "joined"])
    /\ UNCHANGED <<hs, hsCtx, hsRelay, hsStore, hsThread, hsReplay, hsNet, hsRendezvous,
                   hsFailed, hsRevSeen, hsNow, hsBudget>>

\* The client gives up or closes: its circuit is freed at the relay, with its
\* cookie and the circuit it is joined to; a client that only waited marks the
\* introduction point failed.
HsLeaves(c) ==
    /\ hsClient[c].pc \in {"wait", "joined"}
    /\ hsFailed' = IF hsClient[c].pc = "joined" THEN hsFailed
                   ELSE {f \in HsKnownBad : f.relay # hsClient[c].intro}
                        \cup {[relay |-> hsClient[c].intro, until |-> hsNow + HsFailTtl]}
    /\ hsCookies' = {k \in hsCookies : k.cookie # c}
    /\ hsJoin' = {p \in hsJoin : p[1] # c}
    /\ HsSet(c, [pc |-> "failed", desc |-> HsNoDesc, intro |-> "none"])
    /\ UNCHANGED <<hs, hsCtx, hsRelay, hsStore, hsThread, hsReplay, hsNet, hsRevSeen, hsNow,
                   hsBudget>>

-----------------------------------------------------------------------------
(* INTRODUCE2 at the service, RENDEZVOUS1 at the relay. *)

\* An entry of the ring counts for less than its lifetime.
MutHsReplayed(c) ==
    \E k \in DOMAIN hsSeen : hsSeen[k].cookie = c /\ hsNow - hsSeen[k].at < HsReplayTtl

HsReplayed(c) ==
    \E k \in DOMAIN hsSeen : hsSeen[k].cookie = c /\ hsNow - hsSeen[k].at <= HsReplayTtl

HsRemember(c) ==
    LET s == Append(hsSeen, [cookie |-> c, at |-> hsNow])
    IN  IF Len(s) > HsReplaySlots THEN Tail(s) ELSE s

HsFreeRp == {r \in HsRpSet : hs.rp[r] = HsNoRp}

\* The circuit of the INTRODUCE2 that is being accepted.
HsCircuit(c) == [cookie |-> c, at |-> hsNow, nth |-> hsTaken + 1]

\* RELAY_RENDEZVOUS1: a stored cookie (its age does not matter) joins the two
\* circuits and is used up; otherwise nothing happens.
HsRendezvous1(c) ==
    IF \E k \in hsCookies : k.cookie = c
    THEN /\ hsCookies' = {k \in hsCookies : k.cookie # c}
         /\ hsJoin' = hsJoin \cup {<<c, HsCircuit(c).nth>>}
    ELSE UNCHANGED hsRendezvous

\* moor_hs_handle_introduce and moor_hs_rendezvous: count, refuse a replay,
\* build the circuit, send RENDEZVOUS1, keep the circuit in a free slot.
\* Without one the circuit is destroyed after RENDEZVOUS1 was sent.
HsIntroduce2(m, built) ==
    /\ m \in hsNet
    /\ m[1] \in hsCtx
    /\ hs.slots[m[1]] # HsNull
    /\ \/ hsNet' = hsNet \ {m} /\ UNCHANGED hsBudget
       \/ hsNet' = hsNet /\ HsSpend("replays")
    /\ LET s == [hs EXCEPT !.slots[m[1]].n = @ + 1]
           c == m[2]
           r == CHOOSE x \in HsFreeRp : \A y \in HsFreeRp : x <= y
       IN  IF HsReplayed(c)
           THEN hs' = s /\ UNCHANGED <<hsReplay, hsRendezvous>>
           ELSE /\ hsSeen' = HsRemember(c) /\ hsTaken' = hsTaken + 1
                /\ CASE ~built         -> hs' = s /\ UNCHANGED hsRendezvous
                     [] HsFreeRp # {}  -> hs' = [s EXCEPT !.rp[r] = HsCircuit(c)] /\ HsRendezvous1(c)
                     [] OTHER          -> /\ hs' = s
                                          /\ hsCookies' = {k \in hsCookies : k.cookie # c}
                                          /\ UNCHANGED hsJoin
    /\ UNCHANGED <<hsCtx, hsRelay, hsStore, hsThread, hsClients, hsNow>>

\* DESTROY or a lost link on a rendezvous circuit: its slot is cleared, and
\* the relay learns of it on its own.
HsRpDies(r) ==
    /\ hs.rp[r] # HsNoRp
    /\ hs' = [hs EXCEPT !.rp[r] = HsNoRp]
    /\ UNCHANGED <<hsCtx, hsRelay, hsStore, hsThread, hsReplay, hsNet, hsRendezvous, hsClients,
                   hsNow, hsBudget>>

\* The rendezvous relay loses the service's circuit of a join.
HsJoinDrops(p) ==
    /\ hsJoin' = hsJoin \ {p}
    /\ UNCHANGED <<hs, hsCtx, hsRelay, hsStore, hsThread, hsReplay, hsNet, hsCookies, hsClients,
                   hsNow, hsBudget>>

HsTick ==
    /\ hsNow < HsMaxTime
    /\ hsNow' = hsNow + 1
    /\ UNCHANGED <<hs, hsCtx, hsRelay, hsStore, hsThread, hsReplay, hsNet, hsRendezvous,
                   hsClients, hsBudget>>

-----------------------------------------------------------------------------

\* moor_hs_init found every slot, with or without proof of work.
HsInit ==
    /\ \E where \in [HsSlotSet -> HsRelays], seed \in {0, 1} :
          /\ hs = [slots |-> [i \in HsSlotSet |-> [relay |-> where[i], at |-> 0, n |-> 0]],
                   flag |-> FALSE, period |-> 1, seed |-> seed, rev |-> 1,
                   rp |-> [r \in HsRpSet |-> HsNoRp]]
          /\ hsRelay = [i \in HsSlotSet |-> [relay |-> where[i], key |-> 1, seed |-> seed]]
          /\ hsStore = [rev |-> 1, key |-> 1, tp |-> 1, seed |-> seed,
                        intros |-> {where[i] : i \in HsSlotSet}]
    /\ hsCtx = HsSlotSet
    /\ hsThread = HsNoDesc
    /\ hsSeen = <<>> /\ hsTaken = 0
    /\ hsNet = {}
    /\ hsCookies = {}
    /\ hsJoin = {}
    /\ hsClient = [c \in HsClients |-> [pc |-> "idle", desc |-> HsNoDesc, intro |-> "none"]]
    /\ hsFailed = {}
    /\ hsRevSeen = 0
    /\ hsNow = 0
    /\ hsBudget = [faults |-> HsMaxFaults, replays |-> HsMaxReplays,
                   publishes |-> HsMaxPublishes]

HsWheres == UNION {[up -> HsRelays] : up \in SUBSET HsSlotSet}

HsNext ==
    \/ \E where \in HsWheres : HsIntroTimer(where) \/ HsRestart(where)
    \/ \E i \in HsSlotSet : HsRelayLoses(i) \/ \E lost \in BOOLEAN : HsIntroLost(i, lost)
    \/ HsKeyRotation \/ HsSeedRotation \/ HsRepublish \/ HsRepublished \/ HsTick
    \/ \E c \in HsClients : \/ HsConnectStart(c)
                            \/ HsConnected(c) \/ HsLeaves(c)
                            \/ \E r \in HsRelays : HsIntroduce(c, r)
    \/ \E m \in hsNet, built \in BOOLEAN : HsIntroduce2(m, built)
    \/ \E r \in HsRpSet : HsRpDies(r)
    \/ \E p \in hsJoin : HsJoinDrops(p)

\* The timer with every build succeeding.
HsIntroTimerBuilds ==
    \E where \in [IF hs.flag THEN HsMissing(hs) ELSE {} -> HsRelays] : HsIntroTimer(where)

HsSpec == HsInit /\ [][HsNext]_hsVars

-----------------------------------------------------------------------------
(* Properties. *)

\* The service holds two rendezvous circuits for one cookie only as far as the
\* replay ring of moor_hs_handle_introduce allows: the INTRODUCE2s are further
\* apart than an entry lives, or more than HsReplaySlots were accepted from
\* the one to the other.  Every circuit is in one slot.
HsCircuitsDiffer ==
    \A q, r \in HsRpSet : q # r /\ hs.rp[q] # HsNoRp /\ hs.rp[r] # HsNoRp =>
        /\ hs.rp[q].nth # hs.rp[r].nth
        /\ hs.rp[q].cookie = hs.rp[r].cookie /\ hs.rp[q].nth < hs.rp[r].nth =>
              \/ hs.rp[r].at - hs.rp[q].at > HsReplayTtl
              \/ hs.rp[r].nth - hs.rp[q].nth > HsReplaySlots

\* A joined circuit that the service still has carries the cookie of the
\* client it is joined to, that client is still there, and a cookie that is
\* still stored is not joined: also after a repeat was accepted, after the
\* service lost the circuit and took its slot for another, and after a restart.
HsJoinedToOwn ==
    \A p \in hsJoin : /\ \A r \in HsRpSet : hs.rp[r].nth = p[2] => hs.rp[r].cookie = p[1]
                      /\ hsClient[p[1]].pc \in {"wait", "joined"}
                      /\ \A k \in hsCookies : k.cookie # p[1]

\* No client and no circuit of the service is joined twice.
HsJoinedOnce ==
    \A p, q \in hsJoin : p # q => p[1] # q[1] /\ p[2] # q[2]

\* A rendezvous is with one client and once (RENDEZVOUS1 in relay.c), and the
\* service keeps a second circuit for it only past what the replay cache of
\* moor_hs_handle_introduce remembers.
HsRendezvousOnce == HsCircuitsDiffer /\ HsJoinedToOwn /\ HsJoinedOnce

\* Introduction points recover: whenever a slot is empty, all slots are
\* established and read again later (deferred re-establishment of
\* hs_intro_rotation_cb), if circuits can be built.
HsRecovers == [](HsMissing(hs) # {} => <>(HsMissing(hs) = {} /\ hsCtx = HsSlotSet))

\* Every introduction point of a descriptor the service stores knows the
\* service by the key of that descriptor (comment before the wait for
\* INTRO_ESTABLISHED in moor_hs_establish_intro).
HsDescriptorUsable ==
    [][hsStore' # hsStore =>
          \A r \in hsStore'.intros : \E i \in HsSlotSet :
             hsRelay'[i] # HsNull /\ hsRelay'[i].relay = r /\ hsRelay'[i].key = hsStore'.key]_hsVars

\* The revision of the stored descriptor never falls (moor_hs_publish_descriptor,
\* anti-replay of moor_client_fetch_hs_descriptor).
HsStoreForward == [][hsStore'.rev >= hsStore.rev]_hsVars

\* A client whose descriptor is current can be introduced with proof of work.
HsPowPasses ==
    \A c \in HsClients :
        hsClient[c].pc = "rp" /\ hsClient[c].desc = hsStore /\ hsStore.seed # 0
            => \E r \in hsStore.intros : HsTakes(r, hsStore) # {}
=============================================================================
