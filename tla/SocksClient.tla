----------------------------- MODULE SocksClient -----------------------------
(***************************************************************************)
(* The SOCKS5 side of the client (socks5.c): the table of clients, the     *)
(* cache of circuits by destination and isolation key, the pool, and the   *)
(* connects to hidden services, which a worker thread starts and the event *)
(* loop finishes when RENDEZVOUS2 arrives.                                 *)
(*                                                                         *)
(* Destinations are clearnet domains (what extract_domain answers) and     *)
(* services (.moor names).  An isolation key stands for the client address *)
(* ("addr"), for credentials and address ("user") or for a transparently   *)
(* redirected connection ("trans").  Time is counted in steps of 15 s:     *)
(* MOOR_SOCKS5_IDLE_TIMEOUT is 1, MOOR_STREAM_CONNECT_TIMEOUT 2 and        *)
(* HS_CONNECT_TIMEOUT 4 steps.  Ordinary circuits share the guard's link;  *)
(* a rendezvous circuit, built by a worker, has a link of its own.         *)
(***************************************************************************)
EXTENDS Integers, Sequences, FiniteSets, SequencesExt

CONSTANTS
    ScSlots,             \* g_socks5_clients
    ScDomains,           \* clearnet destinations
    ScServices,          \* .moor destinations
    ScCircs,             \* slots of circuits
    ScPending,           \* g_hs_pending
    ScInflight,          \* g_hs_inflight
    ScCacheMax,          \* MAX_CIRCUIT_CACHE
    ScQueueMax,          \* HS_CONNECT_QUEUE
    ScMaxClients,        \* bound: connections accepted
    ScMaxBuilt,          \* bound: circuits the pool is given
    ScMaxFaults          \* bound: lost links, DESTROYs, NEWNYMs, failed sends

VARIABLES sc, scBudget

scVars == <<sc, scBudget>>

ScNone == "none"
ScIdle == 1
ScConnectTimeout == 2
ScHsTimeout == 4
ScForever == -1          \* begin_sent_at = 0: never timed out

\* Tables have a fixed size; no circuit is NULL.
ASSUME ScAssumption ==
    /\ IsFiniteSet(ScSlots) /\ IsFiniteSet(ScCircs)
    /\ ScNone \notin ScCircs
    /\ ScCacheMax \in Nat \ {0}

ScFreeClient == [st |-> "free", dest |-> ScNone, iso |-> ScNone,
                 circ |-> ScNone, age |-> 0]
ScFreeCirc == [alive |-> FALSE, marked |-> FALSE, up |-> FALSE, rp |-> FALSE]
ScFreePend == [active |-> FALSE, dest |-> ScNone, iso |-> ScNone,
               circ |-> ScNone, age |-> 0]

ScInit ==
    /\ sc = [client |-> [i \in ScSlots |-> ScFreeClient],
             circ |-> [c \in ScCircs |-> ScFreeCirc],
             cache |-> <<>>,      \* g_circuit_cache: [dest, iso, circ]
             pool |-> <<>>,       \* g_prebuilt_pool
             pend |-> [p \in ScPending |-> ScFreePend],
             infl |-> [k \in ScInflight |-> ScNone],
             work |-> <<>>,       \* running hs_connect_worker threads
             res |-> <<>>]        \* g_hs_connect_results
    /\ scBudget = [clients |-> ScMaxClients, built |-> ScMaxBuilt,
                   faults |-> ScMaxFaults]

ScSpend(k) == /\ scBudget[k] > 0
              /\ scBudget' = [scBudget EXCEPT ![k] = @ - 1]
ScKeep == UNCHANGED scBudget

-----------------------------------------------------------------------------
(* Operators from state to state.                                          *)

\* moor_event_remove, close and client_fd = -1, wherever they occur.
ScClose(s, i) == [s EXCEPT !.client[i] = ScFreeClient]
ScCloseAll(s, I) == [s EXCEPT !.client = [i \in ScSlots |->
                        IF i \in I THEN ScFreeClient ELSE s.client[i]]]

\* moor_circuit_destroy and moor_circuit_mark_for_close on circuits of C.
ScMarkAll(s, C) == [s EXCEPT !.circ = [c \in ScCircs |->
                       IF c \in C /\ @[c].alive THEN [@[c] EXCEPT !.marked = TRUE] ELSE @[c]]]
ScMark(s, c) == ScMarkAll(s, {c})

\* A loop: Step from s for each of q in turn.
ScForEach(Step(_, _), s, q) ==
    LET after[k \in 0..Len(q)] == IF k = 0 THEN s ELSE Step(after[k - 1], q[k])
    IN  after[Len(q)]

\* g_circuit_cache[i] = g_circuit_cache[--count]
ScSwapOut(seq, i) ==
    [j \in 1..(Len(seq) - 1) |-> IF j = i THEN seq[Len(seq)] ELSE seq[j]]

ScEntriesOf(s, c) == {i \in DOMAIN s.cache : s.cache[i].circ = c}

\* Mutant: the clients of the circuit keep their pointers.
MutScInvalidate(s, c) ==
    LET hit == ScEntriesOf(s, c)
    IN [s EXCEPT
         !.pool = [i \in DOMAIN @ |-> IF @[i] = c THEN ScNone ELSE @[i]],
         !.pend = [p \in ScPending |-> IF @[p].circ = c
                       THEN [@[p] EXCEPT !.circ = ScNone] ELSE @[p]],
         !.cache = IF hit = {} THEN @ ELSE ScSwapOut(@, CHOOSE i \in hit : TRUE)]

\* moor_socks5_invalidate_circuit: pool, clients, pending slots and cache
\* forget the circuit.
ScInvalidate(s, c) ==
    LET hit == ScEntriesOf(s, c)
        users == {i \in ScSlots : s.client[i].circ = c}
    IN [ScCloseAll(s, users) EXCEPT
         !.pool = [i \in DOMAIN @ |-> IF @[i] = c THEN ScNone ELSE @[i]],
         !.pend = [p \in ScPending |-> IF @[p].circ = c
                       THEN [@[p] EXCEPT !.circ = ScNone] ELSE @[p]],
         !.cache = IF hit = {} THEN @ ELSE ScSwapOut(@, CHOOSE i \in hit : TRUE)]

\* prebuilt_pop: entries above the newest live one are thrown away.
ScPoolTop(s) ==
    LET good == {i \in DOMAIN s.pool : s.pool[i] /= ScNone
                                       /\ s.circ[s.pool[i]].up}
    IN IF good = {} THEN 0 ELSE Max(good)

ScPoolCut(s) ==
    LET top == ScPoolTop(s)
        gone == {s.pool[i] : i \in (top + 1)..Len(s.pool)}
    IN [ScMarkAll(s, gone) EXCEPT !.pool = SubSeq(@, 1, IF top = 0 THEN 0 ELSE top - 1)]

ScPoolToCache(s, d, iso) ==
    [ScPoolCut(s) EXCEPT !.cache = Append(@,
        [dest |-> d, iso |-> iso, circ |-> s.pool[ScPoolTop(s)]])]

\* Mutant: the isolation key is not compared.
MutScMatches(s, d, iso) == {i \in DOMAIN s.cache : s.cache[i].dest = d}

ScMatches(s, d, iso) ==
    {i \in DOMAIN s.cache : s.cache[i].dest = d /\ s.cache[i].iso = iso}

\* circuit_cache_evict_oldest.
ScEvictOldest(s) ==
    [ScMark(s, Head(s.cache).circ) EXCEPT !.cache = Tail(@)]

\* get_circuit_for_domain: the state after it and the circuit it answers
\* with; a dead entry of the domain is evicted, a full cache loses its
\* oldest entry.
ScGetCircuit(s, d, iso) ==
    LET live == {i \in ScMatches(s, d, iso) : s.circ[s.cache[i].circ].up}
        dead == {i \in ScMatches(s, d, iso) : ~s.circ[s.cache[i].circ].up}
        swept == IF dead = {} THEN s
                 ELSE LET i == Min(dead)
                      IN [ScMark(s, s.cache[i].circ)
                             EXCEPT !.cache = ScSwapOut(@, i)]
        room == IF Len(swept.cache) >= ScCacheMax THEN ScEvictOldest(swept)
                ELSE swept
    IN IF live /= {} THEN [s |-> s, c |-> s.cache[Min(live)].circ]
       ELSE IF ScPoolTop(room) = 0 THEN [s |-> ScPoolCut(room), c |-> ScNone]
       ELSE [s |-> ScPoolToCache(room, d, iso), c |-> room.pool[ScPoolTop(room)]]

\* moor_circuit_open_stream for client i on circuit c.
ScOnCircuit(r, c) == [r EXCEPT !.st = "connected", !.circ = c, !.age = 0]
ScOpened(s, i, c) == [s EXCEPT !.client[i] = ScOnCircuit(@, c)]

-----------------------------------------------------------------------------
(* Accepting and the handshake.                                            *)

ScWaiting(s, d) == {i \in ScSlots : s.client[i].st = "building"
                                    /\ s.client[i].dest = d}
ScWaitingAlike(s, d, iso) == {i \in ScWaiting(s, d) : s.client[i].iso = iso}

\* hs_pending_fail for the slots of P: the waiting clients are told, the
\* circuits are destroyed.
ScPendFailAll(s, P) ==
    LET told == UNION {ScWaitingAlike(s, s.pend[p].dest, s.pend[p].iso) : p \in P}
    IN [ScMarkAll(ScCloseAll(s, told), {s.pend[p].circ : p \in P})
          EXCEPT !.pend = [p \in ScPending |-> IF p \in P THEN ScFreePend ELSE @[p]]]
ScPendFail(s, p) == ScPendFailAll(s, {p})

\* hs_check_timeouts; it runs from a timer and before each accept.
ScTimedOut(s) ==
    ScPendFailAll(s, {p \in ScPending : s.pend[p].active /\ s.pend[p].age >= ScHsTimeout})

\* moor_socks5_accept.
ScAccept(i) ==
    /\ ScSpend("clients")
    /\ LET s == ScTimedOut(sc) IN
       /\ s.client[i].st = "free"
       /\ sc' = [s EXCEPT !.client[i] = [ScFreeClient EXCEPT !.st = "greeting"]]

\* moor_socks5_handle_greeting and moor_socks5_handle_auth; a bad message
\* closes the client (socks_client_read_cb).
ScGreeting(i, userpass) ==
    /\ sc.client[i].st = "greeting"
    /\ sc' = IF userpass THEN [sc EXCEPT !.client[i].st = "auth"]
             ELSE [sc EXCEPT !.client[i].st = "request",
                             !.client[i].iso = "addr"]
    /\ ScKeep

ScAuth(i) ==
    /\ sc.client[i].st = "auth"
    /\ sc' = [sc EXCEPT !.client[i].st = "request", !.client[i].iso = "user"]
    /\ ScKeep

\* A malformed message, an unsupported command, a .onion name.
ScRejected(i) ==
    /\ sc.client[i].st \in {"greeting", "auth", "request"}
    /\ sc' = ScClose(sc, i)
    /\ ScKeep

-----------------------------------------------------------------------------
(* moor_socks5_handle_request.  Each branch gives the set of states it may *)
(* end in; a failure to open the stream leaves the client as `left' says:  *)
(* closed by socks_client_read_cb, kept by moor_socks5_handle_transparent. *)

ScQueued(s, i, d) == [s EXCEPT !.client[i].st = "building",
                               !.client[i].dest = d]

ScUse(s, i, d, c, closes) ==
    LET aimed == [s EXCEPT !.client[i].dest = d, !.client[i].circ = c]
    IN {ScOpened(aimed, i, c), IF closes THEN ScClose(s, i) ELSE aimed}

\* A .moor name: a cached live circuit, else wait for a pending rendezvous
\* of the same key or for any worker of the address, else start a worker.
ScRequestService(s, i, d, closes) ==
    LET iso == s.client[i].iso
        live == {k \in ScMatches(s, d, iso) : s.circ[s.cache[k].circ].up}
        pending == \E p \in ScPending :
                      s.pend[p].active /\ s.pend[p].dest = d /\ s.pend[p].iso = iso
        flying == \E k \in ScInflight : s.infl[k] = d
        free == {k \in ScInflight : s.infl[k] = ScNone}
        q == ScQueued(s, i, d)
        launched == [q EXCEPT !.work = Append(@, [dest |-> d, iso |-> iso])]
    IN IF live /= {} THEN ScUse(s, i, d, s.cache[Min(live)].circ, closes)
       ELSE IF pending \/ flying THEN {q}
       ELSE IF free = {} THEN {launched}
       ELSE {[launched EXCEPT !.infl[CHOOSE k \in free : TRUE] = d]}

\* A clearnet name: the circuit of its domain, or wait for the pool; the
\* wait starts a new count of time.
ScRequestDomain(s, i, d, closes) ==
    LET got == ScGetCircuit(s, d, s.client[i].iso)
    IN IF got.c = ScNone
       THEN {[ScQueued(got.s, i, d) EXCEPT !.client[i].age = 0]}
       ELSE ScUse(got.s, i, d, got.c, closes)

ScHandleRequest(s, i, d, closes) ==
    IF d \in ScServices THEN ScRequestService(s, i, d, closes)
    ELSE ScRequestDomain(s, i, d, closes)

\* What a transparent client in REQUEST sends is no SOCKS request and closes
\* it (ScRejected).
ScRequest(i, d) ==
    /\ sc.client[i].st = "request" /\ sc.client[i].iso /= "trans"
    /\ sc' \in ScHandleRequest(sc, i, d, TRUE)
    /\ ScKeep

\* moor_socks5_handle_transparent: the slot is made with begin_sent_at = 0
\* and the request is handled at once.
ScTransparent(i, d) ==
    /\ ScSpend("clients")
    /\ sc.client[i].st = "free"
    /\ LET s == [sc EXCEPT !.client[i] =
                    [ScFreeClient EXCEPT !.st = "request", !.iso = "trans",
                                         !.dest = d, !.age = ScForever]]
       IN sc' \in ScHandleRequest(s, i, d, FALSE)

-----------------------------------------------------------------------------
(* Circuits become ready.                                                  *)

\* One waiting client of assign_circuits_to_waiting_clients.
ScAssignOne(s, i, ok) ==
    LET r == s.client[i]
        have == ScMatches(s, r.dest, r.iso)
        c == IF have /= {} THEN s.cache[Min(have)].circ
             ELSE IF ScPoolTop(s) = 0 THEN ScNone ELSE s.pool[ScPoolTop(s)]
        t == IF have /= {} THEN s
             ELSE IF c = ScNone THEN ScPoolCut(s)
             ELSE ScPoolToCache(s, r.dest, r.iso)
    IN IF s.pool = <<>> \/ (have = {} /\ Len(s.cache) >= ScCacheMax) THEN s
       ELSE IF c = ScNone THEN t
       ELSE IF ok THEN ScOpened(t, i, c)
       ELSE ScInvalidate(ScMark(ScClose(t, i), c), c)

\* prebuilt_build_complete puts a circuit into the pool and serves the
\* waiting clients; ok says whether the streams can be opened.
ScBuilt(c, ok) ==
    /\ ScSpend("built")
    /\ ~sc.circ[c].alive
    /\ LET s == [sc EXCEPT !.circ[c] = [ScFreeCirc EXCEPT !.alive = TRUE,
                                                          !.up = TRUE],
                           !.pool = Append(@, c)]
           wait == {i \in ScSlots : s.client[i].st = "building"
                                    /\ s.client[i].dest \in ScDomains}
       IN sc' = ScForEach(LAMBDA t, i : ScAssignOne(t, i, ok), s, SetToSeq(wait))

\* RELAY_CONNECTED.
ScStreams(i) ==
    /\ sc.client[i].st = "connected"
    /\ sc.circ[sc.client[i].circ].up
    /\ sc' = [sc EXCEPT !.client[i].st = "streaming"]
    /\ ScKeep

\* RELAY_END, and the client's own close.
ScGone(i) ==
    /\ sc.client[i].st /= "free"
    /\ sc' = ScClose(sc, i)
    /\ ScKeep

-----------------------------------------------------------------------------
(* Hidden services: the worker, its result, the rendezvous.                *)

\* The worker's circuit is not yet known to the main thread; a result that
\* finds the queue full is thrown away with its circuit.
ScWorkerDone(k, c) ==
    /\ k \in DOMAIN sc.work
    /\ c /= ScNone => ~sc.circ[c].alive
    /\ LET w == sc.work[k]
           s == [sc EXCEPT !.work = RemoveAt(@, k)]
           r == [dest |-> w.dest, iso |-> w.iso, circ |-> c]
       IN sc' = IF Len(sc.res) >= ScQueueMax THEN s
                ELSE IF c = ScNone THEN [s EXCEPT !.res = Append(@, r)]
                ELSE [s EXCEPT !.circ[c] = [alive |-> TRUE, marked |-> FALSE,
                                            up |-> TRUE, rp |-> TRUE],
                               !.res = Append(@, r)]
    /\ ScKeep

\* One turn of hs_connect_complete_cb, for the result hs_connect_pop_result
\* takes from the queue.
ScInstall(s, r) ==
    LET fly == {k \in ScInflight : s.infl[k] = r.dest}
        popped == [s EXCEPT !.res = Tail(@)]
        landed == IF fly = {} THEN popped
                  ELSE [popped EXCEPT !.infl[CHOOSE k \in fly : TRUE] = ScNone]
        free == {p \in ScPending : ~s.pend[p].active}
    IN IF r.circ = ScNone THEN ScCloseAll(landed, ScWaiting(s, r.dest))
       ELSE IF free = {} THEN ScMark(landed, r.circ)
       ELSE [landed EXCEPT !.pend[CHOOSE p \in free : TRUE] =
                [active |-> TRUE, dest |-> r.dest, iso |-> r.iso,
                 circ |-> r.circ, age |-> 0]]

ScConnectComplete ==
    /\ sc.res /= <<>>
    /\ sc' = ScForEach(LAMBDA s, r : ScInstall(s, Head(s.res)), sc, sc.res)
    /\ ScKeep

\* hs_pending_complete: the circuit goes to the cache and the clients that
\* wait with the same key get their streams; Bad fail to open one.
ScPendComplete(s, p, Bad) ==
    LET r == s.pend[p] IN
    IF \/ r.circ = ScNone
       \/ ~s.circ[r.circ].up
       \/ Len(s.cache) >= ScCacheMax
    THEN ScPendFail(s, p)
    ELSE [s EXCEPT !.pend[p] = ScFreePend,
                   !.cache = Append(@, [dest |-> r.dest, iso |-> r.iso, circ |-> r.circ]),
                   !.client = [i \in ScSlots |->
                        IF i \notin ScWaitingAlike(s, r.dest, r.iso) THEN @[i]
                        ELSE IF i \in Bad THEN ScFreeClient ELSE ScOnCircuit(@[i], r.circ)]]

\* hs_rp_read_cb: RENDEZVOUS2 with the right key; anything that ends the
\* attempt (a lost link, DESTROY, a bad hash, a failed KEM send).
ScRendezvous(p, Bad) ==
    /\ sc.pend[p].active
    /\ sc.pend[p].circ /= ScNone => sc.circ[sc.pend[p].circ].up
    /\ Bad \subseteq ScWaitingAlike(sc, sc.pend[p].dest, sc.pend[p].iso)
    /\ sc' = ScPendComplete(sc, p, Bad)
    /\ ScKeep

ScRendezvousFails(p) ==
    /\ ScSpend("faults")
    /\ sc.pend[p].active
    /\ sc' = ScPendFail(sc, p)

-----------------------------------------------------------------------------
(* What ends circuits and clients.                                         *)

\* CELL_DESTROY: a cached circuit loses its clients and its entry, a pooled
\* one its place.
ScDestroyed(c) ==
    /\ ScSpend("faults")
    /\ sc.circ[c].up
    /\ LET hit == ScEntriesOf(sc, c)
           pooled == {i \in DOMAIN sc.pool : sc.pool[i] = c}
           users == {i \in ScSlots : sc.client[i].circ = c}
       IN \/ /\ hit /= {}
             /\ sc' = ScMark([ScCloseAll(sc, users) EXCEPT
                                !.cache = ScSwapOut(@, CHOOSE i \in hit : TRUE)], c)
          \/ /\ pooled /= {}
             /\ sc' = ScMark([sc EXCEPT
                          !.pool = ScSwapOut(@, CHOOSE i \in pooled : TRUE)], c)

\* One turn of its loop over the cache, which goes down from the last entry.
ScCut(q, i, L) == IF q[i].circ \in L THEN ScSwapOut(q, i) ELSE q

\* circuit_read_cb finds the link of the circuits in L dead.  Cached
\* circuits leave the cache, clients are closed, and moor_connection_close
\* takes the link away from every circuit; the channel marks its own.
ScLinkLost(L) ==
    /\ ScSpend("faults")
    /\ L /= {}
    /\ LET users == {i \in ScSlots : sc.client[i].circ \in L}
           down == [k \in DOMAIN sc.cache |-> Len(sc.cache) + 1 - k]
       IN sc' = [ScCloseAll(sc, users) EXCEPT
                     !.cache = ScForEach(LAMBDA q, i : ScCut(q, i, L), @, down),
                     !.circ = [c \in ScCircs |-> IF c \in L
                         THEN [@[c] EXCEPT !.up = FALSE, !.marked = TRUE]
                         ELSE @[c]]]

ScGuardLinks == {c \in ScCircs : sc.circ[c].up /\ ~sc.circ[c].rp}
ScServiceLinks(c) ==
    IF sc.circ[c].up /\ sc.circ[c].rp /\ ScEntriesOf(sc, c) /= {} THEN {c} ELSE {}

\* moor_socks5_clear_circuit_cache (NEWNYM).
ScNewnym ==
    /\ ScSpend("faults")
    /\ LET users == {i \in ScSlots : sc.client[i].circ /= ScNone}
       IN sc' = [ScMarkAll(ScCloseAll(sc, users), {e.circ : e \in ToSet(sc.cache)})
                    EXCEPT !.cache = <<>>]

\* moor_circuit_close_all_marked at the end of the loop; freeing a circuit
\* calls moor_socks5_invalidate_circuit.
ScFree(s, c) == [ScInvalidate(s, c) EXCEPT !.circ[c] = ScFreeCirc]

ScPostloop ==
    LET marked == {c \in ScCircs : sc.circ[c].marked} IN
    /\ marked /= {}
    /\ sc' = ScForEach(ScFree, sc, SetToSeq(marked))
    /\ ScKeep

\* A client that waits, for a circuit or its peer, past its limit.
ScLate(r) ==
    /\ r.st \notin {"free", "streaming"}
    /\ r.age >= IF r.st \in {"building", "connected"} THEN ScConnectTimeout ELSE ScIdle

\* Mutant: clients that wait for a circuit are skipped.
MutScExpire(s, i) ==
    IF ScLate(s.client[i]) /\ s.client[i].st /= "building" THEN ScClose(s, i) ELSE s

\* One client of moor_socks5_check_stream_timeouts.  A service that does
\* not answer a BEGIN loses its cached circuit.
ScExpire(s, i) ==
    LET r == s.client[i]
    IN IF ~ScLate(r) THEN s
       ELSE IF r.st = "connected" /\ r.dest \in ScServices
            THEN ScClose(ScMark(ScInvalidate(s, r.circ), r.circ), i)
            ELSE ScClose(s, i)

ScStreamTimeouts ==
    /\ \E i \in ScSlots : ScLate(sc.client[i])
    /\ sc' = ScForEach(ScExpire, sc, SetToSeq(ScSlots))
    /\ ScKeep

ScHsTimeouts ==
    /\ sc' = ScTimedOut(sc)
    /\ sc' /= sc
    /\ ScKeep

ScOlder(n, cap) == IF n = ScForever \/ n >= cap THEN n ELSE n + 1

ScTick ==
    /\ sc' = [sc EXCEPT
         !.client = [i \in ScSlots |-> IF sc.client[i].st \in {"free", "streaming"} THEN sc.client[i]
                        ELSE [sc.client[i] EXCEPT !.age = ScOlder(@, ScConnectTimeout)]],
         !.pend = [p \in ScPending |-> IF ~sc.pend[p].active THEN sc.pend[p]
                        ELSE [sc.pend[p] EXCEPT !.age = ScOlder(@, ScHsTimeout)]]]
    /\ sc' /= sc
    /\ ScKeep

ScNext ==
    \/ \E i \in ScSlots :
          \/ ScAccept(i) \/ ScAuth(i) \/ ScRejected(i) \/ ScStreams(i) \/ ScGone(i)
          \/ \E u \in BOOLEAN : ScGreeting(i, u)
          \/ \E d \in ScDomains \cup ScServices : ScRequest(i, d)
                                                  \/ ScTransparent(i, d)
    \/ \E c \in ScCircs : \/ \E ok \in BOOLEAN : ScBuilt(c, ok)
                          \/ ScDestroyed(c)
                          \/ ScLinkLost(ScServiceLinks(c))
    \/ ScLinkLost(ScGuardLinks)
    \/ \E k \in DOMAIN sc.work, c \in ScCircs \cup {ScNone} : ScWorkerDone(k, c)
    \/ ScConnectComplete
    \/ \E p \in ScPending : \/ \E B \in SUBSET ScSlots : ScRendezvous(p, B)
                            \/ ScRendezvousFails(p)
    \/ ScNewnym \/ ScPostloop \/ ScStreamTimeouts \/ ScHsTimeouts \/ ScTick

ScSpec == ScInit /\ [][ScNext]_scVars

-----------------------------------------------------------------------------
(* Properties.                                                             *)

\* Every pointer to a circuit in the tables of socks5.c is to one that was
\* not freed, and the cache and the pool name a circuit once, so that
\* invalidating, evicting and swapping entries never lose or double one.
ScPointersLive ==
    LET Named(c) == Cardinality(ScEntriesOf(sc, c))
                    + Cardinality({i \in DOMAIN sc.pool : sc.pool[i] = c})
                    + Cardinality({p \in ScPending : sc.pend[p].circ = c})
                    + Cardinality({i \in DOMAIN sc.res : sc.res[i].circ = c})
    IN /\ \A c \in ScCircs : Named(c) <= IF sc.circ[c].alive THEN 1 ELSE 0
       /\ \A i \in ScSlots : sc.client[i].circ /= ScNone =>
             sc.circ[sc.client[i].circ].alive
       /\ Len(sc.cache) <= ScCacheMax

\* Stream isolation: two clients on one circuit asked for one destination
\* with one isolation key, and the cache files the circuit under them
\* (handle_request, assign_circuits_to_waiting_clients, hs_pending_complete).
ScIsolated ==
    \A i \in ScSlots : sc.client[i].circ /= ScNone =>
        /\ \A j \in ScSlots : sc.client[j].circ = sc.client[i].circ =>
              /\ sc.client[j].dest = sc.client[i].dest
              /\ sc.client[j].iso = sc.client[i].iso
        /\ \A e \in ScEntriesOf(sc, sc.client[i].circ) :
              /\ sc.cache[e].dest = sc.client[i].dest
              /\ sc.cache[e].iso = sc.client[i].iso

\* A client that waits for a circuit is served, refused or timed out.
\* Clients of moor_socks5_handle_transparent are left out: they have no
\* start time and moor_socks5_check_stream_timeouts skips them.
ScAnswered ==
    \A i \in ScSlots :
        (sc.client[i].st = "building" /\ sc.client[i].age /= ScForever)
            ~> (sc.client[i].st /= "building")

\* What the comment at handle_request says of a client queued behind a
\* build: the RENDEZVOUS2 callback finds all BUILDING clients of the address.
ScQueuedServed ==
    [][\A p \in ScPending :
          (sc.pend[p].active /\ ~sc'.pend[p].active
             /\ ScEntriesOf(sc', sc.pend[p].circ) /= {})
          => \A i \in ScSlots : ~(/\ sc'.client[i].st = "building"
                                  /\ sc'.client[i].dest = sc.pend[p].dest)]_scVars

=============================================================================
