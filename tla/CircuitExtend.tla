---------------------------- MODULE CircuitExtend ----------------------------
(***************************************************************************)
(* The key exchange that builds a circuit, hop by hop: the blocking client *)
(* (moor_circuit_create, _create_pq, _extend, _extend_pq, called from      *)
(* moor_circuit_build in a worker and moor_circuit_build_bridge in the     *)
(* event loop) and the relays' answers (CREATE, EXTEND2, EXTEND_PQ,        *)
(* KEM_OFFER, KEM_CT).  Relays rotate their onion key and restart with a   *)
(* new KEM key, clients learn of both from a later consensus.              *)
(*                                                                         *)
(* Every circuit runs over relays 1..CeHops.  Keys are terms: a classical  *)
(* key is determined by the handshake and the onion key each side used, so *)
(* authentication tags agree exactly when the terms do; a post-quantum key *)
(* is the secret of the ciphertext the relay put together, if its KEM key  *)
(* is the one the client sealed it for.                                    *)
(***************************************************************************)
EXTENDS Integers, Sequences, FiniteSets, FiniteSetsExt

CONSTANTS CeCircs, CeBridged,     \* client circuits, those built over the bridge
          CeHops,                 \* relays of their path
          CePq,                   \* hops whose descriptor offers a KEM key
          CeListed,               \* is the bridge in the consensus?
          CeKemLen,               \* MOOR_KEM_CT_LEN, in units
          CePayload, CeRelayData, \* MOOR_CELL_PAYLOAD, MOOR_RELAY_DATA, in units
          CeCreateLimit,          \* CREATE_RATE_LIMIT, at least 1
          CeMaxThreads,           \* EXTEND_MAX_THREADS
          CeMaxEarly,             \* MOOR_MAX_RELAY_EARLY
          CeMaxRotations, CeMaxFaults    \* bounds

VARIABLES
    ce,         \* circuits at the client (c) and at the relays (r), cells on
                \* the links (f towards the exit, b back), open channels, ...
    ceKeys,     \* [relay -> its onion key (0 is derived from the identity),
                \* the onion key before, and the KEM key of this start]
    ceCons,     \* [relay -> onion and KEM key in the client's consensus]
    ceOverlap,  \* clients refused although their key was the previous one
    ceBudget    \* rotations left; faults and rate windows left

ceVars == <<ce, ceKeys, ceCons, ceOverlap, ceBudget>>

CeRelays == 1..CeHops
CeIds == CeCircs \X {1, 2}       \* a circuit and its try at the first hop
CeNoCirc == [alive |-> FALSE, key |-> <<>>, pend |-> FALSE, buf |-> <<>>,
             early |-> 0, ext |-> "none", next |-> FALSE]

CeInit ==
    /\ ce = [c |-> [c \in CeCircs |-> [pc |-> "idle", kind |-> "guard", t |-> 1,
                                       hops |-> <<>>, seen |-> 0, own |-> TRUE]],
             r |-> [i \in CeIds |-> [k \in CeRelays |-> CeNoCirc]],
             f |-> [i \in CeIds |-> [k \in CeRelays |-> <<>>]],
             b |-> [i \in CeIds |-> [k \in CeRelays |-> <<>>]],
             chan |-> [k \in CeRelays |-> FALSE],
             threads |-> [k \in CeRelays |-> 0],
             rate |-> [k \in CeRelays |-> 0],
             bridge |-> FALSE, refs |-> 0]
    /\ ceKeys = [k \in CeRelays |-> [onion |-> 0, prev |-> 0, kem |-> 0]]
    /\ ceCons = [k \in CeRelays |-> [onion |-> 0, kem |-> 0]]
    /\ ceOverlap = {}
    /\ ceBudget = [rotations |-> CeMaxRotations, faults |-> CeMaxFaults]

CeSpend(k) == /\ ceBudget[k] > 0
              /\ ceBudget' = [ceBudget EXCEPT ![k] = @ - 1]

-----------------------------------------------------------------------------
(* Keys, ciphertexts and cells.                                            *)

\* cke_derive at the client, relay_cke_derive at the relay: the key seed, which
\* is also what the authentication tag proves, from the handshake's ephemeral
\* keys, the relay's identity and the onion key each side takes.
CeCke(i, k, onion) == <<"cke", i, k, onion>>
CeRelayCke(i, k, onion) == <<"cke", i, k, onion>>

\* moor_kem_encapsulate and moor_crypto_circuit_kx_pq: only the KEM secret
\* enters the keys of a post-quantum hop.  kem is the public key it is for.
CeSecret(i, k, kem) == <<"kem", i, k, kem>>
CeCiphertext(i, k, kem) == [j \in 1..CeKemLen |-> <<i, k, kem, j>>]

\* moor_kem_decapsulate with the relay's own key: what was not sealed for it
\* gives a key of nobody else's, without an error (ML-KEM rejects implicitly).
CeDecapsulate(buf, k) ==
    IF \E i \in CeIds : buf = CeCiphertext(i, k, ceKeys[k].kem)
    THEN CeSecret(buf[1][1], k, ceKeys[k].kem) ELSE <<"rejected", k, ceKeys[k].kem, buf>>

CeChunks(bytes, n) ==
    [j \in 1..((Len(bytes) + n - 1) \div n) |->
        SubSeq(bytes, (j - 1) * n + 1, Min({j * n, Len(bytes)}))]

\* A ciphertext as CELL_KEM_CT cells, each padded with zeros.
CeKemCells(bytes) ==
    LET chunks == CeChunks(bytes, CePayload)
    IN  [j \in DOMAIN chunks |->
            [cmd |-> "KEM_CT",
             data |-> [u \in 1..CePayload |-> IF u <= Len(chunks[j])
                                              THEN chunks[j][u] ELSE <<>>]]]

\* A relay cell for the last hop of cl, under the keys of its hops.
CeRelayCell(cl, sub, early, data) ==
    [cmd |-> "RELAY", keys |-> cl.hops, sub |-> sub, early |-> early, data |-> data]

CeSend(s, i, k, cells) == [s EXCEPT !.f[i][k] = @ \o cells]
CeReply(s, i, k, cell) == [s EXCEPT !.b[i][k] = Append(@, cell)]
CeId(s, c) == <<c, s.c[c].t>>

\* The client end of the first link is closed; the relay reads what is left.
CeHangUp(s, i) == [s EXCEPT !.f[i][1] = Append(@, [cmd |-> "EOF"]),
                            !.b[i][1] = <<>>]

-----------------------------------------------------------------------------
(* The client.                                                             *)

\* moor_circuit_extend up to the wait.
CeExtendClassic(s, c) ==
    CeSend([s EXCEPT !.c[c].pc = "extend"], CeId(s, c), 1,
           <<CeRelayCell(s.c[c], "EXTEND2", TRUE, <<>>)>>)

\* moor_circuit_extend_pq up to the wait: the ciphertext, then EXTEND_PQ.
CeExtendPq(s, c, k) ==
    LET chunks == CeChunks(CeCiphertext(CeId(s, c), k, s.c[c].seen[k].kem), CeRelayData)
        offers == [j \in DOMAIN chunks |->
                      CeRelayCell(s.c[c], "KEM_OFFER", FALSE, chunks[j])]
    IN  CeSend([s EXCEPT !.c[c].pc = "extend_pq"], CeId(s, c), 1,
               Append(offers, CeRelayCell(s.c[c], "EXTEND_PQ", TRUE, <<>>)))

\* The next hop, by what its descriptor offers; past the last the circuit is
\* built.
CeExtend(s, c) ==
    LET k == Len(s.c[c].hops) + 1
    IN  IF k > CeHops THEN [s EXCEPT !.c[c].pc = "built"]
        ELSE IF k \in CePq THEN CeExtendPq(s, c, k) ELSE CeExtendClassic(s, c)

\* moor_circuit_create, moor_circuit_create_pq up to the wait.
CeCreate(s, c, pq) ==
    CeSend([s EXCEPT !.c[c].pc = IF pq THEN "create_pq" ELSE "create"], CeId(s, c), 1,
           <<[cmd |-> IF pq THEN "CREATE_PQ" ELSE "CREATE", shared |-> s.c[c].kind = "bridge"]>>)

\* moor_circuit_build up to CREATE, in a worker with a connection of its own.
CeBuild(c) ==
    /\ ce.c[c].pc = "idle" /\ c \notin CeBridged
    /\ LET s == [ce EXCEPT !.c[c].kind = "guard", !.c[c].seen = ceCons]
       IN  ce' = CeCreate(s, c, 1 \in CePq)
    /\ UNCHANGED <<ceKeys, ceCons, ceOverlap, ceBudget>>

\* moor_circuit_build_bridge up to CREATE: the event loop runs one at a time,
\* over the open link to the bridge if there is one.  The first hop is never
\* post-quantum; an unlisted bridge's key is derived from its identity.
CeBuildBridge(c) ==
    /\ ce.c[c].pc = "idle" /\ c \in CeBridged
    /\ \A d \in CeCircs : ce.c[d].kind = "bridge" => ce.c[d].pc \in {"built", "gone"}
    /\ LET seen == IF CeListed THEN ceCons ELSE [ceCons EXCEPT ![1].onion = 0]
           s == [ce EXCEPT !.c[c].kind = "bridge", !.c[c].seen = seen,
                           !.c[c].own = ~ce.bridge, !.bridge = TRUE, !.refs = @ + 1,
                           !.rate[1] = IF ce.bridge THEN @ ELSE 0]
       IN  ce' = CeCreate(s, c, FALSE)
    /\ UNCHANGED <<ceKeys, ceCons, ceOverlap, ceBudget>>

\* The build fails and its caller frees the circuit.  A worker closes its
\* connection.  On a bridge link the build lowers circuit_refcount, and
\* circ_cleanup_unlocked lowers it again unless it is 0; the caller frees the
\* connection it had allocated, which is the link only if it was not reused.
CeGiveUp(s, c) ==
    LET i == CeId(s, c)
        dead == [s EXCEPT !.c[c].pc = "gone"]
    IN  IF s.c[c].kind = "guard" THEN CeHangUp(dead, i)
        ELSE IF s.c[c].own THEN [CeHangUp(dead, i) EXCEPT !.bridge = FALSE, !.refs = 0]
        ELSE [dead EXCEPT !.refs = Max({@ - 2, 0})]

\* A post-quantum CREATE that fails is followed by a classical one over a new
\* connection.
CeFail(s, c) ==
    IF s.c[c].pc = "create_pq"
    THEN CeCreate([CeHangUp(s, CeId(s, c)) EXCEPT !.c[c].t = 2], c, FALSE)
    ELSE CeGiveUp(s, c)

\* Onion keys the client tries against the tag: the one it built with and,
\* for the first hop's classical CREATE, the one of the current consensus.
CeTried(cl, k) ==
    {cl.seen[k].onion} \cup (IF cl.pc = "create" /\ (cl.kind = "guard" \/ CeListed)
                             THEN {ceCons[k].onion} ELSE {})

CeExpected == [create |-> "CREATED", create_pq |-> "CREATED_PQ",
               extend |-> "EXTENDED", extend_pq |-> "EXTENDED_PQ"]
CeWaiting(c) == ce.c[c].pc \in DOMAIN CeExpected

\* The answer opens under the keys of the hops and its tag is right.
CeProven(cl, i, k, cell) ==
    /\ cell.cmd = CeExpected[cl.pc]
    /\ cell.layers = cl.hops
    /\ \E v \in CeTried(cl, k) : cell.tag = CeCke(i, k, v)

\* The hop is counted; after CREATED_PQ its ciphertext is sent first.
CeCounted(s, c, k, tag) ==
    LET i == CeId(s, c)
        kem == s.c[c].seen[k].kem
        pq == s.c[c].pc \in {"create_pq", "extend_pq"}
        t == [s EXCEPT !.c[c].hops = Append(@, IF pq THEN CeSecret(i, k, kem) ELSE tag)]
    IN  CeExtend(IF s.c[c].pc = "create_pq"
                 THEN CeSend(t, i, 1, CeKemCells(CeCiphertext(i, k, kem))) ELSE t, c)

\* The wait of the four functions ends with a cell of the circuit.
CeAnswer(c) ==
    /\ CeWaiting(c)
    /\ LET i == CeId(ce, c)
           cl == ce.c[c]
           k == Len(cl.hops) + 1
           cell == Head(ce.b[i][1])
           s == [ce EXCEPT !.b[i][1] = Tail(@)]
           stale == /\ cell.cmd = CeExpected[cl.pc]
                    /\ cell.tag = CeRelayCke(i, k, ceKeys[k].onion)
                    /\ cl.seen[k].onion = ceKeys[k].prev
       IN  /\ ce.b[i][1] # <<>>
           /\ ce' = IF CeProven(cl, i, k, cell) THEN CeCounted(s, c, k, cell.tag)
                    ELSE CeFail(s, c)
           /\ ceOverlap' = IF ~CeProven(cl, i, k, cell) /\ stale
                           THEN ceOverlap \cup {c} ELSE ceOverlap
    /\ UNCHANGED <<ceKeys, ceCons, ceBudget>>

\* circ_wait_for_readable runs out, or the cumulative deadline passes.
CeTimeout(c) ==
    /\ CeWaiting(c) /\ CeSpend("faults")
    /\ ce' = CeFail(ce, c)
    /\ UNCHANGED <<ceKeys, ceCons, ceOverlap>>

\* A built circuit is closed: DESTROY, then circ_cleanup_unlocked.
CeClose(c) ==
    /\ ce.c[c].pc = "built"
    /\ LET s == CeSend([ce EXCEPT !.c[c].pc = "gone"], CeId(ce, c), 1, <<[cmd |-> "DESTROY"]>>)
       IN  ce' = IF ce.c[c].kind = "guard" THEN CeHangUp(s, CeId(ce, c))
                 ELSE [s EXCEPT !.refs = Max({@ - 1, 0})]
    /\ UNCHANGED <<ceKeys, ceCons, ceOverlap, ceBudget>>

\* moor_connection_reap_idle: a link no circuit counts is closed.
CeReap ==
    LET on(i) == ce.c[i[1]].kind = "bridge" /\ i[2] = ce.c[i[1]].t
    IN  /\ ce.bridge /\ ce.refs = 0
        /\ ce' = [ce EXCEPT !.bridge = FALSE,
                    !.f = [i \in CeIds |-> IF on(i) THEN [@[i] EXCEPT
                             ![1] = Append(@, [cmd |-> "EOF"])] ELSE @[i]],
                    !.b = [i \in CeIds |-> IF on(i) THEN [@[i] EXCEPT ![1] = <<>>] ELSE @[i]],
                    !.c = [c \in CeCircs |-> IF @[c].kind = "bridge"
                             THEN [@[c] EXCEPT !.pc = "gone"] ELSE @[c]]]
        /\ UNCHANGED <<ceKeys, ceCons, ceOverlap, ceBudget>>

-----------------------------------------------------------------------------
(* The relays.                                                             *)

\* The circuit goes, and its neighbour beyond hears of it.
CeTearDown(s, i, k) ==
    LET t == [s EXCEPT !.r[i][k] = CeNoCirc]
    IN  IF s.r[i][k].next THEN CeSend(t, i, k + 1, <<[cmd |-> "DESTROY"]>>) ELSE t

\* moor_relay_handle_create, _create_pq: the cell counts first; past the rate
\* limit of its connection, or with a duplicate identifier, it is dropped
\* unanswered.  A connection of the circuit's own carries no other CREATE.
CeHandleCreate(s, i, k, cell) ==
    LET pq == cell.cmd = "CREATE_PQ"
        t == IF cell.shared THEN [s EXCEPT !.rate[k] = @ + 1] ELSE s
        tag == CeRelayCke(i, k, ceKeys[k].onion)
        new == [CeNoCirc EXCEPT !.alive = TRUE, !.pend = pq, !.key = IF pq THEN <<>> ELSE tag]
    IN  IF (cell.shared /\ t.rate[k] > CeCreateLimit) \/ s.r[i][k].alive THEN t
        ELSE CeReply([t EXCEPT !.r[i][k] = new], i, k,
                     [cmd |-> IF pq THEN "CREATED_PQ" ELSE "CREATED",
                      tag |-> tag, layers |-> <<>>])

\* Mutant: the buffer keeps the relay's own ciphertext.
MutCeHandleKem(s, i, k, data) ==
    LET r == s.r[i][k]
        buf == r.buf \o SubSeq(data, 1, Min({CePayload, CeKemLen - Len(r.buf)}))
    IN  IF ~r.alive \/ ~r.pend THEN s
        ELSE IF Len(buf) < CeKemLen THEN [s EXCEPT !.r[i][k].buf = buf]
        ELSE [s EXCEPT !.r[i][k].buf = buf, !.r[i][k].pend = FALSE,
                       !.r[i][k].key = CeDecapsulate(buf, k)]

\* CELL_KEM_CT: as much as still fits; a full buffer gives the keys.
CeHandleKem(s, i, k, data) ==
    LET r == s.r[i][k]
        buf == r.buf \o SubSeq(data, 1, Min({CePayload, CeKemLen - Len(r.buf)}))
    IN  IF ~r.alive \/ ~r.pend THEN s
        ELSE IF Len(buf) < CeKemLen THEN [s EXCEPT !.r[i][k].buf = buf]
        ELSE [s EXCEPT !.r[i][k].buf = <<>>, !.r[i][k].pend = FALSE,
                       !.r[i][k].key = CeDecapsulate(buf, k)]

\* RELAY_KEM_OFFER: kept in the same buffer until the next hop answers.
CeHandleOffer(s, i, k, data) ==
    LET r == s.r[i][k]
    IN  [s EXCEPT !.r[i][k].buf =
                     @ \o SubSeq(data, 1, Min({Len(data), CeKemLen - Len(r.buf)}))]

\* Both extensions: over an open channel at once, otherwise by a worker, if
\* there is one left.  A refusal is not answered.
CeExtendTo(s, i, k, pq) ==
    LET how == IF s.chan[k + 1] THEN "fast" ELSE "slow"
    IN  IF how = "slow" /\ s.threads[k] >= CeMaxThreads THEN s
        ELSE CeSend([s EXCEPT !.r[i][k].ext = how, !.r[i][k].next = how = "fast",
                              !.threads[k] = @ + (IF how = "slow" THEN 1 ELSE 0)],
                    i, k + 1, <<[cmd |-> IF pq THEN "CREATE_PQ" ELSE "CREATE",
                                 shared |-> how = "fast"]>>)

\* RELAY_EXTEND2: refused while an extension is pending.
CeHandleExtend2(s, i, k, early) ==
    LET counted == [s EXCEPT !.r[i][k].early = @ + 1]
    IN  IF ~early \/ s.r[i][k].early >= CeMaxEarly THEN s
        ELSE IF s.r[i][k].ext # "none" THEN counted ELSE CeExtendTo(counted, i, k, FALSE)

\* RELAY_EXTEND_PQ; g_extend_pq_inflight rises and falls within the handler,
\* so its limit is never met.
CeHandleExtendPq(s, i, k, early) ==
    IF ~early \/ s.r[i][k].early >= CeMaxEarly THEN s
    ELSE CeExtendTo([s EXCEPT !.r[i][k].early = @ + 1], i, k, TRUE)

\* A cell under other keys than the relay's is nobody's from here on.
CeGarbled(cell) == [cell EXCEPT !.keys = [k \in 1..(CeHops + 1) |-> <<"garbled">>]]

\* Passed on, if the circuit goes on; RELAY_EARLY cells are counted.
CePassOn(s, i, k, cell) ==
    IF ~s.r[i][k].next \/ (cell.early /\ s.r[i][k].early >= CeMaxEarly) THEN s
    ELSE CeSend([s EXCEPT !.r[i][k].early = @ + (IF cell.early THEN 1 ELSE 0)],
                i, k + 1, <<cell>>)

\* moor_relay_handle_relay: recognised, or passed on.
CeHandleRelay(s, i, k, cell) ==
    LET r == s.r[i][k]
    IN  IF ~r.alive THEN s
        ELSE IF r.key # cell.keys[k] THEN CePassOn(s, i, k, CeGarbled(cell))
        ELSE IF Len(cell.keys) > k THEN CePassOn(s, i, k, cell)
        ELSE IF cell.sub = "KEM_OFFER" THEN CeHandleOffer(s, i, k, cell.data)
        ELSE IF cell.sub = "EXTEND_PQ" THEN CeHandleExtendPq(s, i, k, cell.early)
        ELSE CeHandleExtend2(s, i, k, cell.early)

\* moor_relay_process_cell for a cell from the client's side.
CeRelayForward(i, k) ==
    /\ ce.f[i][k] # <<>>
    /\ LET cell == Head(ce.f[i][k])
           s == [ce EXCEPT !.f[i][k] = Tail(@)]
       IN  ce' = CASE cell.cmd \in {"CREATE", "CREATE_PQ"} -> CeHandleCreate(s, i, k, cell)
                   [] cell.cmd = "KEM_CT" -> CeHandleKem(s, i, k, cell.data)
                   [] cell.cmd = "RELAY" -> CeHandleRelay(s, i, k, cell)
                   [] OTHER -> CeTearDown(s, i, k)
    /\ UNCHANGED <<ceKeys, ceCons, ceOverlap, ceBudget>>

\* CREATED(_PQ), or extend_complete_cb after a worker: EXTENDED(_PQ) to the
\* client, then the buffered ciphertext to the new hop, and the buffer emptied.
CeHandleCreated(s, i, k, cell) ==
    LET r == s.r[i][k]
        pq == cell.cmd = "CREATED_PQ"
        done == [s EXCEPT !.threads[k] = @ - (IF r.ext = "slow" THEN 1 ELSE 0),
                          !.chan[k + 1] = TRUE,
                          !.rate[k + 1] = IF s.chan[k + 1] THEN @ ELSE 1,
                          !.r[i][k].ext = "none", !.r[i][k].next = TRUE]
        told == CeReply(done, i, k, [cmd |-> IF pq THEN "EXTENDED_PQ" ELSE "EXTENDED",
                                     tag |-> cell.tag, layers |-> <<r.key>>])
    IN  IF ~r.alive \/ r.ext = "none" THEN s
        ELSE IF pq THEN CeSend([told EXCEPT !.r[i][k].buf = <<>>], i, k + 1, CeKemCells(r.buf))
        ELSE told

\* moor_relay_process_cell for a cell from the exit's side.
CeRelayBackward(i, k) ==
    /\ k < CeHops /\ ce.b[i][k + 1] # <<>>
    /\ LET cell == Head(ce.b[i][k + 1])
           r == ce.r[i][k]
           s == [ce EXCEPT !.b[i][k + 1] = Tail(@)]
       IN  ce' = IF cell.cmd \in {"CREATED", "CREATED_PQ"} THEN CeHandleCreated(s, i, k, cell)
                 ELSE IF ~r.alive THEN s
                 ELSE IF cell.cmd = "DESTROY"
                 THEN CeReply([s EXCEPT !.r[i][k] = CeNoCirc], i, k, cell)
                 ELSE CeReply(s, i, k, [cell EXCEPT !.layers = <<r.key>> \o @])
    /\ UNCHANGED <<ceKeys, ceCons, ceOverlap, ceBudget>>

\* extend_worker_func cannot connect, or its wait for CREATED ends: DESTROY to
\* the client; its connection is closed.
CeWorkerFails(i, k) ==
    /\ ce.r[i][k].ext = "slow" /\ CeSpend("faults")
    /\ LET s == [ce EXCEPT !.threads[k] = @ - 1, !.r[i][k].ext = "none",
                           !.f[i][k + 1] = Append(@, [cmd |-> "EOF"]), !.b[i][k + 1] = <<>>]
       IN  ce' = CeReply(s, i, k, [cmd |-> "DESTROY"])
    /\ UNCHANGED <<ceKeys, ceCons, ceOverlap>>

\* A link between two relays fails: what it carried is lost, the circuits on
\* it end on both sides.
CeLinkLost(k) ==
    /\ ce.chan[k] /\ CeSpend("faults")
    /\ LET on(i) == ce.r[i][k - 1].next
       IN  ce' = [ce EXCEPT !.chan[k] = FALSE,
                    !.f = [i \in CeIds |-> IF on(i) THEN [@[i] EXCEPT
                             ![k] = <<[cmd |-> "EOF"]>>] ELSE @[i]],
                    !.b = [i \in CeIds |-> IF on(i) THEN [@[i] EXCEPT ![k] = <<>>,
                             ![k - 1] = Append(@, [cmd |-> "DESTROY"])] ELSE @[i]],
                    !.r = [i \in CeIds |-> IF on(i) THEN [@[i] EXCEPT ![k - 1] = CeNoCirc]
                                           ELSE @[i]]]
    /\ UNCHANGED <<ceKeys, ceCons, ceOverlap>>

\* CREATE_RATE_WINDOW passes.
CeWindow ==
    /\ CeSpend("faults")
    /\ ce' = [ce EXCEPT !.rate = [k \in CeRelays |-> 0]]
    /\ UNCHANGED <<ceKeys, ceCons, ceOverlap>>

\* The circuits of other clients use up the window of a link between relays.
CeOthers(k) ==
    /\ ce.chan[k] /\ ce.rate[k] < CeCreateLimit
    /\ ce' = [ce EXCEPT !.rate[k] = CeCreateLimit]
    /\ UNCHANGED <<ceKeys, ceCons, ceOverlap, ceBudget>>

\* moor_relay_check_key_rotation, moor_relay_rotate_onion_key: a key never
\* used before.
CeRotate(k) ==
    /\ CeSpend("rotations")
    /\ ceKeys' = [ceKeys EXCEPT ![k] = [onion |-> ceBudget.rotations,
                                      prev |-> @.onion, kem |-> @.kem]]
    /\ UNCHANGED <<ce, ceCons, ceOverlap>>

\* A relay stops and starts again: its connections end, the onion key is the
\* identity's, and run_relay generates a new KEM key.
CeRestart(k) ==
    LET entered(i) == k > 1 /\ (ce.r[i][k - 1].next \/ ce.r[i][k - 1].ext # "none")
        slow == {i \in CeIds : k > 1 /\ ce.r[i][k - 1].ext = "slow"}
        left(i) == ce.r[i][k].next \/ ce.r[i][k].ext # "none"
        bridged(c) == k = 1 /\ ce.c[c].kind = "bridge" /\ ce.c[c].pc # "idle"
        lost == [cmd |-> "DESTROY"]
    IN  /\ CeSpend("faults")
        /\ ceKeys' = [ceKeys EXCEPT ![k] = [onion |-> 0, prev |-> 0, kem |-> @.kem + 1]]
        /\ ce' = [ce EXCEPT
              !.r = [i \in CeIds |-> [j \in CeRelays |->
                       IF j = k \/ (j = k - 1 /\ ce.r[i][j].next) THEN CeNoCirc
                       ELSE IF j = k - 1 THEN [@[i][j] EXCEPT !.ext = "none"] ELSE @[i][j]]],
              !.f = [i \in CeIds |-> [j \in CeRelays |->
                       IF j = k THEN <<>>
                       ELSE IF j = k + 1 /\ left(i) THEN Append(@[i][j], [cmd |-> "EOF"])
                       ELSE @[i][j]]],
              !.b = [i \in CeIds |-> [j \in CeRelays |->
                       IF j = 1 /\ k = 1 /\ CeWaiting(i[1]) /\ i = CeId(ce, i[1])
                       THEN Append(@[i][j], lost)
                       ELSE IF j \in {k, k + 1} THEN <<>>
                       ELSE IF j = k - 1 /\ entered(i) THEN Append(@[i][j], lost)
                       ELSE @[i][j]]],
              !.c = [c \in CeCircs |-> IF bridged(c) THEN [@[c] EXCEPT !.pc = "gone"]
                                       ELSE @[c]],
              !.chan = [j \in CeRelays |-> @[j] /\ j \notin {k, k + 1}],
              !.threads = [j \in CeRelays |-> IF j = k THEN 0 ELSE IF j = k - 1
                             THEN @[j] - Cardinality(slow) ELSE @[j]],
              !.rate[k] = 0, !.bridge = @ /\ k # 1, !.refs = IF k = 1 THEN 0 ELSE @]
        /\ UNCHANGED <<ceCons, ceOverlap>>

\* The client's consensus is replaced.
CeRefresh ==
    LET now == [k \in CeRelays |-> [onion |-> ceKeys[k].onion, kem |-> ceKeys[k].kem]]
    IN  /\ ceCons # now /\ ceCons' = now
        /\ UNCHANGED <<ce, ceKeys, ceOverlap, ceBudget>>

CeNext ==
    \/ \E c \in CeCircs : \/ CeBuild(c) \/ CeBuildBridge(c) \/ CeAnswer(c)
                          \/ CeTimeout(c) \/ CeClose(c)
    \/ \E i \in CeIds, k \in CeRelays : CeRelayForward(i, k) \/ CeRelayBackward(i, k)
    \/ \E i \in CeIds, k \in 1..(CeHops - 1) : CeWorkerFails(i, k)
    \/ \E k \in 2..CeHops : CeLinkLost(k) \/ CeOthers(k)
    \/ \E k \in CeRelays : CeRotate(k) \/ CeRestart(k)
    \/ CeReap \/ CeWindow \/ CeRefresh

-----------------------------------------------------------------------------
(* Properties.                                                             *)

\* The keys of hop k come from a KEM key that the relay has no more.
CeSuperseded(c, k) ==
    /\ ce.c[c].hops[k][1] = "kem"
    /\ ce.c[c].seen[k].kem # ceKeys[k].kem

\* A hop the client counts and its relay hold the same keys, once no ciphertext
\* or end of the link is on its way, or the relay no longer has the circuit.
CeAgreeAt(c, k) ==
    LET i == CeId(ce, c) IN
        \/ ~ce.r[i][k].alive
        \/ \E j \in DOMAIN ce.f[i][k] : ce.f[i][k][j].cmd \in {"KEM_CT", "EOF"}
        \/ ~ce.r[i][k].pend /\ ce.r[i][k].key = ce.c[c].hops[k]

\* The keys agree at every hop but one whose relay has restarted since the
\* client's consensus: handshakes, forwarded ciphertexts and the buffer they
\* share never mix up hops, tries or circuits, whatever is rotated, refused,
\* retried or lost.
CeKeysAgree ==
    \A c \in CeCircs : \A k \in DOMAIN ce.c[c].hops :
        ~CeSuperseded(c, k) => CeAgreeAt(c, k)

\* circuit.c:1013 "Relay decapsulates with its kem_sk. Both sides combine":
\* a hop whose tag was right has the client's keys.
CeTagProves == \A c \in CeCircs : \A k \in DOMAIN ce.c[c].hops : CeAgreeAt(c, k)

\* A client that still uses a relay's previous onion key is served.
CeRotationOverlap == ceOverlap = {}

\* circuit_refcount of the bridge link is the number of circuits on it.
CeBridgeRefs ==
    ce.bridge => ce.refs = Cardinality({c \in CeCircs :
                     ce.c[c].kind = "bridge" /\ ce.c[c].pc \notin {"idle", "gone"}})
=============================================================================
