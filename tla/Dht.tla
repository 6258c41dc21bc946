-------------------------------- MODULE Dht --------------------------------
(***************************************************************************)
(* The descriptor table on the relays (dht.c): choosing the replicas of a  *)
(* descriptor, storing it cell by cell, expiry and the file kept across    *)
(* restarts, and the client's private lookup, which asks two replicas for  *)
(* the XOR of the slots it selects and XORs the two answers.               *)
(*                                                                         *)
(* The bytes of a descriptor are the set of its chunks <<version, offset>> *)
(* that are in place, so zero bytes are the empty set and XOR is the       *)
(* symmetric difference.  Lengths are counted in chunks.                   *)
(***************************************************************************)
EXTENDS Integers, Sequences, FiniteSets, FiniteSetsExt, SequencesExt, Bitwise

CONSTANTS DhN, DhRunning,         \* relays 1..DhN of the consensus, those RUNNING
          DhReplicas, DhSmallNet, \* MOOR_DHT_REPLICAS, MOOR_DHT_SMALL_NET_THRESH
          DhAddrs, DhLengths,     \* addresses (numbers), descriptor lengths
          DhOld,                  \* an address whose descriptor is stored already
          DhMaxData,              \* MOOR_DHT_MAX_DESC_DATA, in chunks
          DhMaxStored, DhTtl,     \* MOOR_DHT_MAX_STORED, MOOR_DHT_EPOCH_TTL
          DhRateSlots, DhRateInterval, DhEvictAfter,
          DhPeriod,               \* MOOR_TIME_PERIOD_SECS
          DhLevels, DhPrgs,       \* depth of the DPF tree, pseudo-random generators
          DhSeeds, DhMasks,       \* pairs of seeds and bit masks a look-up may draw
          DhMaxPublishes, DhMaxLookups, DhMaxFaults, DhMaxTime    \* bounds

VARIABLES
    dhStore,    \* [relay -> sequence of entries] g_dht_store
    dhFile,     \* [relay -> sequence of entries] dht_store.dat
    dhRate,     \* [relay -> sequence of slots] g_dht_rate
    dhNet,      \* [circuit -> its STORE cells in flight and its answer]
    dhPub,      \* the publisher: version, length and the replicas left
    dhGet,      \* the client's lookup
    dhNow,
    dhBudget    \* publishes and lookups started, faults so far

dhVars == <<dhStore, dhFile, dhRate, dhNet, dhPub, dhGet, dhNow, dhBudget>>

DhRelays == 1..DhN
DhSlots == 0..(2^DhLevels - 1)
DhTp == dhNow \div DhPeriod
DhIdle == [on |-> FALSE]

----------------------------------------------------------------------------
(* Replicas.                                                               *)

\* moor_dht_compute_epoch_nonce: one nonce for each shared random value
\* (0 previous, 1 current) and time period.
DhNonce(srv, tp) == 2 * tp + srv

\* moor_dht_relay_ring_pos, moor_dht_desc_ring_pos: hashes onto the ring.
DhRelayPos(r, nonce) == (3 * r + 5 * nonce) % 8
DhDescPos(a, nonce) == (5 * a + 3 * nonce) % 8
DhDistance(a, r, nonce) == DhDescPos(a, nonce) ^^ DhRelayPos(r, nonce)

\* One step of the scan: fill the first places, then replace the farthest.
DhCloser(best, r, a, n) ==
    LET worst == CHOOSE i \in DOMAIN best :
                    \A j \in DOMAIN best : DhDistance(a, best[j], n) <= DhDistance(a, best[i], n)
    IN  IF Len(best) < DhReplicas THEN Append(best, r)
        ELSE IF DhDistance(a, r, n) < DhDistance(a, best[worst], n)
             THEN [best EXCEPT ![worst] = r] ELSE best

\* moor_dht_find_responsible: in a small network the first running relays.
DhFindResponsible(a, srv, tp) ==
    LET running == SelectSeq([i \in 1..DhN |-> i], LAMBDA r : r \in DhRunning)
        scan(best, r) == DhCloser(best, r, a, DhNonce(srv, tp))
    IN  IF Cardinality(DhRunning) < DhSmallNet
        THEN SubSeq(running, 1, Min({Len(running), DhReplicas}))
        ELSE FoldLeft(scan, <<>>, running)

DhTable == [k \in (DhAddrs \cup {DhOld}) \X {0, 1} \X (0..DhMaxTime) |-> DhFindResponsible(k[1], k[2], k[3])]
DhResponsible(a, srv, tp) == DhTable[<<a, srv, tp>>]

DhIsResponsible(r, a, srv, tp) == Contains(DhResponsible(a, srv, tp), r)

\* What a relay accepts to store, in relay.c and again in dht.c.
DhStores(r, a) ==
    \/ DhIsResponsible(r, a, 1, DhTp)
    \/ DhIsResponsible(r, a, 0, DhTp)
    \/ DhIsResponsible(r, a, 1, Max({DhTp - 1, 0}))

----------------------------------------------------------------------------
(* The relay's table.                                                      *)

DhIndex(store, a) == SelectInSeq(store, LAMBDA e : e.addr = a)

\* dht_store_rate_check: <<accepted, table>>.
DhRateCheck(rate, a, c) ==
    LET i   == SelectInSeq(rate, LAMBDA s : s.addr = a)
        old == CHOOSE k \in DOMAIN rate : \A m \in DOMAIN rate : rate[k].last <= rate[m].last
        new == [addr |-> a, circ |-> c, last |-> dhNow]
    IN  IF i # 0
        THEN IF rate[i].circ # c /\ dhNow - rate[i].last < DhRateInterval
             THEN <<FALSE, rate>> ELSE <<TRUE, [rate EXCEPT ![i] = new]>>
        ELSE <<TRUE, IF Len(rate) < DhRateSlots THEN Append(rate, new)
                     ELSE [rate EXCEPT ![old] = new]>>

DhEntry(a, len, data, got) ==
    [addr |-> a, len |-> len, data |-> data, got |-> got, at |-> dhNow, epoch |-> DhTp]

\* The entry a chunk is written into: the one of its address, reset when it
\* is a stale partial one or has another length.
DhReassembly(e, a, len) ==
    IF \/ e.got < e.len /\ dhNow - e.at > DhEvictAfter
       \/ e.len # len
    THEN DhEntry(a, len, {}, 0) ELSE e

\* memcpy of one chunk; received_bytes is the highest end seen.
DhWrite(e, ver, off) ==
    [e EXCEPT !.data = {d \in @ : d[2] # off} \cup {<<ver, off>>},
              !.got = Max({@, off + 1})]

\* moor_dht_store_put and the reassembly of moor_dht_handle_store: a set with
\* the new table, or empty when the cell is refused.
DhPut(store, a, m, off) ==
    LET i     == DhIndex(store, a)
        whole == DhEntry(a, 1, {<<m.ver, 0>>}, 1)
    IN  IF m.len = 1
        THEN IF i # 0 THEN IF DhTp < store[i].epoch THEN {} ELSE {[store EXCEPT ![i] = whole]}
             ELSE IF Len(store) >= DhMaxStored THEN {} ELSE {Append(store, whole)}
        ELSE IF i # 0 THEN {[store EXCEPT ![i] = DhWrite(DhReassembly(@, a, m.len), m.ver, off)]}
             ELSE IF Len(store) >= DhMaxStored THEN {}
             ELSE {Append(store, DhWrite(DhEntry(a, m.len, {}, 0), m.ver, off))}

\* moor_dht_store_save, which replaces the file at once, and
\* moor_dht_store_load, to which every entry is complete.
DhExpired(e) == dhNow - e.at > DhTtl
DhSaved(s) == [i \in DOMAIN s |-> [addr |-> s[i].addr, len |-> s[i].len, data |-> s[i].data,
                                   at |-> s[i].at, epoch |-> s[i].epoch]]
DhLoaded(file) ==
    LET kept == SelectSeq(file, LAMBDA e : ~DhExpired(e))
    IN  [i \in DOMAIN kept |-> [addr |-> kept[i].addr, len |-> kept[i].len, data |-> kept[i].data,
                                got |-> kept[i].len, at |-> kept[i].at, epoch |-> kept[i].epoch]]

\* The circuits that still matter: the publisher's and those with cells.
DhOpenCircuit == IF dhPub.on THEN dhPub.circ ELSE 0
DhWithCells(net, open) ==
    [c \in {d \in DOMAIN net : d = open \/ net[d].cells # <<>>} |-> net[c]]

\* RELAY_DHT_STORE at the last hop, with the save that follows a success; the
\* ack is sent once the entry counts as received in full.
DhHandleStore(c) ==
    LET m    == dhNet[c]
        rate == DhRateCheck(dhRate[m.relay], m.addr, c)
        put  == DhPut(dhStore[m.relay], m.addr, m, Head(m.cells))
        ok   == DhStores(m.relay, m.addr) /\ rate[1] /\ put # {}
    IN  /\ m.cells # <<>>
        /\ dhRate' = IF DhStores(m.relay, m.addr)
                     THEN [dhRate EXCEPT ![m.relay] = rate[2]] ELSE dhRate
        /\ IF ok
           THEN \E s \in put :
                  LET e == s[DhIndex(s, m.addr)]
                  IN  /\ dhStore' = [dhStore EXCEPT ![m.relay] = s]
                      /\ dhFile' = [dhFile EXCEPT ![m.relay] = DhSaved(s)]
                      /\ dhNet' = DhWithCells([dhNet EXCEPT ![c].cells = Tail(@),
                                                   ![c].acked = @ \/ e.got >= m.len], DhOpenCircuit)
           ELSE /\ dhNet' = DhWithCells([dhNet EXCEPT ![c].cells = Tail(@)], DhOpenCircuit)
                /\ UNCHANGED <<dhStore, dhFile>>
        /\ UNCHANGED <<dhPub, dhGet, dhNow, dhBudget>>

\* moor_dht_store_expire: the last entry takes an expired one's place.
DhExpire(r) ==
    LET swap(s) == LET i == SelectInSeq(s, DhExpired)
                   IN  IF i = 0 THEN s
                       ELSE SubSeq([s EXCEPT ![i] = s[Len(s)]], 1, Len(s) - 1)
    IN  /\ SelectInSeq(dhStore[r], DhExpired) # 0
        /\ dhStore' = [dhStore EXCEPT ![r] = FoldLeft(LAMBDA s, e : swap(s), @, @)]
        /\ UNCHANGED <<dhFile, dhRate, dhNet, dhPub, dhGet, dhNow, dhBudget>>

\* A relay restarts and loads its file.
DhRestart(r) ==
    /\ dhBudget.faults < DhMaxFaults
    /\ dhBudget' = [dhBudget EXCEPT !.faults = @ + 1]
    /\ dhStore' = [dhStore EXCEPT ![r] = DhLoaded(dhFile[r])]
    /\ dhRate' = [dhRate EXCEPT ![r] = <<>>]
    /\ dhNet' = DhWithCells([c \in DOMAIN dhNet |-> [dhNet[c] EXCEPT !.cells =
                               IF dhNet[c].relay = r THEN <<>> ELSE @]], DhOpenCircuit)
    /\ UNCHANGED <<dhFile, dhPub, dhGet, dhNow>>

----------------------------------------------------------------------------
(* The publisher.                                                          *)

\* moor_dht_publish for the current and then for the previous period.
DhPublish(a, len) ==
    /\ ~dhPub.on /\ dhBudget.publishes < DhMaxPublishes
    /\ dhBudget' = [dhBudget EXCEPT !.publishes = @ + 1]
    /\ dhPub' = [on |-> TRUE, addr |-> a, len |-> len, ver |-> dhBudget.publishes + 1, circ |-> 0,
                 left |-> DhResponsible(a, 1, DhTp) \o
                          (IF DhTp > 0 THEN DhResponsible(a, 0, DhTp - 1) ELSE <<>>)]
    /\ UNCHANGED <<dhStore, dhFile, dhRate, dhNet, dhGet, dhNow>>

\* dht_connect_relay and the cells of the descriptor; `sent` of them leave
\* before the link fails.
DhSend(sent) ==
    LET c == 1 + Max({0} \cup DOMAIN dhNet)
        broken == sent < dhPub.len
    IN  /\ dhPub.on /\ dhPub.circ = 0 /\ dhPub.left # <<>>
        /\ broken => dhBudget.faults < DhMaxFaults
        /\ dhBudget' = [dhBudget EXCEPT !.faults = IF broken THEN @ + 1 ELSE @]
        /\ dhPub' = [dhPub EXCEPT !.left = Tail(@), !.circ = IF broken THEN 0 ELSE c]
        /\ dhNet' = IF sent = 0 THEN dhNet
                    ELSE [d \in DOMAIN dhNet \cup {c} |->
                          IF d # c THEN dhNet[d]
                          ELSE [relay |-> Head(dhPub.left), addr |-> dhPub.addr, ver |-> dhPub.ver,
                                len |-> dhPub.len, cells |-> [i \in 1..sent |-> i - 1],
                                acked |-> FALSE]]
        /\ UNCHANGED <<dhStore, dhFile, dhRate, dhGet, dhNow>>

\* The STORED ack, or the timeout; the circuit is torn down either way.
DhAnswered ==
    /\ dhPub.on /\ dhPub.circ # 0
    /\ dhNet[dhPub.circ].acked \/ dhNet[dhPub.circ].cells = <<>>
    /\ dhPub' = [dhPub EXCEPT !.circ = 0]
    /\ dhNet' = DhWithCells(dhNet, 0)
    /\ UNCHANGED <<dhStore, dhFile, dhRate, dhGet, dhNow, dhBudget>>

DhPublished ==
    /\ dhPub.on /\ dhPub.circ = 0 /\ dhPub.left = <<>>
    /\ dhPub' = DhIdle
    /\ UNCHANGED <<dhStore, dhFile, dhRate, dhNet, dhGet, dhNow, dhBudget>>

\* Relays on the path free a circuit that was torn down with what it queued.
DhCircuitGone(c) ==
    /\ ~(dhPub.on /\ dhPub.circ = c)
    /\ dhNet' = [d \in DOMAIN dhNet \ {c} |-> dhNet[d]]
    /\ UNCHANGED <<dhStore, dhFile, dhRate, dhPub, dhGet, dhNow, dhBudget>>

----------------------------------------------------------------------------
(* The distributed point function (moor_dpf_gen, moor_dpf_eval_full), with *)
(* seeds of one bit and an arbitrary generator: prg[s][d] is the child     *)
(* seed and control bit in direction d.                                    *)

DhXor(x, y) == (x + y) % 2
DhBits(x) == [i \in 1..DhLevels |-> (x \div 2^(DhLevels - i)) % 2]

\* A child node, corrected when the node's control bit is set.
DhChild(prg, node, cw, d) ==
    LET out == prg[node.s][d]
    IN  [s |-> DhXor(out.s, node.t * cw.s), t |-> DhXor(out.t, node.t * cw.t[d])]

\* The correction applied to the direction kept.
MutDhCorrection(prg, a, b, d) ==
    LET oa == prg[a.s]
        ob == prg[b.s]
    IN  [s |-> DhXor(oa[d].s, ob[d].s),
         t |-> [e \in {0, 1} |-> DhXor(DhXor(oa[e].t, ob[e].t), IF e = d THEN 1 ELSE 0)]]

\* The correction word of a level: the direction off the path agrees.
DhCorrection(prg, a, b, d) ==
    LET oa == prg[a.s]
        ob == prg[b.s]
    IN  [s |-> DhXor(oa[1 - d].s, ob[1 - d].s),
         t |-> [e \in {0, 1} |-> DhXor(DhXor(oa[e].t, ob[e].t), IF e = d THEN 1 ELSE 0)]]

DhDpfGen(prg, sa, sb, target) ==
    LET level(acc, d) ==
            LET cw == DhCorrection(prg, acc.a, acc.b, d)
            IN  [a |-> DhChild(prg, acc.a, cw, d), b |-> DhChild(prg, acc.b, cw, d),
                 cws |-> Append(acc.cws, cw)]
        ra  == [s |-> sa, t |-> 0]
        rb  == [s |-> sb, t |-> 1]
        end == FoldLeft(level, [a |-> ra, b |-> rb, cws |-> <<>>], DhBits(target))
        key(root) == [root |-> root, cws |-> end.cws, leaf |-> DhXor(DhXor(end.a.s, end.b.s), 1)]
    IN  <<key(ra), key(rb)>>

\* The slots a key selects: the leaves whose output bit is 1.
DhDpfEval(prg, key) ==
    LET leaf(x) == FoldLeftDomain(LAMBDA node, i : DhChild(prg, node, key.cws[i], DhBits(x)[i]),
                                  key.root, DhBits(x))
    IN  {x \in DhSlots : DhXor(leaf(x).s, leaf(x).t * key.leaf) = 1}

----------------------------------------------------------------------------
(* The client.                                                             *)

DhSlotOf(a) == a % 2^DhLevels

\* The latest entry of every slot, a later one in the table winning a tie.
DhFlat(store) ==
    [s \in DhSlots |->
       LET mine == {i \in DOMAIN store : DhSlotOf(store[i].addr) = s}
           older(i, j) == store[i].at < store[j].at \/ (store[i].at = store[j].at /\ i <= j)
           last == {i \in mine : \A j \in mine : older(j, i)}
       IN  IF last = {} THEN {} ELSE store[CHOOSE i \in last : TRUE].data]

\* moor_dht_handle_pir_query, moor_dht_handle_dpf_query: XOR of the slots.
DhXorAnswer(flat, mask) == FoldSet(LAMBDA s, acc : SymDiff(flat[s], acc), {}, mask)

\* The pairs of moor_dht_fetch, each tried with DPF and then with bit masks.
DhPairs(n) == SelectSeq(<< <<1, 2>>, <<1, 3>>, <<2, 3>> >>, LAMBDA p : p[2] <= n)
DhTries(a, srv, tp) ==
    LET rs == DhResponsible(a, srv, tp)
        ps == DhPairs(Len(rs))
    IN  [i \in 1..(2 * Len(ps)) |->
           LET p == ps[(i + 1) \div 2]
           IN  [dpf |-> i % 2 = 1, srv |-> srv, a |-> rs[p[1]], b |-> rs[p[2]]]]

\* The two queries: keys of a point function, or a random mask and the same
\* mask with the slot's bit flipped.
DhDpfQueries ==
    [slot \in DhSlots |->
       {LET k == DhDpfGen(p, s[1], s[2], slot) IN <<DhDpfEval(p, k[1]), DhDpfEval(p, k[2])>> :
          p \in DhPrgs, s \in DhSeeds}]
DhQueries(dpf, slot) ==
    IF dpf THEN DhDpfQueries[slot] ELSE {<<m, SymDiff(m, {slot})>> : m \in DhMasks}

DhLookup(a) ==
    /\ ~dhGet.on /\ dhBudget.lookups < DhMaxLookups
    /\ dhBudget' = [dhBudget EXCEPT !.lookups = @ + 1]
    /\ dhGet' = [on |-> TRUE, addr |-> a, asked |-> FALSE, mask2 |-> {}, r1 |-> {}, flat1 |-> <<>>,
                 left |-> DhTries(a, 1, DhTp) \o
                          (IF DhTp > 0 THEN DhTries(a, 0, DhTp - 1) ELSE <<>>)]
    /\ UNCHANGED <<dhStore, dhFile, dhRate, dhNet, dhPub, dhNow>>

\* The first replica answers.
DhAskFirst ==
    LET t == Head(dhGet.left)
    IN  /\ dhGet.on /\ ~dhGet.asked /\ dhGet.left # <<>>
        /\ \E q \in DhQueries(t.dpf, DhSlotOf(dhGet.addr)) :
             dhGet' = [dhGet EXCEPT !.asked = TRUE, !.mask2 = q[2],
                                    !.flat1 = DhFlat(dhStore[t.a]),
                                    !.r1 = DhXorAnswer(DhFlat(dhStore[t.a]), q[1])]
        /\ UNCHANGED <<dhStore, dhFile, dhRate, dhNet, dhPub, dhNow, dhBudget>>

\* moor_hs_client_connect decrypts as many bytes as the fetch reports, and
\* that is always the size of its buffer.
DhOpens(result, len) ==
    \E v \in 0..DhMaxPublishes : result = {<<v, i>> : i \in 0..(len - 1)}

\* The tries left after an answer: the next one when it was all zeros, the
\* other period's when it did not open, none when it did.
DhGoOn(get, left) ==
    [get EXCEPT !.asked = FALSE, !.mask2 = {}, !.r1 = {}, !.flat1 = <<>>, !.left = left]

\* The second replica's table, and what its answer makes of the first one's.
DhFlat2 == DhFlat(dhStore[Head(dhGet.left).b])
DhResult == SymDiff(dhGet.r1, DhXorAnswer(DhFlat2, dhGet.mask2))
DhAwaited == dhGet.on /\ dhGet.asked

\* The second replica answers; all zeros is "not found", anything else ends
\* the fetch for this period.
DhAskSecond ==
    LET result == DhResult
    IN  /\ DhAwaited
        /\ dhGet' = DhGoOn(dhGet, IF result = {} THEN Tail(dhGet.left)
                                  ELSE IF DhOpens(result, DhMaxData) THEN <<>>
                                  ELSE SelectSeq(dhGet.left, LAMBDA x : x.srv # Head(dhGet.left).srv))
        /\ UNCHANGED <<dhStore, dhFile, dhRate, dhNet, dhPub, dhNow, dhBudget>>

\* A replica cannot be reached or answers short: the next try.
DhAskFails ==
    /\ dhGet.on /\ dhGet.left # <<>> /\ dhBudget.faults < DhMaxFaults
    /\ dhBudget' = [dhBudget EXCEPT !.faults = @ + 1]
    /\ dhGet' = DhGoOn(dhGet, Tail(dhGet.left))
    /\ UNCHANGED <<dhStore, dhFile, dhRate, dhNet, dhPub, dhNow>>

\* The lookup ends; without an opened descriptor the client asks the DA.
DhLookupEnds ==
    /\ dhGet.on /\ dhGet.left = <<>>
    /\ dhGet' = DhIdle
    /\ UNCHANGED <<dhStore, dhFile, dhRate, dhNet, dhPub, dhNow, dhBudget>>

DhTick ==
    /\ dhNow < DhMaxTime
    /\ dhNow' = dhNow + 1
    /\ UNCHANGED <<dhStore, dhFile, dhRate, dhNet, dhPub, dhGet, dhBudget>>

----------------------------------------------------------------------------
\* Some of the replicas of DhOld hold its descriptor.
DhInit ==
    /\ dhNow = 0
    /\ \E held \in SUBSET ToSet(DhResponsible(DhOld, 1, 0)) :
          dhStore = [r \in DhRelays |->
                       IF r \in held THEN <<DhEntry(DhOld, 1, {<<0, 0>>}, 1)>> ELSE <<>>]
    /\ dhFile = [r \in DhRelays |-> DhSaved(dhStore[r])]
    /\ dhRate = [r \in DhRelays |-> <<>>]
    /\ dhNet = <<>>
    /\ dhPub = DhIdle
    /\ dhGet = DhIdle
    /\ dhBudget = [publishes |-> 0, lookups |-> 0, faults |-> 0]

DhNext ==
    \/ \E a \in DhAddrs, len \in DhLengths : DhPublish(a, len)
    \/ \E n \in 0..DhMaxData : dhPub.on /\ n <= dhPub.len /\ DhSend(n)
    \/ DhAnswered \/ DhPublished
    \/ \E c \in DOMAIN dhNet : DhHandleStore(c) \/ DhCircuitGone(c)
    \/ \E r \in DhRelays : DhExpire(r) \/ DhRestart(r)
    \/ \E a \in DhAddrs : DhLookup(a)
    \/ DhAskFirst \/ DhAskSecond \/ DhAskFails \/ DhLookupEnds
    \/ DhTick

----------------------------------------------------------------------------
DhReplicasClosest ==
    \A a \in DhAddrs, srv \in {0, 1}, tp \in 0..DhMaxTime :
        LET rs == ToSet(DhResponsible(a, srv, tp))
            n  == DhNonce(srv, tp)
        IN  /\ Cardinality(rs) = Min({DhReplicas, Cardinality(DhRunning)})
            /\ Cardinality(DhRunning) >= DhSmallNet =>
                 \A r \in rs, q \in DhRunning \ rs : DhDistance(a, r, n) <= DhDistance(a, q, n)

\* Every generator of one-bit seeds and control bits.
DhAllPrgs == [{0, 1} -> [{0, 1} -> [s : {0, 1}, t : {0, 1}]]]

\* The keys of a point function select slots that differ in the target alone.
DhPointFunction ==
    \A p \in DhAllPrgs, sa, sb \in {0, 1}, target \in DhSlots :
        LET k == DhDpfGen(p, sa, sb, target)
        IN  SymDiff(DhDpfEval(p, k[1]), DhDpfEval(p, k[2])) = {target}

\* The replicas are the closest running relays in a network that is not
\* small (moor_dht_find_responsible against its definition), and whatever the
\* two replicas hold, also halves and different versions, the answers XOR to
\* what one of them has in the slot asked for, but for the chunks in which
\* other slots of the two tables differ: nothing else of a slot that was not
\* asked for gets in, through the DPF tree as through the bit masks
\* (moor_dpf_gen, moor_dpf_eval_full, dht_fetch_dpf, dht_fetch_pir).
DhLookupExact ==
    /\ DhReplicasClosest /\ DhPointFunction
    /\ DhAwaited =>
         LET slot   == DhSlotOf(dhGet.addr)
             flat2  == DhFlat2
             differ == UNION {SymDiff(dhGet.flat1[s], flat2[s]) : s \in DhSlots \ {slot}}
         IN  \E flat \in {dhGet.flat1, flat2} : SymDiff(DhResult, flat[slot]) \subseteq differ

\* "XORing the two responses yields the target entry": what a lookup returns
\* from two equal tables can be opened by the client.
DhYieldsEntry ==
    DhAwaited /\ dhGet.flat1 = DhFlat2 /\ DhResult # {} => DhOpens(DhResult, DhMaxData)

\* A result is what one of the two replicas held in the slot.
DhResultHeld ==
    DhAwaited => LET slot == DhSlotOf(dhGet.addr)
                 IN  DhResult \in {{}, dhGet.flat1[slot], DhFlat2[slot]}
=============================================================================
