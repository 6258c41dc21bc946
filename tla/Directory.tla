------------------------------ MODULE Directory ------------------------------
(***************************************************************************)
(* The directory authorities (directory.c, main.c): each keeps a list of   *)
(* relays, signs the body it builds from it, exchanges signatures with its *)
(* peers and serves a snapshot; clients and mirrors verify what they fetch.*)
(*                                                                         *)
(* Time is counted in consensus intervals, the unit of valid_after.  A     *)
(* body is the epoch and the ordered <<identity, bandwidth>> pairs: that   *)
(* is what consensus_body_build signs.  A signature is the body it covers. *)
(* Requests wait in daNet until the lock of the addressee is free and may  *)
(* be lost.  An authority holds its lock while it sends its votes and      *)
(* waits for the answers; the receive timeout lets it go on without them.  *)
(***************************************************************************)
EXTENDS Integers, Sequences, FiniteSets, SequencesExt

CONSTANTS
    DaNodes,        \* the authorities, all trusted by the clients
    DaIds,          \* relay identities: numbers, the order of memcmp
    DaAddrs,        \* address:port pairs
    DaBandwidths,   \* self-reported bandwidths
    DaBanned,       \* <<authority, identity>> in its banned_relays file
    DaStale,        \* stale_threshold in intervals (3)
    DaProbeFails,   \* probe_failures that evict (3)
    DaMaxRelays,    \* MOOR_MAX_RELAYS
    DaMaxTime,      \* bound: intervals
    DaMaxPublish,   \* bound: PUBLISH requests
    DaMaxTasks,     \* bound: timers, syncs, probes, restarts, dead relays
    DaMaxNet        \* bound: requests in flight

\* The trusted authorities are a finite list.
ASSUME DaAssumption == IsFiniteSet(DaNodes)

VARIABLES
    da,             \* [authority -> its state]
    daNet,          \* requests on their way to a peer
    daNow,          \* time
    daUp,           \* relays that answer a probe
    daReg,          \* [identity -> time of its last PUBLISH], 0 if none
    daClient,       \* the consensus a client last accepted
    daBuilt,        \* bodies each authority ever built and signed
    daBudget

daVars == <<da, daNet, daNow, daUp, daReg, daClient, daBuilt, daBudget>>

DaNone == [ep |-> 0, list |-> <<>>]
DaNoSnap == [body |-> DaNone, sig |-> [d \in DaNodes |-> DaNone]]
DaKinds == {"propagate", "timer", "sync", "probe"}
DaIdle == [stage |-> "idle", arg |-> <<>>]

DaInit ==
    /\ da = [d \in DaNodes |->
               [rel |-> <<>>, ep |-> 1, sig |-> [e \in DaNodes |-> DaNone],
                snap |-> DaNoSnap, lock |-> FALSE,
                task |-> [k \in DaKinds |-> DaIdle]]]
    /\ daNet = {} /\ daNow = 1 /\ daUp = DaIds
    /\ daReg = [i \in DaIds |-> 0]
    /\ daClient = DaNoSnap
    /\ daBuilt = [d \in DaNodes |-> {}]
    /\ daBudget = [publish |-> DaMaxPublish, task |-> DaMaxTasks]

DaSpend(k) == /\ daBudget[k] > 0
              /\ daBudget' = [daBudget EXCEPT ![k] = @ - 1]
DaKeep == UNCHANGED daBudget

-----------------------------------------------------------------------------
(* Operators on the state of one authority.                                *)

\* consensus_body_build: what is hashed and signed.
DaBody(s) == [ep |-> s.ep,
              list |-> [i \in DOMAIN s.rel |-> <<s.rel[i].id, s.rel[i].bw>>]]

\* The order relay_sort_by_pk puts the list in.
DaSorted(rel) == SortSeq(rel, LAMBDA r, q : r.id < q.id)

DaEntry(desc) == [id |-> desc.id, addr |-> desc.addr, bw |-> desc.bw,
                  pub |-> desc.pub, last |-> daNow, run |-> FALSE, fails |-> 0]

\* The first entry with the same identity or the same address:port decides.
DaMatch(rel, desc) ==
    LET I == {i \in DOMAIN rel : rel[i].id = desc.id \/ rel[i].addr = desc.addr}
    IN IF I = {} THEN 0 ELSE CHOOSE i \in I : \A j \in I : i <= j

DaAdmits(d, rel, desc) ==
    /\ <<d, desc.id>> \notin DaBanned
    /\ DaMatch(rel, desc) = 0 => Len(rel) < DaMaxRelays

\* da_add_relay_unlocked: update, replace at the same address, or append.
DaAdd(d, rel, desc) ==
    LET i == DaMatch(rel, desc) IN
    IF ~DaAdmits(d, rel, desc) THEN rel
    ELSE IF i = 0 THEN Append(rel, DaEntry(desc))
    ELSE IF rel[i].id = desc.id
         THEN [rel EXCEPT ![i] = [DaEntry(desc) EXCEPT !.run = rel[i].run,
                                                       !.fails = rel[i].fails]]
         ELSE [rel EXCEPT ![i] = DaEntry(desc)]

\* last_registered, or published when that is 0, is too old.
DaStaleEntry(r) == LET seen == IF r.last = 0 THEN r.pub ELSE r.last
                   IN daNow - seen > DaStale

\* da_build_consensus_unlocked: evict, sort, and sign in the own slot; the
\* signatures of the peers stay.
DaBuild(d, s) ==
    LET t == [s EXCEPT !.rel = DaSorted(SelectSeq(@, LAMBDA r : ~DaStaleEntry(r))),
                       !.ep = daNow]
    IN [t EXCEPT !.sig[d] = DaBody(t)]

\* da_update_published_snapshot_unlocked
DaSnapshot(s) == [s EXCEPT !.snap = [body |-> DaBody(s), sig |-> s.sig]]

DaSignedBy(d, s) == daBuilt' = [daBuilt EXCEPT ![d] = @ \cup {s.sig[d]}]
DaStage(s, k, st) == [s EXCEPT !.task[k] = [stage |-> st, arg |-> <<>>]]

MutDaVerifies(snap) == \E d \in DaNodes : snap.sig[d] = snap.body

\* moor_consensus_verify_hybrid: a majority of distinct trusted authorities.
DaVerifies(snap) ==
    Cardinality({d \in DaNodes : snap.sig[d] = snap.body})
        >= Cardinality(DaNodes) \div 2 + 1

\* moor_client_fetch_consensus: fresh, verified and not empty.
DaAccepts(snap) == /\ snap.body.ep = daNow
                   /\ DaVerifies(snap)
                   /\ snap.body.list # <<>>

-----------------------------------------------------------------------------
(* Requests of relays and clients.                                         *)

\* PUBLISH: add, build and snapshot under the lock, then a thread floods the
\* descriptor and exchanges votes.  A refused descriptor is flooded as well.
DaPublish(d, i) ==
    /\ i \in daUp /\ ~da[d].lock
    /\ da[d].task["propagate"].stage = "idle"
    /\ DaSpend("publish")
    /\ \E a \in DaAddrs, b \in DaBandwidths :
         LET desc == [id |-> i, addr |-> a, bw |-> b, pub |-> daNow]
             s == DaSnapshot(DaBuild(d, [da[d] EXCEPT !.rel = DaAdd(d, @, desc)]))
         IN /\ da' = [da EXCEPT ![d] =
                        [s EXCEPT !.task["propagate"] =
                            [stage |-> "send", arg |-> <<desc>>]]]
            /\ DaSignedBy(d, s)
            /\ daReg' = [daReg EXCEPT ![i] = daNow]
    /\ UNCHANGED <<daNet, daNow, daUp, daClient>>

\* CONSENSUS: a client fetches the snapshot and keeps it if it verifies.  A
\* mirror serves what it accepted itself, so it adds no other consensus.
DaFetch(d) ==
    /\ ~da[d].lock
    /\ DaAccepts(da[d].snap)
    /\ daClient' = da[d].snap
    /\ UNCHANGED <<da, daNet, daNow, daUp, daReg, daBuilt>> /\ DaKeep

\* MICRODESC: built from the list and the signatures of the moment.
DaFetchMicrodesc(d) ==
    /\ ~da[d].lock
    /\ LET snap == [body |-> DaBody(da[d]), sig |-> da[d].sig]
       IN DaAccepts(snap) /\ daClient' = snap
    /\ UNCHANGED <<da, daNet, daNow, daUp, daReg, daBuilt>> /\ DaKeep

-----------------------------------------------------------------------------
(* The threads of an authority.                                            *)

\* moor_da_propagate_descriptor: best effort, then on to the votes.
DaFlood(d) ==
    /\ da[d].task["propagate"].stage = "send"
    /\ LET msgs == {[kind |-> "PROPAGATE", to |-> e, from |-> d,
                     desc |-> da[d].task["propagate"].arg[1]] : e \in DaNodes \ {d}}
       IN \E sent \in SUBSET msgs :
            /\ Cardinality(daNet \cup sent) <= DaMaxNet
            /\ daNet' = daNet \cup sent
    /\ da' = [da EXCEPT ![d] = DaStage(@, "propagate", "vote")]
    /\ UNCHANGED <<daNow, daUp, daReg, daClient, daBuilt>> /\ DaKeep

\* da_exchange_votes_unlocked: the hash of the current body with the
\* signature in the own slot goes to every peer; the lock is held.
DaSendVotes(d, k) ==
    /\ ~da[d].lock /\ da[d].task[k].stage = "vote"
    /\ LET msgs == IF da[d].sig[d] = DaNone THEN {}
                   ELSE {[kind |-> "VOTE", to |-> e, from |-> d,
                          body |-> DaBody(da[d]), sig |-> da[d].sig[d]]
                            : e \in DaNodes \ {d}}
       IN \E sent \in SUBSET msgs :
            /\ Cardinality(daNet \cup sent) <= DaMaxNet
            /\ daNet' = daNet \cup sent
    /\ da' = [da EXCEPT ![d] = [DaStage(@, k, "wait") EXCEPT !.lock = TRUE]]
    /\ UNCHANGED <<daNow, daUp, daReg, daClient, daBuilt>> /\ DaKeep

\* The answers came or timed out.  Only the sync thread takes no snapshot.
DaVotesDone(d, k) ==
    /\ da[d].task[k].stage = "wait"
    /\ da' = [da EXCEPT ![d] =
         [DaStage(@, k, IF k = "sync" THEN "idle" ELSE "snap") EXCEPT !.lock = FALSE]]
    /\ UNCHANGED <<daNet, daNow, daUp, daReg, daClient, daBuilt>> /\ DaKeep

\* moor_da_update_published_snapshot at the end of a thread
DaThreadSnapshot(d, k) ==
    /\ ~da[d].lock /\ da[d].task[k].stage = "snap"
    /\ da' = [da EXCEPT ![d] = DaStage(DaSnapshot(@), k, "idle")]
    /\ UNCHANGED <<daNet, daNow, daUp, daReg, daClient, daBuilt>> /\ DaKeep

\* moor_da_build_consensus in the sync and the probe thread
DaThreadBuild(d, k) ==
    /\ ~da[d].lock /\ da[d].task[k].stage = "build"
    /\ LET s == DaBuild(d, da[d])
       IN da' = [da EXCEPT ![d] = DaStage(s, k, "vote")] /\ DaSignedBy(d, s)
    /\ UNCHANGED <<daNet, daNow, daUp, daReg, daClient>> /\ DaKeep

\* da_consensus_timer_cb: build; start a vote thread unless one is running.
DaTimer(d) ==
    /\ ~da[d].lock /\ DaSpend("task")
    /\ LET s == DaBuild(d, da[d]) IN
         /\ da' = [da EXCEPT ![d] = IF s.task["timer"].stage # "idle" THEN s
                                    ELSE DaStage(s, "timer", "vote")]
         /\ DaSignedBy(d, s)
    /\ UNCHANGED <<daNet, daNow, daUp, daReg, daClient>>

\* moor_da_sync_relays: the list of a peer is fetched without the lock.
DaSyncFetch(d, e) ==
    /\ da[d].task["sync"].stage = "idle" /\ ~da[e].lock
    /\ DaSpend("task")
    /\ da' = [da EXCEPT ![d].task["sync"] = [stage |-> "merge", arg |-> da[e].rel]]
    /\ UNCHANGED <<daNet, daNow, daUp, daReg, daClient, daBuilt>>

DaIndexOf(rel, i) == LET I == {j \in DOMAIN rel : rel[j].id = i}
                     IN IF I = {} THEN 0 ELSE CHOOSE j \in I : \A k \in I : j <= k

\* One descriptor of the answer: a newer one replaces the entry, flags of the
\* peer included and with no last_registered; an unknown one is added.
DaMergeOne(d, rel, r) ==
    LET j == DaIndexOf(rel, r.id) IN
    IF j = 0 THEN DaAdd(d, rel, r)
    ELSE IF r.pub > rel[j].pub
         THEN [rel EXCEPT ![j] = [r EXCEPT !.last = 0, !.fails = rel[j].fails]]
         ELSE rel

DaSyncMerge(d) ==
    /\ da[d].task["sync"].stage = "merge" /\ ~da[d].lock
    /\ LET rel == FoldSeq(LAMBDA r, acc : DaMergeOne(d, acc, r), da[d].rel,
                          Reverse(da[d].task["sync"].arg))
           new == Len(rel) > Len(da[d].rel)
       IN da' = [da EXCEPT ![d] = DaStage([@ EXCEPT !.rel = rel], "sync",
                                          IF new THEN "build" ELSE "idle")]
    /\ UNCHANGED <<daNet, daNow, daUp, daReg, daClient, daBuilt>> /\ DaKeep

\* moor_da_probe_relays: the targets are copied, probed without the lock ...
DaProbeStart(d) ==
    /\ da[d].task["probe"].stage = "idle" /\ ~da[d].lock /\ da[d].rel # <<>>
    /\ DaSpend("task")
    /\ da' = [da EXCEPT ![d].task["probe"] =
                [stage |-> "probing",
                 arg |-> [i \in DOMAIN da[d].rel |-> da[d].rel[i].id]]]
    /\ UNCHANGED <<daNet, daNow, daUp, daReg, daClient, daBuilt>>

\* ... and the results applied to the entries still at their index.
DaProbed(s, r) ==
    IF r.id \in daUp THEN [r EXCEPT !.fails = 0, !.run = TRUE]
    ELSE [r EXCEPT !.fails = IF @ < DaProbeFails THEN @ + 1 ELSE @, !.run = FALSE,
                   !.last = IF r.fails + 1 >= DaProbeFails THEN 0 ELSE @]

DaProbeApply(d) ==
    /\ da[d].task["probe"].stage = "probing" /\ ~da[d].lock
    /\ LET s == da[d]
           hit == {i \in DOMAIN s.rel : i \in DOMAIN s.task["probe"].arg
                                        /\ s.rel[i].id = s.task["probe"].arg[i]}
           dead == {i \in hit : s.rel[i].id \notin daUp
                                /\ s.rel[i].fails + 1 >= DaProbeFails}
           t == [s EXCEPT !.rel = [i \in DOMAIN s.rel |->
                    IF i \in hit THEN DaProbed(s, s.rel[i]) ELSE s.rel[i]]]
       IN da' = [da EXCEPT ![d] = DaStage(t, "probe",
                            IF dead = {} THEN "idle" ELSE "build")]
    /\ UNCHANGED <<daNet, daNow, daUp, daReg, daClient, daBuilt>> /\ DaKeep

\* run_da after a crash: import the consensus of a peer if it verifies,
\* build, vote, snapshot.  The threads are gone, the signatures too.
DaRestart(d) ==
    /\ DaSpend("task")
    /\ \E e \in DaNodes \ {d} :
         LET got == IF DaAccepts(da[e].snap) /\ ~da[e].lock
                    THEN {r \in ToSet(da[e].rel) :
                            <<r.id, r.bw>> \in ToSet(da[e].snap.body.list)}
                    ELSE {}
             s == DaBuild(d, [da[d] EXCEPT
                    !.rel = DaSorted(SetToSeq({[r EXCEPT !.last = 0, !.fails = 0]
                                                 : r \in got})),
                    !.sig = [x \in DaNodes |-> DaNone],
                    !.snap = DaNoSnap, !.lock = FALSE,
                    !.task = [k \in DaKinds |-> DaIdle]])
         IN /\ da' = [da EXCEPT ![d] = DaStage(s, "timer", "vote")]
            /\ DaSignedBy(d, s)
    /\ UNCHANGED <<daNet, daNow, daUp, daReg, daClient>>

-----------------------------------------------------------------------------
(* Requests of peers.                                                      *)

\* PROPAGATE: add and build; no snapshot, no vote.
DaPropagated(m) ==
    /\ m \in daNet /\ m.kind = "PROPAGATE" /\ ~da[m.to].lock
    /\ daNet' = daNet \ {m}
    /\ LET s == da[m.to]
           t == DaBuild(m.to, [s EXCEPT !.rel = DaAdd(m.to, @, m.desc)])
       IN IF DaAdmits(m.to, s.rel, m.desc)
          THEN da' = [da EXCEPT ![m.to] = t] /\ DaSignedBy(m.to, t)
          ELSE UNCHANGED <<da, daBuilt>>
    /\ UNCHANGED <<daNow, daUp, daReg, daClient>> /\ DaKeep

\* VOTE and VOTE_PQ: a signature that does not cover the hash is refused; a
\* hash that is not ours makes us rebuild; otherwise the signature is merged.
DaVoted(m) ==
    /\ m \in daNet /\ m.kind = "VOTE" /\ ~da[m.to].lock
    /\ daNet' = daNet \ {m}
    /\ LET s == da[m.to]
           t == DaSnapshot(DaBuild(m.to, s))
       IN \/ m.sig # m.body /\ UNCHANGED <<da, daBuilt>>
          \/ /\ m.sig = m.body /\ m.body # DaBody(s)
             /\ da' = [da EXCEPT ![m.to] = t] /\ DaSignedBy(m.to, t)
          \/ /\ m.sig = m.body /\ m.body = DaBody(s)
             /\ da' = [da EXCEPT ![m.to] =
                         DaSnapshot([s EXCEPT !.sig[m.from] = m.sig])]
             /\ UNCHANGED daBuilt
    /\ UNCHANGED <<daNow, daUp, daReg, daClient>> /\ DaKeep

-----------------------------------------------------------------------------
(* The surroundings.                                                       *)

DaTick == /\ daNow < DaMaxTime /\ daNow' = daNow + 1
          /\ UNCHANGED <<da, daNet, daUp, daReg, daClient, daBuilt>> /\ DaKeep

\* A relay goes away for good.
DaRelayDies(i) == /\ i \in daUp /\ DaSpend("task")
                  /\ daUp' = daUp \ {i}
                  /\ UNCHANGED <<da, daNet, daNow, daReg, daClient, daBuilt>>

DaNext ==
    \/ \E d \in DaNodes : \/ \E i \in DaIds : DaPublish(d, i)
                          \/ DaFetch(d) \/ DaFetchMicrodesc(d)
                          \/ DaFlood(d) \/ DaTimer(d) \/ DaRestart(d)
                          \/ \E e \in DaNodes \ {d} : DaSyncFetch(d, e)
                          \/ DaSyncMerge(d) \/ DaProbeStart(d) \/ DaProbeApply(d)
                          \/ \E k \in DaKinds : \/ DaSendVotes(d, k)
                                                \/ DaVotesDone(d, k)
                                                \/ DaThreadSnapshot(d, k)
                                                \/ DaThreadBuild(d, k)
    \/ \E m \in daNet : DaPropagated(m) \/ DaVoted(m)
    \/ DaTick \/ \E i \in DaIds : DaRelayDies(i)

DaSpec == DaInit /\ [][DaNext]_daVars

-----------------------------------------------------------------------------
(* Properties.                                                             *)

\* What a client accepted was built, relay for relay, by a majority of the
\* authorities themselves: votes, rebuilt bodies, restarts and signatures
\* left over in a slot never add up to a consensus nobody agreed on.
DaAcceptedBuilt ==
    daClient # DaNoSnap =>
        2 * Cardinality({d \in DaNodes : daClient.body \in daBuilt[d]})
            > Cardinality(DaNodes)

\* "the published consensus always has the peer's signature too" (the note at
\* the end of da_build_consensus_unlocked).
DaSnapshotCosigned ==
    \A d \in DaNodes : da[d].snap # DaNoSnap => DaVerifies(da[d].snap)

\* "Check if we already have this relay (update if so)": no identity is
\* listed twice.
DaOneEntryEach ==
    \A d \in DaNodes : \A i, j \in DOMAIN da[d].rel :
        da[d].rel[i].id = da[d].rel[j].id => i = j

\* "Evict stale relays that haven't re-registered": a list that was just
\* built holds no relay that registered nowhere for longer than the limit.
DaStaleGone ==
    [][\A d \in DaNodes :
         da'[d].sig[d] # da[d].sig[d] =>
            \A r \in ToSet(da'[d].rel) : daNow - daReg'[r.id] <= DaStale + 1]_daVars

=============================================================================
