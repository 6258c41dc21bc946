--------------------------- MODULE NetworkProofs ---------------------------
(***************************************************************************)
(* Proofs about the network a client's circuits cross: the consensus it    *)
(* chooses relays from (Directory), the paths it chooses (Guards), and the *)
(* table of target sockets and the name cache of the exit they end at      *)
(* (ExitStreams).                                                          *)
(*                                                                         *)
(* The argument for the authorities follows a signature wherever it can    *)
(* be: in the own slot of the authority that made it, in a vote, in the    *)
(* slot of a peer, in a snapshot and in what a client fetched.  In all of  *)
(* them it covers a body its authority built, or there is none.  For the   *)
(* exit's table it is the loop that empties it of a freed circuit that     *)
(* needs an argument: each turn either finds nothing left or makes the     *)
(* table one entry shorter.  For its name cache it is the moment between   *)
(* unlinking a slot and linking it again, when the slot is in no chain.    *)
(* For the lists of guards it is expiry, which renumbers the samples that  *)
(* the other lists index: an index moves to the number of survivors below. *)
(*                                                                         *)
(* Then comes how a relay enters the consensus (Registration).  RgOneShot  *)
(* is not inductive: that no authority has seen the nonce a thread is      *)
(* about to post needs where the nonce has been.  RgInv adds that nonces   *)
(* in use were found by a solver, that an authority has seen the nonce of  *)
(* a thread only once the thread has gone past it, and that no authority   *)
(* has seen the nonce in the solution cache.                               *)
(*                                                                         *)
(* Last come the transports under the links (Transports).  TrInStep speaks *)
(* of both ends of a connection, and only what is between them relates     *)
(* them: TrInv numbers the messages of a handshake and the pieces of the   *)
(* records, and says which of them are on their way.                       *)
(***************************************************************************)
EXTENDS Directory, Guards, ExitStreams, Registration, Transports, FiniteSetTheorems,
        SequenceTheorems, WellFoundedInduction, TLAPS

-----------------------------------------------------------------------------
(* Directory authorities.                                                  *)

\* Every slot holds a body its authority built, or is empty.
DaSigFits(sig, built) ==
    /\ sig = [e \in DaNodes |-> sig[e]]
    /\ \A e \in DaNodes : sig[e] \in built[e] \cup {DaNone}

\* The record of an authority, and both sets of signatures in it.
DaStateFits(s, built) ==
    /\ s = [rel |-> s.rel, ep |-> s.ep, sig |-> s.sig, snap |-> s.snap,
            lock |-> s.lock, task |-> s.task]
    /\ s.snap = [body |-> s.snap.body, sig |-> s.snap.sig]
    /\ DaSigFits(s.sig, built)
    /\ DaSigFits(s.snap.sig, built)

\* A request has an addressee; the signature in a vote was made by its sender.
DaMsgFits(m, built) ==
    /\ m.to \in DaNodes
    /\ m.kind = "VOTE" => /\ m.from \in DaNodes
                          /\ m.sig \in built[m.from] \cup {DaNone}

DaClientFits(snap, built) ==
    /\ DaSigFits(snap.sig, built)
    /\ snap # DaNoSnap => DaVerifies(snap) /\ snap.body.list # <<>>

\* The inductive invariant.
DaInv ==
    /\ daBuilt = [d \in DaNodes |-> daBuilt[d]]
    /\ da = [d \in DaNodes |-> da[d]]
    /\ \A d \in DaNodes : DaStateFits(da[d], daBuilt)
    /\ \A m \in daNet : DaMsgFits(m, daBuilt)
    /\ DaClientFits(daClient, daBuilt)

\* More built bodies never hurt.
DaGrows(old, new) == \A e \in DaNodes : old[e] \subseteq new[e]

\* A signature that fits what was built still fits when more is built.
LEMMA DaSigGrows ==
    ASSUME NEW sig, NEW old, NEW new, DaSigFits(sig, old), DaGrows(old, new)
    PROVE  DaSigFits(sig, new)
BY DEF DaSigFits, DaGrows

\* So does the state of an authority,
LEMMA DaStateGrows ==
    ASSUME NEW s, NEW old, NEW new, DaStateFits(s, old), DaGrows(old, new)
    PROVE  DaStateFits(s, new)
BY DaSigGrows DEF DaStateFits

\* a message on its way,
LEMMA DaMsgGrows ==
    ASSUME NEW m, NEW old, NEW new, DaMsgFits(m, old), DaGrows(old, new)
    PROVE  DaMsgFits(m, new)
BY DEF DaMsgFits, DaGrows

\* and the state of a client.
LEMMA DaClientGrows ==
    ASSUME NEW c, NEW old, NEW new, DaClientFits(c, old), DaGrows(old, new)
    PROVE  DaClientFits(c, new)
BY DaSigGrows DEF DaClientFits

\* Fields that hold no signature may take any value.
LEMMA DaFieldsKept ==
    ASSUME NEW s, NEW B, DaStateFits(s, B), NEW x
    PROVE  /\ DaStateFits([s EXCEPT !.rel = x], B)
           /\ DaStateFits([s EXCEPT !.lock = x], B)
           /\ DaStateFits([s EXCEPT !.task = x], B)
           /\ [s EXCEPT !.rel = x].sig = s.sig
           /\ [s EXCEPT !.lock = x].sig = s.sig
           /\ [s EXCEPT !.task = x].sig = s.sig
BY DEF DaStateFits

\* A thread's next stage, and the lock, leave the signatures alone.
LEMMA DaStageKept ==
    ASSUME NEW s, NEW B, DaStateFits(s, B), NEW k, NEW st
    PROVE  /\ DaStateFits(DaStage(s, k, st), B)
           /\ DaStage(s, k, st).sig = s.sig
           /\ DaStateFits([DaStage(s, k, st) EXCEPT !.lock = TRUE], B)
           /\ DaStateFits([DaStage(s, k, st) EXCEPT !.lock = FALSE], B)
<1> DEFINE t == [s.task EXCEPT ![k] = [stage |-> st, arg |-> <<>>]]
<1>1. DaStage(s, k, st) = [s EXCEPT !.task = t]  BY DEF DaStage
<1>2. DaStateFits([s EXCEPT !.task = t], B) /\ [s EXCEPT !.task = t].sig = s.sig
  BY DaFieldsKept
<1> QED BY <1>1, <1>2, DaFieldsKept

\* da_update_published_snapshot_unlocked copies the signatures.
LEMMA DaSnapshotFits ==
    ASSUME NEW s, NEW B, DaStateFits(s, B)
    PROVE  DaStateFits(DaSnapshot(s), B) /\ DaSnapshot(s).sig = s.sig
BY DEF DaStateFits, DaSnapshot

\* The body an authority puts in its own slot is one it has built.
DaWith(B, d, x) == [B EXCEPT ![d] = @ \cup {x}]

\* A consensus is added to those an authority has built.
LEMMA DaWithGrows ==
    ASSUME NEW B, B = [e \in DaNodes |-> B[e]], NEW d \in DaNodes, NEW x
    PROVE  /\ DaGrows(B, DaWith(B, d, x))
           /\ x \in DaWith(B, d, x)[d]
           /\ DaWith(B, d, x) = [e \in DaNodes |-> DaWith(B, d, x)[e]]
BY DEF DaGrows, DaWith

\* What an authority has just built and signed fits.
LEMMA DaBuildFits ==
    ASSUME NEW s, NEW B, B = [e \in DaNodes |-> B[e]], NEW d \in DaNodes,
           DaStateFits(s, B)
    PROVE  DaStateFits(DaBuild(d, s), DaWith(B, d, DaBuild(d, s).sig[d]))
<1> DEFINE rel == DaSorted(SelectSeq(s.rel, LAMBDA r : ~DaStaleEntry(r)))
           t == [s EXCEPT !.rel = rel, !.ep = daNow]
           x == DaBody(t)
           C == DaWith(B, d, x)
<1>1. DaBuild(d, s) = [t EXCEPT !.sig[d] = x]  BY DEF DaBuild
<1> HIDE DEF rel
<1>2. /\ t = [rel |-> t.rel, ep |-> t.ep, sig |-> t.sig, snap |-> t.snap,
              lock |-> t.lock, task |-> t.task]
      /\ t.sig = s.sig /\ t.snap = s.snap
  <2>1. PICK n, u : n = daNow /\ u = [s EXCEPT !.rel = rel, !.ep = n]  OBVIOUS
  <2>2. s = [rel |-> s.rel, ep |-> s.ep, sig |-> s.sig, snap |-> s.snap,
             lock |-> s.lock, task |-> s.task]
    BY DEF DaStateFits
  <2>3. /\ u = [rel |-> u.rel, ep |-> u.ep, sig |-> u.sig, snap |-> u.snap,
                lock |-> u.lock, task |-> u.task]
        /\ u.sig = s.sig /\ u.snap = s.snap
    BY <2>1, <2>2
  <2> QED BY <2>1, <2>3
<1> HIDE DEF t, x
<1>3. DaGrows(B, C) /\ x \in C[d]  BY DaWithGrows
<1>4. DaSigFits(s.sig, C) /\ DaSigFits(s.snap.sig, C)  BY <1>3, DaSigGrows DEF DaStateFits
<1>5. DaSigFits([s.sig EXCEPT ![d] = x], C)  BY <1>3, <1>4 DEF DaSigFits
<1>6. /\ DaBuild(d, s).sig = [s.sig EXCEPT ![d] = x]
      /\ DaBuild(d, s).snap = s.snap
      /\ DaBuild(d, s) = [rel |-> t.rel, ep |-> t.ep, sig |-> [s.sig EXCEPT ![d] = x],
                          snap |-> t.snap, lock |-> t.lock, task |-> t.task]
  BY <1>1, <1>2
<1>7. DaBuild(d, s).sig[d] = x  BY <1>6 DEF DaStateFits, DaSigFits
<1> QED BY <1>4, <1>5, <1>6, <1>7 DEF DaStateFits

-----------------------------------------------------------------------------
(* Steps of an authority.                                                  *)

\* An authority changes its own state only, to one that fits.
LEMMA DaOneStep ==
    ASSUME DaInv, NEW d \in DaNodes, NEW s, da' = [da EXCEPT ![d] = s],
           DaStateFits(s, daBuilt'),
           daBuilt' = [e \in DaNodes |-> daBuilt'[e]], DaGrows(daBuilt, daBuilt'),
           daClient' = daClient, \A m \in daNet' : DaMsgFits(m, daBuilt')
    PROVE  DaInv'
<1>1. \A e \in DaNodes : DaStateFits(da[e], daBuilt')  BY DaStateGrows DEF DaInv
<1>2. DaClientFits(daClient, daBuilt')  BY DaClientGrows DEF DaInv
<1>3. da' = [e \in DaNodes |-> da'[e]] /\ \A e \in DaNodes : DaStateFits(da'[e], daBuilt')
  BY <1>1 DEF DaInv
<1> QED BY <1>2, <1>3 DEF DaInv, DaClientFits, DaVerifies

\* The same without a new body.
LEMMA DaQuietStep ==
    ASSUME DaInv, NEW d \in DaNodes, NEW s, da' = [da EXCEPT ![d] = s],
           DaStateFits(s, daBuilt), daBuilt' = daBuilt, daClient' = daClient,
           \A m \in daNet' : m \in daNet \/ DaMsgFits(m, daBuilt)
    PROVE  DaInv'
<1>1. DaGrows(daBuilt, daBuilt')  BY DEF DaGrows
<1>2. \A m \in daNet' : DaMsgFits(m, daBuilt')  BY DEF DaInv
<1>3. daBuilt' = [e \in DaNodes |-> daBuilt'[e]]  BY DEF DaInv
<1> QED BY <1>1, <1>2, <1>3, DaOneStep

\* And with one: s was built from t, and r is what becomes of s.
LEMMA DaBuildStep ==
    ASSUME DaInv, NEW d \in DaNodes, NEW t, DaStateFits(t, daBuilt),
           NEW s, s = DaBuild(d, t),
           NEW r, DaStateFits(s, daBuilt') => DaStateFits(r, daBuilt'),
           daBuilt' = DaWith(daBuilt, d, s.sig[d]),
           da' = [da EXCEPT ![d] = r], daClient' = daClient,
           daNet' \subseteq daNet
    PROVE  DaInv'
<1>1. daBuilt = [e \in DaNodes |-> daBuilt[e]]  BY DEF DaInv
<1>2. DaStateFits(s, daBuilt')  BY <1>1, DaBuildFits
<1>3. /\ DaGrows(daBuilt, daBuilt')
      /\ daBuilt' = [e \in DaNodes |-> daBuilt'[e]]
  BY <1>1, DaWithGrows
<1>4. \A m \in daNet' : DaMsgFits(m, daBuilt')  BY <1>3, DaMsgGrows DEF DaInv
<1> QED BY <1>2, <1>3, <1>4, DaOneStep

\* What building does to the state, before and after the snapshot.
LEMMA DaBuiltThenSnapshot ==
    ASSUME DaInv, NEW d \in DaNodes, NEW t, DaStateFits(t, daBuilt)
    PROVE  DaSnapshot(DaBuild(d, t)).sig = DaBuild(d, t).sig
BY DaBuildFits, DaSnapshotFits DEF DaInv

\* A relay's descriptor keeps the invariant.
LEMMA DaPublishFits ==
    ASSUME DaInv, NEW d \in DaNodes, NEW i \in DaIds, DaPublish(d, i)
    PROVE  DaInv'
<1>1. PICK a \in DaAddrs, b \in DaBandwidths :
         LET desc == [id |-> i, addr |-> a, bw |-> b, pub |-> daNow]
             s == DaSnapshot(DaBuild(d, [da[d] EXCEPT !.rel = DaAdd(d, @, desc)]))
         IN /\ da' = [da EXCEPT ![d] =
                        [s EXCEPT !.task["propagate"] =
                            [stage |-> "send", arg |-> <<desc>>]]]
            /\ DaSignedBy(d, s)
  BY DEF DaPublish
<1>2. PICK x : x = DaAdd(d, da[d].rel, [id |-> i, addr |-> a, bw |-> b, pub |-> daNow])  OBVIOUS
<1>3. PICK y : y = [stage |-> "send",
                    arg |-> <<[id |-> i, addr |-> a, bw |-> b, pub |-> daNow]>>]
  OBVIOUS
<1> DEFINE t == [da[d] EXCEPT !.rel = x]
           s == DaBuild(d, t)
           r == [DaSnapshot(s) EXCEPT !.task["propagate"] = y]
<1>4. DaStateFits(t, daBuilt)  BY DaFieldsKept DEF DaInv
<1>5. /\ da' = [da EXCEPT ![d] = r]
      /\ DaSignedBy(d, DaSnapshot(s))
  BY <1>1, <1>2, <1>3
<1>6. daBuilt' = DaWith(daBuilt, d, s.sig[d])
  BY <1>4, <1>5, DaBuiltThenSnapshot DEF DaSignedBy, DaWith
<1>7. ASSUME DaStateFits(s, daBuilt') PROVE DaStateFits(r, daBuilt')
  <2>1. DaStateFits(DaSnapshot(s), daBuilt')  BY <1>7, DaSnapshotFits
  <2>2. r = [DaSnapshot(s) EXCEPT !.task = [DaSnapshot(s).task EXCEPT !["propagate"] = y]]
    OBVIOUS
  <2> QED BY <2>1, <2>2, DaFieldsKept
<1>8. daNet' = daNet /\ daClient' = daClient  BY DEF DaPublish
<1> HIDE DEF t, s, r
<1>9. s = DaBuild(d, t)  BY DEF s
<1> QED BY <1>4, <1>5, <1>6, <1>7, <1>8, <1>9, DaBuildStep

\* So does the authority's timer.
LEMMA DaTimerFits ==
    ASSUME DaInv, NEW d \in DaNodes, DaTimer(d)
    PROVE  DaInv'
<1> DEFINE t == da[d]
           s == DaBuild(d, t)
           r == IF s.task["timer"].stage # "idle" THEN s ELSE DaStage(s, "timer", "vote")
<1>1. /\ da' = [da EXCEPT ![d] = r] /\ daBuilt' = DaWith(daBuilt, d, s.sig[d])
      /\ daNet' = daNet /\ daClient' = daClient
  BY DEF DaTimer, DaSignedBy, DaWith
<1>2. DaStateFits(t, daBuilt)  BY DEF DaInv
<1>3. ASSUME DaStateFits(s, daBuilt') PROVE DaStateFits(r, daBuilt')
  BY <1>3, DaStageKept
<1> HIDE DEF t, s, r
<1>4. s = DaBuild(d, t)  BY DEF s
<1> QED BY <1>1, <1>2, <1>3, <1>4, DaBuildStep

\* So does a build on a thread.
LEMMA DaThreadBuildFits ==
    ASSUME DaInv, NEW d \in DaNodes, NEW k \in DaKinds, DaThreadBuild(d, k)
    PROVE  DaInv'
<1> DEFINE t == da[d]
           s == DaBuild(d, t)
           r == DaStage(s, k, "vote")
<1>1. /\ da' = [da EXCEPT ![d] = r] /\ daBuilt' = DaWith(daBuilt, d, s.sig[d])
      /\ daNet' = daNet /\ daClient' = daClient
  BY DEF DaThreadBuild, DaSignedBy, DaWith
<1>2. DaStateFits(t, daBuilt)  BY DEF DaInv
<1>3. ASSUME DaStateFits(s, daBuilt') PROVE DaStateFits(r, daBuilt')
  BY <1>3, DaStageKept
<1> HIDE DEF t, s, r
<1>4. s = DaBuild(d, t)  BY DEF s
<1> QED BY <1>1, <1>2, <1>3, <1>4, DaBuildStep

\* run_da starts with empty slots and an empty snapshot.
LEMMA DaRestartFits ==
    ASSUME DaInv, NEW d \in DaNodes, DaRestart(d)
    PROVE  DaInv'
<1>1. PICK rel, none, idle :
         LET s == DaBuild(d, [da[d] EXCEPT !.rel = rel, !.sig = none, !.snap = DaNoSnap,
                                           !.lock = FALSE, !.task = idle])
         IN /\ none = [x \in DaNodes |-> DaNone]
            /\ da' = [da EXCEPT ![d] = DaStage(s, "timer", "vote")]
            /\ DaSignedBy(d, s)
  BY DEF DaRestart
<1>2. PICK t, off, ns : /\ off = FALSE /\ ns = DaNoSnap
                        /\ t = [da[d] EXCEPT !.rel = rel, !.sig = none, !.snap = ns,
                                           !.lock = off, !.task = idle]
  OBVIOUS
<1> DEFINE s == DaBuild(d, t)
           r == DaStage(s, "timer", "vote")
<1>3. /\ da' = [da EXCEPT ![d] = r] /\ daBuilt' = DaWith(daBuilt, d, s.sig[d])
  BY <1>1, <1>2 DEF DaSignedBy, DaWith
<1>4. daNet' = daNet /\ daClient' = daClient  BY DEF DaRestart
<1>5. DaStateFits(t, daBuilt)
  <2>1. da[d] = [rel |-> da[d].rel, ep |-> da[d].ep, sig |-> da[d].sig,
                 snap |-> da[d].snap, lock |-> da[d].lock, task |-> da[d].task]
    BY DEF DaInv, DaStateFits
  <2>2. /\ t = [rel |-> t.rel, ep |-> t.ep, sig |-> t.sig, snap |-> t.snap,
                lock |-> t.lock, task |-> t.task]
        /\ t.sig = none /\ t.snap = ns
    BY <1>2, <2>1
  <2>3. DaSigFits(none, daBuilt)  BY <1>1 DEF DaSigFits
  <2>4. /\ ns = [body |-> ns.body, sig |-> ns.sig]
        /\ DaSigFits(ns.sig, daBuilt)
    BY <1>2 DEF DaNoSnap, DaSigFits
  <2> QED BY <2>2, <2>3, <2>4 DEF DaStateFits
<1>6. ASSUME DaStateFits(s, daBuilt') PROVE DaStateFits(r, daBuilt')
  BY <1>6, DaStageKept
<1> HIDE DEF s, r
<1>7. s = DaBuild(d, t)  BY DEF s
<1> QED BY <1>3, <1>4, <1>5, <1>6, <1>7, DaBuildStep

\* A thread's steps that build nothing; a vote carries the own signature.
LEMMA DaThreadFits ==
    ASSUME DaInv, NEW d \in DaNodes, NEW k \in DaKinds,
           DaSendVotes(d, k) \/ DaVotesDone(d, k) \/ DaThreadSnapshot(d, k)
    PROVE  DaInv'
<1>0. DaStateFits(da[d], daBuilt)  BY DEF DaInv
<1>1. CASE DaSendVotes(d, k)
  <2>1. PICK msgs, sent : /\ msgs = {[kind |-> "VOTE", to |-> e, from |-> d,
                                      body |-> DaBody(da[d]), sig |-> da[d].sig[d]]
                                        : e \in DaNodes \ {d}}
                          /\ sent \subseteq msgs /\ daNet' = daNet \cup sent
    BY <1>1 DEF DaSendVotes
  <2>2. \A m \in msgs : DaMsgFits(m, daBuilt)
    BY <1>0, <2>1 DEF DaMsgFits, DaStateFits, DaSigFits
  <2>3. DaStateFits([DaStage(da[d], k, "wait") EXCEPT !.lock = TRUE], daBuilt)
    BY <1>0, DaStageKept
  <2>4. /\ da' = [da EXCEPT ![d] = [DaStage(da[d], k, "wait") EXCEPT !.lock = TRUE]]
        /\ daBuilt' = daBuilt /\ daClient' = daClient
    BY <1>1 DEF DaSendVotes, DaInv
  <2> QED BY <2>1, <2>2, <2>3, <2>4, DaQuietStep
<1>2. CASE DaVotesDone(d, k)
  <2>1. PICK st : st = IF k = "sync" THEN "idle" ELSE "snap"  OBVIOUS
  <2>2. DaStateFits([DaStage(da[d], k, st) EXCEPT !.lock = FALSE], daBuilt)
    BY <1>0, DaStageKept
  <2>3. /\ da' = [da EXCEPT ![d] = [DaStage(da[d], k, st) EXCEPT !.lock = FALSE]]
        /\ daBuilt' = daBuilt /\ daClient' = daClient /\ daNet' = daNet
    BY <1>2, <2>1 DEF DaVotesDone, DaInv
  <2> QED BY <2>2, <2>3, DaQuietStep
<1>3. CASE DaThreadSnapshot(d, k)
  <2>1. DaStateFits(DaStage(DaSnapshot(da[d]), k, "idle"), daBuilt)
    BY <1>0, DaStageKept, DaSnapshotFits
  <2>2. /\ da' = [da EXCEPT ![d] = DaStage(DaSnapshot(da[d]), k, "idle")]
        /\ daBuilt' = daBuilt /\ daClient' = daClient /\ daNet' = daNet
    BY <1>3 DEF DaThreadSnapshot, DaInv
  <2> QED BY <2>1, <2>2, DaQuietStep
<1> QED BY <1>1, <1>2, <1>3

\* Flooding a descriptor, syncing and probing leave the signatures alone.
LEMMA DaListFits ==
    ASSUME DaInv, NEW d \in DaNodes,
           \/ DaFlood(d) \/ DaSyncMerge(d) \/ DaProbeStart(d) \/ DaProbeApply(d)
           \/ \E e \in DaNodes \ {d} : DaSyncFetch(d, e)
    PROVE  DaInv'
<1>0. DaStateFits(da[d], daBuilt) /\ da = [e \in DaNodes |-> da[e]]  BY DEF DaInv
<1>1. CASE DaFlood(d)
  <2>1. PICK msgs, sent : /\ msgs = {[kind |-> "PROPAGATE", to |-> e, from |-> d,
                                      desc |-> da[d].task["propagate"].arg[1]]
                                        : e \in DaNodes \ {d}}
                          /\ sent \subseteq msgs /\ daNet' = daNet \cup sent
    BY <1>1 DEF DaFlood
  <2>2. \A m \in msgs : DaMsgFits(m, daBuilt)  BY <2>1 DEF DaMsgFits
  <2>3. DaStateFits(DaStage(da[d], "propagate", "vote"), daBuilt)  BY <1>0, DaStageKept
  <2>4. /\ da' = [da EXCEPT ![d] = DaStage(da[d], "propagate", "vote")]
        /\ daBuilt' = daBuilt /\ daClient' = daClient
    BY <1>0, <1>1 DEF DaFlood
  <2> QED BY <2>1, <2>2, <2>3, <2>4, DaQuietStep
<1>2. CASE DaSyncMerge(d)
  <2>1. PICK rel, st : /\ da' = [da EXCEPT ![d] = DaStage([da[d] EXCEPT !.rel = rel], "sync", st)]
                       /\ UNCHANGED <<daNet, daClient, daBuilt>>
    BY <1>0, <1>2 DEF DaSyncMerge
  <2>2. DaStateFits(DaStage([da[d] EXCEPT !.rel = rel], "sync", st), daBuilt)
    BY <1>0, DaFieldsKept, DaStageKept
  <2> QED BY <2>1, <2>2, DaQuietStep
<1>3. CASE DaProbeApply(d)
  <2>1. PICK rel, st : /\ da' = [da EXCEPT ![d] = DaStage([da[d] EXCEPT !.rel = rel], "probe", st)]
                       /\ UNCHANGED <<daNet, daClient, daBuilt>>
    BY <1>0, <1>3 DEF DaProbeApply
  <2>2. DaStateFits(DaStage([da[d] EXCEPT !.rel = rel], "probe", st), daBuilt)
    BY <1>0, DaFieldsKept, DaStageKept
  <2> QED BY <2>1, <2>2, DaQuietStep
<1>4. ASSUME NEW k, NEW x, da' = [da EXCEPT ![d].task[k] = x],
             UNCHANGED <<daNet, daClient, daBuilt>>
      PROVE  DaInv'
  <2>1. PICK task : task = [da[d].task EXCEPT ![k] = x]  OBVIOUS
  <2>2. da' = [da EXCEPT ![d] = [da[d] EXCEPT !.task = task]]  BY <1>0, <1>4, <2>1
  <2>3. DaStateFits([da[d] EXCEPT !.task = task], daBuilt)  BY <1>0, DaFieldsKept
  <2> QED BY <1>4, <2>2, <2>3, DaQuietStep
<1>5. CASE DaProbeStart(d)
  BY <1>4, <1>5 DEF DaProbeStart
<1>6. CASE \E e \in DaNodes \ {d} : DaSyncFetch(d, e)
  BY <1>4, <1>6 DEF DaSyncFetch
<1> QED BY <1>1, <1>2, <1>3, <1>5, <1>6

\* What a client accepts verifies and is not empty.
LEMMA DaFetchFits ==
    ASSUME DaInv, NEW d \in DaNodes, DaFetch(d) \/ DaFetchMicrodesc(d)
    PROVE  DaInv'
<1>0. DaStateFits(da[d], daBuilt)  BY DEF DaInv
<1>1. PICK snap : /\ daClient' = snap /\ DaAccepts(snap)
                  /\ DaSigFits(snap.sig, daBuilt)
  <2>1. CASE DaFetch(d)
    BY <1>0, <2>1 DEF DaFetch, DaStateFits
  <2>2. CASE DaFetchMicrodesc(d)
    BY <1>0, <2>2 DEF DaFetchMicrodesc, DaStateFits
  <2> QED BY <2>1, <2>2
<1>2. UNCHANGED <<da, daNet, daBuilt>>  BY DEF DaFetch, DaFetchMicrodesc
<1>3. DaClientFits(daClient', daBuilt)  BY <1>1 DEF DaClientFits, DaAccepts
<1> QED BY <1>2, <1>3 DEF DaInv, DaClientFits, DaVerifies

\* So does a propagated descriptor.
LEMMA DaPropagatedFits ==
    ASSUME DaInv, NEW m \in daNet, DaPropagated(m)
    PROVE  DaInv'
<1>0. m.to \in DaNodes /\ DaStateFits(da[m.to], daBuilt) /\ daNet' \subseteq daNet
      /\ daClient' = daClient
  BY DEF DaInv, DaMsgFits, DaPropagated
<1>1. CASE UNCHANGED <<da, daBuilt>>
  BY <1>0, <1>1 DEF DaInv, DaClientFits, DaVerifies
<1>2. CASE ~UNCHANGED <<da, daBuilt>>
  <2>1. PICK rel : rel = DaAdd(m.to, da[m.to].rel, m.desc)  OBVIOUS
  <2> DEFINE t == [da[m.to] EXCEPT !.rel = rel]
             s == DaBuild(m.to, t)
  <2>2. da' = [da EXCEPT ![m.to] = s] /\ DaSignedBy(m.to, s)  BY <1>2, <2>1 DEF DaPropagated
  <2>3. daBuilt' = DaWith(daBuilt, m.to, s.sig[m.to])  BY <2>2 DEF DaSignedBy, DaWith
  <2>4. DaStateFits(t, daBuilt)  BY <1>0, DaFieldsKept
  <2> HIDE DEF t, s
  <2>5. s = DaBuild(m.to, t)  BY DEF s
  <2> QED BY <1>0, <2>2, <2>3, <2>4, <2>5, DaBuildStep
<1> QED BY <1>1, <1>2

\* A vote is refused, makes the addressee rebuild, or puts the signature the
\* sender made into the sender's slot.
LEMMA DaVotedFits ==
    ASSUME DaInv, NEW m \in daNet, DaVoted(m)
    PROVE  DaInv'
<1>0. /\ m.to \in DaNodes /\ m.from \in DaNodes
      /\ m.sig \in daBuilt[m.from] \cup {DaNone}
      /\ DaStateFits(da[m.to], daBuilt)
      /\ daNet' \subseteq daNet /\ daClient' = daClient
  BY DEF DaInv, DaMsgFits, DaVoted
<1>1. CASE UNCHANGED <<da, daBuilt>>
  BY <1>0, <1>1 DEF DaInv, DaClientFits, DaVerifies
<1>2. CASE LET s == da[m.to]
               t == DaSnapshot(DaBuild(m.to, s))
           IN da' = [da EXCEPT ![m.to] = t] /\ DaSignedBy(m.to, t)
  <2> DEFINE t == da[m.to]
             s == DaBuild(m.to, t)
             r == DaSnapshot(s)
  <2>1. da' = [da EXCEPT ![m.to] = r] /\ DaSignedBy(m.to, r)  BY <1>2
  <2>2. daBuilt' = DaWith(daBuilt, m.to, s.sig[m.to])
    BY <1>0, <2>1, DaBuiltThenSnapshot DEF DaSignedBy, DaWith
  <2>3. ASSUME DaStateFits(s, daBuilt') PROVE DaStateFits(r, daBuilt')
    BY <2>3, DaSnapshotFits
  <2>4. DaStateFits(t, daBuilt)  BY <1>0
  <2> HIDE DEF t, s, r
  <2>5. s = DaBuild(m.to, t)  BY DEF s
  <2> QED BY <1>0, <2>1, <2>2, <2>3, <2>4, <2>5, DaBuildStep
<1>3. CASE /\ da' = [da EXCEPT ![m.to] =
                      DaSnapshot([da[m.to] EXCEPT !.sig[m.from] = m.sig])]
           /\ UNCHANGED daBuilt
  <2> DEFINE t == [da[m.to] EXCEPT !.sig[m.from] = m.sig]
  <2>1. DaSigFits([da[m.to].sig EXCEPT ![m.from] = m.sig], daBuilt)
    BY <1>0 DEF DaStateFits, DaSigFits
  <2>2. DaStateFits(t, daBuilt)  BY <1>0, <2>1 DEF DaStateFits
  <2>3. DaStateFits(DaSnapshot(t), daBuilt)  BY <2>2, DaSnapshotFits
  <2> QED BY <1>0, <1>3, <2>3, DaQuietStep
<1> QED BY <1>1, <1>2, <1>3 DEF DaVoted

-----------------------------------------------------------------------------

\* The invariant holds at the start.
LEMMA DaInitFits == DaInit => DaInv
<1> SUFFICES ASSUME DaInit PROVE DaInv
  OBVIOUS
<1>1. DaSigFits([e \in DaNodes |-> DaNone], daBuilt)  BY DEF DaSigFits
<1>2. DaClientFits(daClient, daBuilt)  BY <1>1 DEF DaInit, DaClientFits, DaNoSnap
<1>3. \A d \in DaNodes : DaStateFits(da[d], daBuilt)  BY <1>1 DEF DaInit, DaStateFits, DaNoSnap
<1> QED BY <1>2, <1>3 DEF DaInit, DaInv

\* Every step keeps it.
LEMMA DaNextFits == DaInv /\ [DaNext]_daVars => DaInv'
<1> SUFFICES ASSUME DaInv, [DaNext]_daVars PROVE DaInv'
  OBVIOUS
<1>1. CASE UNCHANGED <<da, daNet, daClient, daBuilt>>
  BY <1>1 DEF DaInv, DaClientFits, DaVerifies
<1>2. ASSUME NEW d \in DaNodes, NEW i \in DaIds, DaPublish(d, i) PROVE DaInv'
  BY <1>2, DaPublishFits
<1>3. ASSUME NEW d \in DaNodes, DaFetch(d) \/ DaFetchMicrodesc(d) PROVE DaInv'
  BY <1>3, DaFetchFits
<1>4. ASSUME NEW d \in DaNodes,
             \/ DaFlood(d) \/ DaSyncMerge(d) \/ DaProbeStart(d) \/ DaProbeApply(d)
             \/ \E e \in DaNodes \ {d} : DaSyncFetch(d, e)
      PROVE  DaInv'
  BY <1>4, DaListFits
<1>5. ASSUME NEW d \in DaNodes, DaTimer(d) \/ DaRestart(d) PROVE DaInv'
  BY <1>5, DaTimerFits, DaRestartFits
<1>6. ASSUME NEW d \in DaNodes, NEW k \in DaKinds,
             \/ DaSendVotes(d, k) \/ DaVotesDone(d, k)
             \/ DaThreadSnapshot(d, k) \/ DaThreadBuild(d, k)
      PROVE  DaInv'
  BY <1>6, DaThreadFits, DaThreadBuildFits
<1>7. ASSUME NEW m \in daNet, DaPropagated(m) \/ DaVoted(m) PROVE DaInv'
  BY <1>7, DaPropagatedFits, DaVotedFits
<1>8. CASE DaTick \/ \E i \in DaIds : DaRelayDies(i)
  BY <1>1, <1>8 DEF DaTick, DaRelayDies
<1>9. CASE UNCHANGED daVars
  BY <1>1, <1>9 DEF daVars
<1> QED BY <1>2, <1>3, <1>4, <1>5, <1>6, <1>7, <1>8, <1>9 DEF DaNext

\* The signatures that make a consensus verify come from a majority, and
\* each of them covers a body that its authority built.
LEMMA DaInvAccepted == DaInv => DaAcceptedBuilt
<1> SUFFICES ASSUME DaInv, daClient # DaNoSnap
             PROVE  2 * Cardinality({d \in DaNodes : daClient.body \in daBuilt[d]})
                        > Cardinality(DaNodes)
  BY DEF DaAcceptedBuilt
<1> DEFINE signed == {d \in DaNodes : daClient.sig[d] = daClient.body}
           built == {d \in DaNodes : daClient.body \in daBuilt[d]}
<1>1. DaVerifies(daClient) /\ daClient.body.list # <<>>
      /\ DaSigFits(daClient.sig, daBuilt)
  BY DEF DaInv, DaClientFits
<1>2. daClient.body # DaNone  BY <1>1 DEF DaNone
<1>3. signed \subseteq built  BY <1>1, <1>2 DEF DaSigFits
<1>4. IsFiniteSet(built) /\ IsFiniteSet(DaNodes)  BY DaAssumption, FS_Subset
<1>5. /\ Cardinality(signed) <= Cardinality(built)
      /\ Cardinality(signed) \in Nat /\ Cardinality(built) \in Nat
      /\ Cardinality(DaNodes) \in Nat
  BY <1>3, <1>4, FS_Subset, FS_CardinalityType
<1>6. Cardinality(signed) >= Cardinality(DaNodes) \div 2 + 1  BY <1>1 DEF DaVerifies
<1> QED BY <1>5, <1>6

\* What a client accepted was built, relay for relay, by a majority of the
\* authorities themselves, for any number of authorities and relays: votes
\* (da_exchange_votes_unlocked), rebuilt bodies, restarts, lost requests and
\* signatures left over in a slot never add up to a consensus that
\* moor_consensus_verify_hybrid accepts and nobody agreed on.
THEOREM DirectoryAcceptedBuilt == DaSpec => []DaAcceptedBuilt
<1>1. DaInit => DaInv  BY DaInitFits
<1>2. DaInv /\ [DaNext]_daVars => DaInv'  BY DaNextFits
<1>3. DaInv => DaAcceptedBuilt  BY DaInvAccepted
<1> QED BY <1>1, <1>2, <1>3, PTL DEF DaSpec

-----------------------------------------------------------------------------
(* Numbers and loops.                                                      *)

\* A nonempty set of naturals has a least element.
LEMMA LeastNat ==
    ASSUME NEW T \in SUBSET Nat, T # {}
    PROVE  \E x \in T : \A y \in T : x <= y
<1> DEFINE R == {ss \in Nat \X Nat : ss[1] < ss[2]}
<1>0. IsWellFoundedOn(R, Nat)  BY NatLessThanWellFounded, Zenon DEF OpToRel
<1> HIDE DEF R
<1>1. PICK x \in T : \A y \in T : ~(<<y, x>> \in R)  BY <1>0, WFMin
<1>2. \A y \in T : ~(y < x)  BY <1>1 DEF R
<1> QED BY <1>2

\* The least of some numbers is one of them.
LEMMA MinIsIn ==
    ASSUME NEW T \in SUBSET Nat, T # {}
    PROVE  Min(T) \in T
BY LeastNat DEF Min

\* A set that holds 0 and every successor up to n holds all numbers up to n.
LEMMA UpTo ==
    ASSUME NEW n \in Nat, NEW P \in SUBSET Nat, 0 \in P,
           \A k \in 0..(n - 1) : k \in P => k + 1 \in P
    PROVE  n \in P
<1> SUFFICES ASSUME n \notin P PROVE FALSE
  OBVIOUS
<1> DEFINE T == {k \in 0..n : k \notin P}
<1>1. T \in SUBSET Nat /\ T # {}  OBVIOUS
<1>2. PICK x \in T : \A y \in T : x <= y  BY <1>1, LeastNat
<1>3. x # 0 /\ x - 1 \in 0..(n - 1) /\ x - 1 \notin T  BY <1>2
<1>4. x - 1 \in P  BY <1>3
<1> QED BY <1>2, <1>3, <1>4

\* A loop of n turns of g from m: the values it passes through exist.
IsLoop(f, n, m, g) == f = [k \in 0..n |-> IF k = 0 THEN m ELSE g[f[k - 1]]]

\* A loop of n turns has a result.
LEMMA TurnsExist ==
    ASSUME NEW n \in Nat, NEW m, NEW g
    PROVE  \E f : IsLoop(f, n, m, g)
<1> DEFINE E(j) == \E f : f = [k \in 0..j |-> IF k = 0 THEN m ELSE g[f[k - 1]]]
           P == {j \in Nat : E(j)}
<1>1. 0 \in P
  <2>1. [k \in 0..0 |-> m] = [k \in 0..0 |-> IF k = 0 THEN m ELSE g[[i \in 0..0 |-> m][k - 1]]]
    OBVIOUS
  <2> QED BY <2>1
<1>2. ASSUME NEW j \in 0..(n - 1), j \in P PROVE j + 1 \in P
  <2>1. PICK f : f = [k \in 0..j |-> IF k = 0 THEN m ELSE g[f[k - 1]]]  BY <1>2
  <2> DEFINE h == [k \in 0..(j + 1) |-> IF k = j + 1 THEN g[f[j]] ELSE f[k]]
  <2>2. \A k \in 0..(j + 1) : h[k] = IF k = 0 THEN m ELSE g[h[k - 1]]  BY <2>1
  <2>3. h = [k \in 0..(j + 1) |-> IF k = 0 THEN m ELSE g[h[k - 1]]]  BY <2>2
  <2> HIDE DEF h
  <2>4. E(j + 1)  BY <2>3
  <2>5. j + 1 \in Nat  OBVIOUS
  <2> HIDE DEF E
  <2> QED BY <2>4, <2>5
<1> HIDE DEF P
<1>3. n \in P  BY <1>1, <1>2, UpTo DEF P
<1> QED BY <1>3 DEF P, IsLoop

\* The numbers from 1 are naturals.
LEMMA CountsAreNat == \A n \in Nat : 1..n \subseteq Nat
OBVIOUS

\* Taking out one place of a sequence.
LEMMA RemoveAtPlaces ==
    ASSUME NEW X, NEW s \in Seq(X), NEW i \in 1..Len(s)
    PROVE  /\ RemoveAt(s, i) \in Seq(X)
           /\ Len(RemoveAt(s, i)) = Len(s) - 1
           /\ DOMAIN RemoveAt(s, i) = 1..(Len(s) - 1)
           /\ \A j \in 1..(Len(s) - 1) : RemoveAt(s, i)[j] = IF j < i THEN s[j] ELSE s[j + 1]
<1> DEFINE a == SubSeq(s, 1, i - 1)
           b == SubSeq(s, i + 1, Len(s))
<1>0. Len(s) \in Nat /\ i \in Nat  OBVIOUS
<1>1. /\ a \in Seq(X) /\ Len(a) = i - 1
      /\ \A j \in 1..(i - 1) : a[j] = s[j]
  BY <1>0
<1>2. /\ b \in Seq(X) /\ Len(b) = Len(s) - i
      /\ \A j \in 1..(Len(s) - i) : b[j] = s[i + j]
  BY <1>0
<1>3. RemoveAt(s, i) = a \o b  BY DEF RemoveAt
<1> HIDE DEF a, b
<1>4. a \o b \in Seq(X) /\ Len(a \o b) = Len(s) - 1
  <2>1. a \o b \in Seq(X) /\ Len(a \o b) = Len(a) + Len(b)  BY <1>1, <1>2, ConcatProperties
  <2> QED BY <1>0, <1>1, <1>2, <2>1
<1>5. ASSUME NEW j \in 1..(Len(s) - 1)
      PROVE  (a \o b)[j] = IF j < i THEN s[j] ELSE s[j + 1]
  <2>1. CASE j < i
    <3>1. (a \o b)[j] = a[j]  BY <1>0, <1>1, <1>2, <2>1
    <3> QED BY <1>0, <1>1, <2>1, <3>1
  <2>2. CASE ~(j < i)
    <3>1. (a \o b)[j] = b[j - (i - 1)]  BY <1>0, <1>1, <1>2, <2>2
    <3>2. j - (i - 1) \in 1..(Len(s) - i) /\ i + (j - (i - 1)) = j + 1  BY <1>0, <2>2
    <3>3. b[j - (i - 1)] = s[i + (j - (i - 1))]  BY <1>2, <3>2
    <3> QED BY <2>2, <3>1, <3>2, <3>3
  <2> QED BY <2>1, <2>2
<1> QED BY <1>3, <1>4, <1>5

\* If it held a value that was there once, the value is gone and all others
\* are still there, once.
LEMMA RemoveAtSet ==
    ASSUME NEW X, NEW s \in Seq(X), IsInjective(s), NEW i \in 1..Len(s)
    PROVE  /\ RemoveAt(s, i) \in Seq(X) /\ IsInjective(RemoveAt(s, i))
           /\ ToSet(RemoveAt(s, i)) = ToSet(s) \ {s[i]}
<1> DEFINE r == RemoveAt(s, i)
           n == Len(s)
<1>1. n \in Nat /\ DOMAIN s = 1..n  BY LenProperties
<1>2. /\ r \in Seq(X) /\ DOMAIN r = 1..(n - 1)
      /\ \A j \in 1..(n - 1) : r[j] = IF j < i THEN s[j] ELSE s[j + 1]
  BY RemoveAtPlaces
<1> HIDE DEF r, n
<1>3. ASSUME NEW a \in 1..(n - 1), NEW b \in 1..(n - 1), r[a] = r[b] PROVE a = b
  <2>1. PICK x \in 1..n : r[a] = s[x] /\ x = IF a < i THEN a ELSE a + 1  BY <1>1, <1>2
  <2>2. PICK y \in 1..n : r[b] = s[y] /\ y = IF b < i THEN b ELSE b + 1  BY <1>1, <1>2
  <2>3. x = y  BY <1>1, <1>3, <2>1, <2>2 DEF IsInjective
  <2> QED BY <1>1, <2>1, <2>2, <2>3
<1>4. IsInjective(r)  BY <1>2, <1>3 DEF IsInjective
<1>5. ASSUME NEW j \in 1..(n - 1) PROVE r[j] \in ToSet(s) /\ r[j] # s[i]
  <2>1. PICK x \in 1..n : r[j] = s[x] /\ x # i  BY <1>1, <1>2 DEF n
  <2> QED BY <1>1, <2>1 DEF IsInjective, ToSet, n
<1>6. ASSUME NEW x \in 1..n, x # i PROVE s[x] \in ToSet(r)
  <2> DEFINE j == IF x < i THEN x ELSE x - 1
  <2>1. j \in 1..(n - 1) /\ r[j] = s[x]  BY <1>1, <1>2, <1>6 DEF n
  <2> HIDE DEF j
  <2> QED BY <1>2, <2>1 DEF ToSet
<1>7. ToSet(r) \subseteq ToSet(s) \ {s[i]}  BY <1>2, <1>5 DEF ToSet
<1>8. ToSet(s) \ {s[i]} \subseteq ToSet(r)  BY <1>1, <1>6 DEF ToSet
<1> QED BY <1>2, <1>4, <1>7, <1>8 DEF r

\* A new value in front.
LEMMA PushSet ==
    ASSUME NEW X, NEW s \in Seq(X), IsInjective(s), NEW k \in X, k \notin ToSet(s)
    PROVE  /\ <<k>> \o s \in Seq(X) /\ IsInjective(<<k>> \o s)
           /\ ToSet(<<k>> \o s) = ToSet(s) \cup {k}
<1> DEFINE r == <<k>> \o s
           n == Len(s)
<1>1. n \in Nat /\ DOMAIN s = 1..n  BY LenProperties
<1>2. r \in Seq(X) /\ Len(r) = n + 1  BY <1>1
<1>3. DOMAIN r = 1..(n + 1)  BY <1>2, LenProperties
<1>4. \A i \in 1..(n + 1) : r[i] = IF i = 1 THEN k ELSE s[i - 1]  BY <1>1
<1> HIDE DEF r, n
<1>5. \A i \in 1..n : s[i] # k /\ s[i] \in ToSet(s)  BY <1>1 DEF ToSet
<1>6. ASSUME NEW a \in 1..(n + 1), NEW b \in 1..(n + 1), r[a] = r[b] PROVE a = b
  <2>1. CASE a = 1 \/ b = 1
    BY <1>1, <1>4, <1>5, <1>6, <2>1
  <2>2. CASE a # 1 /\ b # 1
    <3>1. a - 1 \in 1..n /\ b - 1 \in 1..n /\ s[a - 1] = s[b - 1]  BY <1>1, <1>4, <1>6, <2>2
    <3>2. a - 1 = b - 1  BY <1>1, <3>1 DEF IsInjective
    <3> QED BY <1>1, <3>2
  <2> QED BY <2>1, <2>2
<1>7. IsInjective(r)  BY <1>3, <1>6 DEF IsInjective
<1>8. ToSet(r) \subseteq ToSet(s) \cup {k}
  <2>1. \A i \in 1..(n + 1) : r[i] \in ToSet(s) \cup {k}  BY <1>1, <1>4, <1>5
  <2> QED BY <1>3, <2>1 DEF ToSet
<1>9. ToSet(s) \cup {k} \subseteq ToSet(r)
  <2>1. \A i \in 1..n : i + 1 \in 1..(n + 1) /\ r[i + 1] = s[i]  BY <1>1, <1>4
  <2>2. 1 \in 1..(n + 1) /\ r[1] = k  BY <1>1, <1>4
  <2>3. \A i \in 1..n : s[i] \in ToSet(r)  BY <1>1, <1>3, <2>1 DEF ToSet
  <2>4. k \in ToSet(r)  BY <1>3, <2>2 DEF ToSet
  <2>5. ToSet(s) = {s[i] : i \in 1..n}  BY <1>1 DEF ToSet
  <2> QED BY <2>3, <2>4, <2>5
<1> QED BY <1>2, <1>7, <1>8, <1>9 DEF r

\* A value is at one place of a sequence without repetition, or at none.
LEMMA CountOnce ==
    ASSUME NEW s, IsInjective(s), NEW k
    PROVE  Cardinality({i \in DOMAIN s : s[i] = k}) = IF k \in ToSet(s) THEN 1 ELSE 0
<1> DEFINE at == {i \in DOMAIN s : s[i] = k}
<1>1. CASE k \in ToSet(s)
  <2>1. PICK i \in DOMAIN s : s[i] = k  BY <1>1 DEF ToSet
  <2>2. at = {i}  BY <2>1 DEF IsInjective
  <2> QED BY <1>1, <2>2, FS_Singleton
<1>2. CASE k \notin ToSet(s)
  <2>1. at = {}  BY <1>2 DEF ToSet
  <2> QED BY <1>2, <2>1, FS_EmptySet
<1> QED BY <1>1, <1>2

\* The rank of a number in a set of naturals.
Rank(P, i) == Cardinality({j \in P : j <= i})

\* Ranks count from 1 to the size of the set and leave no number out.
LEMMA RankOnto ==
    ASSUME NEW P \in SUBSET Nat, IsFiniteSet(P)
    PROVE  /\ Cardinality(P) \in Nat
           /\ \A i \in P : Rank(P, i) \in 1..Cardinality(P)
           /\ \A i, j \in P : Rank(P, i) = Rank(P, j) => i = j
           /\ \A n \in 1..Cardinality(P) : \E i \in P : Rank(P, i) = n
<1> DEFINE Below(i) == {j \in P : j <= i}
           N == Cardinality(P)
<1>0. N \in Nat  BY FS_CardinalityType
<1>1. ASSUME NEW i \in P PROVE /\ IsFiniteSet(Below(i)) /\ Rank(P, i) \in 1..N
                               /\ Rank(P, i) = Cardinality(Below(i))
  <2>1. Below(i) \in SUBSET P /\ {i} \in SUBSET Below(i)  OBVIOUS
  <2>2. IsFiniteSet(Below(i)) /\ Cardinality(Below(i)) <= N  BY <2>1, FS_Subset
  <2>3. 1 <= Cardinality(Below(i))
    <3>1. Cardinality({i}) = 1  BY FS_Singleton
    <3> QED BY <2>1, <2>2, <3>1, FS_Subset
  <2>4. Cardinality(Below(i)) \in Nat  BY <2>2, FS_CardinalityType
  <2>5. Rank(P, i) = Cardinality(Below(i))  BY DEF Rank
  <2> QED BY <1>0, <2>2, <2>3, <2>4, <2>5
<1>2. ASSUME NEW i \in P, NEW j \in P, i < j PROVE Rank(P, i) # Rank(P, j)
  <2>0. i \in Nat /\ j \in Nat /\ \A x \in P : x \in Nat /\ (x <= i => x <= j)  BY <1>2
  <2>1. Below(i) \in SUBSET Below(j) /\ j \in Below(j) /\ j \notin Below(i)
    <3>1. \A x \in Below(i) : x \in Below(j)  BY <2>0
    <3>2. j \in Below(j) /\ j \notin Below(i)  BY <1>2, <2>0
    <3> HIDE DEF Below
    <3> QED BY <3>1, <3>2
  <2>2. Cardinality(Below(j)) = Cardinality(Below(i)) => Below(j) = Below(i)
    BY <1>1, <2>1, FS_Subset
  <2> QED BY <1>1, <2>1, <2>2
<1>3. \A i, j \in P : Rank(P, i) = Rank(P, j) => i = j
  <2>1. \A i, j \in P : i < j \/ j < i \/ i = j  OBVIOUS
  <2> QED BY <1>2, <2>1
<1> DEFINE f == [i \in P |-> Rank(P, i)]
<1>4. f \in Injection(P, 1..N)  BY <1>1, <1>3 DEF Injection, IsInjective
<1>5. IsFiniteSet(1..N) /\ Cardinality(1..N) = N  BY <1>0, FS_Interval
<1>6. f \in Surjection(P, 1..N)  BY <1>4, <1>5, FS_Injection
<1>7. \A n \in 1..N : \E i \in P : Rank(P, i) = n  BY <1>6 DEF Surjection
<1> QED BY <1>0, <1>1, <1>3, <1>7

\* What is in two sequences in a row.
LEMMA ConcatSet ==
    ASSUME NEW X, NEW s \in Seq(X), NEW t \in Seq(X)
    PROVE  /\ s \o t \in Seq(X) /\ ToSet(s \o t) = ToSet(s) \cup ToSet(t)
<1> DEFINE r == s \o t
<1>1. PICK m \in Nat, n \in Nat : /\ m = Len(s) /\ DOMAIN s = 1..m
                                 /\ n = Len(t) /\ DOMAIN t = 1..n
  BY LenProperties
<1>2. /\ r \in Seq(X) /\ Len(r) = m + n
      /\ \A i \in 1..(m + n) : r[i] = IF i <= m THEN s[i] ELSE t[i - m]
  BY <1>1, ConcatProperties
<1>3. DOMAIN r = 1..(m + n)  BY <1>2, LenProperties
<1> HIDE DEF r
<1>4. ASSUME NEW i \in 1..(m + n) PROVE r[i] \in ToSet(s) \cup ToSet(t)
  <2>1. CASE i <= m
    <3>1. i \in DOMAIN s /\ r[i] = s[i]  BY <1>1, <1>2, <2>1
    <3> QED BY <3>1 DEF ToSet
  <2>2. CASE ~(i <= m)
    <3>1. i - m \in DOMAIN t /\ r[i] = t[i - m]  BY <1>1, <1>2, <2>2
    <3> QED BY <3>1 DEF ToSet
  <2> QED BY <2>1, <2>2
<1>5. \A i \in 1..m : i \in DOMAIN r /\ r[i] = s[i]  BY <1>1, <1>2, <1>3
<1>6. ASSUME NEW i \in 1..n PROVE i + m \in DOMAIN r /\ r[i + m] = t[i]
  <2>1. i + m \in 1..(m + n) /\ ~(i + m <= m) /\ (i + m) - m = i  OBVIOUS
  <2>2. r[i + m] = t[(i + m) - m]  BY <1>2, <2>1
  <2> QED BY <1>3, <2>1, <2>2
<1>7. ToSet(r) \subseteq ToSet(s) \cup ToSet(t)  BY <1>3, <1>4 DEF ToSet
<1>8. ToSet(s) \subseteq ToSet(r)  BY <1>1, <1>5 DEF ToSet
<1>9. ToSet(t) \subseteq ToSet(r)  BY <1>1, <1>6 DEF ToSet
<1> QED BY <1>2, <1>7, <1>8, <1>9 DEF r

\* A new value behind.
LEMMA AppendSet ==
    ASSUME NEW X, NEW s \in Seq(X), IsInjective(s), NEW k \in X, k \notin ToSet(s)
    PROVE  /\ Append(s, k) \in Seq(X) /\ IsInjective(Append(s, k))
           /\ ToSet(Append(s, k)) = ToSet(s) \cup {k}
<1> DEFINE r == Append(s, k)
<1>1. PICK n \in Nat : n = Len(s) /\ DOMAIN s = 1..n  BY LenProperties
<1>2. r \in Seq(X) /\ Len(r) = n + 1 /\ (\A i \in 1..n : r[i] = s[i]) /\ r[n + 1] = k
  BY <1>1, AppendProperties
<1>3. DOMAIN r = 1..(n + 1)  BY <1>2, LenProperties
<1> HIDE DEF r
<1>4. \A i \in 1..n : s[i] # k /\ s[i] \in ToSet(s)  BY <1>1 DEF ToSet
<1>5. \A i \in 1..(n + 1) : i \in 1..n \/ i = n + 1  OBVIOUS
<1>6. IsInjective(r)
  <2> SUFFICES ASSUME NEW a \in 1..(n + 1), NEW b \in 1..(n + 1), r[a] = r[b] PROVE a = b
    BY <1>3 DEF IsInjective
  <2> QED BY <1>1, <1>2, <1>4, <1>5 DEF IsInjective
<1>7. ToSet(r) \subseteq ToSet(s) \cup {k}  BY <1>2, <1>3, <1>4, <1>5 DEF ToSet
<1>8. \A i \in 1..n : s[i] \in ToSet(r)
  <2>1. \A i \in 1..n : i \in 1..(n + 1)  OBVIOUS
  <2> QED BY <1>2, <1>3, <2>1 DEF ToSet
<1>9. k \in ToSet(r)
  <2>1. n + 1 \in 1..(n + 1)  OBVIOUS
  <2> QED BY <1>2, <1>3, <2>1 DEF ToSet
<1>10. ToSet(s) \subseteq ToSet(r)  BY <1>1, <1>8 DEF ToSet
<1> QED BY <1>2, <1>6, <1>7, <1>9, <1>10 DEF r

-----------------------------------------------------------------------------
(* The exit's table of target sockets.                                     *)

ExEntry == [fd : 1..ExFds, circ : ExCircs, id : ExIds]

\* The inductive invariant.
ExInv ==
    /\ exMap \in Seq(ExEntry)
    /\ exCirc \in [ExCircs -> {"open", "marked", "gone"}]
    /\ ExMapLive

\* Moving the last entry into a hole keeps the other entries.
LEMMA ExMovedKeeps ==
    ASSUME NEW m \in Seq(ExEntry), m # <<>>, NEW i
    PROVE  /\ ExMoved(m, i) \in Seq(ExEntry)
           /\ Len(ExMoved(m, i)) = Len(m) - 1
           /\ \A j \in DOMAIN ExMoved(m, i) : \E k \in DOMAIN m : ExMoved(m, i)[j] = m[k]
<1> DEFINE q == [m EXCEPT ![i] = m[Len(m)]]
<1>1. Len(m) \in Nat \ {0} /\ DOMAIN m = 1..Len(m)  OBVIOUS
<1>2. q \in Seq(ExEntry) /\ Len(q) = Len(m) /\ DOMAIN q = 1..Len(m)
  <2>0. \A j \in 1..Len(m) : m[j] \in ExEntry /\ q[j] \in {m[j], m[Len(m)]}  BY <1>1
  <2>1. q = [j \in 1..Len(m) |-> q[j]] /\ \A j \in 1..Len(m) : q[j] \in ExEntry
    <3>1. q = [j \in 1..Len(m) |-> q[j]]  BY <1>1
    <3>2. m[Len(m)] \in ExEntry  BY <1>1, <2>0
    <3> HIDE DEF q
    <3>3. \A j \in 1..Len(m) : q[j] \in ExEntry  BY <2>0, <3>2
    <3> QED BY <3>1, <3>3
  <2> HIDE DEF q
  <2>2. q \in [1..Len(m) -> ExEntry]  BY <2>1
  <2> QED BY <1>1, <2>2, SeqDef
<1>3. \A j \in DOMAIN q : \E k \in DOMAIN m : q[j] = m[k]  BY <1>1
<1>4. ExMoved(m, i) = SubSeq(q, 1, Len(m) - 1)  BY DEF ExMoved
<1> HIDE DEF q
<1>5. PICK n \in Nat : n = Len(m) - 1 /\ n <= Len(q)
  <2>1. PICK l \in Nat \ {0} : l = Len(m) /\ l = Len(q)  BY <1>1, <1>2
  <2>2. l - 1 \in Nat /\ l - 1 <= l  OBVIOUS
  <2> QED BY <2>1, <2>2
<1>6. /\ SubSeq(q, 1, n) \in Seq(ExEntry) /\ Len(SubSeq(q, 1, n)) = n
      /\ \A j \in 1..n : SubSeq(q, 1, n)[j] = q[j]
  BY <1>2, <1>5, SubSeqProperties
<1>7. \A j \in DOMAIN SubSeq(q, 1, n) : j \in DOMAIN q /\ SubSeq(q, 1, n)[j] = q[j]
  BY <1>1, <1>2, <1>5, <1>6
<1> QED BY <1>3, <1>4, <1>5, <1>6, <1>7

\* exit_fd_remove keeps the other entries.
LEMMA ExFdRemoveKeeps ==
    ASSUME NEW m \in Seq(ExEntry), NEW f
    PROVE  /\ ExFdRemove(m, f) \in Seq(ExEntry)
           /\ \A j \in DOMAIN ExFdRemove(m, f) : \E k \in DOMAIN m : ExFdRemove(m, f)[j] = m[k]
<1>1. CASE ExFdAt(m, f) = {}
  BY <1>1 DEF ExFdRemove
<1>2. CASE ExFdAt(m, f) # {}
  <2>1. m # <<>>  BY <1>2 DEF ExFdAt
  <2> QED BY <1>2, <2>1, ExMovedKeeps DEF ExFdRemove
<1> QED BY <1>1, <1>2

\* moor_relay_cleanup_exit_fds: no entry of the circuit is left, and every
\* entry that is left was there.
LEMMA ExCleanupExact ==
    ASSUME NEW m \in Seq(ExEntry), NEW c
    PROVE  /\ ExCleanup(m, c) \in Seq(ExEntry)
           /\ \A j \in DOMAIN ExCleanup(m, c) :
                /\ ExCleanup(m, c)[j].circ # c
                /\ \E k \in DOMAIN m : ExCleanup(m, c)[j] = m[k]
<1> DEFINE Turn(p) == LET at == ExCircAt(p, c)
                      IN IF at = {} THEN p ELSE ExMoved(p, Min(at))
           L == Len(m)
           Loop(f) == f = [k \in 0..L |-> IF k = 0 THEN m ELSE Turn(f[k - 1])]
           step == CHOOSE f : Loop(f)
           Kept(p) == /\ p \in Seq(ExEntry)
                      /\ \A j \in DOMAIN p : \E k \in DOMAIN m : p[j] = m[k]
           Good(p, n) == Kept(p) /\ (ExCircAt(p, c) = {} \/ Len(p) = L - n)
<1>1. L \in Nat  OBVIOUS
<1>2. ASSUME NEW p, NEW n \in 0..(L - 1), Good(p, n) PROVE Good(Turn(p), n + 1)
  <2>1. CASE ExCircAt(p, c) = {}
    BY <1>2, <2>1
  <2>2. CASE ExCircAt(p, c) # {}
    <3>1. PICK i : i = Min(ExCircAt(p, c))  OBVIOUS
    <3>2. Turn(p) = ExMoved(p, i)  BY <2>2, <3>1
    <3>3. p \in Seq(ExEntry) /\ p # <<>>  BY <1>2, <2>2 DEF ExCircAt
    <3> HIDE DEF Turn
    <3>4. /\ ExMoved(p, i) \in Seq(ExEntry) /\ Len(ExMoved(p, i)) = Len(p) - 1
          /\ \A j \in DOMAIN ExMoved(p, i) : \E k \in DOMAIN p : ExMoved(p, i)[j] = p[k]
      BY <3>3, ExMovedKeeps
    <3>5. Kept(ExMoved(p, i))  BY <1>2, <3>4
    <3>6. Len(ExMoved(p, i)) = L - (n + 1)  BY <1>1, <1>2, <2>2, <3>4
    <3> QED BY <3>2, <3>5, <3>6
  <2> QED BY <2>1, <2>2
<1>3. Good(m, 0)  OBVIOUS
<1>4. ASSUME NEW p, NEW n \in 0..L, Good(p, n) PROVE Kept(p)
  BY <1>4
<1>5. ASSUME NEW p, Good(p, L)
      PROVE  Kept(p) /\ \A j \in DOMAIN p : p[j].circ # c
  BY <1>1, <1>5 DEF ExCircAt
<1> HIDE DEF Turn, L, Good
<1>6. ASSUME NEW f, NEW S, m \in S,
             \A p \in S, n \in 0..(L - 1) : Good(p, n) => Turn(p) \in S,
             f = [k \in 0..L |-> IF k = 0 THEN m ELSE [p \in S |-> Turn(p)][f[k - 1]]]
      PROVE  \A n \in 0..L : f[n] \in S /\ Good(f[n], n)
  <2> SUFFICES ASSUME NEW n \in 0..L PROVE f[n] \in S /\ Good(f[n], n)
    OBVIOUS
  <2> DEFINE P == {k \in Nat : k <= n => f[k] \in S /\ Good(f[k], k)}
  <2>0. n \in Nat  BY <1>1
  <2>1. 0 \in P  BY <1>1, <1>3, <1>6
  <2>2. ASSUME NEW k \in 0..(n - 1), k \in P PROVE k + 1 \in P
    <3>1. k \in 0..(L - 1) /\ k + 1 \in 0..L /\ k + 1 # 0 /\ (k + 1) - 1 = k /\ k + 1 \in Nat
      BY <1>1
    <3>2. f[k] \in S /\ Good(f[k], k)  BY <2>2
    <3>3. f[k + 1] = Turn(f[k])  BY <1>6, <3>1, <3>2
    <3> QED BY <1>2, <1>6, <3>1, <3>2, <3>3
  <2> HIDE DEF P
  <2>3. n \in P  BY <2>0, <2>1, <2>2, UpTo DEF P
  <2> QED BY <2>0, <2>3 DEF P
<1>7. \E f : Loop(f)
  <2> DEFINE S == Seq(ExEntry)
             g == [p \in S |-> Turn(p)]
  <2>1. PICK f : f = [k \in 0..L |-> IF k = 0 THEN m ELSE g[f[k - 1]]]
    <3>1. PICK f : IsLoop(f, L, m, g)  BY <1>1, TurnsExist
    <3> QED BY <3>1 DEF IsLoop
  <2>2. \A p \in S, n \in 0..(L - 1) : Good(p, n) => Turn(p) \in S  BY <1>2 DEF Good
  <2>3. \A n \in 0..L : f[n] \in S  BY <1>6, <2>1, <2>2
  <2>4. ASSUME NEW k \in 0..L
        PROVE  (IF k = 0 THEN m ELSE g[f[k - 1]]) = (IF k = 0 THEN m ELSE Turn(f[k - 1]))
    BY <1>1, <2>3
  <2>5. Loop(f)  BY <2>1, <2>4
  <2> QED BY <2>5
<1>8. Loop(step)
  <2> HIDE DEF Loop
  <2> QED BY <1>7
<1>9. \A n \in 0..L : Good(step[n], n)
  <2> SUFFICES ASSUME NEW n \in 0..L PROVE Good(step[n], n)
    OBVIOUS
  <2> HIDE DEF step
  <2> DEFINE P == {k \in Nat : k <= n => Good(step[k], k)}
  <2>0. n \in Nat  BY <1>1
  <2>1. 0 \in P  BY <1>1, <1>3, <1>8
  <2>2. ASSUME NEW k \in 0..(n - 1), k \in P PROVE k + 1 \in P
    <3>1. k \in 0..(L - 1) /\ k + 1 \in 0..L /\ k + 1 # 0 /\ (k + 1) - 1 = k /\ k + 1 \in Nat
      BY <1>1
    <3>2. Good(step[k], k)  BY <2>2
    <3>3. step[k + 1] = Turn(step[k])  BY <1>8, <3>1
    <3> QED BY <1>2, <3>1, <3>2, <3>3
  <2> HIDE DEF P
  <2>3. n \in P  BY <2>0, <2>1, <2>2, UpTo DEF P
  <2> QED BY <2>0, <2>3 DEF P
<1>10. ExCleanup(m, c) = step[L]  BY DEF ExCleanup, Turn, L
<1>11. Good(ExCleanup(m, c), L)  BY <1>1, <1>9, <1>10
<1> HIDE DEF step
<1> QED BY <1>5, <1>11

\* Steps that only take entries out of the table.
LEMMA ExShrinks ==
    ASSUME ExInv, exCirc' = exCirc, exMap' \in Seq(ExEntry),
           \A j \in DOMAIN exMap' : \E k \in DOMAIN exMap : exMap'[j] = exMap[k]
    PROVE  ExInv'
BY DEF ExInv, ExMapLive

\* An entry taken out of the map keeps the invariant.
LEMMA ExDropFits ==
    ASSUME ExInv, NEW f, ExDrop(f), exCirc' = exCirc
    PROVE  ExInv'
<1>1. exMap' = ExFdRemove(exMap, f) /\ exMap \in Seq(ExEntry)  BY DEF ExDrop, ExInv
<1> QED BY <1>1, ExFdRemoveKeeps, ExShrinks

\* So does a connection that is opened, or fails to open.
LEMMA ExConnectFits ==
    ASSUME ExInv, NEW c \in ExCircs, NEW i \in ExIds, NEW how, ExLive(c),
           ExConnect(c, i, how), exCirc' = exCirc
    PROVE  ExInv'
<1>1. CASE exMap' = exMap
  BY <1>1, ExShrinks DEF ExInv
<1>2. CASE exMap' # exMap
  <2> DEFINE closed == {f \in 1..ExFds : exKernel[f] = <<>>}
  <2>1. closed # {} /\ exMap' = Append(exMap, [fd |-> Min(closed), circ |-> c, id |-> i])
    BY <1>2 DEF ExConnect, exDesc
  <2>2. closed \in SUBSET Nat  OBVIOUS
  <2>3. Min(closed) \in closed  BY <2>1, <2>2, MinIsIn
  <2>4. PICK fd \in 1..ExFds : exMap' = Append(exMap, [fd |-> fd, circ |-> c, id |-> i])
    BY <2>1, <2>3
  <2>5. PICK e \in ExEntry : e.circ = c /\ exMap' = Append(exMap, e)  BY <2>4 DEF ExEntry
  <2>6. exMap \in Seq(ExEntry) /\ exCirc[c] # "gone"  BY DEF ExInv, ExLive
  <2>7. exMap' \in Seq(ExEntry)
        /\ \A j \in DOMAIN exMap' : exMap'[j] = e \/ \E k \in DOMAIN exMap : exMap'[j] = exMap[k]
    BY <2>5, <2>6
  <2> QED BY <2>5, <2>6, <2>7 DEF ExInv, ExMapLive
<1> QED BY <1>1, <1>2

\* So does the BEGIN or RESOLVE cell behind it.
LEMMA ExCellFits ==
    ASSUME ExInv, ExCell
    PROVE  ExInv'
<1>1. PICK q \in ExQueries : \E new \in ExResolutions(q), c \in ExCircs :
        \/ \E i \in ExIds, port \in ExPorts, how \in {"refused", "progress", "done"} :
             ExBegin(c, i, q, port, new, how)
        \/ ExResolve(c, q, new)
  BY DEF ExCell
<1>2. PICK new \in ExResolutions(q), c \in ExCircs :
        \/ \E i \in ExIds, port \in ExPorts, how \in {"refused", "progress", "done"} :
             ExBegin(c, i, q, port, new, how)
        \/ ExResolve(c, q, new)
  BY <1>1
<1>3. CASE ExResolve(c, q, new)
  <2>1. exMap' = exMap /\ exCirc' = exCirc  BY <1>3 DEF ExResolve, exDesc
  <2> QED BY <2>1, ExShrinks DEF ExInv
<1>4. ASSUME NEW i \in ExIds, NEW port \in ExPorts, NEW how, ExBegin(c, i, q, port, new, how)
      PROVE  ExInv'
  <2>1. ExLive(c) /\ exCirc' = exCirc /\ (exMap' = exMap \/ ExConnect(c, i, how))
    BY <1>4 DEF ExBegin, exDesc
  <2>2. CASE exMap' = exMap
    BY <2>1, <2>2, ExShrinks DEF ExInv
  <2>3. CASE ExConnect(c, i, how)
    BY <2>1, <2>3, ExConnectFits
  <2> QED BY <2>1, <2>2, <2>3
<1> QED BY <1>2, <1>3, <1>4

\* So do the callbacks of the event loop.
LEMMA ExCallbackFits ==
    ASSUME ExInv, NEW f,
           \/ \E ok \in BOOLEAN : ExConnectDone(f, ok)
           \/ \E what \in {"no window", "closed"} : ExTargetReadable(f, what)
    PROVE  ExInv'
<1>1. exCirc' = exCirc /\ (exMap' = exMap \/ ExDrop(f))
  BY DEF ExConnectDone, ExTargetReadable, ExOrphan
<1>2. CASE exMap' = exMap
  BY <1>1, <1>2, ExShrinks DEF ExInv
<1> QED BY <1>1, <1>2, ExDropFits

\* So does marking a circuit.
LEMMA ExMarkFits ==
    ASSUME ExInv, NEW c \in ExCircs, ExMark(c)
    PROVE  ExInv'
BY DEF ExInv, ExMark, exDesc, ExMapLive

\* A marked circuit is freed after its entries: none is left to dangle.
LEMMA ExCloseFits ==
    ASSUME ExInv, NEW c \in ExCircs, ExCloseMarked(c)
    PROVE  ExInv'
<1>1. /\ exMap' = ExCleanup(exMap, c) /\ exMap \in Seq(ExEntry)
      /\ exCirc' = [exCirc EXCEPT ![c] = "gone"]
      /\ exCirc \in [ExCircs -> {"open", "marked", "gone"}]
  BY DEF ExInv, ExCloseMarked
<1>2. /\ exMap' \in Seq(ExEntry)
      /\ \A j \in DOMAIN exMap' : /\ exMap'[j].circ # c
                                  /\ \E k \in DOMAIN exMap : exMap'[j] = exMap[k]
  BY <1>1, ExCleanupExact
<1>3. \A j \in DOMAIN exMap' : exMap'[j].circ \in ExCircs \ {c} /\ exCirc[exMap'[j].circ] # "gone"
  <2> TAKE j \in DOMAIN exMap'
  <2>1. PICK k \in DOMAIN exMap : exMap'[j] = exMap[k]  BY <1>2
  <2>2. exMap[k] \in ExEntry  BY <1>1, <2>1
  <2>3. exMap[k].circ \in ExCircs /\ exCirc[exMap[k].circ] # "gone"
    BY <2>1, <2>2 DEF ExInv, ExMapLive, ExEntry
  <2> QED BY <1>2, <2>1, <2>3
<1> QED BY <1>1, <1>2, <1>3 DEF ExInv, ExMapLive

\* Every step keeps the invariant.
LEMMA ExNextFits == ExInv /\ [ExNext]_exVars => ExInv'
<1> SUFFICES ASSUME ExInv, [ExNext]_exVars PROVE ExInv'
  OBVIOUS
<1>1. CASE exMap' = exMap /\ exCirc' = exCirc
  BY <1>1, ExShrinks DEF ExInv
<1>2. CASE ExCell
  BY <1>2, ExCellFits
<1>3. ASSUME NEW f \in 1..ExFds,
             \/ \E ok \in BOOLEAN : ExConnectDone(f, ok)
             \/ \E what \in {"no window", "closed"} : ExTargetReadable(f, what)
      PROVE  ExInv'
  BY <1>3, ExCallbackFits
<1>4. ASSUME NEW c \in ExCircs, NEW s \in 1..ExSlots, NEW failed \in BOOLEAN, ExEnd(c, s, failed)
      PROVE  ExInv'
  <2>1. ExDrop(exStream[c][s].fd) /\ exCirc' = exCirc  BY <1>4 DEF ExEnd
  <2> QED BY <2>1, ExDropFits
<1>5. ASSUME NEW c \in ExCircs,
             \/ \E s \in 1..ExSlots : ExXoff(c, s)
             \/ \E ss \in {1..ExSlots} \cup {{s} : s \in 1..ExSlots} : ExResume(c, ss)
      PROVE  ExInv'
  BY <1>1, <1>5 DEF ExXoff, ExResume
<1>6. ASSUME NEW c \in ExCircs, ExMark(c) \/ ExCloseMarked(c) PROVE ExInv'
  BY <1>6, ExMarkFits, ExCloseFits
<1>7. CASE ExTick
  BY <1>1, <1>7 DEF ExTick, exDesc
<1>8. CASE UNCHANGED exVars
  BY <1>1, <1>8 DEF exVars
<1> QED BY <1>2, <1>3, <1>4, <1>5, <1>6, <1>7, <1>8 DEF ExNext

\* The exit's descriptor table never leads to a circuit that was freed,
\* whatever the order of targets closing, streams ending and circuits being
\* torn down, for tables of any size: exit_fd_remove and the loop of
\* moor_relay_cleanup_exit_fds move entries and lose none but the ones meant.
THEOREM ExitMapLive == ExSpec => []ExMapLive
<1>1. ExInit => ExInv
  <2> SUFFICES ASSUME ExInit PROVE ExInv
    OBVIOUS
  <2>1. exMap = <<>> /\ exCirc = [c \in ExCircs |-> "open"]  BY DEF ExInit
  <2>2. exMap \in Seq(ExEntry) /\ DOMAIN exMap = {}  BY <2>1
  <2>3. exCirc \in [ExCircs -> {"open", "marked", "gone"}]  BY <2>1
  <2> QED BY <2>2, <2>3 DEF ExInv, ExMapLive
<1>2. ExInv /\ [ExNext]_exVars => ExInv'  BY ExNextFits
<1>3. ExInv => ExMapLive  BY DEF ExInv
<1> QED BY <1>1, <1>2, <1>3, PTL DEF ExSpec

-----------------------------------------------------------------------------
(* The exit's name cache.  ExCacheFits says of the chains what ExCacheExact *)
(* counts: each leads to the slots of its bucket, once.  Between unlinking  *)
(* a slot and linking it again the slot is loose.                           *)

ExNames == DOMAIN ExHosts
ExBuckets == {ExHash[h] : h \in ExNames}
ExCacheSlots == 1..ExCacheSize
ExAddresses == UNION {ExHosts[h] : h \in ExNames}
ExCacheEntry == [host : ExNames \cup {""}, ip : ExAddresses \cup {""}, expires : Nat, used : Nat]

\* The shape of the cache.
ExCacheType(ca) ==
    /\ ca = [slot |-> ca.slot, chain |-> ca.chain, count |-> ca.count]
    /\ ca.slot \in [ExCacheSlots -> ExCacheEntry]
    /\ ca.chain \in [ExBuckets -> Seq(ExCacheSlots)]
    /\ ca.count \in Nat

\* The slots with a name, and those with a name of bucket b.
ExUsed(slot) == {k \in ExCacheSlots : slot[k].host # ""}
ExIn(slot, b) == {k \in ExUsed(slot) : ExHash[slot[k].host] = b}

\* A chain leads to the slots with a name of its bucket, to each once.
ExChained(slot, chain) ==
    \A b \in ExBuckets : IsInjective(chain[b]) /\ ToSet(chain[b]) = ExIn(slot, b)

\* The same, but slot k is in no chain.
ExLoose(slot, chain, k) ==
    \A b \in ExBuckets : IsInjective(chain[b]) /\ ToSet(chain[b]) = ExIn(slot, b) \ {k}

\* Names are held once, with one of their own addresses.
ExNamed(slot, K) ==
    \A k \in K : /\ slot[k].ip \in ExHosts[slot[k].host]
                 /\ \A j \in K : slot[j].host = slot[k].host => j = k

ExCacheFits(ca) ==
    /\ ExCacheType(ca)
    /\ ExChained(ca.slot, ca.chain)
    /\ ExNamed(ca.slot, ExUsed(ca.slot))
    /\ ca.count = Cardinality(ExUsed(ca.slot))

\* A slot with a name belongs to a bucket.
LEMMA ExBucketOf ==
    ASSUME NEW slot \in [ExCacheSlots -> ExCacheEntry], NEW k \in ExUsed(slot)
    PROVE  /\ slot[k].host \in ExNames /\ ExHash[slot[k].host] \in ExBuckets
           /\ k \in ExCacheSlots
BY DEF ExUsed, ExBuckets, ExCacheEntry

\* After hash_remove the slot is in no chain and nothing else has changed.
LEMMA ExUnlinkLoose ==
    ASSUME NEW ca, ExCacheFits(ca), NEW k \in ExCacheSlots
    PROVE  /\ ExCacheType(ExUnlink(ca, k))
           /\ ExLoose(ca.slot, ExUnlink(ca, k).chain, k)
           /\ ExUnlink(ca, k).slot = ca.slot /\ ExUnlink(ca, k).count = ca.count
<1>0. /\ ca = [slot |-> ca.slot, chain |-> ca.chain, count |-> ca.count]
      /\ ca.slot \in [ExCacheSlots -> ExCacheEntry]
      /\ ca.chain \in [ExBuckets -> Seq(ExCacheSlots)]
      /\ ca.count \in Nat
      /\ \A b \in ExBuckets : IsInjective(ca.chain[b]) /\ ToSet(ca.chain[b]) = ExIn(ca.slot, b)
  BY DEF ExCacheFits, ExCacheType, ExChained
<1>1. CASE ca.slot[k].host = ""
  <2>1. ExUnlink(ca, k) = ca  BY <1>1 DEF ExUnlink
  <2>2. \A b \in ExBuckets : k \notin ExIn(ca.slot, b)  BY <1>1 DEF ExIn, ExUsed
  <2> QED BY <1>0, <2>1, <2>2 DEF ExLoose, ExCacheType
<1>2. CASE ca.slot[k].host # ""
  <2> DEFINE b == ExHash[ca.slot[k].host]
             q == ca.chain[b]
             at == {i \in DOMAIN q : q[i] = k}
             r == RemoveAt(q, Min(at))
             new == [ca.chain EXCEPT ![b] = r]
  <2>0. k \in ExUsed(ca.slot)  BY <1>2 DEF ExUsed
  <2>1. b \in ExBuckets /\ k \in ExIn(ca.slot, b)  BY <1>0, <2>0, ExBucketOf DEF ExIn
  <2>2. q \in Seq(ExCacheSlots) /\ IsInjective(q) /\ ToSet(q) = ExIn(ca.slot, b)  BY <1>0, <2>1
  <2>3. DOMAIN q = 1..Len(q) /\ Len(q) \in Nat  BY <2>2, LenProperties
  <2>4. at # {}  BY <2>1, <2>2 DEF ToSet
  <2>5. at \in SUBSET Nat  BY <2>3
  <2>6. Min(at) \in at  BY <2>4, <2>5, MinIsIn
  <2>7. Min(at) \in 1..Len(q) /\ q[Min(at)] = k  BY <2>3, <2>6
  <2>8. r \in Seq(ExCacheSlots) /\ IsInjective(r) /\ ToSet(r) = ExIn(ca.slot, b) \ {k}
    <3>1. PICK p \in 1..Len(q) : p = Min(at) /\ q[p] = k  BY <2>7
    <3> HIDE DEF q, at
    <3>2. /\ RemoveAt(q, p) \in Seq(ExCacheSlots) /\ IsInjective(RemoveAt(q, p))
          /\ ToSet(RemoveAt(q, p)) = ToSet(q) \ {q[p]}
      BY <2>2, RemoveAtSet
    <3> QED BY <2>2, <3>1, <3>2
  <2>9. ExUnlink(ca, k) = [ca EXCEPT !.chain = new]  BY <1>2, <2>4 DEF ExUnlink
  <2> HIDE DEF r, at, q
  <2>10. /\ new \in [ExBuckets -> Seq(ExCacheSlots)] /\ new[b] = r
         /\ \A x \in ExBuckets : x # b => new[x] = ca.chain[x]
    BY <1>0, <2>1, <2>8
  <2> HIDE DEF new
  <2>11. ExUnlink(ca, k) = [slot |-> ca.slot, chain |-> new, count |-> ca.count]  BY <1>0, <2>9
  <2>12. \A x \in ExBuckets : x # b => k \notin ExIn(ca.slot, x)  BY DEF ExIn
  <2>13. ExLoose(ca.slot, new, k)
    <3> SUFFICES ASSUME NEW x \in ExBuckets
                 PROVE  IsInjective(new[x]) /\ ToSet(new[x]) = ExIn(ca.slot, x) \ {k}
      BY DEF ExLoose
    <3>1. CASE x = b
      BY <2>8, <2>10, <3>1
    <3>2. CASE x # b
      <4>1. new[x] = ca.chain[x] /\ IsInjective(ca.chain[x])
            /\ ToSet(ca.chain[x]) = ExIn(ca.slot, x) /\ k \notin ExIn(ca.slot, x)
        BY <1>0, <2>10, <2>12, <3>2
      <4> QED BY <4>1
    <3> QED BY <3>1, <3>2
  <2> QED BY <1>0, <2>10, <2>11, <2>13 DEF ExCacheType
<1> QED BY <1>1, <1>2

\* A used slot is unlinked and cleared.
LEMMA ExForgetFits ==
    ASSUME NEW ca, ExCacheFits(ca), NEW k \in ExUsed(ca.slot)
    PROVE  ExCacheFits(ExForget(ca, k))
<1> DEFINE cut == ExUnlink(ca, k)
           slot == [ca.slot EXCEPT ![k] = ExNoEntry]
           used == ExUsed(ca.slot)
           new == ExForget(ca, k)
<1>0. k \in ExCacheSlots /\ IsFiniteSet(used)
  <2>1. ExCacheSize \in Nat  BY ExAssumption
  <2>2. IsFiniteSet(ExCacheSlots)  BY <2>1, FS_Interval DEF ExCacheSlots
  <2> QED BY <2>2, FS_Subset DEF ExUsed
<1>1. /\ cut = [slot |-> cut.slot, chain |-> cut.chain, count |-> cut.count]
      /\ cut.chain \in [ExBuckets -> Seq(ExCacheSlots)]
      /\ ExLoose(ca.slot, cut.chain, k)
      /\ cut.slot = ca.slot /\ cut.count = ca.count
  BY <1>0, ExUnlinkLoose DEF ExCacheType
<1>2. Cardinality(used) \in Nat /\ Cardinality(used \ {k}) = Cardinality(used) - 1
      /\ Cardinality(used) > 0
  <2>1. Cardinality(used) \in Nat /\ Cardinality(used \ {k}) = Cardinality(used) - 1
        /\ Cardinality(used \ {k}) \in Nat
    BY <1>0, FS_CardinalityType, FS_RemoveElement, FS_Subset
  <2> QED BY <2>1
<1>3. ca.count = Cardinality(used) /\ ca.slot \in [ExCacheSlots -> ExCacheEntry]
      /\ ExNamed(ca.slot, used)
  BY DEF ExCacheFits, ExCacheType
<1>4. new = [cut EXCEPT !.slot[k] = ExNoEntry, !.count = IF @ > 0 THEN @ - 1 ELSE @]
  BY DEF ExForget
<1> HIDE DEF cut, new
<1>5. PICK n : n = ca.count - 1 /\ n = Cardinality(used \ {k}) /\ n \in Nat  BY <1>2, <1>3
<1>6. new = [slot |-> slot, chain |-> cut.chain, count |-> n]
  <2>1. PICK sl, ch, co : cut = [slot |-> sl, chain |-> ch, count |-> co]
                          /\ sl = ca.slot /\ ch = cut.chain /\ co = ca.count
    BY <1>1
  <2>2. (IF co > 0 THEN co - 1 ELSE co) = n  BY <1>2, <1>3, <1>5, <2>1
  <2> QED BY <1>4, <2>1, <2>2
<1>7. /\ slot[k] = ExNoEntry
      /\ \A j \in ExCacheSlots : j # k => slot[j] = ca.slot[j]
  BY <1>0, <1>3
<1>8. ExNoEntry \in ExCacheEntry /\ ExNoEntry.host = ""  BY DEF ExNoEntry, ExCacheEntry
<1>9. slot \in [ExCacheSlots -> ExCacheEntry]  BY <1>0, <1>3, <1>8
<1> HIDE DEF slot
<1>10. ExUsed(slot) = used \ {k}  BY <1>7, <1>8 DEF ExUsed
<1>11. \A b \in ExBuckets : ExIn(slot, b) = ExIn(ca.slot, b) \ {k}
  BY <1>7, <1>10 DEF ExIn, ExUsed
<1>12. ExChained(slot, cut.chain)  BY <1>1, <1>11 DEF ExChained, ExLoose
<1>13. ExNamed(slot, ExUsed(slot))  BY <1>3, <1>7, <1>10 DEF ExNamed, ExUsed
<1>14. ExCacheType(new)  BY <1>1, <1>5, <1>6, <1>9 DEF ExCacheType
<1>15. ExCacheFits(new)  BY <1>5, <1>6, <1>10, <1>12, <1>13, <1>14 DEF ExCacheFits
<1> QED BY <1>15 DEF new

\* A slot in no chain can take a name that no other slot has.
LEMMA ExPutFits ==
    ASSUME NEW old \in [ExCacheSlots -> ExCacheEntry],
           NEW chain \in [ExBuckets -> Seq(ExCacheSlots)],
           NEW k \in ExCacheSlots, ExLoose(old, chain, k),
           NEW entry \in ExCacheEntry, entry.host \in ExNames,
           entry.ip \in ExHosts[entry.host],
           ExNamed(old, ExUsed(old) \ {k}),
           \A j \in ExUsed(old) \ {k} : old[j].host # entry.host,
           NEW n \in Nat, n = Cardinality(ExUsed(old) \cup {k})
    PROVE  ExCacheFits([slot |-> [old EXCEPT ![k] = entry],
                        chain |-> [chain EXCEPT ![ExHash[entry.host]] = <<k>> \o @],
                        count |-> n])
<1> DEFINE b == ExHash[entry.host]
           q == chain[b]
           r == <<k>> \o q
           slot == [old EXCEPT ![k] = entry]
           new == [chain EXCEPT ![b] = r]
<1>1. b \in ExBuckets /\ "" # entry.host  BY ExAssumption DEF ExBuckets, ExNames
<1>2. q \in Seq(ExCacheSlots) /\ IsInjective(q) /\ ToSet(q) = ExIn(old, b) \ {k}
  BY <1>1 DEF ExLoose
<1>3. r \in Seq(ExCacheSlots) /\ IsInjective(r) /\ ToSet(r) = (ExIn(old, b) \ {k}) \cup {k}
  <2> HIDE DEF q
  <2>1. k \notin ToSet(q)  BY <1>2
  <2>2. r \in Seq(ExCacheSlots) /\ IsInjective(r) /\ ToSet(r) = ToSet(q) \cup {k}
    BY <1>2, <2>1, PushSet
  <2> QED BY <1>2, <2>2
<1> HIDE DEF r, q
<1>4. new \in [ExBuckets -> Seq(ExCacheSlots)] /\ new[b] = r
      /\ \A x \in ExBuckets : x # b => new[x] = chain[x]
  BY <1>1, <1>3
<1>5. slot \in [ExCacheSlots -> ExCacheEntry] /\ slot[k] = entry
      /\ \A j \in ExCacheSlots : j # k => slot[j] = old[j]
  OBVIOUS
<1>6. [slot |-> [old EXCEPT ![k] = entry],
       chain |-> [chain EXCEPT ![ExHash[entry.host]] = <<k>> \o @], count |-> n]
      = [slot |-> slot, chain |-> new, count |-> n]
  BY DEF r, q
<1> HIDE DEF new, slot
<1>7. ExUsed(slot) = (ExUsed(old) \ {k}) \cup {k}  BY <1>1, <1>5 DEF ExUsed
<1>8. ExIn(slot, b) = (ExIn(old, b) \ {k}) \cup {k}  BY <1>5, <1>7 DEF ExIn, ExUsed
<1>9. \A x \in ExBuckets : x # b => ExIn(slot, x) = ExIn(old, x) \ {k}
  BY <1>5, <1>7 DEF ExIn, ExUsed
<1>10. ExChained(slot, new)
  <2> SUFFICES ASSUME NEW x \in ExBuckets
               PROVE  IsInjective(new[x]) /\ ToSet(new[x]) = ExIn(slot, x)
    BY DEF ExChained
  <2>1. CASE x = b
    BY <1>3, <1>4, <1>8, <2>1
  <2>2. CASE x # b
    <3>1. new[x] = chain[x] /\ ExIn(slot, x) = ExIn(old, x) \ {k}  BY <1>4, <1>9, <2>2
    <3> QED BY <3>1 DEF ExLoose
  <2> QED BY <2>1, <2>2
<1>11. ExNamed(slot, ExUsed(slot))
  <2> SUFFICES ASSUME NEW x \in ExUsed(slot)
               PROVE  /\ slot[x].ip \in ExHosts[slot[x].host]
                      /\ \A j \in ExUsed(slot) : slot[j].host = slot[x].host => j = x
    BY DEF ExNamed
  <2>1. \A j \in ExUsed(old) \ {k} : j \in ExCacheSlots /\ slot[j] = old[j]  BY <1>5 DEF ExUsed
  <2>2. CASE x = k
    BY <1>5, <1>7, <2>1, <2>2
  <2>3. CASE x # k
    <3>1. x \in ExUsed(old) \ {k} /\ slot[x] = old[x]  BY <1>7, <2>1, <2>3
    <3>2. slot[x].ip \in ExHosts[slot[x].host]  BY <3>1 DEF ExNamed
    <3>3. ASSUME NEW j \in ExUsed(slot), slot[j].host = slot[x].host PROVE j = x
      <4>1. j # k  BY <1>5, <3>1, <3>3
      <4>2. j \in ExUsed(old) \ {k} /\ slot[j] = old[j]  BY <1>7, <2>1, <4>1
      <4> QED BY <3>1, <3>3, <4>2 DEF ExNamed
    <3> QED BY <3>2, <3>3
  <2> QED BY <2>2, <2>3
<1>12. ExUsed(slot) = ExUsed(old) \cup {k}  BY <1>7
<1>13. ExCacheFits([slot |-> slot, chain |-> new, count |-> n])
  BY <1>4, <1>5, <1>10, <1>11, <1>12 DEF ExCacheFits, ExCacheType
<1> QED BY <1>6, <1>13

\* A slot may be written again for the name it has.
LEMMA ExTouchFits ==
    ASSUME NEW ca, ExCacheFits(ca), NEW k \in ExUsed(ca.slot), NEW e \in ExCacheEntry,
           e.host = ca.slot[k].host, e.ip \in ExHosts[e.host]
    PROVE  ExCacheFits([ca EXCEPT !.slot[k] = e])
<1> DEFINE slot == [ca.slot EXCEPT ![k] = e]
<1>1. /\ ca = [slot |-> ca.slot, chain |-> ca.chain, count |-> ca.count]
      /\ ca.slot \in [ExCacheSlots -> ExCacheEntry]
      /\ ca.chain \in [ExBuckets -> Seq(ExCacheSlots)]
      /\ ca.count \in Nat /\ ca.count = Cardinality(ExUsed(ca.slot))
      /\ ExChained(ca.slot, ca.chain) /\ ExNamed(ca.slot, ExUsed(ca.slot))
      /\ k \in ExCacheSlots
  BY DEF ExCacheFits, ExCacheType, ExUsed
<1>2. /\ slot \in [ExCacheSlots -> ExCacheEntry]
      /\ slot[k] = e /\ \A j \in ExCacheSlots : j # k => slot[j] = ca.slot[j]
  BY <1>1
<1>3. [ca EXCEPT !.slot[k] = e] = [slot |-> slot, chain |-> ca.chain, count |-> ca.count]
  <2>1. PICK sl, ch, co : ca = [slot |-> sl, chain |-> ch, count |-> co]
                          /\ sl = ca.slot /\ ch = ca.chain /\ co = ca.count
    BY <1>1
  <2> QED BY <2>1
<1> HIDE DEF slot
<1>4. \A j \in ExCacheSlots : slot[j].host = ca.slot[j].host  BY <1>2
<1>5. ExUsed(slot) = ExUsed(ca.slot)  BY <1>4 DEF ExUsed
<1>6. \A b \in ExBuckets : ExIn(slot, b) = ExIn(ca.slot, b)  BY <1>4, <1>5 DEF ExIn, ExUsed
<1>7. ExChained(slot, ca.chain)  BY <1>1, <1>6 DEF ExChained
<1>8. ExNamed(slot, ExUsed(slot))
  <2>1. \A j \in ExUsed(slot) : j \in ExCacheSlots /\ slot[j].host = ca.slot[j].host
                                /\ slot[j].ip \in ExHosts[slot[j].host]
    BY <1>1, <1>2, <1>4, <1>5 DEF ExNamed, ExUsed
  <2> QED BY <1>1, <1>5, <2>1 DEF ExNamed
<1>9. ExCacheFits([slot |-> slot, chain |-> ca.chain, count |-> ca.count])
  BY <1>1, <1>2, <1>5, <1>7, <1>8 DEF ExCacheFits, ExCacheType
<1> QED BY <1>3, <1>9

\* Looking a name up in its chain finds its slot, if there is one.
LEMMA ExSlotFound ==
    ASSUME NEW ca, ExCacheFits(ca), NEW h \in ExNames
    PROVE  /\ ExHeld(ca, h) # {} => /\ ExSlotOf(ca, h) \in ExUsed(ca.slot)
                                    /\ ca.slot[ExSlotOf(ca, h)].host = h
           /\ ExHeld(ca, h) = {} => \A j \in ExUsed(ca.slot) : ca.slot[j].host # h
<1> DEFINE b == ExHash[h]
           q == ca.chain[b]
<1>1. h # "" /\ b \in ExBuckets  BY ExAssumption DEF ExNames, ExBuckets
<1>2. q \in Seq(ExCacheSlots) /\ ToSet(q) = ExIn(ca.slot, b)
  BY <1>1 DEF ExCacheFits, ExCacheType, ExChained
<1>3. DOMAIN q = 1..Len(q) /\ Len(q) \in Nat  BY <1>2, LenProperties
<1>4. ExHeld(ca, h) = {i \in DOMAIN q : ca.slot[q[i]].host = h} /\ ExSlotOf(ca, h) = q[Min(ExHeld(ca, h))]
  BY DEF ExHeld, ExSlotOf
<1>5. ASSUME ExHeld(ca, h) # {}
      PROVE  ExSlotOf(ca, h) \in ExUsed(ca.slot) /\ ca.slot[ExSlotOf(ca, h)].host = h
  <2>1. ExHeld(ca, h) \in SUBSET Nat  BY <1>3, <1>4
  <2>2. Min(ExHeld(ca, h)) \in ExHeld(ca, h)  BY <1>5, <2>1, MinIsIn
  <2> HIDE DEF q
  <2>3. PICK i \in DOMAIN q : i = Min(ExHeld(ca, h)) /\ ca.slot[q[i]].host = h  BY <1>4, <2>2
  <2>4. q[i] \in ToSet(q)  BY <2>3 DEF ToSet
  <2>5. q[i] \in ExUsed(ca.slot)  BY <1>2, <2>4 DEF ExIn
  <2> QED BY <1>4, <2>3, <2>5
<1>6. ASSUME ExHeld(ca, h) = {}, NEW j \in ExUsed(ca.slot), ca.slot[j].host = h
      PROVE  FALSE
  <2>1. j \in ToSet(q)  BY <1>2, <1>6 DEF ExIn
  <2> HIDE DEF q
  <2>2. PICK i \in DOMAIN q : q[i] = j  BY <2>1 DEF ToSet
  <2> QED BY <1>4, <1>6, <2>2
<1> QED BY <1>5, <1>6

\* moor_dns_cache_lookup keeps the cache exact,
LEMMA ExLookupFits ==
    ASSUME NEW ca, ExCacheFits(ca), NEW h \in ExNames, exTime \in Nat
    PROVE  ExCacheFits(ExLookup(ca, h).cache)
<1>1. CASE ExHeld(ca, h) = {}
  BY <1>1 DEF ExLookup
<1>2. CASE ExHeld(ca, h) # {}
  <2>1. PICK k : k = ExSlotOf(ca, h) /\ k \in ExUsed(ca.slot) /\ ca.slot[k].host = h
    BY <1>2, ExSlotFound
  <2>2. CASE exTime >= ca.slot[k].expires
    <3>1. ExLookup(ca, h).cache = ExForget(ca, k)  BY <1>2, <2>1, <2>2 DEF ExLookup
    <3> QED BY <2>1, <3>1, ExForgetFits
  <2>3. CASE ~(exTime >= ca.slot[k].expires)
    <3> DEFINE e == [ca.slot[k] EXCEPT !.used = exTime]
    <3>1. ca.slot[k] \in ExCacheEntry /\ ca.slot[k].ip \in ExHosts[ca.slot[k].host]
          /\ ca = [slot |-> ca.slot, chain |-> ca.chain, count |-> ca.count]
      BY <2>1 DEF ExCacheFits, ExCacheType, ExNamed, ExUsed
    <3>2. e \in ExCacheEntry /\ e.host = ca.slot[k].host /\ e.ip = ca.slot[k].ip
      BY <3>1 DEF ExCacheEntry
    <3>3. ExLookup(ca, h).cache = [ca EXCEPT !.slot[k] = e]  BY <1>2, <2>1, <2>3 DEF ExLookup
    <3> HIDE DEF e
    <3> QED BY <2>1, <3>1, <3>2, <3>3, ExTouchFits
  <2> QED BY <2>2, <2>3
<1> QED BY <1>1, <1>2

\* and so does moor_dns_cache_insert.
LEMMA ExInsertFits ==
    ASSUME NEW ca, ExCacheFits(ca), NEW h \in ExNames, NEW ip \in ExHosts[h], exTime \in Nat
    PROVE  ExCacheFits(ExInsert(ca, h, ip))
<1> DEFINE entry == [host |-> h, ip |-> ip, expires |-> exTime + ExTtl, used |-> exTime]
           empty == {k \in 1..ExCacheSize : ca.slot[k].host = ""}
           oldest == {k \in 1..ExCacheSize :
                        \A j \in 1..ExCacheSize : ca.slot[k].used <= ca.slot[j].used}
           used == ExUsed(ca.slot)
<1>0. ExCacheSize \in Nat \ {0} /\ ExTtl \in Nat  BY ExAssumption
<1>1. entry \in ExCacheEntry /\ entry.host = h /\ entry.ip = ip
  <2>1. ip \in ExAddresses  BY DEF ExAddresses
  <2>2. PICK x \in Nat : x = exTime + ExTtl  BY <1>0
  <2>3. entry = [host |-> h, ip |-> ip, expires |-> x, used |-> exTime]  BY <2>2
  <2> QED BY <2>1, <2>3 DEF ExCacheEntry
<1>2. /\ ca = [slot |-> ca.slot, chain |-> ca.chain, count |-> ca.count]
      /\ ca.slot \in [ExCacheSlots -> ExCacheEntry]
      /\ ca.chain \in [ExBuckets -> Seq(ExCacheSlots)]
      /\ ca.count \in Nat /\ ca.count = Cardinality(used) /\ ExNamed(ca.slot, used)
  BY DEF ExCacheFits, ExCacheType
<1>3. IsFiniteSet(ExCacheSlots) /\ Cardinality(ExCacheSlots) = ExCacheSize /\ used \subseteq ExCacheSlots
      /\ IsFiniteSet(used) /\ Cardinality(used) \in Nat
  <2>1. IsFiniteSet(ExCacheSlots) /\ Cardinality(ExCacheSlots) = ExCacheSize
    BY <1>0, FS_Interval DEF ExCacheSlots
  <2> QED BY <2>1, FS_Subset, FS_CardinalityType DEF ExUsed
<1>4. CASE ExHeld(ca, h) # {}
  <2>1. PICK k : k = ExSlotOf(ca, h) /\ k \in used /\ ca.slot[k].host = h  BY <1>4, ExSlotFound
  <2>2. ExInsert(ca, h, ip) = [ca EXCEPT !.slot[k] = entry]  BY <1>4, <2>1 DEF ExInsert
  <2> HIDE DEF entry
  <2> QED BY <1>1, <2>1, <2>2, ExTouchFits
<1>5. CASE ExHeld(ca, h) = {}
  <2>0. \A j \in used : ca.slot[j].host # h  BY <1>5, ExSlotFound
  <2>1. ASSUME NEW k \in ExCacheSlots, NEW n \in Nat, n = Cardinality(used \cup {k})
        PROVE  ExCacheFits([slot |-> [ca.slot EXCEPT ![k] = entry],
                            chain |-> [ExUnlink(ca, k).chain EXCEPT ![ExHash[h]] = <<k>> \o @],
                            count |-> n])
    <3> DEFINE chain == ExUnlink(ca, k).chain
    <3>1. chain \in [ExBuckets -> Seq(ExCacheSlots)] /\ ExLoose(ca.slot, chain, k)
      BY ExUnlinkLoose DEF ExCacheType
    <3>2. ExNamed(ca.slot, used \ {k}) /\ \A j \in used \ {k} : ca.slot[j].host # h
      BY <1>2, <2>0 DEF ExNamed
    <3> HIDE DEF chain, entry
    <3>3. ExCacheFits([slot |-> [ca.slot EXCEPT ![k] = entry],
                       chain |-> [chain EXCEPT ![ExHash[entry.host]] = <<k>> \o @],
                       count |-> n])
      BY <1>1, <1>2, <2>1, <3>1, <3>2, ExPutFits
    <3> QED BY <1>1, <3>3 DEF chain
  <2>2. CASE ca.count < ExCacheSize /\ empty # {}
    <3>1. empty \in SUBSET Nat
      <4>1. 1..ExCacheSize \subseteq Nat  BY <1>0
      <4>2. empty \subseteq 1..ExCacheSize  BY Zenon
      <4> HIDE DEF empty
      <4> QED BY <4>1, <4>2
    <3>2. PICK k \in ExCacheSlots : k = Min(empty) /\ ca.slot[k].host = ""
      BY <2>2, <3>1, MinIsIn DEF ExCacheSlots
    <3>3. k \notin used  BY <3>2 DEF ExUsed
    <3>4. ca.count + 1 = Cardinality(used \cup {k}) /\ ca.count + 1 \in Nat
      <4>1. Cardinality(used \cup {k}) = Cardinality(used) + 1  BY <1>3, <3>3, FS_AddElement
      <4> QED BY <1>2, <4>1
    <3>5. ExUnlink(ca, k) = ca  BY <3>2 DEF ExUnlink
    <3>6. ExInsert(ca, h, ip) = [[ca EXCEPT !.slot[k] = entry, !.chain[ExHash[h]] = <<k>> \o @]
                                   EXCEPT !.count = @ + 1]
      BY <1>5, <2>2, <3>2 DEF ExInsert
    <3> HIDE DEF entry
    <3>7. ExInsert(ca, h, ip) = [slot |-> [ca.slot EXCEPT ![k] = entry],
                                 chain |-> [ca.chain EXCEPT ![ExHash[h]] = <<k>> \o @],
                                 count |-> ca.count + 1]
      BY <1>2, <3>6
    <3> QED BY <2>1, <3>4, <3>5, <3>7
  <2>3. CASE ~(ca.count < ExCacheSize /\ empty # {})
    <3>1. used = ExCacheSlots
      <4>1. CASE empty = {}
        BY <4>1 DEF ExUsed, ExCacheSlots
      <4>2. CASE ca.count >= ExCacheSize
        <5>1. Cardinality(used) >= Cardinality(ExCacheSlots)  BY <1>2, <1>3, <4>2
        <5>2. Cardinality(used) <= Cardinality(ExCacheSlots)  BY <1>3, FS_Subset
        <5>3. Cardinality(used) = Cardinality(ExCacheSlots)  BY <1>0, <1>3, <5>1, <5>2
        <5> QED BY <1>3, <5>3, FS_Subset
      <4>3. empty = {} \/ ca.count >= ExCacheSize
        <5>1. ca.count \in Nat /\ ExCacheSize \in Nat /\ (empty = {} \/ ~(ca.count < ExCacheSize))
          BY <1>0, <1>2, <2>3
        <5> HIDE DEF empty
        <5> QED BY <5>1
      <4> QED BY <4>1, <4>2, <4>3
    <3>2. oldest # {}
      <4> DEFINE T == {ca.slot[k].used : k \in ExCacheSlots}
      <4>1. \A k \in ExCacheSlots : ca.slot[k].used \in Nat  BY <1>2 DEF ExCacheEntry
      <4>2. T \in SUBSET Nat /\ T # {}
        <5>1. 1 \in ExCacheSlots  BY <1>0 DEF ExCacheSlots
        <5> QED BY <4>1, <5>1
      <4>3. PICK u \in T : \A y \in T : u <= y  BY <4>2, LeastNat
      <4>4. PICK k \in ExCacheSlots : u = ca.slot[k].used  BY <4>3
      <4>5. \A j \in ExCacheSlots : ca.slot[k].used <= ca.slot[j].used  BY <4>3, <4>4
      <4>6. k \in oldest  BY <4>5 DEF ExCacheSlots
      <4> QED BY <4>6
    <3>3. oldest \in SUBSET Nat  BY <1>0
    <3>4. PICK k \in ExCacheSlots : k = Min(oldest)  BY <3>2, <3>3, MinIsIn DEF ExCacheSlots
    <3>5. ca.count = Cardinality(used \cup {k})
      <4>1. used \cup {k} = used  BY <3>1
      <4> QED BY <1>2, <4>1
    <3> DEFINE cut == ExUnlink(ca, k)
    <3>6. cut = [slot |-> ca.slot, chain |-> cut.chain, count |-> ca.count]
      BY ExUnlinkLoose DEF ExCacheType
    <3>7. ExInsert(ca, h, ip) = [cut EXCEPT !.slot[k] = entry, !.chain[ExHash[h]] = <<k>> \o @]
      BY <1>5, <2>3, <3>4 DEF ExInsert
    <3> HIDE DEF entry, cut
    <3>8. ExInsert(ca, h, ip) = [slot |-> [ca.slot EXCEPT ![k] = entry],
                                 chain |-> [cut.chain EXCEPT ![ExHash[h]] = <<k>> \o @],
                                 count |-> ca.count]
      <4>1. PICK sl, ch, co : cut = [slot |-> sl, chain |-> ch, count |-> co]
                              /\ sl = ca.slot /\ ch = cut.chain /\ co = ca.count
        BY <3>6
      <4> QED BY <3>7, <4>1
    <3> QED BY <1>2, <2>1, <3>5, <3>8 DEF cut
  <2> QED BY <2>2, <2>3
<1> QED BY <1>4, <1>5

\* What the resolvers answer is an address of the name.
LEMMA ExResolvedRight ==
    ASSUME NEW q, q.host \in ExNames, NEW new \in ExResolutions(q), new # ""
    PROVE  new \in ExHosts[q.host]
<1>1. PICK nets \in [1..ExProviders -> ExNets(q.host)] : new = ExResolved(nets)
  BY DEF ExResolutions, ExNames
<1> DEFINE ok == {p \in 1..ExProviders : ExQuery(nets[p]) # ""}
<1>2. ok # {} /\ new = ExQuery(nets[Min(ok)])  BY <1>1 DEF ExResolved
<1>3. ok \in SUBSET Nat
  <2>0. ExProviders \in Nat  BY ExAssumption
  <2>1. 1..ExProviders \subseteq Nat  BY <2>0, CountsAreNat
  <2>2. ok \subseteq 1..ExProviders  BY Zenon
  <2> HIDE DEF ok
  <2> QED BY <2>1, <2>2
<1>4. Min(ok) \in 1..ExProviders  BY <1>2, <1>3, MinIsIn
<1> HIDE DEF ok
<1>5. nets[Min(ok)] \in ExNets(q.host)  BY <1>1, <1>4
<1>6. new = nets[Min(ok)].ip  BY <1>2 DEF ExQuery
<1> QED BY <1>5, <1>6 DEF ExNets

\* Resolving a name looks it up and inserts what the resolvers answered.
LEMMA ExNameFits ==
    ASSUME ExCacheFits(exCache), exTime \in Nat, NEW q, q.host \in ExNames,
           NEW new \in ExResolutions(q)
    PROVE  ExCacheFits(ExName(q, new).cache)
<1> DEFINE hit == ExLookup(exCache, q.host)
<1>1. ExCacheFits(hit.cache)  BY ExLookupFits
<1>2. ExName(q, new).cache \in {hit.cache, ExInsert(hit.cache, q.host, new)}
      /\ (new = "" => ExName(q, new).cache = hit.cache)
  BY DEF ExName, ExNormalize
<1> HIDE DEF hit
<1>3. CASE new = ""
  BY <1>1, <1>2, <1>3
<1>4. CASE new # ""
  <2>1. ExCacheFits(ExInsert(hit.cache, q.host, new))
    BY <1>1, <1>4, ExResolvedRight, ExInsertFits
  <2> QED BY <1>1, <1>2, <2>1
<1> QED BY <1>3, <1>4

\* The inductive invariant.
ExCacheInv == ExCacheFits(exCache) /\ exTime \in Nat

\* It holds of the empty cache,
LEMMA ExCacheInit == ExInit => ExCacheInv
<1> SUFFICES ASSUME ExInit PROVE ExCacheInv
  OBVIOUS
<1> DEFINE slot == [k \in 1..ExCacheSize |-> ExNoEntry]
           chain == [b \in {ExHash[h] : h \in DOMAIN ExHosts} |-> <<>>]
<1>1. exCache = [slot |-> slot, chain |-> chain, count |-> 0] /\ exTime = 0  BY DEF ExInit
<1>2. ExNoEntry \in ExCacheEntry /\ ExNoEntry.host = ""  BY DEF ExNoEntry, ExCacheEntry
<1>3. slot \in [ExCacheSlots -> ExCacheEntry]  BY <1>2 DEF ExCacheSlots
<1>4. \A k \in ExCacheSlots : slot[k].host = ""  BY <1>2 DEF ExCacheSlots
<1>5. chain \in [ExBuckets -> Seq(ExCacheSlots)] /\ \A b \in ExBuckets : chain[b] = <<>>
  BY DEF ExBuckets, ExNames
<1> HIDE DEF slot, chain
<1>6. ExUsed(slot) = {} /\ \A b : ExIn(slot, b) = {}  BY <1>4 DEF ExUsed, ExIn
<1>7. IsInjective(<<>>) /\ ToSet(<<>>) = {}  BY DEF IsInjective, ToSet
<1>8. ExChained(slot, chain)  BY <1>5, <1>6, <1>7 DEF ExChained
<1>9. ExNamed(slot, ExUsed(slot)) /\ Cardinality(ExUsed(slot)) = 0
  BY <1>6, FS_EmptySet DEF ExNamed
<1> QED BY <1>1, <1>3, <1>5, <1>8, <1>9 DEF ExCacheInv, ExCacheFits, ExCacheType

\* is kept by every step of the exit: only BEGIN and RESOLVE touch the cache,
LEMMA ExCacheNext == ExCacheInv /\ [ExNext]_exVars => ExCacheInv'
<1> SUFFICES ASSUME ExCacheInv, [ExNext]_exVars PROVE ExCacheInv'
  OBVIOUS
<1>1. CASE exCache' = exCache /\ exTime' = exTime
  BY <1>1 DEF ExCacheInv
<1>2. CASE ExCell
  <2>1. PICK q \in ExQueries : \E new \in ExResolutions(q), c \in ExCircs :
          \/ \E i \in ExIds, port \in ExPorts, how \in {"refused", "progress", "done"} :
               ExBegin(c, i, q, port, new, how)
          \/ ExResolve(c, q, new)
    BY <1>2 DEF ExCell
  <2>2. PICK new \in ExResolutions(q), c \in ExCircs :
          \/ \E i \in ExIds, port \in ExPorts, how \in {"refused", "progress", "done"} :
               ExBegin(c, i, q, port, new, how)
          \/ ExResolve(c, q, new)
    BY <2>1
  <2>3. exTime' = exTime /\ (exCache' = exCache \/ (q.host \in ExNames /\ exCache' = ExName(q, new).cache))
    BY <2>2 DEF ExBegin, ExResolve, ExNames
  <2> QED BY <1>1, <2>2, <2>3, ExNameFits DEF ExCacheInv
<1>3. CASE ExTick
  BY <1>3 DEF ExTick, ExCacheInv
<1>4. CASE UNCHANGED exVars
  BY <1>1, <1>4 DEF exVars
<1>5. ASSUME NEW f \in 1..ExFds,
             \/ \E ok \in BOOLEAN : ExConnectDone(f, ok)
             \/ \E what \in {"no window", "closed"} : ExTargetReadable(f, what)
      PROVE  ExCacheInv'
  BY <1>1, <1>5 DEF ExConnectDone, ExTargetReadable, ExOrphan
<1>6. ASSUME NEW c \in ExCircs,
             \/ \E s \in 1..ExSlots, failed \in BOOLEAN : ExEnd(c, s, failed)
             \/ \E s \in 1..ExSlots : ExXoff(c, s)
             \/ \E ss \in {1..ExSlots} \cup {{s} : s \in 1..ExSlots} : ExResume(c, ss)
             \/ ExMark(c) \/ ExCloseMarked(c)
      PROVE  ExCacheInv'
  BY <1>1, <1>6 DEF ExEnd, ExXoff, ExResume, ExMark, ExCloseMarked
<1> QED BY <1>2, <1>3, <1>4, <1>5, <1>6 DEF ExNext

\* and gives ExCacheExact.
LEMMA ExCacheInvExact == ExCacheInv => ExCacheExact
<1> SUFFICES ASSUME ExCacheInv PROVE ExCacheExact
  OBVIOUS
<1> DEFINE slot == exCache.slot
           chain == exCache.chain
<1>1. /\ DOMAIN chain = ExBuckets /\ ExChained(slot, chain)
      /\ ExNamed(slot, ExUsed(slot)) /\ exCache.count = Cardinality(ExUsed(slot))
  BY DEF ExCacheInv, ExCacheFits, ExCacheType
<1>2. ExUsed(slot) = {k \in 1..ExCacheSize : slot[k].host # ""}  BY DEF ExUsed, ExCacheSlots
<1> HIDE DEF slot, chain
<1>3. ASSUME NEW b \in DOMAIN chain, NEW k \in 1..ExCacheSize
      PROVE  Cardinality({i \in DOMAIN chain[b] : chain[b][i] = k})
               = IF slot[k].host # "" /\ ExHash[slot[k].host] = b THEN 1 ELSE 0
  <2>1. IsInjective(chain[b]) /\ ToSet(chain[b]) = ExIn(slot, b)  BY <1>1, <1>3 DEF ExChained
  <2>2. Cardinality({i \in DOMAIN chain[b] : chain[b][i] = k}) = IF k \in ToSet(chain[b]) THEN 1 ELSE 0
    BY <2>1, CountOnce
  <2>3. k \in ExIn(slot, b) <=> slot[k].host # "" /\ ExHash[slot[k].host] = b  BY <1>2 DEF ExIn
  <2> QED BY <2>1, <2>2, <2>3
<1>4. ASSUME NEW k \in 1..ExCacheSize, slot[k].host # ""
      PROVE  /\ slot[k].ip \in ExHosts[slot[k].host]
             /\ \A j \in 1..ExCacheSize : slot[j].host = slot[k].host => j = k
  BY <1>1, <1>2, <1>4 DEF ExNamed
<1> QED BY <1>1, <1>2, <1>3, <1>4 DEF ExCacheExact, slot, chain

\* The exit's name cache stays exact for any number of slots, buckets and
\* names and whatever the clock, the clients and the resolvers do: unlinking
\* (hash_remove), eviction, expiry and reuse of a slot never leave a slot in
\* the wrong chain, in two chains or in none, a name in two slots, a foreign
\* address under a name or a wrong count.
THEOREM CacheExact == ExSpec => []ExCacheExact
<1>1. ExInit => ExCacheInv  BY ExCacheInit
<1>2. ExCacheInv /\ [ExNext]_exVars => ExCacheInv'  BY ExCacheNext
<1>3. ExCacheInv => ExCacheExact  BY ExCacheInvExact
<1> QED BY <1>1, <1>2, <1>3, PTL DEF ExSpec

-----------------------------------------------------------------------------
(* Guards.  A path is chosen once and then only kept or dropped, so the      *)
(* invariant describes a chosen path by its three hops.                      *)

GuClientPath(p) ==
    \E a, b, c : /\ p = <<a, b, c>>
                 /\ a # b /\ a # c /\ b # c /\ b # GuSelf /\ c # GuSelf
                 /\ "EXIT" \in GuFlags[c] /\ "BADEXIT" \notin GuFlags[c]

GuServicePath(p) ==
    \E a, b, c : /\ p = <<a, b, c>>
                 /\ a # b /\ a # c /\ b # c /\ a # GuSelf /\ b # GuSelf

\* The fields of the worker.
GuWorkerShape(w) == w = [pc |-> w.pc, path |-> w.path, seen |-> w.seen, raced |-> w.raced]

GuInv ==
    /\ guAsync = <<>> \/ GuClientPath(guAsync)
    /\ guWorker.path = <<>> \/ GuClientPath(guWorker.path)
    /\ GuWorkerShape(guWorker)
    /\ vgPath = <<>> \/ GuServicePath(vgPath)

\* What node selection returns.
LEMMA GuSelected ==
    ASSUME NEW required, NEW exclude, NEW r \in GuSelectable(required, exclude)
    PROVE  /\ r \in GuRelays /\ r \notin exclude
           /\ "EXIT" \in required => "EXIT" \in GuFlags[r] /\ "BADEXIT" \notin GuFlags[r]
BY DEF GuSelectable, GuFlagsOf

\* The exit is drawn first and the middle avoids it and the guard.
LEMMA GuPathsFit ==
    ASSUME NEW guard, NEW p \in GuPaths(guard)
    PROVE  GuClientPath(p)
<1>1. PICK a \in {guard}, b \in GuRelays, c \in GuDiverse({"EXIT", "RUNNING"}, {GuSelf, guard}) :
        p = <<a, b, c>>
  BY DEF GuPaths
<1>2. p[2] \in GuDiverse({"RUNNING"}, {GuSelf, guard, p[3]})  BY DEF GuPaths
<1>3. p[2] = b /\ p[3] = c  BY <1>1
<1>4. c \notin {GuSelf, guard} /\ "EXIT" \in GuFlags[c] /\ "BADEXIT" \notin GuFlags[c]
  BY GuSelected DEF GuDiverse
<1>5. b \notin {GuSelf, guard, c}  BY <1>2, <1>3, GuSelected DEF GuDiverse
<1> QED BY <1>1, <1>4, <1>5 DEF GuClientPath

\* Every step of the client keeps the service's path, and leaves each of its
\* own builds as it was, drops it or draws it from GuPaths.
LEMMA GuClientFits ==
    ASSUME GuInv, GuClientNext
    PROVE  GuInv'
<1>1. vgPath' = vgPath
  BY DEF GuClientNext, GuStart, GuAsyncStart, GuSyncStart, GuSyncTest, GuSyncFill, GuAsyncDone,
         GuSyncDone, GuWorkerEnds, GuUse, GuPathbiasTimer, GuSave, guService
<1>2. \/ guAsync' = guAsync \/ guAsync' = <<>>
      \/ \E guard : guAsync' \in GuPaths(guard)
  BY DEF GuClientNext, GuStart, GuAsyncStart, GuSyncStart, GuSyncTest, GuSyncFill, GuAsyncDone,
         GuSyncDone, GuWorkerEnds, GuUse, GuPathbiasTimer, GuSave
<1>3. guAsync' = <<>> \/ GuClientPath(guAsync')  BY <1>2, GuPathsFit DEF GuInv
<1>4. \/ guWorker' = guWorker \/ guWorker' = GuIdle
      \/ \E x : guWorker' = [guWorker EXCEPT !.pc = x]
      \/ \E x : guWorker' = [guWorker EXCEPT !.raced = x]
      \/ \E x, y : guWorker' = [guWorker EXCEPT !.pc = x, !.seen = y]
      \/ GuWorkerEnds
      \/ \E guard : \E p \in GuPaths(guard) : guWorker' = [guWorker EXCEPT !.pc = "building", !.path = p]
  BY DEF GuClientNext, GuStart, GuAsyncStart, GuSyncStart, GuSyncTest, GuSyncFill, GuAsyncDone,
         GuSyncDone, GuUse, GuPathbiasTimer, GuSave
<1>5. /\ guWorker'.path = <<>> \/ GuClientPath(guWorker'.path)
      /\ GuWorkerShape(guWorker')
  <2>0. PICK a, b, c, d : guWorker = [pc |-> a, path |-> b, seen |-> c, raced |-> d] /\ b = guWorker.path
    BY DEF GuInv, GuWorkerShape
  <2>1. CASE guWorker' = guWorker
    BY <2>1 DEF GuInv
  <2>2. CASE guWorker' = GuIdle
    BY <2>2 DEF GuIdle, GuWorkerShape
  <2>3. ASSUME NEW x, NEW y, \/ guWorker' = [guWorker EXCEPT !.pc = x]
                             \/ guWorker' = [guWorker EXCEPT !.raced = x]
                             \/ guWorker' = [guWorker EXCEPT !.pc = x, !.seen = y]
        PROVE  guWorker'.path = guWorker.path /\ GuWorkerShape(guWorker')
    BY <2>0, <2>3 DEF GuWorkerShape
  <2>4. CASE GuWorkerEnds
    <3>1. guWorker' = [pc |-> "idle", path |-> <<>>, seen |-> GuUnseen, raced |-> d]
      BY <2>0, <2>4 DEF GuWorkerEnds
    <3> QED BY <3>1 DEF GuWorkerShape
  <2>5. ASSUME NEW guard, NEW p \in GuPaths(guard), guWorker' = [guWorker EXCEPT !.pc = "building", !.path = p]
        PROVE  GuClientPath(guWorker'.path) /\ GuWorkerShape(guWorker')
    <3>1. guWorker' = [pc |-> "building", path |-> p, seen |-> c, raced |-> d]  BY <2>0, <2>5
    <3>2. guWorker'.path = p /\ GuWorkerShape(guWorker')  BY <3>1 DEF GuWorkerShape
    <3> QED BY <3>2, GuPathsFit
  <2>6. CASE \E x, y : \/ guWorker' = [guWorker EXCEPT !.pc = x]
                       \/ guWorker' = [guWorker EXCEPT !.raced = x]
                       \/ guWorker' = [guWorker EXCEPT !.pc = x, !.seen = y]
    BY <2>3, <2>6 DEF GuInv
  <2> QED BY <1>4, <2>1, <2>2, <2>4, <2>5, <2>6
<1> QED BY <1>1, <1>3, <1>5 DEF GuInv, GuClientPath, GuServicePath

\* The service's steps leave the paths alone.
LEMMA GuServiceFits ==
    ASSUME GuInv, GuServiceNext
    PROVE  GuInv'
<1>1. UNCHANGED <<guAsync, guWorker>>
  BY DEF GuServiceNext, GuVanguardStart, GuVanguardRotate, GuServiceBuild, GuServiceToRp, guClient
<1>2. \A exclude : \A g \in GuServiceGuards(exclude) : g \notin exclude
  BY GuSelected DEF GuServiceGuards, GuOrElse
<1>3. \A entries, exclude : \A m \in GuVanguardOr(entries, exclude) : m \notin exclude
  BY GuSelected DEF GuVanguardOr
<1>4. vgPath' = <<>> \/ GuServicePath(vgPath')
  <2>1. CASE GuVanguardStart \/ GuVanguardRotate
    BY <2>1 DEF GuVanguardStart, GuVanguardRotate, GuInv
  <2>2. CASE GuServiceBuild
    <3>1. PICK g \in GuServiceGuards({GuSelf}) :
            \E m \in GuVanguardOr(vg.l2, {GuSelf, g}) :
            \E t \in GuVanguardOr(vg.l3, {GuSelf, g, m}) : vgPath' = <<g, m, t>>
      BY <2>2 DEF GuServiceBuild
    <3>2. PICK m \in GuVanguardOr(vg.l2, {GuSelf, g}) :
            \E t \in GuVanguardOr(vg.l3, {GuSelf, g, m}) : vgPath' = <<g, m, t>>
      BY <3>1
    <3>3. PICK t \in GuVanguardOr(vg.l3, {GuSelf, g, m}) : vgPath' = <<g, m, t>>  BY <3>2
    <3>4. g # GuSelf /\ m \notin {GuSelf, g} /\ t \notin {GuSelf, g, m}  BY <1>2, <1>3
    <3> QED BY <3>3, <3>4 DEF GuServicePath
  <2>3. ASSUME NEW rp \in GuRelays, GuServiceToRp(rp) PROVE GuServicePath(vgPath')
    <3>1. PICK g \in GuServiceGuards({GuSelf, rp}) :
            \E m \in GuVanguardOr(vg.l2, {GuSelf, g, rp}) : vgPath' = <<g, m, rp>>
      BY <2>3 DEF GuServiceToRp
    <3>2. PICK m \in GuVanguardOr(vg.l2, {GuSelf, g, rp}) : vgPath' = <<g, m, rp>>  BY <3>1
    <3>3. g \notin {GuSelf, rp} /\ m \notin {GuSelf, g, rp}  BY <1>2, <1>3
    <3> QED BY <3>2, <3>3 DEF GuServicePath
  <2> QED BY <2>1, <2>2, <2>3 DEF GuServiceNext
<1> QED BY <1>1, <1>4 DEF GuInv, GuClientPath, GuServicePath

\* The invariant implies what the run checks.
LEMMA GuSound == GuInv => GuPathsSound
<1> SUFFICES ASSUME GuInv PROVE GuPathsSound
  OBVIOUS
<1>1. ASSUME NEW a, NEW b, NEW c, NEW p, p = <<a, b, c>>, a # b, a # c, b # c
      PROVE  GuDistinct(p) /\ p[1] = a /\ p[2] = b /\ p[3] = c
  BY <1>1 DEF GuDistinct
<1>2. ASSUME NEW p, GuClientPath(p)
      PROVE  /\ GuDistinct(p) /\ {p[2], p[3]} \cap {GuSelf} = {}
             /\ "EXIT" \in GuFlags[p[3]] /\ "BADEXIT" \notin GuFlags[p[3]]
  <2>1. PICK a, b, c : /\ p = <<a, b, c>>
                       /\ a # b /\ a # c /\ b # c /\ b # GuSelf /\ c # GuSelf
                       /\ "EXIT" \in GuFlags[c] /\ "BADEXIT" \notin GuFlags[c]
    BY <1>2 DEF GuClientPath
  <2>2. GuDistinct(p) /\ p[2] = b /\ p[3] = c  BY <1>1, <2>1
  <2> QED BY <2>1, <2>2
<1>3. ASSUME NEW p, GuServicePath(p)
      PROVE  GuDistinct(p) /\ p[1] # GuSelf /\ p[2] # GuSelf
  <2>1. PICK a, b, c : /\ p = <<a, b, c>>
                       /\ a # b /\ a # c /\ b # c /\ a # GuSelf /\ b # GuSelf
    BY <1>3 DEF GuServicePath
  <2>2. GuDistinct(p) /\ p[1] = a /\ p[2] = b  BY <1>1, <2>1
  <2> QED BY <2>1, <2>2
<1> QED BY <1>2, <1>3 DEF GuInv, GuPathsSound

\* Whatever the consensus, the guard state and the vanguards become, and
\* however the main thread's builds and the worker's interleave, the path
\* moor_circuit_build, moor_circuit_build_async and the service's builds
\* settle on passes no relay twice, nor its own builder, and a client's ends
\* at an exit that is not marked bad: for any consensus and any flags.
THEOREM GuardsPathsSound == GuSpec => []GuPathsSound
<1>1. GuInit => GuInv  BY DEF GuInit, GuInv, GuIdle, GuWorkerShape
<1>2. GuInv /\ [GuNext]_guVars => GuInv'
  <2> SUFFICES ASSUME GuInv, [GuNext]_guVars PROVE GuInv'
    OBVIOUS
  <2>1. CASE UNCHANGED <<guAsync, guWorker, vgPath>>
    BY <2>1 DEF GuInv, GuClientPath, GuServicePath
  <2>2. ASSUME NEW r \in GuRelays, GuConsensus(r) PROVE GuInv'
    BY <2>1, <2>2 DEF GuConsensus, guClient, guService
  <2>3. CASE GuTick
    BY <2>1, <2>3 DEF GuTick, guClient, guService
  <2>4. CASE UNCHANGED guVars
    BY <2>1, <2>4 DEF guVars, guClient, guService
  <2> QED BY <2>2, <2>3, <2>4, GuClientFits, GuServiceFits DEF GuNext
<1>3. GuInv => GuPathsSound  BY GuSound
<1> QED BY <1>1, <1>2, <1>3, PTL DEF GuSpec

-----------------------------------------------------------------------------
(* The guard state.  GuListsAgree is inductive once the list saved in the  *)
(* file, the types of the entries and what the worker's tests saw join it. *)

\* An entry of the sample.
GuGuard == [id : GuRelays, confirmed : BOOLEAN, reachable : BOOLEAN,
            att : Nat, suc : Nat, uatt : Nat, usuc : Nat, disabled : BOOLEAN]

\* The sampled list s names no guard twice; the confirmed list c holds places
\* of confirmed guards in it, each once.
GuListed(s, c) ==
    /\ s \in Seq(GuGuard) /\ c \in Seq(Nat)
    /\ \A i, j \in DOMAIN s : s[i].id = s[j].id => i = j
    /\ IsInjective(c) /\ ToSet(c) \subseteq {i \in DOMAIN s : s[i].confirmed}

\* Places of enabled guards.
GuLive(s) == {i \in DOMAIN s : ~s[i].disabled}

\* The primary list holds such places, or some of R; once filled it is empty
\* only if no guard is enabled.
GuPrimed(s, p, R, filled) ==
    /\ p \in Seq(Nat) /\ ToSet(p) \subseteq DOMAIN s \cap (GuLive(s) \cup R)
    /\ filled /\ p = <<>> => GuLive(s) = {}

\* The fields of the state.
GuShape(g) == g = [sampled |-> g.sampled, confirmed |-> g.confirmed, primary |-> g.primary, rr |-> g.rr]

\* All of it.
GuFits(g, R, filled) ==
    /\ GuShape(g)
    /\ GuListed(g.sampled, g.confirmed)
    /\ GuPrimed(g.sampled, g.primary, R, filled)

\* GuKeep takes what is at the places it is given, each place once.
LEMMA GuKeepPlaces ==
    ASSUME NEW P \in SUBSET Nat, IsFiniteSet(P), NEW s
    PROVE  /\ Cardinality(P) \in Nat
           /\ GuKeep(s, P) = [n \in 1..Cardinality(P) |-> GuKeep(s, P)[n]]
           /\ \A n \in 1..Cardinality(P) : \E i \in P : Rank(P, i) = n /\ GuKeep(s, P)[n] = s[i]
           /\ \A i \in P : Rank(P, i) \in 1..Cardinality(P) /\ GuKeep(s, P)[Rank(P, i)] = s[i]
<1> DEFINE at(n) == CHOOSE i \in P : Rank(P, i) = n
           N == Cardinality(P)
<1>1. GuKeep(s, P) = [n \in 1..N |-> s[at(n)]]  BY DEF GuKeep, Rank
<1>2. N \in Nat  BY RankOnto
<1>3. \A n \in 1..N : at(n) \in P /\ Rank(P, at(n)) = n  BY RankOnto
<1>4. \A i \in P : Rank(P, i) \in 1..N /\ at(Rank(P, i)) = i  BY <1>3, RankOnto
<1> HIDE DEF at, N
<1>5. /\ GuKeep(s, P) = [n \in 1..N |-> GuKeep(s, P)[n]]
      /\ \A n \in 1..N : \E i \in P : Rank(P, i) = n /\ GuKeep(s, P)[n] = s[i]
      /\ \A i \in P : Rank(P, i) \in 1..N /\ GuKeep(s, P)[Rank(P, i)] = s[i]
  BY <1>1, <1>3, <1>4
<1> QED BY <1>2, <1>5 DEF N

\* So it makes a sequence of what is there, without repetition if there was none.
LEMMA GuKeepSeq ==
    ASSUME NEW X, NEW s \in Seq(X), NEW P \in SUBSET DOMAIN s
    PROVE  /\ P \in SUBSET Nat /\ IsFiniteSet(P)
           /\ GuKeep(s, P) \in Seq(X)
           /\ DOMAIN GuKeep(s, P) = 1..Cardinality(P)
           /\ ToSet(GuKeep(s, P)) = {s[i] : i \in P}
           /\ IsInjective(s) => IsInjective(GuKeep(s, P))
<1> DEFINE r == GuKeep(s, P)
           N == Cardinality(P)
<1>1. Len(s) \in Nat /\ DOMAIN s = 1..Len(s) /\ \A i \in DOMAIN s : s[i] \in X  BY LenProperties
<1>2. P \in SUBSET Nat /\ IsFiniteSet(P)
  <2>1. IsFiniteSet(1..Len(s))  BY <1>1, FS_Interval
  <2>2. 1..Len(s) \subseteq Nat  BY <1>1
  <2> QED BY <1>1, <2>1, <2>2, FS_Subset
<1>3. /\ N \in Nat
      /\ r = [n \in 1..N |-> r[n]]
      /\ \A n \in 1..N : \E i \in P : Rank(P, i) = n /\ r[n] = s[i]
      /\ \A i \in P : Rank(P, i) \in 1..N /\ r[Rank(P, i)] = s[i]
  BY <1>2, GuKeepPlaces
<1> HIDE DEF r, N
<1>4. \A n \in 1..N : r[n] \in X  BY <1>1, <1>3
<1>5. r \in Seq(X) /\ DOMAIN r = 1..N
  <2>1. r \in [1..N -> X]  BY <1>3, <1>4
  <2> QED BY <1>3, <2>1 
<1>6. ToSet(r) = {s[i] : i \in P}  BY <1>3, <1>5 DEF ToSet
<1>7. ASSUME IsInjective(s), NEW a \in 1..N, NEW b \in 1..N, r[a] = r[b] PROVE a = b
  <2>1. PICK i \in P : Rank(P, i) = a /\ r[a] = s[i]  BY <1>3
  <2>2. PICK j \in P : Rank(P, j) = b /\ r[b] = s[j]  BY <1>3
  <2> QED BY <1>7, <2>1, <2>2 DEF IsInjective
<1>8. IsInjective(s) => IsInjective(r)  BY <1>5, <1>7 DEF IsInjective
<1> QED BY <1>2, <1>5, <1>6, <1>8 DEF r, N

\* GuOnly keeps the indices that are in the set.
LEMMA GuOnlySet ==
    ASSUME NEW X, NEW s \in Seq(X), NEW S
    PROVE  /\ GuOnly(s, S) \in Seq(X)
           /\ ToSet(GuOnly(s, S)) = ToSet(s) \cap S
           /\ IsInjective(s) => IsInjective(GuOnly(s, S))
<1> DEFINE P == {k \in DOMAIN s : s[k] \in S}
<1>1. P \in SUBSET DOMAIN s /\ GuOnly(s, S) = GuKeep(s, P)  BY DEF GuOnly
<1>2. {s[i] : i \in P} = ToSet(s) \cap S  BY DEF ToSet
<1> HIDE DEF P
<1> QED BY <1>1, <1>2, GuKeepSeq

\* The beginning of a list is empty only if the list is.
LEMMA GuTakeSet ==
    ASSUME NEW X, NEW s \in Seq(X)
    PROVE  /\ GuTake(s) \in Seq(X) /\ ToSet(GuTake(s)) \subseteq ToSet(s)
           /\ GuTake(s) = <<>> => s = <<>>
<1> DEFINE n == IF Len(s) < GuPrimaryMax THEN Len(s) ELSE GuPrimaryMax
           r == SubSeq(s, 1, n)
<1>0. GuPrimaryMax \in Nat \ {0}  BY GuAssumption
<1>1. Len(s) \in Nat /\ DOMAIN s = 1..Len(s) /\ \A i \in 1..Len(s) : s[i] \in X
  BY LenProperties
<1>2. n \in Nat /\ n <= Len(s) /\ (n = 0 => Len(s) = 0) /\ GuTake(s) = r
  BY <1>0, <1>1 DEF GuTake
<1> HIDE DEF n
<1>3. \A i \in 1..n : i \in 1..Len(s)  BY <1>1, <1>2
<1>4. r \in Seq(X) /\ Len(r) = n /\ \A i \in 1..n : r[i] = s[i]  BY <1>1, <1>2, <1>3
<1>5. DOMAIN r = 1..n  BY <1>4, LenProperties
<1> HIDE DEF r
<1>6. ToSet(r) \subseteq ToSet(s)  BY <1>1, <1>3, <1>4, <1>5 DEF ToSet
<1>7. r = <<>> => s = <<>>  BY <1>1, <1>2, <1>4
<1> QED BY <1>2, <1>4, <1>6, <1>7

\* What the worker's tests saw: guards of the sample that are enabled or in R.
GuSaw(s, seen, R) ==
    /\ seen.live \subseteq DOMAIN s \cap (GuLive(s) \cup R)
    /\ seen.up \subseteq seen.live

\* moor_guard_update_primary, from any such primary list and from tests that
\* missed no enabled guard.
LEMMA GuFillFits ==
    ASSUME NEW g, GuShape(g), GuListed(g.sampled, g.confirmed), NEW p \in Seq(Nat), NEW R, NEW seen,
           ToSet(p) \subseteq DOMAIN g.sampled \cap (GuLive(g.sampled) \cup R),
           GuSaw(g.sampled, seen, R), GuLive(g.sampled) \subseteq seen.live
    PROVE  GuFits(GuFill(g, p, seen), R, TRUE)
<1> DEFINE s == g.sampled
           live == seen.live
           up == seen.up
           ok == DOMAIN s \cap (GuLive(s) \cup R)
           all == [i \in DOMAIN s |-> i]
           a1 == GuOnly(g.confirmed, up)
           p1 == GuTake(p \o a1)
           a2 == GuOnly(g.confirmed, live \ ToSet(p1))
           p2 == GuTake(p1 \o a2)
           a3 == GuOnly(all, live \ ToSet(p2))
           p3 == GuTake(p2 \o a3)
<1>1. GuFill(g, p, seen) = [g EXCEPT !.primary = p3]  BY DEF GuFill
<1>2. g.confirmed \in Seq(Nat) /\ s \in Seq(GuGuard)  BY DEF GuListed
<1>3. all \in Seq(Nat) /\ ToSet(all) = DOMAIN s
  <2>1. Len(s) \in Nat /\ DOMAIN s = 1..Len(s)  BY <1>2, LenProperties
  <2> HIDE DEF s
  <2>2. all \in Seq(Nat) /\ DOMAIN all = DOMAIN s  BY <2>1
  <2>3. \A i \in DOMAIN s : all[i] = i  OBVIOUS
  <2> HIDE DEF all
  <2> QED BY <2>2, <2>3 DEF ToSet
<1>4. live \subseteq ok /\ up \subseteq live /\ GuLive(s) \subseteq live /\ live \subseteq DOMAIN s
  BY DEF GuSaw
<1>4a. ToSet(p) \subseteq ok  OBVIOUS
<1>5. a1 \in Seq(Nat) /\ ToSet(a1) \subseteq up  BY <1>2, GuOnlySet
<1> HIDE DEF s, live, up, ok, all, a1
<1>6. p1 \in Seq(Nat) /\ ToSet(p1) \subseteq ok
  <2>1. p \o a1 \in Seq(Nat) /\ ToSet(p \o a1) = ToSet(p) \cup ToSet(a1)  BY <1>5, ConcatSet
  <2>2. p1 \in Seq(Nat) /\ ToSet(p1) \subseteq ToSet(p \o a1)  BY <2>1, GuTakeSet
  <2> QED BY <1>4, <1>4a, <1>5, <2>1, <2>2
<1>7. a2 \in Seq(Nat) /\ ToSet(a2) \subseteq live  BY <1>2, GuOnlySet
<1> HIDE DEF p1, a2
<1>8. p2 \in Seq(Nat) /\ ToSet(p2) \subseteq ok
  <2>1. p1 \o a2 \in Seq(Nat) /\ ToSet(p1 \o a2) = ToSet(p1) \cup ToSet(a2)
    BY <1>6, <1>7, ConcatSet
  <2>2. p2 \in Seq(Nat) /\ ToSet(p2) \subseteq ToSet(p1 \o a2)  BY <2>1, GuTakeSet
  <2> QED BY <1>4, <1>6, <1>7, <2>1, <2>2
<1>9. a3 \in Seq(Nat) /\ ToSet(a3) = DOMAIN s \cap (live \ ToSet(p2))  BY <1>3, GuOnlySet
<1> HIDE DEF p2, a3
<1>10. /\ p3 \in Seq(Nat) /\ ToSet(p3) \subseteq ok
       /\ p3 = <<>> => GuLive(s) = {}
  <2>1. p2 \o a3 \in Seq(Nat) /\ ToSet(p2 \o a3) = ToSet(p2) \cup ToSet(a3)
    BY <1>8, <1>9, ConcatSet
  <2>2. /\ p3 \in Seq(Nat) /\ ToSet(p3) \subseteq ToSet(p2 \o a3)
        /\ p3 = <<>> => p2 \o a3 = <<>>
    BY <2>1, GuTakeSet
  <2>3. ToSet(p2 \o a3) \subseteq ok /\ live \subseteq ToSet(p2 \o a3)
    BY <1>4, <1>8, <1>9, <2>1
  <2>4. ToSet(<<>>) = {}  BY DEF ToSet
  <2> QED BY <1>4, <2>2, <2>3, <2>4
<1> HIDE DEF p3
<1>11. GuFill(g, p, seen) = [sampled |-> g.sampled, confirmed |-> g.confirmed, primary |-> p3, rr |-> g.rr]
  <2>1. PICK x, y, z, u : /\ g = [sampled |-> x, confirmed |-> y, primary |-> z, rr |-> u]
                          /\ x = g.sampled /\ y = g.confirmed /\ u = g.rr
    BY DEF GuShape
  <2> QED BY <1>1, <2>1
<1> QED BY <1>10, <1>11 DEF GuFits, GuShape, GuPrimed, s, ok

\* From scratch it needs nothing of the old primary list.
LEMMA GuUpdateFits ==
    ASSUME NEW g, GuShape(g), GuListed(g.sampled, g.confirmed), NEW R
    PROVE  /\ GuFits(GuUpdatePrimary(g), R, TRUE)
           /\ GuUpdatePrimary(g).sampled = g.sampled
<1>1. <<>> \in Seq(Nat) /\ ToSet(<<>>) = {}  BY DEF ToSet
<1>2. GuSaw(g.sampled, GuTested(g), R) /\ GuTested(g).live = GuLive(g.sampled)
  BY DEF GuSaw, GuTested, GuLive
<1>3. GuFits(GuUpdatePrimary(g), R, TRUE)  BY <1>1, <1>2, GuFillFits DEF GuUpdatePrimary
<1>4. ASSUME NEW x PROVE [g EXCEPT !.primary = x].sampled = g.sampled
  BY DEF GuShape
<1> QED BY <1>3, <1>4 DEF GuUpdatePrimary, GuFill

\* The lists need only the ids and the marks of the guards.
LEMMA GuSameListed ==
    ASSUME NEW s \in Seq(GuGuard), NEW c, GuListed(s, c), NEW t, DOMAIN t = DOMAIN s,
           t = [i \in DOMAIN s |-> t[i]],
           \A i \in DOMAIN s : t[i] \in GuGuard /\ t[i].id = s[i].id
                               /\ (s[i].confirmed => t[i].confirmed)
    PROVE  GuListed(t, c)
<1>1. Len(s) \in Nat /\ DOMAIN s = 1..Len(s)  BY LenProperties
<1>2. t \in Seq(GuGuard)  BY <1>1
<1>3. \A i, j \in DOMAIN t : t[i].id = t[j].id => i = j  BY DEF GuListed
<1>4. ToSet(c) \subseteq {i \in DOMAIN t : t[i].confirmed}  BY DEF GuListed
<1> QED BY <1>2, <1>3, <1>4 DEF GuListed

\* The same guards, and the same ones enabled.
GuSameLive(g, h) ==
    DOMAIN h.sampled = DOMAIN g.sampled /\ GuLive(h.sampled) = GuLive(g.sampled)

\* Counting for path bias changes neither.
LEMMA GuCountFits ==
    ASSUME NEW g, NEW R, NEW filled, GuFits(g, R, filled), NEW r, NEW field \in {"att", "suc", "uatt", "usuc"}
    PROVE  /\ GuFits(GuCount(g, r, field), R, filled)
           /\ GuSameLive(g, GuCount(g, r, field))
<1> DEFINE s == g.sampled
           Inc(e) == CASE field = "att"  -> [e EXCEPT !.att = @ + 1]
                       [] field = "suc"  -> [e EXCEPT !.suc = @ + 1]
                       [] field = "uatt" -> [e EXCEPT !.uatt = @ + 1]
                       [] field = "usuc" -> [e EXCEPT !.usuc = @ + 1]
           Scaled(e) == IF field = "att" /\ e.att >= GuScaleAt
                        THEN [e EXCEPT !.att = @ \div 2, !.suc = @ \div 2,
                                       !.uatt = @ \div 2, !.usuc = @ \div 2]
                        ELSE e
           t == [i \in DOMAIN s |-> IF s[i].id = r THEN Scaled(Inc(s[i])) ELSE s[i]]
<1>1. ASSUME NEW e \in GuGuard
      PROVE  Inc(e) \in GuGuard /\ \A x \in {"id", "confirmed", "disabled"} : Inc(e)[x] = e[x]
  <2>1. CASE field = "att"
    BY <2>1 DEF GuGuard
  <2>2. CASE field = "suc"
    BY <2>2 DEF GuGuard
  <2>3. CASE field = "uatt"
    BY <2>3 DEF GuGuard
  <2>4. CASE field = "usuc"
    BY <2>4 DEF GuGuard
  <2> QED BY <2>1, <2>2, <2>3, <2>4
<1>2. ASSUME NEW e \in GuGuard
      PROVE  Scaled(e) \in GuGuard /\ \A x \in {"id", "confirmed", "disabled"} : Scaled(e)[x] = e[x]
  <2>1. \A x \in Nat : x \div 2 \in Nat  OBVIOUS
  <2> QED BY <2>1 DEF GuGuard
<1>3. GuCount(g, r, field) = [g EXCEPT !.sampled = t]  BY DEF GuCount
<1> HIDE DEF Inc, Scaled
<1>4. s \in Seq(GuGuard) /\ \A i \in DOMAIN s : s[i] \in GuGuard
  BY LenProperties DEF GuFits, GuListed
<1>5. /\ DOMAIN t = DOMAIN s /\ t = [i \in DOMAIN s |-> t[i]]
      /\ \A i \in DOMAIN s : t[i] \in GuGuard /\ t[i].id = s[i].id
                             /\ t[i].confirmed = s[i].confirmed /\ t[i].disabled = s[i].disabled
  BY <1>1, <1>2, <1>4
<1> HIDE DEF t
<1>6. GuListed(t, g.confirmed)  BY <1>4, <1>5, GuSameListed DEF GuFits
<1>7. GuLive(t) = GuLive(s)  BY <1>5 DEF GuLive
<1>8. GuCount(g, r, field) = [sampled |-> t, confirmed |-> g.confirmed, primary |-> g.primary, rr |-> g.rr]
  <2>1. PICK x, y, z, u : /\ g = [sampled |-> x, confirmed |-> y, primary |-> z, rr |-> u]
                          /\ y = g.confirmed /\ z = g.primary /\ u = g.rr
    BY DEF GuShape, GuFits
  <2> QED BY <1>3, <2>1
<1>9. DOMAIN t = DOMAIN s /\ GuCount(g, r, field).sampled = t  BY <1>5, <1>8
<1> QED BY <1>6, <1>7, <1>8, <1>9 DEF GuFits, GuShape, GuPrimed, GuSameLive

\* moor_guard_mark_unreachable.
LEMMA GuUnreachableFits ==
    ASSUME NEW g, NEW R, NEW filled, GuFits(g, R, filled), NEW r
    PROVE  /\ GuFits(GuMarkUnreachable(g, r), R, filled)
           /\ GuSameLive(g, GuMarkUnreachable(g, r))
<1>1. CASE GuIndex(g, r) = {}
  BY <1>1 DEF GuMarkUnreachable, GuSameLive
<1>2. CASE GuIndex(g, r) # {}
  <2> DEFINE k == CHOOSE i \in GuIndex(g, r) : TRUE
  <2>1. k \in DOMAIN g.sampled  BY <1>2 DEF GuIndex
  <2>2. GuMarkUnreachable(g, r) = GuUpdatePrimary([g EXCEPT !.sampled[k].reachable = FALSE])
    BY <1>2 DEF GuMarkUnreachable
  <2> HIDE DEF k
  <2>3. PICK s, c, p, u : /\ g = [sampled |-> s, confirmed |-> c, primary |-> p, rr |-> u]
                          /\ GuListed(s, c) /\ k \in DOMAIN s
    BY <2>1 DEF GuFits, GuShape
  <2> DEFINE t == [s EXCEPT ![k].reachable = FALSE]
             h == [sampled |-> t, confirmed |-> c, primary |-> p, rr |-> u]
  <2>4. [g EXCEPT !.sampled[k].reachable = FALSE] = h
    <3>1. g.sampled = s  BY <2>3
    <3>2. [g EXCEPT !.sampled[k].reachable = FALSE] = [g EXCEPT !.sampled = t]  BY <3>1
    <3> HIDE DEF t
    <3> QED BY <2>3, <3>2
  <2>5. s \in Seq(GuGuard) /\ \A i \in DOMAIN s : s[i] \in GuGuard
    BY <2>3, LenProperties DEF GuListed
  <2>6. /\ DOMAIN t = DOMAIN s /\ t = [i \in DOMAIN s |-> t[i]]
        /\ \A i \in DOMAIN s : t[i] \in GuGuard /\ t[i].id = s[i].id
                               /\ (s[i].confirmed => t[i].confirmed)
                               /\ t[i].disabled = s[i].disabled
    BY <2>3, <2>5 DEF GuGuard
  <2> HIDE DEF t
  <2>7. GuListed(t, c)  BY <2>3, <2>5, <2>6, GuSameListed
  <2>8. GuShape(h) /\ GuListed(h.sampled, h.confirmed)  BY <2>7 DEF GuShape
  <2> HIDE DEF h
  <2>8a. h.sampled = t /\ g.sampled = s /\ GuLive(t) = GuLive(s)  BY <2>3, <2>6 DEF h, GuLive
  <2>9. GuFits(GuUpdatePrimary(h), R, TRUE) /\ GuUpdatePrimary(h).sampled = h.sampled
    BY <2>8, GuUpdateFits
  <2>10. GuSameLive(g, GuMarkUnreachable(g, r))  BY <2>2, <2>4, <2>6, <2>8a, <2>9 DEF GuSameLive
  <2> QED BY <2>2, <2>4, <2>9, <2>10 DEF GuFits, GuPrimed
<1> QED BY <1>1, <1>2

\* moor_guard_mark_reachable: a guard joins the confirmed list the first time
\* only, and the list of a later primary run is empty until it is filled.
LEMMA GuReachedFits ==
    ASSUME NEW g, NEW R, NEW filled, GuFits(g, R, filled), NEW r
    PROVE  GuFits([GuReached(g, r) EXCEPT !.primary = <<>>], R, FALSE)
<1>0. PICK s, c, p, u : /\ g = [sampled |-> s, confirmed |-> c, primary |-> p, rr |-> u]
                        /\ GuListed(s, c)
  BY DEF GuFits, GuShape
<1>e. <<>> \in Seq(Nat) /\ ToSet(<<>>) = {}  BY DEF ToSet
<1>1. CASE GuIndex(g, r) = {}
  <2>1. [GuReached(g, r) EXCEPT !.primary = <<>>]
          = [sampled |-> s, confirmed |-> c, primary |-> <<>>, rr |-> u]
    BY <1>0, <1>1 DEF GuReached
  <2> QED BY <1>0, <1>e, <2>1 DEF GuFits, GuShape, GuPrimed
<1>2. CASE GuIndex(g, r) # {}
  <2> DEFINE k == CHOOSE i \in GuIndex(g, r) : TRUE
  <2>1. k \in DOMAIN s  BY <1>0, <1>2 DEF GuIndex
  <2>2. GuReached(g, r) = [g EXCEPT !.sampled[k].reachable = TRUE, !.sampled[k].confirmed = TRUE,
                             !.confirmed = IF ~g.sampled[k].confirmed /\ Len(g.confirmed) < GuConfirmedMax
                                           THEN Append(@, k) ELSE @]
    BY <1>2 DEF GuReached
  <2> HIDE DEF k
  <2> DEFINE t == [[s EXCEPT ![k].reachable = TRUE] EXCEPT ![k].confirmed = TRUE]
             d == IF ~s[k].confirmed /\ Len(c) < GuConfirmedMax THEN Append(c, k) ELSE c
             h == [sampled |-> t, confirmed |-> d, primary |-> <<>>, rr |-> u]
  <2>3. [GuReached(g, r) EXCEPT !.primary = <<>>] = h
    <3>1. g.sampled = s /\ g.confirmed = c  BY <1>0
    <3>2. GuReached(g, r) = [g EXCEPT !.sampled = t, !.confirmed = d]  BY <2>2, <3>1
    <3> HIDE DEF t, d
    <3>3. [g EXCEPT !.sampled = t] = [sampled |-> t, confirmed |-> c, primary |-> p, rr |-> u]
      BY <1>0
    <3>4. [[sampled |-> t, confirmed |-> c, primary |-> p, rr |-> u] EXCEPT !.confirmed = d]
            = [sampled |-> t, confirmed |-> d, primary |-> p, rr |-> u]
      OBVIOUS
    <3>5. [g EXCEPT !.sampled = t, !.confirmed = d] = [[g EXCEPT !.sampled = t] EXCEPT !.confirmed = d]
      BY <1>0
    <3>6. [[sampled |-> t, confirmed |-> d, primary |-> p, rr |-> u] EXCEPT !.primary = <<>>] = h
      OBVIOUS
    <3> QED BY <3>2, <3>3, <3>4, <3>5, <3>6
  <2>4. s \in Seq(GuGuard) /\ (\A i \in DOMAIN s : s[i] \in GuGuard) /\ c \in Seq(Nat)
        /\ k \in Nat
    <3>1. Len(s) \in Nat /\ DOMAIN s = 1..Len(s)  BY <1>0, LenProperties DEF GuListed
    <3> QED BY <1>0, <2>1, <3>1, LenProperties DEF GuListed
  <2>5. /\ DOMAIN t = DOMAIN s /\ t = [i \in DOMAIN s |-> t[i]]
        /\ \A i \in DOMAIN s : t[i] \in GuGuard /\ t[i].id = s[i].id
                               /\ (s[i].confirmed => t[i].confirmed)
        /\ t[k].confirmed
    BY <2>1, <2>4 DEF GuGuard
  <2> HIDE DEF t
  <2>6. GuListed(t, c)  BY <1>0, <2>4, <2>5, GuSameListed
  <2>7. GuListed(t, d)
    <3>1. CASE ~s[k].confirmed
      <4>1. k \notin ToSet(c)  BY <1>0, <3>1 DEF GuListed
      <4>2. IsInjective(c)  BY <1>0 DEF GuListed
      <4>3. Append(c, k) \in Seq(Nat) /\ IsInjective(Append(c, k)) /\ ToSet(Append(c, k)) = ToSet(c) \cup {k}
        BY <2>4, <4>1, <4>2, AppendSet
      <4> HIDE DEF d
      <4>4. GuListed(t, Append(c, k))  BY <2>1, <2>5, <2>6, <4>3 DEF GuListed
      <4> QED BY <2>6, <4>4 DEF d
    <3>2. CASE s[k].confirmed
      BY <2>6, <3>2
    <3> QED BY <3>1, <3>2
  <2> HIDE DEF d
  <2> QED BY <1>e, <2>3, <2>7 DEF GuFits, GuShape, GuPrimed
<1> QED BY <1>1, <1>2

\* moor_pathbias_check_all: it disables guards, and the primary list is made
\* again if it names one of them.
LEMMA GuCheckAllFits ==
    ASSUME NEW g, NEW R, NEW filled, GuFits(g, R, filled)
    PROVE  /\ \A S : GuFits(GuCheckAll(g), S, filled)
           /\ DOMAIN GuCheckAll(g).sampled = DOMAIN g.sampled
           /\ GuLive(GuCheckAll(g).sampled) \subseteq GuLive(g.sampled)
<1>0. PICK s, c, p, u : /\ g = [sampled |-> s, confirmed |-> c, primary |-> p, rr |-> u]
                        /\ GuListed(s, c) /\ GuPrimed(s, p, R, filled)
  BY DEF GuFits, GuShape
<1> DEFINE t == [i \in DOMAIN s |-> IF GuBiased(s[i])
                      THEN [s[i] EXCEPT !.disabled = TRUE, !.reachable = FALSE] ELSE s[i]]
           h == [sampled |-> t, confirmed |-> c, primary |-> p, rr |-> u]
<1>1. GuCheckAll(g) = IF \E k \in DOMAIN p : t[p[k]].disabled THEN GuUpdatePrimary(h) ELSE h
  <2>1. g.sampled = s /\ g.primary = p  BY <1>0
  <2>2. GuCheckAll(g) = LET judged == [g EXCEPT !.sampled = t]
                        IN  IF \E k \in DOMAIN p : judged.sampled[p[k]].disabled
                            THEN GuUpdatePrimary(judged) ELSE judged
    BY <2>1, Zenon DEF GuCheckAll
  <2> HIDE DEF t
  <2>3. [g EXCEPT !.sampled = t] = h /\ h.sampled = t  BY <1>0
  <2> HIDE DEF h
  <2> QED BY <2>2, <2>3
<1>2. s \in Seq(GuGuard) /\ (\A i \in DOMAIN s : s[i] \in GuGuard)
  BY <1>0, LenProperties DEF GuListed
<1>3. /\ DOMAIN t = DOMAIN s /\ t = [i \in DOMAIN s |-> t[i]]
      /\ \A i \in DOMAIN s : t[i] \in GuGuard /\ t[i].id = s[i].id
                             /\ (s[i].confirmed => t[i].confirmed)
                             /\ (s[i].disabled => t[i].disabled)
  BY <1>2 DEF GuGuard
<1> HIDE DEF t
<1>4. GuListed(t, c)  BY <1>0, <1>2, <1>3, GuSameListed
<1>5. GuLive(t) \subseteq GuLive(s)  BY <1>3 DEF GuLive
<1>6. CASE \E k \in DOMAIN p : t[p[k]].disabled
  <2>1. GuShape(h) /\ GuListed(h.sampled, h.confirmed)  BY <1>4 DEF GuShape
  <2>2. GuCheckAll(g) = GuUpdatePrimary(h)  BY <1>1, <1>6
  <2> HIDE DEF h
  <2>3. (\A S : GuFits(GuUpdatePrimary(h), S, TRUE)) /\ GuUpdatePrimary(h).sampled = h.sampled
    BY <2>1, GuUpdateFits
  <2>4. h.sampled = t /\ g.sampled = s  BY <1>0 DEF h
  <2>5. \A S : GuFits(GuCheckAll(g), S, filled)  BY <2>2, <2>3 DEF GuFits, GuPrimed
  <2> QED BY <1>3, <1>5, <2>2, <2>3, <2>4, <2>5
<1>7. CASE ~(\E k \in DOMAIN p : t[p[k]].disabled)
  <2>1. ToSet(p) \subseteq GuLive(t)  BY <1>0, <1>3, <1>7 DEF GuPrimed, GuLive, ToSet
  <2>2. \A S : GuPrimed(t, p, S, filled)  BY <1>0, <1>5, <2>1 DEF GuPrimed, GuLive
  <2>3. GuCheckAll(g) = h  BY <1>1, <1>7
  <2>4. h.sampled = t /\ g.sampled = s  BY <1>0
  <2> QED BY <1>3, <1>4, <1>5, <2>2, <2>3, <2>4 DEF GuFits, GuShape
<1> QED BY <1>6, <1>7

\* What is saved agrees, the primary list apart, which the start makes again.
LEMMA GuWireFits ==
    ASSUME NEW g, NEW R, NEW filled, GuFits(g, R, filled)
    PROVE  GuListed(GuWire(g).sampled, GuWire(g).confirmed)
<1> DEFINE s == g.sampled
           t == GuWire(g).sampled
<1>1. t = [i \in DOMAIN s |-> [s[i] EXCEPT !.att = 0, !.suc = 0, !.uatt = 0, !.usuc = 0, !.disabled = FALSE]]
      /\ GuWire(g).confirmed = g.confirmed
  BY DEF GuWire
<1>2. s \in Seq(GuGuard) /\ (\A i \in DOMAIN s : s[i] \in GuGuard) /\ GuListed(s, g.confirmed)
  BY LenProperties DEF GuListed, GuFits
<1> HIDE DEF s, t
<1>3. /\ DOMAIN t = DOMAIN s /\ t = [i \in DOMAIN s |-> t[i]]
      /\ \A i \in DOMAIN s : t[i] \in GuGuard /\ t[i].id = s[i].id
                             /\ (s[i].confirmed => t[i].confirmed)
  BY <1>1, <1>2 DEF GuGuard
<1>4. GuListed(t, g.confirmed)  BY <1>2, <1>3, GuSameListed
<1> QED BY <1>1, <1>4 DEF t

\* moor_guard_sample adds guards that are not in the list.
LEMMA GuSamplesFit ==
    ASSUME NEW s, NEW c, GuListed(s, c), NEW t \in GuSamples(s)
    PROVE  GuListed(t, c)
<1> DEFINE known == {s[i].id : i \in DOMAIN s}
           free == GuSelectable({"GUARD", "STABLE", "RUNNING"}, known)
           n == IF Cardinality(free) < GuSampledMax - Len(s) THEN Cardinality(free) ELSE GuSampledMax - Len(s)
<1>1. PICK q \in [1..n -> free] :
          /\ \A i, j \in 1..n : i # j => q[i] # q[j]
          /\ t = s \o [i \in 1..n |-> GuEntry(q[i])]
  BY DEF GuSamples
<1>2. s \in Seq(GuGuard) /\ Len(s) \in Nat /\ DOMAIN s = 1..Len(s) /\ \A i \in DOMAIN s : s[i] \in GuGuard
  BY LenProperties DEF GuListed
<1>3. \A r \in free : r \in GuRelays /\ \A i \in DOMAIN s : s[i].id # r
  <2>1. \A r \in free : r \in GuRelays /\ r \notin known  BY DEF GuSelectable
  <2> QED BY <2>1
<1>4. n \in Int
  <2>1. free \in SUBSET GuRelays /\ IsFiniteSet(GuRelays) /\ GuSampledMax \in Nat
    BY GuAssumption DEF GuSelectable
  <2>2. Cardinality(free) \in Nat  BY <2>1, FS_Subset, FS_CardinalityType
  <2> QED BY <1>2, <2>1, <2>2
<1> HIDE DEF n, free
<1> DEFINE b == [i \in 1..n |-> GuEntry(q[i])]
<1>5. \A r \in GuRelays : GuEntry(r) \in GuGuard /\ GuEntry(r).id = r  BY DEF GuEntry, GuGuard
<1>6. b \in Seq(GuGuard) /\ DOMAIN b = 1..n /\ \A i \in 1..n : b[i].id = q[i]
  <2>1. \A i \in 1..n : GuEntry(q[i]) \in GuGuard /\ GuEntry(q[i]).id = q[i]
    BY <1>1, <1>3, <1>5
  <2>2. CASE n \in Nat
    BY <2>1, <2>2
  <2>3. CASE n \notin Nat
    <3>1. 1..n = {}  BY <1>4, <2>3
    <3>2. b = <<>>  BY <3>1
    <3>3. DOMAIN b = 1..n  OBVIOUS
    <3> HIDE DEF b
    <3>4. <<>> \in Seq(GuGuard)  OBVIOUS
    <3> QED BY <3>1, <3>2, <3>3, <3>4
  <2> QED BY <2>2, <2>3
<1> HIDE DEF b
<1>7. PICK m \in Nat : m = Len(b) /\ DOMAIN b = 1..m  BY <1>6, LenProperties
<1>8. PICK l \in Nat : l = Len(s) /\ DOMAIN s = 1..l  BY <1>2
<1>9. t = s \o b  BY <1>1 DEF b
<1>10. t \in Seq(GuGuard) /\ Len(t) = l + m
       /\ \A i \in 1..(l + m) : t[i] = IF i <= l THEN s[i] ELSE b[i - l]
  BY <1>2, <1>6, <1>7, <1>8, <1>9, ConcatProperties
<1>11. DOMAIN t = 1..(l + m)  BY <1>10, LenProperties
<1>12. \A i \in 1..l : i \in DOMAIN t /\ t[i] = s[i]  BY <1>10, <1>11
<1>13. ASSUME NEW i \in DOMAIN t, NEW j \in DOMAIN t, t[i].id = t[j].id PROVE i = j
  <2>0. i \in 1..(l + m) /\ j \in 1..(l + m)  BY <1>11
  <2>1. ASSUME NEW x \in 1..(l + m), ~(x <= l)
        PROVE  x - l \in 1..m /\ t[x].id = q[x - l] /\ q[x - l] \in free
    <3>1. x - l \in 1..m /\ t[x] = b[x - l]  BY <1>10, <2>1
    <3> QED BY <1>1, <1>6, <1>7, <3>1
  <2>2. ASSUME NEW x \in 1..(l + m), x <= l
        PROVE  x \in DOMAIN s /\ t[x] = s[x] /\ \A r \in free : t[x].id # r
    <3>1. x \in DOMAIN s /\ t[x] = s[x]  BY <1>8, <1>10, <2>2
    <3> QED BY <1>3, <3>1
  <2>3. CASE i <= l /\ j <= l
    BY <1>13, <2>0, <2>2, <2>3 DEF GuListed
  <2>4. CASE ~(i <= l) /\ ~(j <= l)
    <3>1. q[i - l] = q[j - l] /\ i - l \in 1..n /\ j - l \in 1..n
      BY <1>6, <1>7, <1>13, <2>0, <2>1, <2>4
    <3>2. i - l = j - l  BY <1>1, <3>1
    <3> QED BY <2>0, <3>2
  <2>5. CASE i <= l /\ ~(j <= l)
    BY <1>13, <2>0, <2>1, <2>2, <2>5
  <2>6. CASE ~(i <= l) /\ j <= l
    BY <1>13, <2>0, <2>1, <2>2, <2>6
  <2> QED BY <2>3, <2>4, <2>5, <2>6
<1>14. {i \in DOMAIN s : s[i].confirmed} \subseteq {i \in DOMAIN t : t[i].confirmed}
  BY <1>8, <1>12
<1> QED BY <1>10, <1>13, <1>14 DEF GuListed

\* The round robin is no part of the lists.
LEMMA GuTurnFits ==
    ASSUME NEW g, NEW R, NEW filled, GuFits(g, R, filled), NEW n
    PROVE  GuFits([g EXCEPT !.rr = n], R, filled) /\ [g EXCEPT !.rr = n].sampled = g.sampled
<1>0. PICK s, c, p, u : /\ g = [sampled |-> s, confirmed |-> c, primary |-> p, rr |-> u]
                        /\ GuListed(s, c) /\ GuPrimed(s, p, R, filled)
  BY DEF GuFits, GuShape
<1>1. [g EXCEPT !.rr = n] = [sampled |-> s, confirmed |-> c, primary |-> p, rr |-> n]  BY <1>0
<1> QED BY <1>0, <1>1 DEF GuFits, GuShape

\* The inductive invariant: between the worker's clearing the primary list and
\* its appends the list may be empty, and at the appends its tests have missed
\* no guard that is enabled still.
GuListsInv ==
    /\ GuWorkerShape(guWorker)
    /\ GuFits(gu, guWorker.raced, guWorker.pc \notin {"testing", "adding"})
    /\ GuSaw(gu.sampled, guWorker.seen, guWorker.raced)
    /\ guWorker.pc = "adding" => GuLive(gu.sampled) \subseteq guWorker.seen.live
    /\ guWorker.pc # "adding" => guWorker.seen = GuUnseen
    /\ GuListed(guFile.sampled, guFile.confirmed)

\* It holds at the start,
LEMMA GuListsInit == GuInit => GuListsInv
<1> SUFFICES ASSUME GuInit PROVE GuListsInv
  OBVIOUS
<1>1. /\ gu = [sampled |-> <<>>, confirmed |-> <<>>, primary |-> <<>>, rr |-> 0]
      /\ guFile = [sampled |-> <<>>, confirmed |-> <<>>, primary |-> <<>>]
      /\ guWorker = [pc |-> "idle", path |-> <<>>, seen |-> GuUnseen, raced |-> {}]
  BY DEF GuInit, GuEmpty, GuNoFile, GuIdle
<1>2. DOMAIN <<>> = {} /\ ToSet(<<>>) = {} /\ IsInjective(<<>>)  BY DEF ToSet, IsInjective
<1>3. <<>> \in Seq(GuGuard) /\ <<>> \in Seq(Nat)  OBVIOUS
<1>4. GuListed(<<>>, <<>>) /\ GuLive(<<>>) = {}  BY <1>2, <1>3 DEF GuListed, GuLive
<1>5. GuSaw(<<>>, GuUnseen, {})  BY DEF GuSaw, GuUnseen
<1>6. GuWorkerShape(guWorker)  BY <1>1 DEF GuWorkerShape
<1> QED BY <1>1, <1>2, <1>3, <1>4, <1>5, <1>6 DEF GuListsInv, GuFits, GuShape, GuPrimed

\* is kept by every step,
LEMMA GuListsNext == GuListsInv /\ [GuNext]_guVars => GuListsInv'
<1> SUFFICES ASSUME GuListsInv, [GuNext]_guVars PROVE GuListsInv'
  OBVIOUS
<1> DEFINE ready == guWorker.pc \notin {"testing", "adding"}
           R == guWorker.raced
<1>0. /\ GuWorkerShape(guWorker)
      /\ GuFits(gu, R, ready) /\ GuListed(guFile.sampled, guFile.confirmed)
      /\ GuSaw(gu.sampled, guWorker.seen, R)
      /\ guWorker.pc = "adding" => GuLive(gu.sampled) \subseteq guWorker.seen.live
      /\ guWorker.pc # "adding" => guWorker.seen = GuUnseen
  BY DEF GuListsInv
<1>w. PICK a, b, c, d : /\ guWorker = [pc |-> a, path |-> b, seen |-> c, raced |-> d]
                        /\ a = guWorker.pc /\ c = guWorker.seen /\ d = guWorker.raced
  BY <1>0 DEF GuWorkerShape
<1>1. ASSUME guWorker' = guWorker, guFile' = guFile, GuFits(gu', R, ready), GuSameLive(gu, gu')
      PROVE  GuListsInv'
  BY <1>0, <1>1 DEF GuListsInv, GuSaw, GuSameLive
<1>2. ASSUME guFile' = guFile, NEW x \in {"idle", "building", "testing"}, NEW y, NEW Q,
             guWorker' = [pc |-> x, path |-> y, seen |-> GuUnseen, raced |-> Q],
             GuFits(gu', Q, x # "testing")
      PROVE  GuListsInv'
  <2>1. /\ GuWorkerShape(guWorker') /\ guWorker'.pc = x /\ guWorker'.seen = GuUnseen /\ guWorker'.raced = Q
        /\ x # "adding"
    BY <1>2 DEF GuWorkerShape
  <2>2. GuSaw(gu'.sampled, GuUnseen, Q)  BY DEF GuSaw, GuUnseen
  <2> QED BY <1>0, <1>2, <2>1, <2>2 DEF GuListsInv
<1>3. ASSUME UNCHANGED guClient PROVE GuListsInv'
  BY <1>0, <1>1, <1>3 DEF guClient, GuSameLive
<1>s. GuSameLive(gu, gu)  BY DEF GuSameLive
<1>4. CASE GuStart
  <2>1. PICK t \in GuSamples(guFile.sampled) :
          gu' = GuUpdatePrimary([sampled |-> t, confirmed |-> guFile.confirmed,
                                 primary |-> guFile.primary, rr |-> 0])
    BY <1>4 DEF GuStart
  <2>2. GuListed(t, guFile.confirmed)  BY <1>0, GuSamplesFit
  <2> DEFINE h == [sampled |-> t, confirmed |-> guFile.confirmed, primary |-> guFile.primary, rr |-> 0]
  <2>3. GuShape(h) /\ GuListed(h.sampled, h.confirmed)  BY <2>2 DEF GuShape
  <2> HIDE DEF h
  <2>4. GuFits(GuUpdatePrimary(h), {}, TRUE)  BY <2>3, GuUpdateFits
  <2>5. GuFits(gu', {}, "idle" # "testing")  BY <2>1, <2>4 DEF h
  <2> QED BY <1>2, <1>4, <2>5 DEF GuStart, GuIdle
<1>5. CASE GuAsyncStart
  <2>1. gu' = [gu EXCEPT !.rr = GuSelect(gu).rr] /\ guWorker' = guWorker /\ guFile' = guFile
    BY <1>5 DEF GuAsyncStart
  <2>2. GuFits(gu', R, ready) /\ gu'.sampled = gu.sampled  BY <1>0, <2>1, GuTurnFits
  <2>3. GuSameLive(gu, gu')  BY <2>2 DEF GuSameLive
  <2> QED BY <1>1, <2>1, <2>2, <2>3
<1>6. ASSUME NEW ok \in BOOLEAN, GuAsyncDone(ok) PROVE GuListsInv'
  <2>1. GuFits(gu', R, ready) /\ GuSameLive(gu, gu')
    BY <1>0, <1>6, GuCountFits, GuUnreachableFits DEF GuAsyncDone
  <2> QED BY <1>1, <1>6, <2>1 DEF GuAsyncDone
<1>7. CASE GuSyncStart
  <2>1. PICK guard, n :
          /\ gu' = GuCount([gu EXCEPT !.rr = n], guard, "att")
          /\ \/ guWorker' = guWorker
             \/ \E p : guWorker' = [guWorker EXCEPT !.pc = "building", !.path = p]
    <3>1. PICK guard \in GuSyncGuards :
            /\ gu' = GuCount([gu EXCEPT !.rr = IF GuEntryNode = GuSelf THEN GuSelect(gu).rr ELSE @],
                             guard, "att")
            /\ \/ \E p \in GuPaths(guard) : guWorker' = [guWorker EXCEPT !.pc = "building", !.path = p]
               \/ GuPaths(guard) = {} /\ guWorker' = guWorker
      BY <1>7 DEF GuSyncStart
    <3> QED BY <3>1
  <2>2. guWorker.pc = "idle" /\ guFile' = guFile  BY <1>7 DEF GuSyncStart
  <2> DEFINE h == [gu EXCEPT !.rr = n]
  <2>3. GuFits(h, R, ready) /\ h.sampled = gu.sampled  BY <1>0, GuTurnFits
  <2> HIDE DEF h
  <2>4. GuFits(gu', R, ready) /\ GuSameLive(h, gu')  BY <2>1, <2>3, GuCountFits DEF h
  <2>5. GuSameLive(gu, gu')  BY <2>3, <2>4 DEF GuSameLive
  <2>6. CASE guWorker' = guWorker
    BY <1>1, <2>2, <2>4, <2>5, <2>6
  <2>7. ASSUME NEW p, guWorker' = [guWorker EXCEPT !.pc = "building", !.path = p] PROVE GuListsInv'
    <3>1. guWorker' = [pc |-> "building", path |-> p, seen |-> GuUnseen, raced |-> R]
      BY <1>0, <1>w, <2>2, <2>7
    <3>2. GuFits(gu', R, "building" # "testing")  BY <2>2, <2>4
    <3> QED BY <1>2, <2>2, <3>1, <3>2
  <2> QED BY <2>1, <2>6, <2>7
<1>8. ASSUME NEW ok \in BOOLEAN, GuSyncDone(ok) PROVE GuListsInv'
  <2> DEFINE r == guWorker.path[1]
             reached == GuReached(GuCount(gu, r, "suc"), r)
  <2>0. guWorker.pc = "building" /\ guFile' = guFile  BY <1>8 DEF GuSyncDone
  <2>1. \/ gu' = gu /\ GuWorkerEnds
        \/ gu' = [reached EXCEPT !.primary = <<>>] /\ guWorker' = [guWorker EXCEPT !.pc = "testing"]
    BY <1>8 DEF GuSyncDone
  <2>2. CASE gu' = gu /\ GuWorkerEnds
    <3>1. guWorker' = [pc |-> "idle", path |-> <<>>, seen |-> GuUnseen, raced |-> R]
      BY <1>w, <2>2 DEF GuWorkerEnds
    <3>2. GuFits(gu', R, "idle" # "testing")  BY <1>0, <2>0, <2>2
    <3> QED BY <1>2, <2>0, <3>1, <3>2
  <2>3. CASE gu' = [reached EXCEPT !.primary = <<>>] /\ guWorker' = [guWorker EXCEPT !.pc = "testing"]
    <3>1. GuFits(GuCount(gu, r, "suc"), R, ready)  BY <1>0, GuCountFits
    <3> HIDE DEF r
    <3>2. GuFits(gu', R, FALSE)  BY <2>3, <3>1, GuReachedFits
    <3>3. guWorker' = [pc |-> "testing", path |-> b, seen |-> GuUnseen, raced |-> R]
      BY <1>0, <1>w, <2>0, <2>3
    <3>4. GuFits(gu', R, "testing" # "testing")  BY <3>2
    <3> QED BY <1>2, <2>0, <3>3, <3>4
  <2> QED BY <2>1, <2>2, <2>3
<1>9. CASE GuSyncTest
  <2>1. /\ guWorker.pc = "testing" /\ gu' = gu /\ guFile' = guFile
        /\ guWorker' = [pc |-> "adding", path |-> b, seen |-> GuTested(gu), raced |-> R]
    BY <1>9, <1>w DEF GuSyncTest
  <2>2. /\ GuWorkerShape(guWorker') /\ guWorker'.pc = "adding" /\ guWorker'.seen = GuTested(gu)
        /\ guWorker'.raced = R
    BY <2>1 DEF GuWorkerShape
  <2>3. GuSaw(gu.sampled, GuTested(gu), R) /\ GuLive(gu.sampled) \subseteq GuTested(gu).live
    BY DEF GuSaw, GuTested, GuLive
  <2>4. GuFits(gu', R, FALSE)  BY <1>0, <2>1
  <2> QED BY <1>0, <2>1, <2>2, <2>3, <2>4 DEF GuListsInv
<1>10. CASE GuSyncFill
  <2>1. gu' = GuFill(gu, gu.primary, guWorker.seen) /\ GuWorkerEnds /\ guFile' = guFile /\ guWorker.pc = "adding"
    BY <1>10 DEF GuSyncFill
  <2>2. GuFits(gu', R, TRUE)  BY <1>0, <2>1, GuFillFits DEF GuFits, GuPrimed
  <2>3. guWorker' = [pc |-> "idle", path |-> <<>>, seen |-> GuUnseen, raced |-> R]
    BY <1>w, <2>1 DEF GuWorkerEnds
  <2>4. GuFits(gu', R, "idle" # "testing")  BY <2>2
  <2> QED BY <1>2, <2>1, <2>3, <2>4
<1>11. ASSUME NEW r, NEW field \in {"uatt", "usuc"}, GuUse(r, field) PROVE GuListsInv'
  <2>1. GuFits(gu', R, ready) /\ GuSameLive(gu, gu')  BY <1>0, <1>11, GuCountFits DEF GuUse
  <2> QED BY <1>1, <1>11, <2>1 DEF GuUse
<1>12. CASE GuPathbiasTimer
  <2> DEFINE Q == {i \in guWorker.seen.live : gu'.sampled[i].disabled}
  <2>1. gu' = GuCheckAll(gu) /\ guFile' = guFile /\ guWorker' = [guWorker EXCEPT !.raced = Q]
    BY <1>12 DEF GuPathbiasTimer
  <2>2. /\ \A S : GuFits(gu', S, ready)
        /\ DOMAIN gu'.sampled = DOMAIN gu.sampled
        /\ GuLive(gu'.sampled) \subseteq GuLive(gu.sampled)
    BY <1>0, <2>1, GuCheckAllFits
  <2>3. /\ GuSaw(gu'.sampled, guWorker.seen, Q)
        /\ guWorker.pc = "adding" => GuLive(gu'.sampled) \subseteq guWorker.seen.live
    BY <1>0, <2>2 DEF GuSaw, GuLive
  <2> HIDE DEF Q
  <2>4. /\ GuWorkerShape(guWorker') /\ guWorker'.pc = guWorker.pc /\ guWorker'.seen = guWorker.seen
        /\ guWorker'.raced = Q
    BY <1>w, <2>1 DEF GuWorkerShape
  <2> QED BY <1>0, <2>1, <2>2, <2>3, <2>4 DEF GuListsInv
<1>13. ASSUME NEW torn \in BOOLEAN, GuSave(torn) PROVE GuListsInv'
  <2>1. gu' = gu /\ guWorker' = guWorker /\ guFile' \in {GuNoFile, GuWire(gu)}
    BY <1>13 DEF GuSave
  <2>2. GuListed(<<>>, <<>>)  BY DEF GuListed, ToSet, IsInjective
  <2>3. GuListed(guFile'.sampled, guFile'.confirmed)
    <3>1. CASE guFile' = GuNoFile
      BY <2>2, <3>1 DEF GuNoFile
    <3>2. CASE guFile' = GuWire(gu)
      BY <1>0, <3>2, GuWireFits
    <3> QED BY <2>1, <3>1, <3>2
  <2> QED BY <1>0, <2>1, <2>3 DEF GuListsInv
<1>14. CASE GuClientNext
  BY <1>4, <1>5, <1>6, <1>7, <1>8, <1>9, <1>10, <1>11, <1>12, <1>13, <1>14 DEF GuClientNext
<1>15. CASE GuServiceNext
  BY <1>3, <1>15 DEF GuServiceNext, GuVanguardStart, GuVanguardRotate, GuServiceBuild, GuServiceToRp
<1>16. ASSUME NEW r, GuConsensus(r) PROVE GuListsInv'
  BY <1>3, <1>16 DEF GuConsensus
<1>17. CASE GuTick
  BY <1>3, <1>17 DEF GuTick
<1>18. CASE UNCHANGED guVars
  BY <1>3, <1>18 DEF guVars
<1> QED BY <1>14, <1>15, <1>16, <1>17, <1>18 DEF GuNext

\* and says more than GuListsAgree.
LEMMA GuListsInvAgree == GuListsInv => GuListsAgree
<1> SUFFICES ASSUME GuListsInv PROVE GuListsAgree
  OBVIOUS
<1> DEFINE s == gu.sampled
           c == gu.confirmed
           p == gu.primary
           R == guWorker.raced
           ready == guWorker.pc \notin {"testing", "adding"}
<1>1. GuListed(s, c) /\ GuPrimed(s, p, R, ready)  BY DEF GuListsInv, GuFits
<1> HIDE DEF s, c, p, R, ready
<1>2. GuDistinct([i \in DOMAIN s |-> s[i].id])  BY <1>1 DEF GuListed, GuDistinct
<1>3. GuDistinct(c)  BY <1>1 DEF GuListed, GuDistinct, IsInjective
<1>4. ToSet(c) \subseteq DOMAIN s /\ ToSet(p) \subseteq DOMAIN s
      /\ (\A i \in ToSet(c) : s[i].confirmed) /\ (\A i \in ToSet(p) : s[i].disabled => i \in R)
  BY <1>1 DEF GuListed, GuPrimed, GuLive
<1>5. ready /\ p = <<>> => \A i \in DOMAIN s : s[i].disabled  BY <1>1 DEF GuPrimed, GuLive
<1> QED BY <1>2, <1>3, <1>4, <1>5 DEF GuListsAgree, s, c, p, R, ready

\* The confirmed and primary lists name guards of the sample for any number of
\* relays, any sizes of the lists, any order of starts, samplings, builds,
\* path-bias checks and torn saves, and with the worker's unlocked
\* moor_guard_update_primary interrupted before its tests and between them
\* and its appends; a primary guard is disabled only if it was disabled there,
\* and not after the next check.
THEOREM GuardListsAgree == GuSpec => []GuListsAgree
<1>1. GuInit => GuListsInv  BY GuListsInit
<1>2. GuListsInv /\ [GuNext]_guVars => GuListsInv'  BY GuListsNext
<1>3. GuListsInv => GuListsAgree  BY GuListsInvAgree
<1> QED BY <1>1, <1>2, <1>3, PTL DEF GuSpec

-----------------------------------------------------------------------------
(* Registration of a relay.                                                *)

Threads == RgThreads \cup {"main"}

\* The types of a configuration, a thread and an authority.
RgDesc == [bw : Nat, key : Nat]
RgCfgRec == [bw : Nat, key : Nat, at : Nat]
RgThreadRec == [job : {"none", "boot", "periodic", "retry", "again", "reload"},
                pc : {"idle", "start", "wait", "inline", "check", "post", "end",
                      "fetch", "done"},
                desc : RgDesc, nonce : Nat, ts : Nat, da : Nat, ok : BOOLEAN]
RgPowRec == [ready : BOOLEAN, failed : BOOLEAN, solving : BOOLEAN, nonce : Nat, ts : Nat]
RgSlotRec == [nonce : Nat, ts : Nat, at : Nat]
RgDaRec == [seen : [1..RgSlots -> RgSlotRec], refused : BOOLEAN]

RgTypeOK ==
  /\ rgTime \in Nat
  /\ rgCfg \in [main : RgCfgRec, relay : RgCfgRec]
  /\ rgPow \in RgPowRec
  /\ rgSolvers \in Seq(Nat) /\ rgSolved \in Nat
  /\ rgThread \in [Threads -> RgThreadRec]
  /\ rgDa \in [RgDas -> RgDaRec]

\* A thread that has a solution.
Holds(t) == rgThread[t].pc \in {"check", "post"}

\* The nonces in use were found by a solver, and are in one place each.
RgOwned ==
  /\ \A t \in Threads : Holds(t) => rgThread[t].nonce \in 1..rgSolved
  /\ rgPow.ready => rgPow.nonce \in 1..rgSolved
  /\ \A t, u \in Threads : Holds(t) /\ Holds(u) /\ rgThread[t].nonce = rgThread[u].nonce => t = u
  /\ \A t \in Threads : Holds(t) /\ rgPow.ready => rgThread[t].nonce # rgPow.nonce

\* A thread goes through the authorities in order.
RgAtDa == \A t \in Threads :
  /\ rgThread[t].pc \in {"start", "wait", "inline", "check"} => rgThread[t].da = 1
  /\ rgThread[t].pc = "post" => rgThread[t].da \in RgDas

\* What the authorities have seen: nothing that was not found, nothing a
\* thread will still post to them, nothing in the solution cache.
RgSeenPast ==
  \A d \in RgDas, i \in 1..RgSlots :
    /\ rgDa[d].seen[i].nonce <= rgSolved
    /\ \A t \in Threads : Holds(t) /\ rgDa[d].seen[i].nonce = rgThread[t].nonce
                            => d < rgThread[t].da
    /\ rgPow.ready => rgDa[d].seen[i].nonce # rgPow.nonce

RgNoneRefused == \A d \in RgDas : ~rgDa[d].refused

RgOneSolver == Len(rgSolvers) = IF rgPow.solving THEN 1 ELSE 0

\* The inductive invariant.
RgInv == RgTypeOK /\ RgOwned /\ RgAtDa /\ RgSeenPast /\ RgNoneRefused /\ RgOneSolver

\* The authorities are numbered from 1.
LEMMA RgNumbered == \E n \in Nat \ {0} : RgDas = 1..n
<1>1. Cardinality(RgDas) \in Nat /\ Cardinality(RgDas) # 0
  BY RgAssumption, FS_CardinalityType, FS_EmptySet
<1> QED BY <1>1, RgAssumption

\* The invariant holds when the relay starts.
LEMMA RgInitInv == RgInit => RgInv
<1> SUFFICES ASSUME RgInit PROVE RgInv
  OBVIOUS
<1>0. \E n \in Nat \ {0} : RgDas = 1..n  BY RgNumbered
<1>1. RgTypeOK
  <2>1. rgCfg \in [main : RgCfgRec, relay : RgCfgRec]  BY DEF RgInit, RgCfgRec
  <2>2. rgPow \in RgPowRec  BY DEF RgInit, RgPowRec
  <2>3. rgThread \in [Threads -> RgThreadRec]
    BY DEF RgInit, RgIdle, RgNoDesc, RgDesc, RgThreadRec, Threads
  <2>4. rgDa \in [RgDas -> RgDaRec]
    <3>1. RgUnseen \in RgSlotRec  BY DEF RgUnseen, RgSlotRec
    <3> QED BY <3>1 DEF RgInit, RgDaRec
  <2>5. rgTime \in Nat /\ rgSolvers \in Seq(Nat) /\ rgSolved \in Nat  BY DEF RgInit
  <2> QED BY <2>1, <2>2, <2>3, <2>4, <2>5 DEF RgTypeOK
<1>2. \A t \in Threads : rgThread[t].pc \in {"start", "idle"} /\ rgThread[t].da = 1
  BY DEF RgInit, RgIdle, Threads
<1>3. RgOwned /\ RgAtDa  BY <1>2 DEF RgOwned, RgAtDa, Holds, RgInit
<1>4. /\ \A d \in RgDas : ~rgDa[d].refused
      /\ \A d \in RgDas, i \in 1..RgSlots : rgDa[d].seen[i].nonce = 0
  BY DEF RgInit, RgUnseen
<1>5. RgNoneRefused  BY <1>4 DEF RgNoneRefused
<1>6. rgSolved = 0 /\ rgPow.ready = FALSE  BY DEF RgInit
<1>7. RgSeenPast  BY <1>2, <1>4, <1>6 DEF RgSeenPast, Holds
<1>8. RgOneSolver  BY DEF RgInit, RgOneSolver
<1> QED BY <1>1, <1>3, <1>5, <1>7, <1>8 DEF RgInv

-----------------------------------------------------------------------------
\* A step in which no solution is found, taken, or posted.
RgQuiet ==
  /\ rgDa' = rgDa /\ rgSolved' = rgSolved
  /\ rgPow'.ready => rgPow.ready /\ rgPow'.nonce = rgPow.nonce
  /\ \A t \in Threads : Holds(t)' => /\ Holds(t)
                                     /\ rgThread'[t].nonce = rgThread[t].nonce
                                     /\ rgThread'[t].da = rgThread[t].da

\* It keeps the solutions where they are.
LEMMA RgQuietKeeps ==
  ASSUME RgInv, RgQuiet
  PROVE  RgOwned' /\ RgSeenPast' /\ RgNoneRefused'
<1>1. RgOwned'  BY DEF RgInv, RgQuiet, RgOwned
<1>2. RgSeenPast'  BY DEF RgInv, RgQuiet, RgSeenPast
<1>3. RgNoneRefused'  BY DEF RgInv, RgQuiet, RgNoneRefused
<1> QED BY <1>1, <1>2, <1>3

\* RgStart: the solution cache is looked at and a solver may be started.
LEMMA RgStartInv ==
  ASSUME RgInv, NEW t \in Threads, RgStart(t)
  PROVE  RgInv'
<1>t. /\ rgThread \in [Threads -> RgThreadRec] /\ rgPow \in RgPowRec
      /\ rgSolvers \in Seq(Nat) /\ rgTime \in Nat
  BY DEF RgInv, RgTypeOK
<1>f. /\ rgThread[t].pc = "start"
      /\ rgThread' = [rgThread EXCEPT ![t].pc = "wait"]
      /\ UNCHANGED <<rgTime, rgCfg, rgSolved, rgDa>>
  BY DEF RgStart
<1>1. /\ rgThread' \in [Threads -> RgThreadRec]
      /\ rgThread'[t].pc = "wait" /\ rgThread'[t].da = rgThread[t].da
      /\ \A u \in Threads : u # t => rgThread'[u] = rgThread[u]
  BY <1>t, <1>f DEF RgThreadRec
<1>2. /\ RgTaken \in RgPowRec /\ ~RgTaken.ready
      /\ RgTaken.solving = rgPow.solving
  BY <1>t DEF RgTaken, RgPowRec
<1>3. PICK old \in {rgPow, RgTaken} :
        \/ rgPow' = old /\ UNCHANGED rgSolvers
        \/ /\ ~rgPow.solving
           /\ rgPow' = [old EXCEPT !.failed = FALSE, !.solving = TRUE]
           /\ rgSolvers' = Append(rgSolvers, rgTime)
        \/ /\ rgPow' = [old EXCEPT !.failed = TRUE]
           /\ UNCHANGED rgSolvers
  BY DEF RgStart
<1>4. /\ old \in RgPowRec /\ old.solving = rgPow.solving
      /\ old.ready => rgPow.ready /\ old.nonce = rgPow.nonce
  BY <1>t, <1>2
<1>5. /\ rgPow' \in RgPowRec
      /\ rgPow'.ready => rgPow.ready /\ rgPow'.nonce = rgPow.nonce
  BY <1>3, <1>4 DEF RgPowRec
<1>6. rgSolvers' \in Seq(Nat) /\ RgOneSolver'
  <2>0. Len(rgSolvers) = IF rgPow.solving THEN 1 ELSE 0  BY DEF RgInv, RgOneSolver
  <2>1. CASE rgPow' = old /\ UNCHANGED rgSolvers
    BY <1>t, <1>4, <2>0, <2>1 DEF RgOneSolver
  <2>2. CASE /\ ~rgPow.solving
             /\ rgPow' = [old EXCEPT !.failed = FALSE, !.solving = TRUE]
             /\ rgSolvers' = Append(rgSolvers, rgTime)
    <3>1. rgPow'.solving  BY <1>4, <2>2 DEF RgPowRec
    <3>2. rgSolvers' \in Seq(Nat) /\ Len(rgSolvers') = Len(rgSolvers) + 1  BY <1>t, <2>2
    <3> QED BY <2>0, <2>2, <3>1, <3>2 DEF RgOneSolver
  <2>3. CASE rgPow' = [old EXCEPT !.failed = TRUE] /\ UNCHANGED rgSolvers
    <3>1. rgPow'.solving = rgPow.solving  BY <1>4, <2>3 DEF RgPowRec
    <3> QED BY <1>t, <2>0, <2>3, <3>1 DEF RgOneSolver
  <2> QED BY <1>3, <2>1, <2>2, <2>3
<1>7. RgTypeOK'  BY <1>f, <1>1, <1>5, <1>6 DEF RgInv, RgTypeOK
<1>8. RgQuiet  BY <1>f, <1>1, <1>5 DEF RgQuiet, Holds
<1>9. RgAtDa'  BY <1>f, <1>1 DEF RgInv, RgAtDa
<1> QED BY <1>6, <1>7, <1>8, <1>9, RgQuietKeeps DEF RgInv

\* RgSolveEnds: the solution found is a new one.
LEMMA RgSolveEndsInv ==
  ASSUME RgInv, RgSolveEnds
  PROVE  RgInv'
<1>t. /\ rgPow \in RgPowRec /\ rgSolvers \in Seq(Nat) /\ rgSolved \in Nat
      /\ rgThread \in [Threads -> RgThreadRec] /\ rgDa \in [RgDas -> RgDaRec]
  BY DEF RgInv, RgTypeOK
<1>f. /\ rgSolvers # <<>> /\ rgSolvers' = Tail(rgSolvers)
      /\ UNCHANGED <<rgTime, rgCfg, rgThread, rgDa>>
  BY DEF RgSolveEnds
<1>1. Head(rgSolvers) \in Nat /\ rgSolvers' \in Seq(Nat) /\ Len(rgSolvers') = Len(rgSolvers) - 1
  BY <1>t, <1>f
<1>2. CASE /\ rgSolved' = rgSolved + 1
           /\ rgPow' = [ready |-> TRUE, failed |-> FALSE, solving |-> FALSE,
                        nonce |-> rgSolved + 1, ts |-> Head(rgSolvers)]
  <2>1. /\ rgPow' \in RgPowRec /\ ~rgPow'.solving /\ rgPow'.ready
        /\ rgPow'.nonce = rgSolved + 1
    BY <1>2, <1>1, <1>t DEF RgPowRec
  <2>2. RgTypeOK'  BY <1>f, <1>1, <1>2, <1>t, <2>1 DEF RgInv, RgTypeOK
  <2>3. RgOwned'
    <3>1. RgOwned  BY DEF RgInv
    <3> QED BY <1>f, <1>2, <1>t, <2>1, <3>1 DEF RgOwned, Holds
  <2>4. RgSeenPast'
    <3>1. RgSeenPast  BY DEF RgInv
    <3>2. \A d \in RgDas, i \in 1..RgSlots : rgDa[d].seen[i].nonce \in Nat
      BY <1>t DEF RgDaRec, RgSlotRec
    <3> QED BY <1>f, <1>2, <1>t, <2>1, <3>1, <3>2 DEF RgSeenPast, Holds
  <2>5. RgOneSolver'  BY <1>1, <2>1, <1>t, <1>f DEF RgInv, RgOneSolver
  <2> QED BY <1>f, <2>2, <2>3, <2>4, <2>5 DEF RgInv, RgAtDa, RgNoneRefused
<1>3. CASE /\ rgPow' = [rgPow EXCEPT !.failed = TRUE, !.solving = FALSE]
           /\ UNCHANGED rgSolved
  <2>1. /\ rgPow' \in RgPowRec /\ ~rgPow'.solving /\ (rgPow'.ready <=> rgPow.ready)
        /\ rgPow'.nonce = rgPow.nonce
    BY <1>3, <1>t DEF RgPowRec
  <2>2. RgTypeOK'  BY <1>f, <1>1, <1>3, <2>1 DEF RgInv, RgTypeOK
  <2>3. RgQuiet  BY <1>f, <1>3, <2>1 DEF RgQuiet, Holds
  <2>4. RgOneSolver'  BY <1>1, <2>1, <1>t, <1>f DEF RgInv, RgOneSolver
  <2>5. RgAtDa'  BY <1>f DEF RgInv, RgAtDa
  <2> QED BY <2>2, <2>3, <2>4, <2>5, RgQuietKeeps DEF RgInv
<1> QED BY <1>2, <1>3 DEF RgSolveEnds

\* RgWait: the solution moves from the cache to the thread, or is thrown away.
LEMMA RgWaitInv ==
  ASSUME RgInv, NEW t \in Threads, RgWait(t)
  PROVE  RgInv'
<1>t. /\ rgThread \in [Threads -> RgThreadRec] /\ rgPow \in RgPowRec /\ rgTime \in Nat
      /\ rgSolved \in Nat
  BY DEF RgInv, RgTypeOK
<1>f. /\ rgThread[t].pc = "wait" /\ rgPow' = RgTaken
      /\ UNCHANGED <<rgTime, rgCfg, rgSolvers, rgSolved, rgDa>>
  BY DEF RgWait
<1>1. /\ rgPow' \in RgPowRec /\ ~rgPow'.ready /\ rgPow'.solving = rgPow.solving
  BY <1>t, <1>f DEF RgTaken, RgPowRec
<1>2. RgOneSolver'  BY <1>1, <1>f DEF RgInv, RgOneSolver
<1>3. CASE /\ rgPow.ready
           /\ rgThread' = [rgThread EXCEPT ![t].pc = "check", ![t].nonce = rgPow.nonce,
                                           ![t].ts = rgPow.ts]
  <2>1. /\ rgThread' \in [Threads -> RgThreadRec]
        /\ rgThread'[t].pc = "check" /\ rgThread'[t].da = rgThread[t].da
        /\ rgThread'[t].nonce = rgPow.nonce
        /\ \A u \in Threads : u # t => rgThread'[u] = rgThread[u]
    <3>1. PICK n \in Nat, s \in Nat : n = rgPow.nonce /\ s = rgPow.ts  BY <1>t DEF RgPowRec
    <3> DEFINE r == [rgThread[t] EXCEPT !.pc = "check", !.nonce = n, !.ts = s]
    <3>2. rgThread[t] \in RgThreadRec  BY <1>t
    <3>3. r \in RgThreadRec  BY <3>1, <3>2 DEF RgThreadRec
    <3>4. /\ r.pc = "check" /\ r.nonce = n
          /\ r.da = rgThread[t].da
      BY <3>2 DEF RgThreadRec
    <3>5. rgThread' = [rgThread EXCEPT ![t] = r]  BY <1>t, <1>3, <3>1
    <3> HIDE DEF r
    <3> QED BY <1>t, <3>1, <3>3, <3>4, <3>5
  <2>2. RgTypeOK'  BY <1>f, <1>1, <2>1 DEF RgInv, RgTypeOK
  <2>3. RgOwned'
    <3>1. RgOwned  BY DEF RgInv
    <3> QED BY <1>f, <1>1, <1>3, <2>1, <3>1 DEF RgOwned, Holds
  <2>4. RgAtDa'  BY <1>f, <2>1 DEF RgInv, RgAtDa
  <2>5. RgSeenPast'
    <3>1. RgSeenPast  BY DEF RgInv
    <3> QED BY <1>f, <1>1, <1>3, <2>1, <3>1 DEF RgSeenPast, Holds
  <2> QED BY <1>2, <1>f, <2>2, <2>3, <2>4, <2>5 DEF RgInv, RgNoneRefused
<1>4. CASE rgThread' = [rgThread EXCEPT ![t].pc = "inline", ![t].ts = rgTime]
  <2>1. /\ rgThread' \in [Threads -> RgThreadRec]
        /\ rgThread'[t].pc = "inline" /\ rgThread'[t].da = rgThread[t].da
        /\ \A u \in Threads : u # t => rgThread'[u] = rgThread[u]
    BY <1>t, <1>4 DEF RgThreadRec
  <2>2. RgTypeOK'  BY <1>f, <1>1, <2>1 DEF RgInv, RgTypeOK
  <2>3. RgQuiet  BY <1>f, <1>1, <2>1 DEF RgQuiet, Holds
  <2>4. RgAtDa'  BY <1>f, <2>1 DEF RgInv, RgAtDa
  <2> QED BY <1>2, <2>2, <2>3, <2>4, RgQuietKeeps DEF RgInv
<1> QED BY <1>3, <1>4 DEF RgWait

\* RgInline: the thread finds a new solution itself.
LEMMA RgInlineInv ==
  ASSUME RgInv, NEW t \in Threads, RgInline(t)
  PROVE  RgInv'
<1>t. /\ rgThread \in [Threads -> RgThreadRec] /\ rgSolved \in Nat
      /\ rgDa \in [RgDas -> RgDaRec] /\ rgPow \in RgPowRec
  BY DEF RgInv, RgTypeOK
<1>f. /\ rgThread[t].pc = "inline"
      /\ UNCHANGED <<rgTime, rgCfg, rgPow, rgSolvers, rgDa>>
  BY DEF RgInline
<1>2. RgOneSolver'  BY <1>f DEF RgInv, RgOneSolver
<1>3. CASE /\ rgSolved' = rgSolved + 1
           /\ rgThread' = [rgThread EXCEPT ![t].pc = "check", ![t].nonce = rgSolved + 1]
  <2> DEFINE n == rgSolved + 1
  <2>0. n \in Nat  BY <1>t
  <2> HIDE DEF n
  <2>1. /\ rgThread' \in [Threads -> RgThreadRec]
        /\ rgThread'[t].pc = "check" /\ rgThread'[t].da = rgThread[t].da
        /\ rgThread'[t].nonce = n
        /\ \A u \in Threads : u # t => rgThread'[u] = rgThread[u]
    <3>1. rgThread' = [rgThread EXCEPT ![t].pc = "check", ![t].nonce = n]  BY <1>3 DEF n
    <3> QED BY <1>t, <2>0, <3>1 DEF RgThreadRec
  <2>2. RgTypeOK'  BY <1>f, <1>t, <1>3, <2>1 DEF RgInv, RgTypeOK
  <2>3. RgOwned'
    <3>1. RgOwned  BY DEF RgInv
    <3> QED BY <1>f, <1>t, <1>3, <2>1, <3>1 DEF RgOwned, Holds, n
  <2>4. RgAtDa'  BY <1>f, <2>1 DEF RgInv, RgAtDa
  <2>5. RgSeenPast'
    <3>1. RgSeenPast  BY DEF RgInv
    <3>2. \A d \in RgDas, i \in 1..RgSlots : rgDa[d].seen[i].nonce \in Nat
      BY <1>t DEF RgDaRec, RgSlotRec
    <3> QED BY <1>f, <1>t, <1>3, <2>1, <3>1, <3>2 DEF RgSeenPast, Holds, n
  <2> QED BY <1>2, <1>f, <2>2, <2>3, <2>4, <2>5 DEF RgInv, RgNoneRefused
<1>4. CASE rgThread' = [rgThread EXCEPT ![t].pc = "end"] /\ UNCHANGED rgSolved
  <2>1. /\ rgThread' \in [Threads -> RgThreadRec]
        /\ rgThread'[t].pc = "end"
        /\ \A u \in Threads : u # t => rgThread'[u] = rgThread[u]
    BY <1>t, <1>4 DEF RgThreadRec
  <2>2. RgTypeOK'  BY <1>f, <1>4, <2>1 DEF RgInv, RgTypeOK
  <2>3. RgQuiet  BY <1>f, <1>4, <2>1 DEF RgQuiet, Holds
  <2>4. RgAtDa'  BY <1>f, <2>1 DEF RgInv, RgAtDa
  <2> QED BY <1>2, <2>2, <2>3, <2>4, RgQuietKeeps DEF RgInv
<1> QED BY <1>3, <1>4 DEF RgInline

\* RgCheck: a thread whose solution is not fresh gives it up.
LEMMA RgCheckInv ==
  ASSUME RgInv, NEW t \in Threads, RgCheck(t)
  PROVE  RgInv'
<1>t. rgThread \in [Threads -> RgThreadRec]  BY DEF RgInv, RgTypeOK
<1>f. /\ rgThread[t].pc = "check"
      /\ UNCHANGED <<rgTime, rgCfg, rgPow, rgSolvers, rgSolved, rgDa>>
  BY DEF RgCheck
<1>p. PICK pc \in {"post", "end"} : rgThread' = [rgThread EXCEPT ![t].pc = pc]  BY DEF RgCheck
<1>1. /\ rgThread' \in [Threads -> RgThreadRec]
      /\ rgThread'[t].pc = pc /\ rgThread'[t].da = rgThread[t].da
      /\ rgThread'[t].nonce = rgThread[t].nonce
      /\ \A u \in Threads : u # t => rgThread'[u] = rgThread[u]
  BY <1>t, <1>p DEF RgThreadRec
<1>2. RgTypeOK'  BY <1>f, <1>1 DEF RgInv, RgTypeOK
<1>3. RgQuiet  BY <1>f, <1>1 DEF RgQuiet, Holds
<1>4. 1 \in RgDas  BY RgNumbered
<1>5. RgAtDa'  BY <1>f, <1>1, <1>4 DEF RgInv, RgAtDa
<1>6. RgOneSolver'  BY <1>f DEF RgInv, RgOneSolver
<1> QED BY <1>2, <1>3, <1>5, <1>6, RgQuietKeeps DEF RgInv

-----------------------------------------------------------------------------
\* The slots probed for a nonce are slots of the cache.
LEMMA RgProbedIn ==
  ASSUME NEW n \in Nat \ {0}, NEW k \in 1..RgProbes
  PROVE  RgProbed(n)[k] \in 1..RgSlots
<1>1. RgSlots \in Nat \ {0} /\ RgProbes \in Nat \ {0}  BY RgAssumption
<1>2. PICK x \in Nat : x = n + k - 2  BY <1>1
<1>3. x % RgSlots \in 0..(RgSlots - 1)  BY <1>1, <1>2
<1>4. RgProbed(n)[k] = (x % RgSlots) + 1  BY <1>2 DEF RgProbed
<1> QED BY <1>1, <1>3, <1>4

\* An insertion changes at most one slot, to the nonce inserted.
LEMMA RgInsertAdds ==
  ASSUME NEW seen \in [1..RgSlots -> RgSlotRec], NEW n \in Nat, NEW ts \in Nat, rgTime \in Nat
  PROVE  /\ RgInsert(seen, n, ts) \in [1..RgSlots -> RgSlotRec]
         /\ \A i \in 1..RgSlots : RgInsert(seen, n, ts)[i] = seen[i]
                                 \/ RgInsert(seen, n, ts)[i].nonce = n
<1> DEFINE r == [nonce |-> n, ts |-> ts, at |-> rgTime]
<1>1. r \in RgSlotRec /\ r.nonce = n  BY DEF RgSlotRec
<1> HIDE DEF r
<1>2. \E k : RgInsert(seen, n, ts) = [seen EXCEPT ![k] = r]  BY DEF RgInsert, r
<1>3. PICK k : RgInsert(seen, n, ts) = [seen EXCEPT ![k] = r]  BY <1>2
<1> QED BY <1>1, <1>3

\* RgPost: the authority has not seen the nonce, and has afterwards, when the
\* thread is past it.
LEMMA RgPostInv ==
  ASSUME RgInv, NEW t \in Threads, RgPost(t)
  PROVE  RgInv'
<1>t. /\ rgThread \in [Threads -> RgThreadRec] /\ rgDa \in [RgDas -> RgDaRec]
      /\ rgTime \in Nat /\ rgSolved \in Nat /\ rgPow \in RgPowRec
  BY DEF RgInv, RgTypeOK
<1>f. /\ rgThread[t].pc = "post"
      /\ UNCHANGED <<rgTime, rgCfg, rgPow, rgSolvers, rgSolved>>
  BY DEF RgPost
<1>d. PICK d \in RgDas : d = rgThread[t].da  BY <1>f DEF RgInv, RgAtDa
<1>n. PICK n \in Nat \ {0} : n = rgThread[t].nonce  BY <1>f, <1>t DEF RgInv, RgOwned, Holds
<1>s. PICK ts \in Nat : ts = rgThread[t].ts  BY <1>t DEF RgThreadRec
<1>e. d \in Nat /\ RgDas \subseteq Nat  BY RgNumbered
<1>p. PICK ok \in BOOLEAN, pc \in {"post", "end"} :
        /\ rgThread' = [rgThread EXCEPT ![t].ok = @ \/ ok, ![t].da = @ + 1, ![t].pc = pc]
        /\ pc = "post" => d + 1 \in RgDas
  <2> DEFINE p == IF d + 1 \in RgDas THEN "post" ELSE "end"
  <2>1. p \in {"post", "end"} /\ (p = "post" => d + 1 \in RgDas)  OBVIOUS
  <2>2. PICK o \in {FALSE} \cup {a \in BOOLEAN : TRUE} :
          rgThread' = [rgThread EXCEPT ![t].ok = @ \/ o, ![t].da = @ + 1, ![t].pc = p]
    BY <1>d DEF RgPost
  <2> QED BY <2>1, <2>2
<1>1. /\ rgThread' \in [Threads -> RgThreadRec]
      /\ rgThread'[t].pc = pc /\ rgThread'[t].da = d + 1 /\ rgThread'[t].nonce = n
      /\ \A u \in Threads : u # t => rgThread'[u] = rgThread[u]
  BY <1>t, <1>p, <1>d, <1>n, <1>e DEF RgThreadRec
<1>2. ~RgSeen(rgDa[d].seen, n, ts)
  <2>1. \A i \in 1..RgSlots : rgDa[d].seen[i].nonce # n
    BY <1>d, <1>n, <1>e, <1>f DEF RgInv, RgSeenPast, Holds
  <2> QED BY <2>1, RgProbedIn DEF RgSeen
<1>3. \/ rgDa' = rgDa
      \/ rgDa' = [rgDa EXCEPT ![d].seen = RgInsert(@, n, ts)]
  BY <1>2, <1>d, <1>n, <1>s DEF RgPost, RgPublished
<1>4. /\ rgDa' \in [RgDas -> RgDaRec]
      /\ \A e \in RgDas : rgDa'[e].refused = rgDa[e].refused
      /\ \A e \in RgDas, i \in 1..RgSlots :
           \/ rgDa'[e].seen[i] = rgDa[e].seen[i]
           \/ e = d /\ rgDa'[e].seen[i].nonce = n
  <2>1. CASE rgDa' = rgDa
    BY <1>t, <2>1
  <2>2. CASE rgDa' = [rgDa EXCEPT ![d].seen = RgInsert(@, n, ts)]
    <3> DEFINE s == RgInsert(rgDa[d].seen, n, ts)
    <3>1. rgDa[d].seen \in [1..RgSlots -> RgSlotRec]  BY <1>t DEF RgDaRec
    <3>2. /\ s \in [1..RgSlots -> RgSlotRec]
          /\ \A i \in 1..RgSlots : s[i] = rgDa[d].seen[i] \/ s[i].nonce = n
      BY <3>1, <1>t, RgInsertAdds
    <3>3. rgDa' = [rgDa EXCEPT ![d].seen = s]  BY <2>2
    <3> HIDE DEF s
    <3> QED BY <1>t, <3>2, <3>3 DEF RgDaRec
  <2> QED BY <1>3, <2>1, <2>2
<1>5. RgTypeOK'  BY <1>f, <1>1, <1>4 DEF RgInv, RgTypeOK
<1>6. RgOwned'
  <2>1. RgOwned  BY DEF RgInv
  <2> QED BY <1>f, <1>1, <1>n, <2>1 DEF RgOwned, Holds
<1>7. RgAtDa'  BY <1>1, <1>p DEF RgInv, RgAtDa
<1>8. RgNoneRefused'  BY <1>4 DEF RgInv, RgNoneRefused
<1>9. RgSeenPast'
  <2>0. RgSeenPast /\ RgOwned  BY DEF RgInv
  <2>1. Holds(t) /\ n \in 1..rgSolved  BY <1>f, <1>n, <2>0 DEF Holds, RgOwned
  <2>2. \A u \in Threads : Holds(u)' => Holds(u) /\ rgThread'[u].nonce = rgThread[u].nonce
    BY <1>1, <1>n, <2>1 DEF Holds
  <2>3. \A u \in Threads : u # t => rgThread'[u].da = rgThread[u].da  BY <1>1
  <2> SUFFICES ASSUME NEW e \in RgDas, NEW i \in 1..RgSlots
               PROVE  /\ rgDa'[e].seen[i].nonce <= rgSolved'
                      /\ \A u \in Threads : Holds(u)' /\ rgDa'[e].seen[i].nonce = rgThread'[u].nonce
                                              => e < rgThread'[u].da
                      /\ rgPow'.ready => rgDa'[e].seen[i].nonce # rgPow'.nonce
    BY DEF RgSeenPast
  <2>4. CASE rgDa'[e].seen[i] = rgDa[e].seen[i]
    BY <1>f, <1>1, <1>d, <1>e, <2>0, <2>2, <2>3, <2>4 DEF RgSeenPast
  <2>5. CASE e = d /\ rgDa'[e].seen[i].nonce = n
    <3>1. \A u \in Threads : Holds(u)' /\ rgThread'[u].nonce = n => u = t
      BY <2>0, <2>1, <2>2, <1>n DEF RgOwned
    <3>2. rgPow.ready => rgPow.nonce # n  BY <2>0, <2>1, <1>n DEF RgOwned
    <3> QED BY <1>f, <1>1, <1>e, <2>1, <2>5, <3>1, <3>2
  <2> QED BY <1>4, <2>4, <2>5
<1>10. RgOneSolver'  BY <1>f DEF RgInv, RgOneSolver
<1> QED BY <1>5, <1>6, <1>7, <1>8, <1>9, <1>10 DEF RgInv

-----------------------------------------------------------------------------
\* A step of one thread that has no solution before or after it.
LEMMA RgThreadInv ==
  ASSUME RgInv, NEW t \in Threads, NEW r \in RgThreadRec,
         rgThread' = [rgThread EXCEPT ![t] = r],
         r.pc \in {"idle", "start", "end", "fetch", "done"},
         r.pc = "start" => r.da = 1,
         UNCHANGED <<rgTime, rgPow, rgSolvers, rgSolved, rgDa>>,
         rgCfg' \in [main : RgCfgRec, relay : RgCfgRec]
  PROVE  RgInv'
<1>1. /\ rgThread' \in [Threads -> RgThreadRec] /\ rgThread'[t] = r
      /\ \A u \in Threads : u # t => rgThread'[u] = rgThread[u]
  BY DEF RgInv, RgTypeOK
<1>2. RgTypeOK'  BY <1>1 DEF RgInv, RgTypeOK
<1>3. RgQuiet  BY <1>1 DEF RgQuiet, Holds
<1>4. RgAtDa'  BY <1>1 DEF RgInv, RgAtDa
<1>5. RgOneSolver'  BY DEF RgInv, RgOneSolver
<1> QED BY <1>2, <1>3, <1>4, <1>5, RgQuietKeeps DEF RgInv

\* A step of the timers that starts no thread.
LEMMA RgTimerInv ==
  ASSUME RgInv, UNCHANGED <<rgPow, rgSolvers, rgSolved, rgThread, rgDa>>,
         rgCfg' \in [main : RgCfgRec, relay : RgCfgRec], rgTime' \in Nat
  PROVE  RgInv'
<1>1. RgTypeOK'  BY DEF RgInv, RgTypeOK
<1>2. RgQuiet  BY DEF RgQuiet, Holds
<1>3. RgAtDa' /\ RgOneSolver'  BY DEF RgInv, RgAtDa, RgOneSolver
<1> QED BY <1>1, <1>2, <1>3, RgQuietKeeps DEF RgInv

\* moor_relay_register makes its descriptor from a configuration.
LEMMA RgCallType ==
  ASSUME RgTypeOK, NEW j \in {"again", "reload", "retry"}, NEW c \in {"main"}
  PROVE  \E r \in RgThreadRec : r = RgCall(j, c) /\ r.pc = "start" /\ r.da = 1
<1> DEFINE made == [bw |-> rgCfg["main"].bw, key |-> rgCfg["main"].key]
<1>1. made \in RgDesc  BY DEF RgTypeOK, RgCfgRec, RgDesc
<1>2. RgCall(j, c) = [RgIdle EXCEPT !.job = j, !.pc = "start", !.desc = made]  BY DEF RgCall
<1> HIDE DEF made
<1>3. /\ [RgIdle EXCEPT !.job = j, !.pc = "start", !.desc = made] \in RgThreadRec
      /\ [RgIdle EXCEPT !.job = j, !.pc = "start", !.desc = made].pc = "start"
      /\ [RgIdle EXCEPT !.job = j, !.pc = "start", !.desc = made].da = 1
  BY <1>1 DEF RgIdle, RgNoDesc, RgThreadRec, RgDesc
<1> QED BY <1>2, <1>3

\* RgReturn, RgFetch and RgDone: a thread drops its solution.
LEMMA RgThreadEndsInv ==
  ASSUME RgInv, NEW t \in Threads, RgReturn(t) \/ RgFetch(t) \/ RgDone(t)
  PROVE  RgInv'
<1>t. RgTypeOK /\ rgThread[t] \in RgThreadRec  BY DEF RgInv, RgTypeOK
<1>c. rgCfg' = rgCfg /\ rgCfg' \in [main : RgCfgRec, relay : RgCfgRec]
      /\ UNCHANGED <<rgTime, rgPow, rgSolvers, rgSolved, rgDa>>
  BY <1>t DEF RgReturn, RgFetch, RgDone, RgTypeOK
<1>0. RgNoDesc \in RgDesc  BY DEF RgNoDesc, RgDesc
<1>i. RgIdle \in RgThreadRec /\ RgIdle.pc = "idle"  BY DEF RgIdle, RgNoDesc, RgThreadRec, RgDesc
<1>1. CASE RgReturn(t)
  <2>1. PICK job \in {"none", "boot", "periodic", "retry", "again", "reload"} : job = rgThread[t].job
    BY <1>t DEF RgThreadRec
  <2>2. /\ [RgIdle EXCEPT !.job = "periodic", !.pc = "fetch"] \in RgThreadRec
        /\ [RgIdle EXCEPT !.job = "periodic", !.pc = "fetch"].pc = "fetch"
        /\ [RgIdle EXCEPT !.job = job, !.pc = "done"] \in RgThreadRec
        /\ [RgIdle EXCEPT !.job = job, !.pc = "done"].pc = "done"
    BY <1>i DEF RgThreadRec
  <2>3. \E r \in {RgIdle, [RgIdle EXCEPT !.job = "periodic", !.pc = "fetch"],
                   [RgIdle EXCEPT !.job = job, !.pc = "done"]} :
          rgThread' = [rgThread EXCEPT ![t] = r]
    <3>1. CASE t = "main"
      <4>1. rgThread' = [rgThread EXCEPT ![t] = RgIdle]  BY <1>1, <3>1 DEF RgReturn
      <4> QED BY <4>1
    <3>2. CASE t # "main" /\ job = "periodic"
      BY <1>1, <2>1, <3>2 DEF RgReturn
    <3>3. CASE t # "main" /\ job # "periodic"
      BY <1>1, <2>1, <3>3 DEF RgReturn
    <3> QED BY <3>1, <3>2, <3>3
  <2>4. PICK r \in RgThreadRec : /\ rgThread' = [rgThread EXCEPT ![t] = r]
                                  /\ r.pc \in {"idle", "fetch", "done"}
    BY <2>2, <2>3, <1>i
  <2> QED BY <2>4, <1>c, RgThreadInv
<1>2. CASE RgFetch(t)
  <2>1. CASE rgThread' = [rgThread EXCEPT ![t].pc = "done"]
    <3> DEFINE r == [rgThread[t] EXCEPT !.pc = "done"]
    <3>1. r \in RgThreadRec /\ r.pc = "done"  BY <1>t DEF RgThreadRec
    <3>2. rgThread' = [rgThread EXCEPT ![t] = r]  BY <2>1
    <3> HIDE DEF r
    <3> QED BY <3>1, <3>2, <1>c, RgThreadInv
  <2>2. CASE rgThread' = [rgThread EXCEPT ![t] = RgCall("retry", "main")]
    <3>1. PICK r \in RgThreadRec : r = RgCall("retry", "main") /\ r.pc = "start" /\ r.da = 1
      BY <1>t, RgCallType
    <3> QED BY <2>2, <3>1, <1>c, RgThreadInv
  <2> QED BY <1>2, <2>1, <2>2 DEF RgFetch
<1>3. CASE RgDone(t)
  BY <1>3, <1>c, <1>i, RgThreadInv DEF RgDone
<1> QED BY <1>1, <1>2, <1>3

\* The callbacks of the event loop start threads that have no solution.
LEMMA RgSpawnInv ==
  ASSUME RgInv, NEW j, NEW r \in RgThreadRec, RgSpawn(j, r),
         r.pc \in {"start", "fetch"}, r.pc = "start" => r.da = 1,
         UNCHANGED <<rgTime, rgPow, rgSolvers, rgSolved, rgDa>>,
         rgCfg' \in [main : RgCfgRec, relay : RgCfgRec]
  PROVE  RgInv'
<1>1. CASE UNCHANGED rgThread
  <2>1. rgTime' \in Nat  BY DEF RgInv, RgTypeOK
  <2> QED BY <1>1, <2>1, RgTimerInv
<1>2. CASE \E t \in RgFreeThreads : rgThread' = [rgThread EXCEPT ![t] = r]
  <2>1. PICK t \in Threads : rgThread' = [rgThread EXCEPT ![t] = r]
    BY <1>2 DEF RgFreeThreads, Threads
  <2> QED BY <2>1, RgThreadInv
<1> QED BY <1>1, <1>2 DEF RgSpawn

\* A step of the periodic thread.
LEMMA RgPeriodicInv ==
  ASSUME RgInv, RgPeriodicCb
  PROVE  RgInv'
<1>t. /\ rgCfg \in [main : RgCfgRec, relay : RgCfgRec] /\ rgTime \in Nat  BY DEF RgInv, RgTypeOK
<1>u. UNCHANGED <<rgTime, rgPow, rgSolvers, rgSolved, rgDa>>  BY DEF RgPeriodicCb
<1> DEFINE due == rgCfg.relay.at # 0 /\ rgTime - rgCfg.relay.at >= RgKeyLife
           rotated == IF due THEN [rgCfg.relay EXCEPT !.key = @ + 1, !.at = rgTime]
                      ELSE [rgCfg.relay EXCEPT !.at = IF @ = 0 THEN rgTime ELSE @]
           main == IF rgTest = "done" THEN [rgCfg.main EXCEPT !.bw = 2] ELSE rgCfg.main
           first == [RgIdle EXCEPT !.job = "periodic", !.pc = "start",
                                   !.desc = [bw |-> rotated.bw, key |-> rotated.key]]
<1>1. /\ rgCfg' = [main |-> main, relay |-> rotated]
      /\ \/ UNCHANGED rgThread
         \/ RgSpawn("periodic", first)
  BY DEF RgPeriodicCb
<1>2. rotated \in RgCfgRec
  <2>1. rgCfg.relay \in RgCfgRec  BY <1>t
  <2>2. CASE due
    <3>1. PICK k \in Nat : k = rgCfg.relay.key + 1  BY <2>1 DEF RgCfgRec
    <3>2. rotated = [rgCfg.relay EXCEPT !.key = k, !.at = rgTime]  BY <2>2, <3>1
    <3> QED BY <1>t, <2>1, <3>1, <3>2 DEF RgCfgRec
  <2>3. CASE ~due
    BY <1>t, <2>1, <2>3 DEF RgCfgRec
  <2> QED BY <2>2, <2>3
<1>3. main \in RgCfgRec
  <2>1. rgCfg.main \in RgCfgRec  BY <1>t
  <2> QED BY <2>1 DEF RgCfgRec
<1> HIDE DEF rotated, main, due
<1>4. rgCfg' \in [main : RgCfgRec, relay : RgCfgRec]  BY <1>1, <1>2, <1>3
<1>5. first \in RgThreadRec /\ first.pc = "start" /\ first.da = 1
  BY <1>2 DEF RgIdle, RgNoDesc, RgThreadRec, RgDesc, RgCfgRec
<1> HIDE DEF first
<1>6. CASE UNCHANGED rgThread
  BY <1>t, <1>u, <1>4, <1>6, RgTimerInv
<1>7. CASE RgSpawn("periodic", first)
  BY <1>u, <1>4, <1>5, <1>7, RgSpawnInv
<1> QED BY <1>1, <1>6, <1>7

\* The other callbacks of the main thread.
LEMMA RgOtherCbInv ==
  ASSUME RgInv, RgRetryCb \/ RgRegRetryCb \/ RgReload \/ RgSelfTest \/ RgTick
  PROVE  RgInv'
<1>t. /\ rgCfg \in [main : RgCfgRec, relay : RgCfgRec] /\ rgTime \in Nat /\ RgTypeOK
      /\ "main" \in Threads
  BY DEF RgInv, RgTypeOK, Threads
<1>u. /\ UNCHANGED <<rgPow, rgSolvers, rgSolved, rgDa>> /\ rgTime' \in Nat
      /\ rgCfg' \in [main : RgCfgRec, relay : RgCfgRec]
  BY <1>t DEF RgRetryCb, RgRegRetryCb, RgReload, RgSelfTest, RgTick
<1>1. CASE RgRetryCb
  <2> DEFINE first == [RgIdle EXCEPT !.job = "retry", !.pc = "fetch"]
  <2>1. first \in RgThreadRec /\ first.pc = "fetch"
    BY DEF RgIdle, RgNoDesc, RgThreadRec, RgDesc
  <2>2. UNCHANGED rgTime /\ (UNCHANGED rgThread \/ RgSpawn("retry", first))
    BY <1>1 DEF RgRetryCb
  <2> HIDE DEF first
  <2>3. CASE UNCHANGED rgThread
    BY <1>u, <2>3, RgTimerInv
  <2>4. CASE RgSpawn("retry", first)
    BY <1>u, <2>1, <2>2, <2>4, RgSpawnInv
  <2> QED BY <2>2, <2>3, <2>4
<1>2. CASE RgRegRetryCb
  <2>1. UNCHANGED rgTime /\ (UNCHANGED rgThread
                            \/ rgThread' = [rgThread EXCEPT !["main"] = RgCall("again", "main")])
    BY <1>2 DEF RgRegRetryCb
  <2>2. CASE UNCHANGED rgThread
    BY <1>u, <2>2, RgTimerInv
  <2>3. CASE rgThread' = [rgThread EXCEPT !["main"] = RgCall("again", "main")]
    <3>1. PICK r \in RgThreadRec : r = RgCall("again", "main") /\ r.pc = "start" /\ r.da = 1
      BY <1>t, RgCallType
    <3> QED BY <1>t, <1>u, <2>1, <2>3, <3>1, RgThreadInv
  <2> QED BY <2>1, <2>2, <2>3
<1>3. CASE RgReload
  <2>1. UNCHANGED rgTime /\ rgThread' = [rgThread EXCEPT !["main"] = RgCall("reload", "main")]
    BY <1>3 DEF RgReload
  <2>2. PICK r \in RgThreadRec : r = RgCall("reload", "main") /\ r.pc = "start" /\ r.da = 1
    BY <1>t, RgCallType
  <2> QED BY <1>t, <1>u, <2>1, <2>2, RgThreadInv
<1>4. CASE RgSelfTest \/ RgTick
  BY <1>u, <1>4, RgTimerInv DEF RgSelfTest, RgTick
<1> QED BY <1>1, <1>2, <1>3, <1>4

-----------------------------------------------------------------------------
\* Every step keeps the invariant.
LEMMA RgNextInv == RgInv /\ [RgNext]_rgVars => RgInv'
<1> SUFFICES ASSUME RgInv, [RgNext]_rgVars PROVE RgInv'
  OBVIOUS
<1>1. ASSUME NEW t \in Threads,
             \/ RgStart(t) \/ RgWait(t) \/ RgInline(t) \/ RgCheck(t) \/ RgPost(t)
             \/ RgReturn(t) \/ RgFetch(t) \/ RgDone(t)
      PROVE  RgInv'
  BY <1>1, RgStartInv, RgWaitInv, RgInlineInv, RgCheckInv, RgPostInv, RgThreadEndsInv
<1>2. CASE RgSolveEnds
  BY <1>2, RgSolveEndsInv
<1>3. CASE RgPeriodicCb
  BY <1>3, RgPeriodicInv
<1>4. CASE RgRetryCb \/ RgRegRetryCb \/ RgReload \/ RgSelfTest \/ RgTick
  BY <1>4, RgOtherCbInv
<1>5. CASE UNCHANGED rgVars
  <2>1. rgTime' \in Nat /\ rgCfg' \in [main : RgCfgRec, relay : RgCfgRec]
    BY <1>5 DEF rgVars, RgInv, RgTypeOK
  <2> QED BY <1>5, <2>1, RgTimerInv DEF rgVars
<1> QED BY <1>1, <1>2, <1>3, <1>4, <1>5 DEF RgNext, Threads

\* The invariant says what RgOneShot does.
LEMMA RgInvOneShot == RgInv => RgOneShot
<1> SUFFICES ASSUME RgInv PROVE RgOneShot
  OBVIOUS
<1>1. \A t \in RgHeld : t \in Threads /\ Holds(t)  BY DEF RgHeld, Threads, Holds
<1> QED BY <1>1 DEF RgInv, RgOwned, RgNoneRefused, RgOneSolver, RgOneShot

\* However many threads register at a time and whatever authorities they
\* reach, a proof-of-work solution is spent by one registration, so no
\* authority takes a registration for a replay, and one solver runs exactly
\* when the cache says so (relay.c, moor_relay_pow_solve_start,
\* pow_cache_wait; pow.c, nonce_cache_check_and_insert).
THEOREM RegistrationOneShot == RgSpec => []RgOneShot
<1>1. RgInit => RgInv  BY RgInitInv
<1>2. RgInv /\ [RgNext]_rgVars => RgInv'  BY RgNextInv
<1>3. RgInv => RgOneShot  BY RgInvOneShot
<1> QED BY <1>1, <1>2, <1>3, PTL DEF RgSpec
-----------------------------------------------------------------------------
(* Transports.  The handshakes are followed by position: how many steps of  *)
(* its script a side has done, and how many of those sent, received, sealed *)
(* or opened a message.                                                     *)

TrScr(x) == TrScript(trKind.kind, x)
TrPos(x) == Len(TrScr(x)) - Len(trHs[x].todo)

\* The number of the first p steps of S whose verb is in V; no script has
\* more than nine steps.
TrDid(S, V, p, i) == IF i <= p /\ S[i][1] \in V THEN 1 ELSE 0
TrCount(S, V, p) ==
    TrDid(S, V, p, 1) + TrDid(S, V, p, 2) + TrDid(S, V, p, 3)
      + TrDid(S, V, p, 4) + TrDid(S, V, p, 5) + TrDid(S, V, p, 6)
      + TrDid(S, V, p, 7) + TrDid(S, V, p, 8) + TrDid(S, V, p, 9)

TrSends(S, p) == TrCount(S, {"send", "seal"}, p)
TrRecvs(S, p) == TrCount(S, {"recv", "open"}, p)

\* The messages a side sends in the handshake.
TrMail(k, x) ==
    CASE k = "scramble"  -> IF x = "client" THEN <<"hello">> ELSE <<"reply">>
      [] k = "shade"     -> <<"repr">>
      [] k = "mirage"    -> IF x = "client" THEN <<"ClientHello">>
                            ELSE <<"ServerHello", "ChangeCipherSpec", "filler", "marker">>
      [] k = "speakeasy" -> IF x = "client" THEN <<"version", "KEXINIT", "ECDH_INIT", "NEWKEYS">>
                            ELSE <<"version", "KEXINIT", "ECDH_REPLY", "NEWKEYS">>
      [] k = "nether"    -> IF x = "client" THEN <<"handshake", "login start", "plugin key">>
                            ELSE <<"login success", "login finished", "plugin key">>
      [] k = "shitstorm" -> IF x = "client" THEN <<"ClientHello", "Finished">>
                            ELSE <<"ServerHello", "ChangeCipherSpec", "filler", "ticket", "ticket">>
      [] k = "raw"       -> <<>>

\* The nonce under which message i of side x is sealed, and the one it has
\* when only the nonces of the sending side are counted.
TrSealNonce(k, x, i) == IF k = "shitstorm" /\ x = "server" /\ i = 5 THEN 1 ELSE 0
TrMailNonce(k, x, i) == IF x = trKind.dir THEN TrSealNonce(k, x, i) ELSE 0

\* How many messages of its handshake side x seals.
TrSealed(k, x) == IF k = "shitstorm" THEN IF x = "client" THEN 1 ELSE 2 ELSE 0

\* The nonces that the handshake of a session s uses up.
TrBase(s) == TrSealed(s.kind, s.dir)

\* The keys that side x derives, and whether the bridge's static key is in.
TrOwnKeys(x) == TrDerive(trKind.kind, x, x = "client" => trKind.knows)

\* What a step <<v, m>> of side x says of the messages between the sides,
\* after a of its own and b of the other's, c and d of them sealed.
TrStepIs(k, x, v, m, a, b, c, d) ==
    /\ v \in {"send", "seal", "recv", "open", "keys", "know"}
    /\ v = "know" => x = "server"
    /\ v \in {"send", "seal"} => m = TrMail(k, x)[a + 1]
    /\ v \in {"recv", "open"} => m = TrMail(k, TrPeer(x))[b + 1]
    /\ v = "send" => TrSealNonce(k, x, a + 1) = 0
    /\ v = "seal" => TrSealNonce(k, x, a + 1) = c
    /\ v = "open" => TrSealNonce(k, TrPeer(x), b + 1) = d

TrStepOk(k, x, S, p) ==
    TrStepIs(k, x, S[p + 1][1], S[p + 1][2], TrSends(S, p), TrRecvs(S, p),
             TrCount(S, {"seal"}, p), TrCount(S, {"open"}, p))

\* What all n steps of it come to.
TrEndOk(k, x, S, n) ==
    /\ TrCount(S, {"keys"}, n) = 1
    /\ k \in {"mirage", "shitstorm"} /\ x = "server" => TrCount(S, {"know"}, n) = 1
    /\ TrCount(S, {"seal"}, n) = TrSealed(k, x)
    /\ TrCount(S, {"open"}, n) = TrSealed(k, TrPeer(x))

\* Whoever is about to open a message that the other side, q of m steps on
\* in its script T, has sealed: both have their keys, and the client knew
\* the bridge.
TrOpenOk(x, S, p, T, q) ==
    S[p + 1][1] = "open" /\ TrSends(T, q) > TrRecvs(S, p) =>
      /\ TrCount(S, {"keys"}, p) = 1 /\ TrCount(T, {"keys"}, q) = 1
      /\ IF x = "server" THEN TrCount(S, {"know"}, p) = 1 ELSE TrCount(T, {"know"}, q) = 1

\* The steps of a script, and the messages that it sends.
TrStepsOf(S) == {S[i] : i \in 1..9}
TrMsgs(S) == [name : {S[i][2] : i \in 1..9}, nonce : 0..1]

TrType ==
    /\ trKind \in [kind : TrKinds \cup {"raw"}, dir : TrSides, knows : BOOLEAN]
    /\ DOMAIN trHs = TrSides
    /\ \A x \in TrSides :
         /\ trHs[x] = [todo |-> trHs[x].todo, inbox |-> trHs[x].inbox, ended |-> trHs[x].ended]
         /\ trHs[x].ended \in {"", "done", "failed"}
         /\ trHs[x].inbox \in Seq(TrMsgs(TrScr(TrPeer(x))))
         /\ trHs[x].todo \in Seq(TrStepsOf(TrScr(x)))
    /\ DOMAIN trKeys = TrSides
    /\ trBudget \in [cells : 0..TrMaxCells, faults : 0..TrMaxFaults]

\* How far side x is in its script.
TrProgress(x) ==
    /\ TrPos(x) \in 0..Len(TrScr(x))
    /\ \A i \in 1..Len(trHs[x].todo) : trHs[x].todo[i] = TrScr(x)[TrPos(x) + i]
    /\ trHs[x].ended = "done" <=> TrPos(x) = Len(TrScr(x))
    /\ trHs[x].ended = "failed" => ~trKind.knows \/ trBudget.faults < TrMaxFaults

\* What is on its way to side x: message j of the other side.
TrLetter(x, j) == [name |-> TrMail(trKind.kind, TrPeer(x))[j],
                   nonce |-> TrMailNonce(trKind.kind, TrPeer(x), j)]
TrInTransit(x) ==
    /\ Len(trHs[x].inbox) = TrSends(TrScr(TrPeer(x)), TrPos(TrPeer(x))) - TrRecvs(TrScr(x), TrPos(x))
    /\ \A i \in 1..Len(trHs[x].inbox) :
         trHs[x].inbox[i] = TrLetter(x, TrRecvs(TrScr(x), TrPos(x)) + i)

\* What the steps behind side x have established.
TrKeyed(x) ==
    /\ TrCount(TrScr(x), {"keys"}, TrPos(x)) = 1 => trKeys[x] = TrOwnKeys(x)
    /\ TrCount(TrScr(x), {"know"}, TrPos(x)) = 1 => trKind.knows
    /\ trKind.kind = "raw" => trKeys[x] = TrOwnKeys(x)

TrHsInv == \A x \in TrSides : TrProgress(x) /\ TrInTransit(x) /\ TrKeyed(x)

TrSent == TrMaxCells - trBudget.cells

\* The epoch of record n in a session s, and that of a side that has done n
\* records.
TrEp(s, n) == IF s.kind = "shitstorm" THEN (n - 1) \div TrRekey ELSE 0
TrEpAfter(s, n) == IF n = 0 THEN 0 ELSE TrEp(s, n)

\* The record of cell c, and the piece number j of all that are sent.
TrRec(s, c) == [cell |-> c, nonce |-> TrBase(s) + c - 1, epoch |-> TrEp(s, c)]
TrPiece(s, j) == [part |-> IF j % 2 = 1 THEN 1 ELSE 2, rec |-> TrRec(s, (j + 1) \div 2)]
TrAllPieces(s) == {TrPiece(s, j) : j \in 1..(2 * TrMaxCells)}

TrOutInv ==
    /\ trOut \in [nonce : Nat, epoch : Nat, records : Nat, open : BOOLEAN]
    /\ trHs[trKind.dir].ended # "done" =>
         /\ trOut.open /\ TrSent = 0
         /\ trOut.nonce = TrCount(TrScr(trKind.dir), {"seal"}, TrPos(trKind.dir))
    /\ trHs[trKind.dir].ended = "done" /\ trOut.open => trOut.nonce = TrBase(trKind) + TrSent
    /\ trOut.open => trOut.records = TrSent /\ trOut.epoch = TrEpAfter(trKind, TrSent) /\ ~trNet.eof

\* The pieces that are on their way: after r records the receiver holds buf,
\* has k in its kernel, and f is in flight; whether the sender has closed and
\* whether it goes on, after n cells.
TrOnWay(s, r, buf, k, f) ==
    /\ \A j \in 1..Len(buf) : buf[j] = TrPiece(s, 2 * r + j)
    /\ \A j \in 1..Len(k) : k[j] = TrPiece(s, 2 * r + Len(buf) + j)
    /\ \A j \in 1..Len(f) : f[j] = TrPiece(s, 2 * r + Len(buf) + Len(k) + j)
TrTrack(s, r, buf, epoch, k, f, eof, open, n) ==
    /\ TrOnWay(s, r, buf, k, f)
    /\ open => 2 * r + Len(buf) + Len(k) + Len(f) = 2 * n
    /\ s.kind = "shitstorm" => Len(buf) < 2
    /\ buf # <<>> => epoch = TrEp(s, r + 1)
    /\ buf = <<>> /\ ~(eof /\ k = <<>> /\ f = <<>>) => epoch = TrEpAfter(s, r)

TrInType(s) == [nonce : Nat, epoch : Nat, records : Nat, open : BOOLEAN, buf : Seq(TrAllPieces(s)),
                got : Nat, failed : BOOLEAN, timedOut : BOOLEAN]

\* The receiving side: i is its state, k what is in its kernel, and o the
\* messages that it opened in the handshake.
TrInOk(i, k, o) ==
    /\ i \in TrInType(trKind)
    /\ k \in Seq(TrAllPieces(trKind))
    /\ i.nonce = o + i.records
    /\ i.got = i.records
    /\ i.failed => i.timedOut
    /\ ~i.timedOut => TrTrack(trKind, i.records, i.buf, i.epoch, k, trNet.flight, trNet.eof,
                              trOut.open, TrSent)

TrOpened == TrCount(TrScr(TrPeer(trKind.dir)), {"open"}, TrPos(TrPeer(trKind.dir)))

TrInInv ==
    /\ TrInOk(trIn, trNet.kernel, TrOpened)
    /\ trNet = [flight |-> trNet.flight, kernel |-> trNet.kernel, eof |-> trNet.eof]
    /\ trNet.eof \in BOOLEAN
    /\ trNet.flight \in Seq(TrAllPieces(trKind))
    /\ trHs[trKind.dir].ended # "done" =>
         trNet.flight = <<>> /\ trNet.kernel = <<>> /\ trIn.buf = <<>> /\ ~trNet.eof
    /\ trHs[TrPeer(trKind.dir)].ended # "done" => trIn.records = 0 /\ trIn.buf = <<>>

TrInv == TrType /\ TrHsInv /\ TrOutInv /\ TrInInv

-----------------------------------------------------------------------------

\* A count that goes from n to n + 1 goes to the next quotient exactly when n + 1
\* is a multiple.
LEMMA TrDivStep ==
  ASSUME NEW d \in Nat \ {0}, NEW n \in Nat \ {0}
  PROVE  n \div d = (n - 1) \div d + (IF n % d = 0 THEN 1 ELSE 0)
OBVIOUS

\* One more step of a script counts once, if it is of the kind counted.
LEMMA TrCountStep ==
  ASSUME NEW S, NEW V, NEW p \in 0..8
  PROVE  TrCount(S, V, p + 1) = TrCount(S, V, p) + (IF S[p + 1][1] \in V THEN 1 ELSE 0)
<1>1. \A i \in 1..9 : TrDid(S, V, p + 1, i) \in {0, 1} /\ TrDid(S, V, p, i) \in {0, 1}
  BY DEF TrDid
<1>2. \A i \in 1..9 : i # p + 1 => TrDid(S, V, p + 1, i) = TrDid(S, V, p, i)  BY DEF TrDid
<1>3. TrDid(S, V, p, p + 1) = 0 /\ TrDid(S, V, p + 1, p + 1) = IF S[p + 1][1] \in V THEN 1 ELSE 0
  BY DEF TrDid
<1>4. p \in {0, 1, 2, 3, 4, 5, 6, 7, 8}  OBVIOUS
<1> QED BY <1>1, <1>2, <1>3, <1>4 DEF TrCount

\* A count is at most nine, the length of the longest script.
LEMMA TrCountNat ==
  ASSUME NEW S, NEW V, NEW p
  PROVE  TrCount(S, V, p) \in 0..9
<1>1. \A i \in 1..9 : TrDid(S, V, p, i) \in {0, 1}  BY DEF TrDid
<1> QED BY <1>1 DEF TrCount

\* Before its first step a script has done nothing.
LEMMA TrCountNone ==
  ASSUME NEW S, NEW V
  PROVE  TrCount(S, V, 0) = 0
<1>1. \A i \in 1..9 : TrDid(S, V, 0, i) = 0  BY DEF TrDid
<1> QED BY <1>1 DEF TrCount

-----------------------------------------------------------------------------
(* What each script does, step by step.                                     *)

\* c[p + 1] counts the steps with a verb in V among the first p.
TrTally(S, V, c, n) == \A p \in 0..n : TrCount(S, V, p) = c[p + 1]

TrTallied(S, V, c, n) ==
    /\ n \in 0..9 /\ c[1] = 0
    /\ \A p \in 0..(n - 1) : c[p + 2] = c[p + 1] + (IF S[p + 1][1] \in V THEN 1 ELSE 0)

\* A table whose entries grow by one at each step counted counts the steps.
LEMMA TrTallyIs ==
  ASSUME NEW S, NEW V, NEW c, NEW n, TrTallied(S, V, c, n)
  PROVE  TrTally(S, V, c, n)
<1> USE DEF TrTallied
<1> SUFFICES ASSUME NEW q \in 0..n PROVE TrCount(S, V, q) = c[q + 1]
  BY DEF TrTally
<1> DEFINE P == {k \in Nat : k <= q => TrCount(S, V, k) = c[k + 1]}
<1>0. q \in Nat  OBVIOUS
<1>1. 0 \in P  BY TrCountNone
<1>2. ASSUME NEW k \in 0..(q - 1), k \in P PROVE k + 1 \in P
  <2>1. TrCount(S, V, k + 1) = TrCount(S, V, k) + (IF S[k + 1][1] \in V THEN 1 ELSE 0)
    <3>1. k \in 0..8  BY <1>0
    <3> QED BY <3>1, TrCountStep
  <2>2. TrCount(S, V, k) = c[k + 1] /\ k \in 0..(n - 1) /\ (k + 1) + 1 = k + 2  BY <1>2
  <2> QED BY <2>1, <2>2
<1> HIDE DEF P
<1>3. q \in P  BY <1>0, <1>1, <1>2, UpTo DEF P
<1> QED BY <1>3 DEF P

\* The tables of a script: steps that send, receive, seal, open, derive and
\* know.
TrTables(S, n, sends, recvs, seals, opens, keys, knows) ==
    /\ TrTally(S, {"send", "seal"}, sends, n) /\ TrTally(S, {"recv", "open"}, recvs, n)
    /\ TrTally(S, {"seal"}, seals, n) /\ TrTally(S, {"open"}, opens, n)
    /\ TrTally(S, {"keys"}, keys, n) /\ TrTally(S, {"know"}, knows, n)

\* What the first p steps of a script come to.
TrRow(S, p, a, b, c, d) ==
    /\ TrSends(S, p) = a /\ TrRecvs(S, p) = b
    /\ TrCount(S, {"seal"}, p) = c /\ TrCount(S, {"open"}, p) = d

\* Successors, for the positions of a script.
LEMMA TrOnes ==
  /\ 0 + 1 = 1 /\ 1 + 1 = 2 /\ 2 + 1 = 3 /\ 3 + 1 = 4 /\ 4 + 1 = 5
  /\ 5 + 1 = 6 /\ 6 + 1 = 7 /\ 7 + 1 = 8 /\ 8 + 1 = 9
OBVIOUS

\* A script of three steps as a sequence of its steps.
LEMMA TrTuple3 ==
  ASSUME NEW a, NEW b, NEW c, NEW S, S = <<a, b, c>>
  PROVE  S \in Seq(TrStepsOf(S)) /\ Len(S) = 3
<1>1. PICK X : X = TrStepsOf(S)  OBVIOUS
<1>2. /\ S[1] = a /\ S[2] = b /\ S[3] = c  OBVIOUS
<1>3. \A i \in 1..9 : S[i] \in X  BY <1>1 DEF TrStepsOf
<1>4. /\ a \in X /\ b \in X /\ c \in X  BY <1>2, <1>3
<1>5. S \in Seq(X) /\ Len(S) = 3  BY <1>4
<1> QED BY <1>1, <1>5

\* A script of four steps as a sequence of its steps.
LEMMA TrTuple4 ==
  ASSUME NEW a, NEW b, NEW c, NEW d, NEW S, S = <<a, b, c, d>>
  PROVE  S \in Seq(TrStepsOf(S)) /\ Len(S) = 4
<1>1. PICK X : X = TrStepsOf(S)  OBVIOUS
<1>2. /\ S[1] = a /\ S[2] = b /\ S[3] = c /\ S[4] = d  OBVIOUS
<1>3. \A i \in 1..9 : S[i] \in X  BY <1>1 DEF TrStepsOf
<1>4. /\ a \in X /\ b \in X /\ c \in X /\ d \in X  BY <1>2, <1>3
<1>5. S \in Seq(X) /\ Len(S) = 4  BY <1>4
<1> QED BY <1>1, <1>5

\* A script of six steps as a sequence of its steps.
LEMMA TrTuple6 ==
  ASSUME NEW a, NEW b, NEW c, NEW d, NEW e, NEW f, NEW S, S = <<a, b, c, d, e, f>>
  PROVE  S \in Seq(TrStepsOf(S)) /\ Len(S) = 6
<1>1. PICK X : X = TrStepsOf(S)  OBVIOUS
<1>2. /\ S[1] = a /\ S[2] = b /\ S[3] = c /\ S[4] = d /\ S[5] = e /\ S[6] = f  OBVIOUS
<1>3. \A i \in 1..9 : S[i] \in X  BY <1>1 DEF TrStepsOf
<1>4. /\ a \in X /\ b \in X /\ c \in X /\ d \in X /\ e \in X /\ f \in X  BY <1>2, <1>3
<1>5. S \in Seq(X) /\ Len(S) = 6  BY <1>4
<1> QED BY <1>1, <1>5

\* A script of seven steps as a sequence of its steps.
LEMMA TrTuple7 ==
  ASSUME NEW a, NEW b, NEW c, NEW d, NEW e, NEW f, NEW g, NEW S, S = <<a, b, c, d, e, f, g>>
  PROVE  S \in Seq(TrStepsOf(S)) /\ Len(S) = 7
<1>1. PICK X : X = TrStepsOf(S)  OBVIOUS
<1>2. /\ S[1] = a /\ S[2] = b /\ S[3] = c /\ S[4] = d /\ S[5] = e /\ S[6] = f /\ S[7] = g
  OBVIOUS
<1>3. \A i \in 1..9 : S[i] \in X  BY <1>1 DEF TrStepsOf
<1>4. /\ a \in X /\ b \in X /\ c \in X /\ d \in X /\ e \in X /\ f \in X /\ g \in X
  BY <1>2, <1>3
<1>5. S \in Seq(X) /\ Len(S) = 7  BY <1>4
<1> QED BY <1>1, <1>5

\* A script of eight steps as a sequence of its steps.
LEMMA TrTuple8 ==
  ASSUME NEW a, NEW b, NEW c, NEW d, NEW e, NEW f, NEW g, NEW h, NEW S, S = <<a, b, c, d, e, f, g, h>>
  PROVE  S \in Seq(TrStepsOf(S)) /\ Len(S) = 8
<1>1. PICK X : X = TrStepsOf(S)  OBVIOUS
<1>2. /\ S[1] = a /\ S[2] = b /\ S[3] = c /\ S[4] = d /\ S[5] = e /\ S[6] = f /\ S[7] = g
      /\ S[8] = h
  OBVIOUS
<1>3. \A i \in 1..9 : S[i] \in X  BY <1>1 DEF TrStepsOf
<1>4. /\ a \in X /\ b \in X /\ c \in X /\ d \in X /\ e \in X /\ f \in X /\ g \in X /\ h \in X
  BY <1>2, <1>3
<1>5. S \in Seq(X) /\ Len(S) = 8  BY <1>4
<1> QED BY <1>1, <1>5

\* A script of nine steps as a sequence of its steps.
LEMMA TrTuple9 ==
  ASSUME NEW a, NEW b, NEW c, NEW d, NEW e, NEW f, NEW g, NEW h, NEW k, NEW S, S = <<a, b, c, d, e, f, g, h, k>>
  PROVE  S \in Seq(TrStepsOf(S)) /\ Len(S) = 9
<1>1. PICK X : X = TrStepsOf(S)  OBVIOUS
<1>2. /\ S[1] = a /\ S[2] = b /\ S[3] = c /\ S[4] = d /\ S[5] = e /\ S[6] = f /\ S[7] = g
      /\ S[8] = h /\ S[9] = k
  OBVIOUS
<1>3. \A i \in 1..9 : S[i] \in X  BY <1>1 DEF TrStepsOf
<1>4. /\ a \in X /\ b \in X /\ c \in X /\ d \in X /\ e \in X /\ f \in X /\ g \in X /\ h \in X
      /\ k \in X
  BY <1>2, <1>3
<1>5. S \in Seq(X) /\ Len(S) = 9  BY <1>4
<1> QED BY <1>1, <1>5

\* The steps of the client script of scramble, and how many of each kind are
\* behind each.
LEMMA TrScrambleClientTable ==
  ASSUME NEW S, S = TrScrambleClient
  PROVE  TrTables(S, 3, <<0, 1, 1, 1>>, <<0, 0, 1, 1>>, <<0, 0, 0, 0>>, <<0, 0, 0, 0>>,
                  <<0, 0, 0, 1>>, <<0, 0, 0, 0>>)
<1>1. /\ S[1][1] = "send" /\ S[2][1] = "recv" /\ S[3][1] = "keys"  BY DEF TrScrambleClient
<1>2. \A p \in 0..(3 - 1) : p = 0 \/ p = 1 \/ p = 2  OBVIOUS
<1>3. /\ TrTallied(S, {"send", "seal"}, <<0, 1, 1, 1>>, 3)
      /\ TrTallied(S, {"recv", "open"}, <<0, 0, 1, 1>>, 3)
      /\ TrTallied(S, {"seal"}, <<0, 0, 0, 0>>, 3)
      /\ TrTallied(S, {"open"}, <<0, 0, 0, 0>>, 3)
      /\ TrTallied(S, {"keys"}, <<0, 0, 0, 1>>, 3)
      /\ TrTallied(S, {"know"}, <<0, 0, 0, 0>>, 3)
  BY <1>1, <1>2 DEF TrTallied
<1> QED BY <1>3, TrTallyIs, Zenon DEF TrTables

\* The steps of the server script of scramble, and how many of each kind are
\* behind each.
LEMMA TrScrambleServerTable ==
  ASSUME NEW S, S = TrScrambleServer
  PROVE  TrTables(S, 4, <<0, 0, 0, 1, 1>>, <<0, 1, 1, 1, 1>>, <<0, 0, 0, 0, 0>>,
                  <<0, 0, 0, 0, 0>>, <<0, 0, 0, 0, 1>>, <<0, 0, 1, 1, 1>>)
<1>1. /\ S[1][1] = "recv" /\ S[2][1] = "know" /\ S[3][1] = "send" /\ S[4][1] = "keys"
  BY DEF TrScrambleServer
<1>2. \A p \in 0..(4 - 1) : p = 0 \/ p = 1 \/ p = 2 \/ p = 3  OBVIOUS
<1>3. /\ TrTallied(S, {"send", "seal"}, <<0, 0, 0, 1, 1>>, 4)
      /\ TrTallied(S, {"recv", "open"}, <<0, 1, 1, 1, 1>>, 4)
      /\ TrTallied(S, {"seal"}, <<0, 0, 0, 0, 0>>, 4)
      /\ TrTallied(S, {"open"}, <<0, 0, 0, 0, 0>>, 4)
      /\ TrTallied(S, {"keys"}, <<0, 0, 0, 0, 1>>, 4)
      /\ TrTallied(S, {"know"}, <<0, 0, 1, 1, 1>>, 4)
  BY <1>1, <1>2 DEF TrTallied
<1> QED BY <1>3, TrTallyIs, Zenon DEF TrTables

\* The steps of the client script of shade, and how many of each kind are
\* behind each.
LEMMA TrShadeClientTable ==
  ASSUME NEW S, S = TrShadeClient
  PROVE  TrTables(S, 3, <<0, 1, 1, 1>>, <<0, 0, 1, 1>>, <<0, 0, 0, 0>>, <<0, 0, 0, 0>>,
                  <<0, 0, 0, 1>>, <<0, 0, 0, 0>>)
<1>1. /\ S[1][1] = "send" /\ S[2][1] = "recv" /\ S[3][1] = "keys"  BY DEF TrShadeClient
<1>2. \A p \in 0..(3 - 1) : p = 0 \/ p = 1 \/ p = 2  OBVIOUS
<1>3. /\ TrTallied(S, {"send", "seal"}, <<0, 1, 1, 1>>, 3)
      /\ TrTallied(S, {"recv", "open"}, <<0, 0, 1, 1>>, 3)
      /\ TrTallied(S, {"seal"}, <<0, 0, 0, 0>>, 3)
      /\ TrTallied(S, {"open"}, <<0, 0, 0, 0>>, 3)
      /\ TrTallied(S, {"keys"}, <<0, 0, 0, 1>>, 3)
      /\ TrTallied(S, {"know"}, <<0, 0, 0, 0>>, 3)
  BY <1>1, <1>2 DEF TrTallied
<1> QED BY <1>3, TrTallyIs, Zenon DEF TrTables

\* The steps of the server script of shade, and how many of each kind are
\* behind each.
LEMMA TrShadeServerTable ==
  ASSUME NEW S, S = TrShadeServer
  PROVE  TrTables(S, 4, <<0, 0, 0, 1, 1>>, <<0, 1, 1, 1, 1>>, <<0, 0, 0, 0, 0>>,
                  <<0, 0, 0, 0, 0>>, <<0, 0, 0, 0, 1>>, <<0, 0, 1, 1, 1>>)
<1>1. /\ S[1][1] = "recv" /\ S[2][1] = "know" /\ S[3][1] = "send" /\ S[4][1] = "keys"
  BY DEF TrShadeServer
<1>2. \A p \in 0..(4 - 1) : p = 0 \/ p = 1 \/ p = 2 \/ p = 3  OBVIOUS
<1>3. /\ TrTallied(S, {"send", "seal"}, <<0, 0, 0, 1, 1>>, 4)
      /\ TrTallied(S, {"recv", "open"}, <<0, 1, 1, 1, 1>>, 4)
      /\ TrTallied(S, {"seal"}, <<0, 0, 0, 0, 0>>, 4)
      /\ TrTallied(S, {"open"}, <<0, 0, 0, 0, 0>>, 4)
      /\ TrTallied(S, {"keys"}, <<0, 0, 0, 0, 1>>, 4)
      /\ TrTallied(S, {"know"}, <<0, 0, 1, 1, 1>>, 4)
  BY <1>1, <1>2 DEF TrTallied
<1> QED BY <1>3, TrTallyIs, Zenon DEF TrTables

\* The steps of the client script of mirage, and how many of each kind are
\* behind each.
LEMMA TrMirageClientTable ==
  ASSUME NEW S, S = TrMirageClient
  PROVE  TrTables(S, 6, <<0, 1, 1, 1, 1, 1, 1>>, <<0, 0, 1, 2, 3, 4, 4>>,
                  <<0, 0, 0, 0, 0, 0, 0>>, <<0, 0, 0, 0, 0, 0, 0>>, <<0, 0, 0, 0, 0, 0, 1>>,
                  <<0, 0, 0, 0, 0, 0, 0>>)
<1>1. /\ S[1][1] = "send" /\ S[2][1] = "recv" /\ S[3][1] = "recv" /\ S[4][1] = "recv"
      /\ S[5][1] = "recv" /\ S[6][1] = "keys"
  BY DEF TrMirageClient, TrMirageFiller
<1>2. \A p \in 0..(6 - 1) : p = 0 \/ p = 1 \/ p = 2 \/ p = 3 \/ p = 4 \/ p = 5  OBVIOUS
<1>3. /\ TrTallied(S, {"send", "seal"}, <<0, 1, 1, 1, 1, 1, 1>>, 6)
      /\ TrTallied(S, {"recv", "open"}, <<0, 0, 1, 2, 3, 4, 4>>, 6)
      /\ TrTallied(S, {"seal"}, <<0, 0, 0, 0, 0, 0, 0>>, 6)
      /\ TrTallied(S, {"open"}, <<0, 0, 0, 0, 0, 0, 0>>, 6)
      /\ TrTallied(S, {"keys"}, <<0, 0, 0, 0, 0, 0, 1>>, 6)
      /\ TrTallied(S, {"know"}, <<0, 0, 0, 0, 0, 0, 0>>, 6)
  BY <1>1, <1>2 DEF TrTallied
<1> QED BY <1>3, TrTallyIs, Zenon DEF TrTables

\* The steps of the server script of mirage, and how many of each kind are
\* behind each.
LEMMA TrMirageServerTable ==
  ASSUME NEW S, S = TrMirageServer
  PROVE  TrTables(S, 7, <<0, 0, 0, 1, 2, 3, 4, 4>>, <<0, 1, 1, 1, 1, 1, 1, 1>>,
                  <<0, 0, 0, 0, 0, 0, 0, 0>>, <<0, 0, 0, 0, 0, 0, 0, 0>>,
                  <<0, 0, 0, 0, 0, 0, 0, 1>>, <<0, 0, 1, 1, 1, 1, 1, 1>>)
<1>1. /\ S[1][1] = "recv" /\ S[2][1] = "know" /\ S[3][1] = "send" /\ S[4][1] = "send"
      /\ S[5][1] = "send" /\ S[6][1] = "send" /\ S[7][1] = "keys"
  BY DEF TrMirageServer, TrMirageFiller
<1>2. \A p \in 0..(7 - 1) : p = 0 \/ p = 1 \/ p = 2 \/ p = 3 \/ p = 4 \/ p = 5 \/ p = 6  OBVIOUS
<1>3. /\ TrTallied(S, {"send", "seal"}, <<0, 0, 0, 1, 2, 3, 4, 4>>, 7)
      /\ TrTallied(S, {"recv", "open"}, <<0, 1, 1, 1, 1, 1, 1, 1>>, 7)
      /\ TrTallied(S, {"seal"}, <<0, 0, 0, 0, 0, 0, 0, 0>>, 7)
      /\ TrTallied(S, {"open"}, <<0, 0, 0, 0, 0, 0, 0, 0>>, 7)
      /\ TrTallied(S, {"keys"}, <<0, 0, 0, 0, 0, 0, 0, 1>>, 7)
      /\ TrTallied(S, {"know"}, <<0, 0, 1, 1, 1, 1, 1, 1>>, 7)
  BY <1>1, <1>2 DEF TrTallied
<1> QED BY <1>3, TrTallyIs, Zenon DEF TrTables

\* The steps of the client script of speakeasy, and how many of each kind are
\* behind each.
LEMMA TrSpeakeasyClientTable ==
  ASSUME NEW S, S = TrSpeakeasyClient
  PROVE  TrTables(S, 9, <<0, 1, 1, 2, 2, 3, 3, 4, 4, 4>>, <<0, 0, 1, 1, 2, 2, 3, 3, 4, 4>>,
                  <<0, 0, 0, 0, 0, 0, 0, 0, 0, 0>>, <<0, 0, 0, 0, 0, 0, 0, 0, 0, 0>>,
                  <<0, 0, 0, 0, 0, 0, 0, 0, 0, 1>>, <<0, 0, 0, 0, 0, 0, 0, 0, 0, 0>>)
<1>1. /\ S[1][1] = "send" /\ S[2][1] = "recv" /\ S[3][1] = "send" /\ S[4][1] = "recv"
      /\ S[5][1] = "send" /\ S[6][1] = "recv" /\ S[7][1] = "send" /\ S[8][1] = "recv"
      /\ S[9][1] = "keys"
  BY DEF TrSpeakeasyClient
<1>2. \A p \in 0..(9 - 1) : p = 0 \/ p = 1 \/ p = 2 \/ p = 3 \/ p = 4 \/ p = 5 \/ p = 6 \/ p = 7 \/ p = 8
  OBVIOUS
<1>3. /\ TrTallied(S, {"send", "seal"}, <<0, 1, 1, 2, 2, 3, 3, 4, 4, 4>>, 9)
      /\ TrTallied(S, {"recv", "open"}, <<0, 0, 1, 1, 2, 2, 3, 3, 4, 4>>, 9)
      /\ TrTallied(S, {"seal"}, <<0, 0, 0, 0, 0, 0, 0, 0, 0, 0>>, 9)
      /\ TrTallied(S, {"open"}, <<0, 0, 0, 0, 0, 0, 0, 0, 0, 0>>, 9)
      /\ TrTallied(S, {"keys"}, <<0, 0, 0, 0, 0, 0, 0, 0, 0, 1>>, 9)
      /\ TrTallied(S, {"know"}, <<0, 0, 0, 0, 0, 0, 0, 0, 0, 0>>, 9)
  BY <1>1, <1>2 DEF TrTallied
<1> QED BY <1>3, TrTallyIs, Zenon DEF TrTables

\* The steps of the server script of speakeasy, and how many of each kind are
\* behind each.
LEMMA TrSpeakeasyServerTable ==
  ASSUME NEW S, S = TrSpeakeasyServer
  PROVE  TrTables(S, 9, <<0, 0, 1, 1, 2, 2, 3, 4, 4, 4>>, <<0, 1, 1, 2, 2, 3, 3, 3, 4, 4>>,
                  <<0, 0, 0, 0, 0, 0, 0, 0, 0, 0>>, <<0, 0, 0, 0, 0, 0, 0, 0, 0, 0>>,
                  <<0, 0, 0, 0, 0, 0, 0, 0, 0, 1>>, <<0, 0, 0, 0, 0, 0, 0, 0, 0, 0>>)
<1>1. /\ S[1][1] = "recv" /\ S[2][1] = "send" /\ S[3][1] = "recv" /\ S[4][1] = "send"
      /\ S[5][1] = "recv" /\ S[6][1] = "send" /\ S[7][1] = "send" /\ S[8][1] = "recv"
      /\ S[9][1] = "keys"
  BY DEF TrSpeakeasyServer
<1>2. \A p \in 0..(9 - 1) : p = 0 \/ p = 1 \/ p = 2 \/ p = 3 \/ p = 4 \/ p = 5 \/ p = 6 \/ p = 7 \/ p = 8
  OBVIOUS
<1>3. /\ TrTallied(S, {"send", "seal"}, <<0, 0, 1, 1, 2, 2, 3, 4, 4, 4>>, 9)
      /\ TrTallied(S, {"recv", "open"}, <<0, 1, 1, 2, 2, 3, 3, 3, 4, 4>>, 9)
      /\ TrTallied(S, {"seal"}, <<0, 0, 0, 0, 0, 0, 0, 0, 0, 0>>, 9)
      /\ TrTallied(S, {"open"}, <<0, 0, 0, 0, 0, 0, 0, 0, 0, 0>>, 9)
      /\ TrTallied(S, {"keys"}, <<0, 0, 0, 0, 0, 0, 0, 0, 0, 1>>, 9)
      /\ TrTallied(S, {"know"}, <<0, 0, 0, 0, 0, 0, 0, 0, 0, 0>>, 9)
  BY <1>1, <1>2 DEF TrTallied
<1> QED BY <1>3, TrTallyIs, Zenon DEF TrTables

\* The steps of the client script of nether, and how many of each kind are
\* behind each.
LEMMA TrNetherClientTable ==
  ASSUME NEW S, S = TrNetherClient
  PROVE  TrTables(S, 7, <<0, 1, 2, 2, 2, 3, 3, 3>>, <<0, 0, 0, 1, 2, 2, 3, 3>>,
                  <<0, 0, 0, 0, 0, 0, 0, 0>>, <<0, 0, 0, 0, 0, 0, 0, 0>>,
                  <<0, 0, 0, 0, 0, 0, 0, 1>>, <<0, 0, 0, 0, 0, 0, 0, 0>>)
<1>1. /\ S[1][1] = "send" /\ S[2][1] = "send" /\ S[3][1] = "recv" /\ S[4][1] = "recv"
      /\ S[5][1] = "send" /\ S[6][1] = "recv" /\ S[7][1] = "keys"
  BY DEF TrNetherClient
<1>2. \A p \in 0..(7 - 1) : p = 0 \/ p = 1 \/ p = 2 \/ p = 3 \/ p = 4 \/ p = 5 \/ p = 6  OBVIOUS
<1>3. /\ TrTallied(S, {"send", "seal"}, <<0, 1, 2, 2, 2, 3, 3, 3>>, 7)
      /\ TrTallied(S, {"recv", "open"}, <<0, 0, 0, 1, 2, 2, 3, 3>>, 7)
      /\ TrTallied(S, {"seal"}, <<0, 0, 0, 0, 0, 0, 0, 0>>, 7)
      /\ TrTallied(S, {"open"}, <<0, 0, 0, 0, 0, 0, 0, 0>>, 7)
      /\ TrTallied(S, {"keys"}, <<0, 0, 0, 0, 0, 0, 0, 1>>, 7)
      /\ TrTallied(S, {"know"}, <<0, 0, 0, 0, 0, 0, 0, 0>>, 7)
  BY <1>1, <1>2 DEF TrTallied
<1> QED BY <1>3, TrTallyIs, Zenon DEF TrTables

\* The steps of the server script of nether, and how many of each kind are
\* behind each.
LEMMA TrNetherServerTable ==
  ASSUME NEW S, S = TrNetherServer
  PROVE  TrTables(S, 7, <<0, 0, 0, 1, 2, 2, 3, 3>>, <<0, 1, 2, 2, 2, 3, 3, 3>>,
                  <<0, 0, 0, 0, 0, 0, 0, 0>>, <<0, 0, 0, 0, 0, 0, 0, 0>>,
                  <<0, 0, 0, 0, 0, 0, 0, 1>>, <<0, 0, 0, 0, 0, 0, 0, 0>>)
<1>1. /\ S[1][1] = "recv" /\ S[2][1] = "recv" /\ S[3][1] = "send" /\ S[4][1] = "send"
      /\ S[5][1] = "recv" /\ S[6][1] = "send" /\ S[7][1] = "keys"
  BY DEF TrNetherServer
<1>2. \A p \in 0..(7 - 1) : p = 0 \/ p = 1 \/ p = 2 \/ p = 3 \/ p = 4 \/ p = 5 \/ p = 6  OBVIOUS
<1>3. /\ TrTallied(S, {"send", "seal"}, <<0, 0, 0, 1, 2, 2, 3, 3>>, 7)
      /\ TrTallied(S, {"recv", "open"}, <<0, 1, 2, 2, 2, 3, 3, 3>>, 7)
      /\ TrTallied(S, {"seal"}, <<0, 0, 0, 0, 0, 0, 0, 0>>, 7)
      /\ TrTallied(S, {"open"}, <<0, 0, 0, 0, 0, 0, 0, 0>>, 7)
      /\ TrTallied(S, {"keys"}, <<0, 0, 0, 0, 0, 0, 0, 1>>, 7)
      /\ TrTallied(S, {"know"}, <<0, 0, 0, 0, 0, 0, 0, 0>>, 7)
  BY <1>1, <1>2 DEF TrTallied
<1> QED BY <1>3, TrTallyIs, Zenon DEF TrTables

\* The steps of the client script of shitstorm, and how many of each kind are
\* behind each.
LEMMA TrShitstormClientTable ==
  ASSUME NEW S, S = TrShitstormClient
  PROVE  TrTables(S, 8, <<0, 1, 1, 1, 1, 1, 2, 2, 2>>, <<0, 0, 1, 2, 3, 3, 3, 4, 5>>,
                  <<0, 0, 0, 0, 0, 0, 1, 1, 1>>, <<0, 0, 0, 0, 0, 0, 0, 1, 2>>,
                  <<0, 0, 0, 0, 0, 1, 1, 1, 1>>, <<0, 0, 0, 0, 0, 0, 0, 0, 0>>)
<1>1. /\ S[1][1] = "send" /\ S[2][1] = "recv" /\ S[3][1] = "recv" /\ S[4][1] = "recv"
      /\ S[5][1] = "keys" /\ S[6][1] = "seal" /\ S[7][1] = "open" /\ S[8][1] = "open"
  BY DEF TrShitstormClient, TrShitstormFiller, TrShitstormFinish, TrShitstormTicket
<1>2. \A p \in 0..(8 - 1) : p = 0 \/ p = 1 \/ p = 2 \/ p = 3 \/ p = 4 \/ p = 5 \/ p = 6 \/ p = 7
  OBVIOUS
<1>3. /\ TrTallied(S, {"send", "seal"}, <<0, 1, 1, 1, 1, 1, 2, 2, 2>>, 8)
      /\ TrTallied(S, {"recv", "open"}, <<0, 0, 1, 2, 3, 3, 3, 4, 5>>, 8)
      /\ TrTallied(S, {"seal"}, <<0, 0, 0, 0, 0, 0, 1, 1, 1>>, 8)
      /\ TrTallied(S, {"open"}, <<0, 0, 0, 0, 0, 0, 0, 1, 2>>, 8)
      /\ TrTallied(S, {"keys"}, <<0, 0, 0, 0, 0, 1, 1, 1, 1>>, 8)
      /\ TrTallied(S, {"know"}, <<0, 0, 0, 0, 0, 0, 0, 0, 0>>, 8)
  BY <1>1, <1>2 DEF TrTallied
<1> QED BY <1>3, TrTallyIs, Zenon DEF TrTables

\* The steps of the server script of shitstorm, and how many of each kind are
\* behind each.
LEMMA TrShitstormServerTable ==
  ASSUME NEW S, S = TrShitstormServer
  PROVE  TrTables(S, 9, <<0, 0, 0, 1, 2, 3, 3, 3, 4, 5>>, <<0, 1, 1, 1, 1, 1, 1, 2, 2, 2>>,
                  <<0, 0, 0, 0, 0, 0, 0, 0, 1, 2>>, <<0, 0, 0, 0, 0, 0, 0, 1, 1, 1>>,
                  <<0, 0, 0, 0, 0, 0, 1, 1, 1, 1>>, <<0, 0, 1, 1, 1, 1, 1, 1, 1, 1>>)
<1>1. /\ S[1][1] = "recv" /\ S[2][1] = "know" /\ S[3][1] = "send" /\ S[4][1] = "send"
      /\ S[5][1] = "send" /\ S[6][1] = "keys" /\ S[7][1] = "open" /\ S[8][1] = "seal"
      /\ S[9][1] = "seal"
  BY DEF TrShitstormServer, TrShitstormFiller, TrShitstormFinish, TrShitstormTicket
<1>2. \A p \in 0..(9 - 1) : p = 0 \/ p = 1 \/ p = 2 \/ p = 3 \/ p = 4 \/ p = 5 \/ p = 6 \/ p = 7 \/ p = 8
  OBVIOUS
<1>3. /\ TrTallied(S, {"send", "seal"}, <<0, 0, 0, 1, 2, 3, 3, 3, 4, 5>>, 9)
      /\ TrTallied(S, {"recv", "open"}, <<0, 1, 1, 1, 1, 1, 1, 2, 2, 2>>, 9)
      /\ TrTallied(S, {"seal"}, <<0, 0, 0, 0, 0, 0, 0, 0, 1, 2>>, 9)
      /\ TrTallied(S, {"open"}, <<0, 0, 0, 0, 0, 0, 0, 1, 1, 1>>, 9)
      /\ TrTallied(S, {"keys"}, <<0, 0, 0, 0, 0, 0, 1, 1, 1, 1>>, 9)
      /\ TrTallied(S, {"know"}, <<0, 0, 1, 1, 1, 1, 1, 1, 1, 1>>, 9)
  BY <1>1, <1>2 DEF TrTallied
<1> QED BY <1>3, TrTallyIs, Zenon DEF TrTables

\* A step is as it should be if its row and its kind are.
LEMMA TrStepFrom ==
  ASSUME NEW k, NEW x, NEW S, NEW p, NEW q, p + 1 = q, NEW a, NEW b, NEW c, NEW d,
         TrRow(S, p, a, b, c, d), TrStepIs(k, x, S[q][1], S[q][2], a, b, c, d)
  PROVE  TrStepOk(k, x, S, p)
BY Zenon DEF TrStepOk, TrRow

\* Its type and length.
LEMMA TrScrambleClientTyped == TrScrambleClient \in Seq(TrStepsOf(TrScrambleClient)) /\ Len(TrScrambleClient) = 3
BY TrTuple3 DEF TrScrambleClient

\* The client script of scramble sends and takes what TrMail says, in that
\* order.
LEMMA TrScrambleClientPlan ==
  ASSUME NEW S, S = TrScrambleClient
  PROVE  /\ \A p \in 0..(3 - 1) : TrStepOk("scramble", "client", S, p)
         /\ TrEndOk("scramble", "client", S, 3)
<1>1. /\ S[1][1] = "send" /\ S[2][1] = "recv" /\ S[3][1] = "keys" /\ S[1][2] = "hello"
      /\ S[2][2] = "reply" /\ S[3][2] = ""
  BY DEF TrScrambleClient
<1>2. /\ TrRow(S, 0, 0, 0, 0, 0) /\ TrRow(S, 1, 1, 0, 0, 0) /\ TrRow(S, 2, 1, 1, 0, 0)
  BY TrScrambleClientTable DEF TrRow, TrTables, TrTally, TrSends, TrRecvs
<1>3. /\ TrStepIs("scramble", "client", "send", "hello", 0, 0, 0, 0)
      /\ TrStepIs("scramble", "client", "recv", "reply", 1, 0, 0, 0)
      /\ TrStepIs("scramble", "client", "keys", "", 1, 1, 0, 0)
  BY DEF TrStepIs, TrMail, TrSealNonce, TrPeer
<1>4. /\ TrStepOk("scramble", "client", S, 0) /\ TrStepOk("scramble", "client", S, 1)
      /\ TrStepOk("scramble", "client", S, 2)
  BY <1>1, <1>2, <1>3, TrOnes, TrStepFrom
<1>5. /\ TrCount(S, {"seal"}, 3) = 0 /\ TrCount(S, {"open"}, 3) = 0
      /\ TrCount(S, {"keys"}, 3) = 1 /\ TrCount(S, {"know"}, 3) = 0
  BY TrScrambleClientTable DEF TrTables, TrTally
<1>6. TrEndOk("scramble", "client", S, 3)  BY <1>5 DEF TrEndOk, TrSealed, TrPeer
<1>7. \A p \in 0..(3 - 1) : p = 0 \/ p = 1 \/ p = 2  OBVIOUS
<1> QED BY <1>4, <1>6, <1>7

\* Its type and length.
LEMMA TrScrambleServerTyped == TrScrambleServer \in Seq(TrStepsOf(TrScrambleServer)) /\ Len(TrScrambleServer) = 4
BY TrTuple4 DEF TrScrambleServer

\* The server script of scramble sends and takes what TrMail says, in that
\* order.
LEMMA TrScrambleServerPlan ==
  ASSUME NEW S, S = TrScrambleServer
  PROVE  /\ \A p \in 0..(4 - 1) : TrStepOk("scramble", "server", S, p)
         /\ TrEndOk("scramble", "server", S, 4)
<1>1. /\ S[1][1] = "recv" /\ S[2][1] = "know" /\ S[3][1] = "send" /\ S[4][1] = "keys"
      /\ S[1][2] = "hello" /\ S[2][2] = "" /\ S[3][2] = "reply" /\ S[4][2] = ""
  BY DEF TrScrambleServer
<1>2. /\ TrRow(S, 0, 0, 0, 0, 0) /\ TrRow(S, 1, 0, 1, 0, 0) /\ TrRow(S, 2, 0, 1, 0, 0)
      /\ TrRow(S, 3, 1, 1, 0, 0)
  BY TrScrambleServerTable DEF TrRow, TrTables, TrTally, TrSends, TrRecvs
<1>3. /\ TrStepIs("scramble", "server", "recv", "hello", 0, 0, 0, 0)
      /\ TrStepIs("scramble", "server", "know", "", 0, 1, 0, 0)
      /\ TrStepIs("scramble", "server", "send", "reply", 0, 1, 0, 0)
      /\ TrStepIs("scramble", "server", "keys", "", 1, 1, 0, 0)
  BY DEF TrStepIs, TrMail, TrSealNonce, TrPeer
<1>4. /\ TrStepOk("scramble", "server", S, 0) /\ TrStepOk("scramble", "server", S, 1)
      /\ TrStepOk("scramble", "server", S, 2) /\ TrStepOk("scramble", "server", S, 3)
  BY <1>1, <1>2, <1>3, TrOnes, TrStepFrom
<1>5. /\ TrCount(S, {"seal"}, 4) = 0 /\ TrCount(S, {"open"}, 4) = 0
      /\ TrCount(S, {"keys"}, 4) = 1 /\ TrCount(S, {"know"}, 4) = 1
  BY TrScrambleServerTable DEF TrTables, TrTally
<1>6. TrEndOk("scramble", "server", S, 4)  BY <1>5 DEF TrEndOk, TrSealed, TrPeer
<1>7. \A p \in 0..(4 - 1) : p = 0 \/ p = 1 \/ p = 2 \/ p = 3  OBVIOUS
<1> QED BY <1>4, <1>6, <1>7

\* Its type and length.
LEMMA TrShadeClientTyped == TrShadeClient \in Seq(TrStepsOf(TrShadeClient)) /\ Len(TrShadeClient) = 3
BY TrTuple3 DEF TrShadeClient

\* The client script of shade sends and takes what TrMail says, in that order.
LEMMA TrShadeClientPlan ==
  ASSUME NEW S, S = TrShadeClient
  PROVE  /\ \A p \in 0..(3 - 1) : TrStepOk("shade", "client", S, p)
         /\ TrEndOk("shade", "client", S, 3)
<1>1. /\ S[1][1] = "send" /\ S[2][1] = "recv" /\ S[3][1] = "keys" /\ S[1][2] = "repr"
      /\ S[2][2] = "repr" /\ S[3][2] = ""
  BY DEF TrShadeClient
<1>2. /\ TrRow(S, 0, 0, 0, 0, 0) /\ TrRow(S, 1, 1, 0, 0, 0) /\ TrRow(S, 2, 1, 1, 0, 0)
  BY TrShadeClientTable DEF TrRow, TrTables, TrTally, TrSends, TrRecvs
<1>3. /\ TrStepIs("shade", "client", "send", "repr", 0, 0, 0, 0)
      /\ TrStepIs("shade", "client", "recv", "repr", 1, 0, 0, 0)
      /\ TrStepIs("shade", "client", "keys", "", 1, 1, 0, 0)
  BY DEF TrStepIs, TrMail, TrSealNonce, TrPeer
<1>4. /\ TrStepOk("shade", "client", S, 0) /\ TrStepOk("shade", "client", S, 1)
      /\ TrStepOk("shade", "client", S, 2)
  BY <1>1, <1>2, <1>3, TrOnes, TrStepFrom
<1>5. /\ TrCount(S, {"seal"}, 3) = 0 /\ TrCount(S, {"open"}, 3) = 0
      /\ TrCount(S, {"keys"}, 3) = 1 /\ TrCount(S, {"know"}, 3) = 0
  BY TrShadeClientTable DEF TrTables, TrTally
<1>6. TrEndOk("shade", "client", S, 3)  BY <1>5 DEF TrEndOk, TrSealed, TrPeer
<1>7. \A p \in 0..(3 - 1) : p = 0 \/ p = 1 \/ p = 2  OBVIOUS
<1> QED BY <1>4, <1>6, <1>7

\* Its type and length.
LEMMA TrShadeServerTyped == TrShadeServer \in Seq(TrStepsOf(TrShadeServer)) /\ Len(TrShadeServer) = 4
BY TrTuple4 DEF TrShadeServer

\* The server script of shade sends and takes what TrMail says, in that order.
LEMMA TrShadeServerPlan ==
  ASSUME NEW S, S = TrShadeServer
  PROVE  /\ \A p \in 0..(4 - 1) : TrStepOk("shade", "server", S, p)
         /\ TrEndOk("shade", "server", S, 4)
<1>1. /\ S[1][1] = "recv" /\ S[2][1] = "know" /\ S[3][1] = "send" /\ S[4][1] = "keys"
      /\ S[1][2] = "repr" /\ S[2][2] = "" /\ S[3][2] = "repr" /\ S[4][2] = ""
  BY DEF TrShadeServer
<1>2. /\ TrRow(S, 0, 0, 0, 0, 0) /\ TrRow(S, 1, 0, 1, 0, 0) /\ TrRow(S, 2, 0, 1, 0, 0)
      /\ TrRow(S, 3, 1, 1, 0, 0)
  BY TrShadeServerTable DEF TrRow, TrTables, TrTally, TrSends, TrRecvs
<1>3. /\ TrStepIs("shade", "server", "recv", "repr", 0, 0, 0, 0)
      /\ TrStepIs("shade", "server", "know", "", 0, 1, 0, 0)
      /\ TrStepIs("shade", "server", "send", "repr", 0, 1, 0, 0)
      /\ TrStepIs("shade", "server", "keys", "", 1, 1, 0, 0)
  BY DEF TrStepIs, TrMail, TrSealNonce, TrPeer
<1>4. /\ TrStepOk("shade", "server", S, 0) /\ TrStepOk("shade", "server", S, 1)
      /\ TrStepOk("shade", "server", S, 2) /\ TrStepOk("shade", "server", S, 3)
  BY <1>1, <1>2, <1>3, TrOnes, TrStepFrom
<1>5. /\ TrCount(S, {"seal"}, 4) = 0 /\ TrCount(S, {"open"}, 4) = 0
      /\ TrCount(S, {"keys"}, 4) = 1 /\ TrCount(S, {"know"}, 4) = 1
  BY TrShadeServerTable DEF TrTables, TrTally
<1>6. TrEndOk("shade", "server", S, 4)  BY <1>5 DEF TrEndOk, TrSealed, TrPeer
<1>7. \A p \in 0..(4 - 1) : p = 0 \/ p = 1 \/ p = 2 \/ p = 3  OBVIOUS
<1> QED BY <1>4, <1>6, <1>7

\* Its type and length.
LEMMA TrMirageClientTyped == TrMirageClient \in Seq(TrStepsOf(TrMirageClient)) /\ Len(TrMirageClient) = 6
BY TrTuple6 DEF TrMirageClient, TrMirageFiller

\* The client script of mirage sends and takes what TrMail says, in that
\* order.
LEMMA TrMirageClientPlan ==
  ASSUME NEW S, S = TrMirageClient
  PROVE  /\ \A p \in 0..(6 - 1) : TrStepOk("mirage", "client", S, p)
         /\ TrEndOk("mirage", "client", S, 6)
<1>1. /\ S[1][1] = "send" /\ S[2][1] = "recv" /\ S[3][1] = "recv" /\ S[4][1] = "recv"
      /\ S[5][1] = "recv" /\ S[6][1] = "keys" /\ S[1][2] = "ClientHello"
      /\ S[2][2] = "ServerHello" /\ S[3][2] = "ChangeCipherSpec" /\ S[4][2] = "filler"
      /\ S[5][2] = "marker" /\ S[6][2] = ""
  BY DEF TrMirageClient, TrMirageFiller
<1>2. /\ TrRow(S, 0, 0, 0, 0, 0) /\ TrRow(S, 1, 1, 0, 0, 0) /\ TrRow(S, 2, 1, 1, 0, 0)
      /\ TrRow(S, 3, 1, 2, 0, 0) /\ TrRow(S, 4, 1, 3, 0, 0) /\ TrRow(S, 5, 1, 4, 0, 0)
  BY TrMirageClientTable DEF TrRow, TrTables, TrTally, TrSends, TrRecvs
<1>3. /\ TrStepIs("mirage", "client", "send", "ClientHello", 0, 0, 0, 0)
      /\ TrStepIs("mirage", "client", "recv", "ServerHello", 1, 0, 0, 0)
      /\ TrStepIs("mirage", "client", "recv", "ChangeCipherSpec", 1, 1, 0, 0)
      /\ TrStepIs("mirage", "client", "recv", "filler", 1, 2, 0, 0)
      /\ TrStepIs("mirage", "client", "recv", "marker", 1, 3, 0, 0)
      /\ TrStepIs("mirage", "client", "keys", "", 1, 4, 0, 0)
  BY DEF TrStepIs, TrMail, TrSealNonce, TrPeer
<1>4. /\ TrStepOk("mirage", "client", S, 0) /\ TrStepOk("mirage", "client", S, 1)
      /\ TrStepOk("mirage", "client", S, 2) /\ TrStepOk("mirage", "client", S, 3)
      /\ TrStepOk("mirage", "client", S, 4) /\ TrStepOk("mirage", "client", S, 5)
  BY <1>1, <1>2, <1>3, TrOnes, TrStepFrom
<1>5. /\ TrCount(S, {"seal"}, 6) = 0 /\ TrCount(S, {"open"}, 6) = 0
      /\ TrCount(S, {"keys"}, 6) = 1 /\ TrCount(S, {"know"}, 6) = 0
  BY TrMirageClientTable DEF TrTables, TrTally
<1>6. TrEndOk("mirage", "client", S, 6)  BY <1>5 DEF TrEndOk, TrSealed, TrPeer
<1>7. \A p \in 0..(6 - 1) : p = 0 \/ p = 1 \/ p = 2 \/ p = 3 \/ p = 4 \/ p = 5  OBVIOUS
<1> QED BY <1>4, <1>6, <1>7

\* Its type and length.
LEMMA TrMirageServerTyped == TrMirageServer \in Seq(TrStepsOf(TrMirageServer)) /\ Len(TrMirageServer) = 7
BY TrTuple7 DEF TrMirageServer, TrMirageFiller

\* The server script of mirage sends and takes what TrMail says, in that
\* order.
LEMMA TrMirageServerPlan ==
  ASSUME NEW S, S = TrMirageServer
  PROVE  /\ \A p \in 0..(7 - 1) : TrStepOk("mirage", "server", S, p)
         /\ TrEndOk("mirage", "server", S, 7)
<1>1. /\ S[1][1] = "recv" /\ S[2][1] = "know" /\ S[3][1] = "send" /\ S[4][1] = "send"
      /\ S[5][1] = "send" /\ S[6][1] = "send" /\ S[7][1] = "keys" /\ S[1][2] = "ClientHello"
      /\ S[2][2] = "" /\ S[3][2] = "ServerHello" /\ S[4][2] = "ChangeCipherSpec"
      /\ S[5][2] = "filler" /\ S[6][2] = "marker" /\ S[7][2] = ""
  BY DEF TrMirageServer, TrMirageFiller
<1>2. /\ TrRow(S, 0, 0, 0, 0, 0) /\ TrRow(S, 1, 0, 1, 0, 0) /\ TrRow(S, 2, 0, 1, 0, 0)
      /\ TrRow(S, 3, 1, 1, 0, 0) /\ TrRow(S, 4, 2, 1, 0, 0) /\ TrRow(S, 5, 3, 1, 0, 0)
      /\ TrRow(S, 6, 4, 1, 0, 0)
  BY TrMirageServerTable DEF TrRow, TrTables, TrTally, TrSends, TrRecvs
<1>3. /\ TrStepIs("mirage", "server", "recv", "ClientHello", 0, 0, 0, 0)
      /\ TrStepIs("mirage", "server", "know", "", 0, 1, 0, 0)
      /\ TrStepIs("mirage", "server", "send", "ServerHello", 0, 1, 0, 0)
      /\ TrStepIs("mirage", "server", "send", "ChangeCipherSpec", 1, 1, 0, 0)
      /\ TrStepIs("mirage", "server", "send", "filler", 2, 1, 0, 0)
      /\ TrStepIs("mirage", "server", "send", "marker", 3, 1, 0, 0)
      /\ TrStepIs("mirage", "server", "keys", "", 4, 1, 0, 0)
  BY DEF TrStepIs, TrMail, TrSealNonce, TrPeer
<1>4. /\ TrStepOk("mirage", "server", S, 0) /\ TrStepOk("mirage", "server", S, 1)
      /\ TrStepOk("mirage", "server", S, 2) /\ TrStepOk("mirage", "server", S, 3)
      /\ TrStepOk("mirage", "server", S, 4) /\ TrStepOk("mirage", "server", S, 5)
      /\ TrStepOk("mirage", "server", S, 6)
  BY <1>1, <1>2, <1>3, TrOnes, TrStepFrom
<1>5. /\ TrCount(S, {"seal"}, 7) = 0 /\ TrCount(S, {"open"}, 7) = 0
      /\ TrCount(S, {"keys"}, 7) = 1 /\ TrCount(S, {"know"}, 7) = 1
  BY TrMirageServerTable DEF TrTables, TrTally
<1>6. TrEndOk("mirage", "server", S, 7)  BY <1>5 DEF TrEndOk, TrSealed, TrPeer
<1>7. \A p \in 0..(7 - 1) : p = 0 \/ p = 1 \/ p = 2 \/ p = 3 \/ p = 4 \/ p = 5 \/ p = 6  OBVIOUS
<1> QED BY <1>4, <1>6, <1>7

\* Its type and length.
LEMMA TrSpeakeasyClientTyped == TrSpeakeasyClient \in Seq(TrStepsOf(TrSpeakeasyClient)) /\ Len(TrSpeakeasyClient) = 9
BY TrTuple9 DEF TrSpeakeasyClient

\* The client script of speakeasy sends and takes what TrMail says, in that
\* order.
LEMMA TrSpeakeasyClientPlan ==
  ASSUME NEW S, S = TrSpeakeasyClient
  PROVE  /\ \A p \in 0..(9 - 1) : TrStepOk("speakeasy", "client", S, p)
         /\ TrEndOk("speakeasy", "client", S, 9)
<1>1. /\ S[1][1] = "send" /\ S[2][1] = "recv" /\ S[3][1] = "send" /\ S[4][1] = "recv"
      /\ S[5][1] = "send" /\ S[6][1] = "recv" /\ S[7][1] = "send" /\ S[8][1] = "recv"
      /\ S[9][1] = "keys" /\ S[1][2] = "version" /\ S[2][2] = "version" /\ S[3][2] = "KEXINIT"
      /\ S[4][2] = "KEXINIT" /\ S[5][2] = "ECDH_INIT" /\ S[6][2] = "ECDH_REPLY"
      /\ S[7][2] = "NEWKEYS" /\ S[8][2] = "NEWKEYS" /\ S[9][2] = ""
  BY DEF TrSpeakeasyClient
<1>2. /\ TrRow(S, 0, 0, 0, 0, 0) /\ TrRow(S, 1, 1, 0, 0, 0) /\ TrRow(S, 2, 1, 1, 0, 0)
      /\ TrRow(S, 3, 2, 1, 0, 0) /\ TrRow(S, 4, 2, 2, 0, 0) /\ TrRow(S, 5, 3, 2, 0, 0)
      /\ TrRow(S, 6, 3, 3, 0, 0) /\ TrRow(S, 7, 4, 3, 0, 0) /\ TrRow(S, 8, 4, 4, 0, 0)
  BY TrSpeakeasyClientTable DEF TrRow, TrTables, TrTally, TrSends, TrRecvs
<1>3. /\ TrStepIs("speakeasy", "client", "send", "version", 0, 0, 0, 0)
      /\ TrStepIs("speakeasy", "client", "recv", "version", 1, 0, 0, 0)
      /\ TrStepIs("speakeasy", "client", "send", "KEXINIT", 1, 1, 0, 0)
      /\ TrStepIs("speakeasy", "client", "recv", "KEXINIT", 2, 1, 0, 0)
      /\ TrStepIs("speakeasy", "client", "send", "ECDH_INIT", 2, 2, 0, 0)
      /\ TrStepIs("speakeasy", "client", "recv", "ECDH_REPLY", 3, 2, 0, 0)
      /\ TrStepIs("speakeasy", "client", "send", "NEWKEYS", 3, 3, 0, 0)
      /\ TrStepIs("speakeasy", "client", "recv", "NEWKEYS", 4, 3, 0, 0)
      /\ TrStepIs("speakeasy", "client", "keys", "", 4, 4, 0, 0)
  BY DEF TrStepIs, TrMail, TrSealNonce, TrPeer
<1>4. /\ TrStepOk("speakeasy", "client", S, 0) /\ TrStepOk("speakeasy", "client", S, 1)
      /\ TrStepOk("speakeasy", "client", S, 2) /\ TrStepOk("speakeasy", "client", S, 3)
      /\ TrStepOk("speakeasy", "client", S, 4) /\ TrStepOk("speakeasy", "client", S, 5)
      /\ TrStepOk("speakeasy", "client", S, 6) /\ TrStepOk("speakeasy", "client", S, 7)
      /\ TrStepOk("speakeasy", "client", S, 8)
  <2>1. /\ TrStepOk("speakeasy", "client", S, 0) /\ TrStepOk("speakeasy", "client", S, 1)
        /\ TrStepOk("speakeasy", "client", S, 2) /\ TrStepOk("speakeasy", "client", S, 3)
        /\ TrStepOk("speakeasy", "client", S, 4)
    BY <1>1, <1>2, <1>3, TrOnes, TrStepFrom
  <2>2. /\ TrStepOk("speakeasy", "client", S, 5) /\ TrStepOk("speakeasy", "client", S, 6)
        /\ TrStepOk("speakeasy", "client", S, 7) /\ TrStepOk("speakeasy", "client", S, 8)
    BY <1>1, <1>2, <1>3, TrOnes, TrStepFrom
  <2> QED BY <2>1, <2>2
<1>5. /\ TrCount(S, {"seal"}, 9) = 0 /\ TrCount(S, {"open"}, 9) = 0
      /\ TrCount(S, {"keys"}, 9) = 1 /\ TrCount(S, {"know"}, 9) = 0
  BY TrSpeakeasyClientTable DEF TrTables, TrTally
<1>6. TrEndOk("speakeasy", "client", S, 9)  BY <1>5 DEF TrEndOk, TrSealed, TrPeer
<1>7. \A p \in 0..(9 - 1) : p = 0 \/ p = 1 \/ p = 2 \/ p = 3 \/ p = 4 \/ p = 5 \/ p = 6 \/ p = 7 \/ p = 8
  OBVIOUS
<1> QED BY <1>4, <1>6, <1>7

\* Its type and length.
LEMMA TrSpeakeasyServerTyped == TrSpeakeasyServer \in Seq(TrStepsOf(TrSpeakeasyServer)) /\ Len(TrSpeakeasyServer) = 9
BY TrTuple9 DEF TrSpeakeasyServer

\* The server script of speakeasy sends and takes what TrMail says, in that
\* order.
LEMMA TrSpeakeasyServerPlan ==
  ASSUME NEW S, S = TrSpeakeasyServer
  PROVE  /\ \A p \in 0..(9 - 1) : TrStepOk("speakeasy", "server", S, p)
         /\ TrEndOk("speakeasy", "server", S, 9)
<1>1. /\ S[1][1] = "recv" /\ S[2][1] = "send" /\ S[3][1] = "recv" /\ S[4][1] = "send"
      /\ S[5][1] = "recv" /\ S[6][1] = "send" /\ S[7][1] = "send" /\ S[8][1] = "recv"
      /\ S[9][1] = "keys" /\ S[1][2] = "version" /\ S[2][2] = "version" /\ S[3][2] = "KEXINIT"
      /\ S[4][2] = "KEXINIT" /\ S[5][2] = "ECDH_INIT" /\ S[6][2] = "ECDH_REPLY"
      /\ S[7][2] = "NEWKEYS" /\ S[8][2] = "NEWKEYS" /\ S[9][2] = ""
  BY DEF TrSpeakeasyServer
<1>2. /\ TrRow(S, 0, 0, 0, 0, 0) /\ TrRow(S, 1, 0, 1, 0, 0) /\ TrRow(S, 2, 1, 1, 0, 0)
      /\ TrRow(S, 3, 1, 2, 0, 0) /\ TrRow(S, 4, 2, 2, 0, 0) /\ TrRow(S, 5, 2, 3, 0, 0)
      /\ TrRow(S, 6, 3, 3, 0, 0) /\ TrRow(S, 7, 4, 3, 0, 0) /\ TrRow(S, 8, 4, 4, 0, 0)
  BY TrSpeakeasyServerTable DEF TrRow, TrTables, TrTally, TrSends, TrRecvs
<1>3. /\ TrStepIs("speakeasy", "server", "recv", "version", 0, 0, 0, 0)
      /\ TrStepIs("speakeasy", "server", "send", "version", 0, 1, 0, 0)
      /\ TrStepIs("speakeasy", "server", "recv", "KEXINIT", 1, 1, 0, 0)
      /\ TrStepIs("speakeasy", "server", "send", "KEXINIT", 1, 2, 0, 0)
      /\ TrStepIs("speakeasy", "server", "recv", "ECDH_INIT", 2, 2, 0, 0)
      /\ TrStepIs("speakeasy", "server", "send", "ECDH_REPLY", 2, 3, 0, 0)
      /\ TrStepIs("speakeasy", "server", "send", "NEWKEYS", 3, 3, 0, 0)
      /\ TrStepIs("speakeasy", "server", "recv", "NEWKEYS", 4, 3, 0, 0)
      /\ TrStepIs("speakeasy", "server", "keys", "", 4, 4, 0, 0)
  BY DEF TrStepIs, TrMail, TrSealNonce, TrPeer
<1>4. /\ TrStepOk("speakeasy", "server", S, 0) /\ TrStepOk("speakeasy", "server", S, 1)
      /\ TrStepOk("speakeasy", "server", S, 2) /\ TrStepOk("speakeasy", "server", S, 3)
      /\ TrStepOk("speakeasy", "server", S, 4) /\ TrStepOk("speakeasy", "server", S, 5)
      /\ TrStepOk("speakeasy", "server", S, 6) /\ TrStepOk("speakeasy", "server", S, 7)
      /\ TrStepOk("speakeasy", "server", S, 8)
  <2>1. /\ TrStepOk("speakeasy", "server", S, 0) /\ TrStepOk("speakeasy", "server", S, 1)
        /\ TrStepOk("speakeasy", "server", S, 2) /\ TrStepOk("speakeasy", "server", S, 3)
        /\ TrStepOk("speakeasy", "server", S, 4)
    BY <1>1, <1>2, <1>3, TrOnes, TrStepFrom
  <2>2. /\ TrStepOk("speakeasy", "server", S, 5) /\ TrStepOk("speakeasy", "server", S, 6)
        /\ TrStepOk("speakeasy", "server", S, 7) /\ TrStepOk("speakeasy", "server", S, 8)
    BY <1>1, <1>2, <1>3, TrOnes, TrStepFrom
  <2> QED BY <2>1, <2>2
<1>5. /\ TrCount(S, {"seal"}, 9) = 0 /\ TrCount(S, {"open"}, 9) = 0
      /\ TrCount(S, {"keys"}, 9) = 1 /\ TrCount(S, {"know"}, 9) = 0
  BY TrSpeakeasyServerTable DEF TrTables, TrTally
<1>6. TrEndOk("speakeasy", "server", S, 9)  BY <1>5 DEF TrEndOk, TrSealed, TrPeer
<1>7. \A p \in 0..(9 - 1) : p = 0 \/ p = 1 \/ p = 2 \/ p = 3 \/ p = 4 \/ p = 5 \/ p = 6 \/ p = 7 \/ p = 8
  OBVIOUS
<1> QED BY <1>4, <1>6, <1>7

\* Its type and length.
LEMMA TrNetherClientTyped == TrNetherClient \in Seq(TrStepsOf(TrNetherClient)) /\ Len(TrNetherClient) = 7
BY TrTuple7 DEF TrNetherClient

\* The client script of nether sends and takes what TrMail says, in that
\* order.
LEMMA TrNetherClientPlan ==
  ASSUME NEW S, S = TrNetherClient
  PROVE  /\ \A p \in 0..(7 - 1) : TrStepOk("nether", "client", S, p)
         /\ TrEndOk("nether", "client", S, 7)
<1>1. /\ S[1][1] = "send" /\ S[2][1] = "send" /\ S[3][1] = "recv" /\ S[4][1] = "recv"
      /\ S[5][1] = "send" /\ S[6][1] = "recv" /\ S[7][1] = "keys" /\ S[1][2] = "handshake"
      /\ S[2][2] = "login start" /\ S[3][2] = "login success" /\ S[4][2] = "login finished"
      /\ S[5][2] = "plugin key" /\ S[6][2] = "plugin key" /\ S[7][2] = ""
  BY DEF TrNetherClient
<1>2. /\ TrRow(S, 0, 0, 0, 0, 0) /\ TrRow(S, 1, 1, 0, 0, 0) /\ TrRow(S, 2, 2, 0, 0, 0)
      /\ TrRow(S, 3, 2, 1, 0, 0) /\ TrRow(S, 4, 2, 2, 0, 0) /\ TrRow(S, 5, 3, 2, 0, 0)
      /\ TrRow(S, 6, 3, 3, 0, 0)
  BY TrNetherClientTable DEF TrRow, TrTables, TrTally, TrSends, TrRecvs
<1>3. /\ TrStepIs("nether", "client", "send", "handshake", 0, 0, 0, 0)
      /\ TrStepIs("nether", "client", "send", "login start", 1, 0, 0, 0)
      /\ TrStepIs("nether", "client", "recv", "login success", 2, 0, 0, 0)
      /\ TrStepIs("nether", "client", "recv", "login finished", 2, 1, 0, 0)
      /\ TrStepIs("nether", "client", "send", "plugin key", 2, 2, 0, 0)
      /\ TrStepIs("nether", "client", "recv", "plugin key", 3, 2, 0, 0)
      /\ TrStepIs("nether", "client", "keys", "", 3, 3, 0, 0)
  BY DEF TrStepIs, TrMail, TrSealNonce, TrPeer
<1>4. /\ TrStepOk("nether", "client", S, 0) /\ TrStepOk("nether", "client", S, 1)
      /\ TrStepOk("nether", "client", S, 2) /\ TrStepOk("nether", "client", S, 3)
      /\ TrStepOk("nether", "client", S, 4) /\ TrStepOk("nether", "client", S, 5)
      /\ TrStepOk("nether", "client", S, 6)
  BY <1>1, <1>2, <1>3, TrOnes, TrStepFrom
<1>5. /\ TrCount(S, {"seal"}, 7) = 0 /\ TrCount(S, {"open"}, 7) = 0
      /\ TrCount(S, {"keys"}, 7) = 1 /\ TrCount(S, {"know"}, 7) = 0
  BY TrNetherClientTable DEF TrTables, TrTally
<1>6. TrEndOk("nether", "client", S, 7)  BY <1>5 DEF TrEndOk, TrSealed, TrPeer
<1>7. \A p \in 0..(7 - 1) : p = 0 \/ p = 1 \/ p = 2 \/ p = 3 \/ p = 4 \/ p = 5 \/ p = 6  OBVIOUS
<1> QED BY <1>4, <1>6, <1>7

\* Its type and length.
LEMMA TrNetherServerTyped == TrNetherServer \in Seq(TrStepsOf(TrNetherServer)) /\ Len(TrNetherServer) = 7
BY TrTuple7 DEF TrNetherServer

\* The server script of nether sends and takes what TrMail says, in that
\* order.
LEMMA TrNetherServerPlan ==
  ASSUME NEW S, S = TrNetherServer
  PROVE  /\ \A p \in 0..(7 - 1) : TrStepOk("nether", "server", S, p)
         /\ TrEndOk("nether", "server", S, 7)
<1>1. /\ S[1][1] = "recv" /\ S[2][1] = "recv" /\ S[3][1] = "send" /\ S[4][1] = "send"
      /\ S[5][1] = "recv" /\ S[6][1] = "send" /\ S[7][1] = "keys" /\ S[1][2] = "handshake"
      /\ S[2][2] = "login start" /\ S[3][2] = "login success" /\ S[4][2] = "login finished"
      /\ S[5][2] = "plugin key" /\ S[6][2] = "plugin key" /\ S[7][2] = ""
  BY DEF TrNetherServer
<1>2. /\ TrRow(S, 0, 0, 0, 0, 0) /\ TrRow(S, 1, 0, 1, 0, 0) /\ TrRow(S, 2, 0, 2, 0, 0)
      /\ TrRow(S, 3, 1, 2, 0, 0) /\ TrRow(S, 4, 2, 2, 0, 0) /\ TrRow(S, 5, 2, 3, 0, 0)
      /\ TrRow(S, 6, 3, 3, 0, 0)
  BY TrNetherServerTable DEF TrRow, TrTables, TrTally, TrSends, TrRecvs
<1>3. /\ TrStepIs("nether", "server", "recv", "handshake", 0, 0, 0, 0)
      /\ TrStepIs("nether", "server", "recv", "login start", 0, 1, 0, 0)
      /\ TrStepIs("nether", "server", "send", "login success", 0, 2, 0, 0)
      /\ TrStepIs("nether", "server", "send", "login finished", 1, 2, 0, 0)
      /\ TrStepIs("nether", "server", "recv", "plugin key", 2, 2, 0, 0)
      /\ TrStepIs("nether", "server", "send", "plugin key", 2, 3, 0, 0)
      /\ TrStepIs("nether", "server", "keys", "", 3, 3, 0, 0)
  BY DEF TrStepIs, TrMail, TrSealNonce, TrPeer
<1>4. /\ TrStepOk("nether", "server", S, 0) /\ TrStepOk("nether", "server", S, 1)
      /\ TrStepOk("nether", "server", S, 2) /\ TrStepOk("nether", "server", S, 3)
      /\ TrStepOk("nether", "server", S, 4) /\ TrStepOk("nether", "server", S, 5)
      /\ TrStepOk("nether", "server", S, 6)
  BY <1>1, <1>2, <1>3, TrOnes, TrStepFrom
<1>5. /\ TrCount(S, {"seal"}, 7) = 0 /\ TrCount(S, {"open"}, 7) = 0
      /\ TrCount(S, {"keys"}, 7) = 1 /\ TrCount(S, {"know"}, 7) = 0
  BY TrNetherServerTable DEF TrTables, TrTally
<1>6. TrEndOk("nether", "server", S, 7)  BY <1>5 DEF TrEndOk, TrSealed, TrPeer
<1>7. \A p \in 0..(7 - 1) : p = 0 \/ p = 1 \/ p = 2 \/ p = 3 \/ p = 4 \/ p = 5 \/ p = 6  OBVIOUS
<1> QED BY <1>4, <1>6, <1>7

\* Its type and length.
LEMMA TrShitstormClientTyped == TrShitstormClient \in Seq(TrStepsOf(TrShitstormClient)) /\ Len(TrShitstormClient) = 8
BY TrTuple8 DEF TrShitstormClient, TrShitstormFiller, TrShitstormFinish, TrShitstormTicket

\* The client script of shitstorm sends and takes what TrMail says, in that
\* order.
LEMMA TrShitstormClientPlan ==
  ASSUME NEW S, S = TrShitstormClient
  PROVE  /\ \A p \in 0..(8 - 1) : TrStepOk("shitstorm", "client", S, p)
         /\ TrEndOk("shitstorm", "client", S, 8)
<1>1. /\ S[1][1] = "send" /\ S[2][1] = "recv" /\ S[3][1] = "recv" /\ S[4][1] = "recv"
      /\ S[5][1] = "keys" /\ S[6][1] = "seal" /\ S[7][1] = "open" /\ S[8][1] = "open"
      /\ S[1][2] = "ClientHello" /\ S[2][2] = "ServerHello" /\ S[3][2] = "ChangeCipherSpec"
      /\ S[4][2] = "filler" /\ S[5][2] = "" /\ S[6][2] = "Finished" /\ S[7][2] = "ticket"
      /\ S[8][2] = "ticket"
  BY DEF TrShitstormClient, TrShitstormFiller, TrShitstormFinish, TrShitstormTicket
<1>2. /\ TrRow(S, 0, 0, 0, 0, 0) /\ TrRow(S, 1, 1, 0, 0, 0) /\ TrRow(S, 2, 1, 1, 0, 0)
      /\ TrRow(S, 3, 1, 2, 0, 0) /\ TrRow(S, 4, 1, 3, 0, 0) /\ TrRow(S, 5, 1, 3, 0, 0)
      /\ TrRow(S, 6, 2, 3, 1, 0) /\ TrRow(S, 7, 2, 4, 1, 1)
  BY TrShitstormClientTable DEF TrRow, TrTables, TrTally, TrSends, TrRecvs
<1>3. /\ TrStepIs("shitstorm", "client", "send", "ClientHello", 0, 0, 0, 0)
      /\ TrStepIs("shitstorm", "client", "recv", "ServerHello", 1, 0, 0, 0)
      /\ TrStepIs("shitstorm", "client", "recv", "ChangeCipherSpec", 1, 1, 0, 0)
      /\ TrStepIs("shitstorm", "client", "recv", "filler", 1, 2, 0, 0)
      /\ TrStepIs("shitstorm", "client", "keys", "", 1, 3, 0, 0)
      /\ TrStepIs("shitstorm", "client", "seal", "Finished", 1, 3, 0, 0)
      /\ TrStepIs("shitstorm", "client", "open", "ticket", 2, 3, 1, 0)
      /\ TrStepIs("shitstorm", "client", "open", "ticket", 2, 4, 1, 1)
  BY DEF TrStepIs, TrMail, TrSealNonce, TrPeer
<1>4. /\ TrStepOk("shitstorm", "client", S, 0) /\ TrStepOk("shitstorm", "client", S, 1)
      /\ TrStepOk("shitstorm", "client", S, 2) /\ TrStepOk("shitstorm", "client", S, 3)
      /\ TrStepOk("shitstorm", "client", S, 4) /\ TrStepOk("shitstorm", "client", S, 5)
      /\ TrStepOk("shitstorm", "client", S, 6) /\ TrStepOk("shitstorm", "client", S, 7)
  BY <1>1, <1>2, <1>3, TrOnes, TrStepFrom
<1>5. /\ TrCount(S, {"seal"}, 8) = 1 /\ TrCount(S, {"open"}, 8) = 2
      /\ TrCount(S, {"keys"}, 8) = 1 /\ TrCount(S, {"know"}, 8) = 0
  BY TrShitstormClientTable DEF TrTables, TrTally
<1>6. TrEndOk("shitstorm", "client", S, 8)  BY <1>5 DEF TrEndOk, TrSealed, TrPeer
<1>7. \A p \in 0..(8 - 1) : p = 0 \/ p = 1 \/ p = 2 \/ p = 3 \/ p = 4 \/ p = 5 \/ p = 6 \/ p = 7
  OBVIOUS
<1> QED BY <1>4, <1>6, <1>7

\* Its type and length.
LEMMA TrShitstormServerTyped == TrShitstormServer \in Seq(TrStepsOf(TrShitstormServer)) /\ Len(TrShitstormServer) = 9
BY TrTuple9 DEF TrShitstormServer, TrShitstormFiller, TrShitstormFinish, TrShitstormTicket

\* The server script of shitstorm sends and takes what TrMail says, in that
\* order.
LEMMA TrShitstormServerPlan ==
  ASSUME NEW S, S = TrShitstormServer
  PROVE  /\ \A p \in 0..(9 - 1) : TrStepOk("shitstorm", "server", S, p)
         /\ TrEndOk("shitstorm", "server", S, 9)
<1>1. /\ S[1][1] = "recv" /\ S[2][1] = "know" /\ S[3][1] = "send" /\ S[4][1] = "send"
      /\ S[5][1] = "send" /\ S[6][1] = "keys" /\ S[7][1] = "open" /\ S[8][1] = "seal"
      /\ S[9][1] = "seal" /\ S[1][2] = "ClientHello" /\ S[2][2] = "" /\ S[3][2] = "ServerHello"
      /\ S[4][2] = "ChangeCipherSpec" /\ S[5][2] = "filler" /\ S[6][2] = ""
      /\ S[7][2] = "Finished" /\ S[8][2] = "ticket" /\ S[9][2] = "ticket"
  BY DEF TrShitstormServer, TrShitstormFiller, TrShitstormFinish, TrShitstormTicket
<1>2. /\ TrRow(S, 0, 0, 0, 0, 0) /\ TrRow(S, 1, 0, 1, 0, 0) /\ TrRow(S, 2, 0, 1, 0, 0)
      /\ TrRow(S, 3, 1, 1, 0, 0) /\ TrRow(S, 4, 2, 1, 0, 0) /\ TrRow(S, 5, 3, 1, 0, 0)
      /\ TrRow(S, 6, 3, 1, 0, 0) /\ TrRow(S, 7, 3, 2, 0, 1) /\ TrRow(S, 8, 4, 2, 1, 1)
  BY TrShitstormServerTable DEF TrRow, TrTables, TrTally, TrSends, TrRecvs
<1>3. /\ TrStepIs("shitstorm", "server", "recv", "ClientHello", 0, 0, 0, 0)
      /\ TrStepIs("shitstorm", "server", "know", "", 0, 1, 0, 0)
      /\ TrStepIs("shitstorm", "server", "send", "ServerHello", 0, 1, 0, 0)
      /\ TrStepIs("shitstorm", "server", "send", "ChangeCipherSpec", 1, 1, 0, 0)
      /\ TrStepIs("shitstorm", "server", "send", "filler", 2, 1, 0, 0)
      /\ TrStepIs("shitstorm", "server", "keys", "", 3, 1, 0, 0)
      /\ TrStepIs("shitstorm", "server", "open", "Finished", 3, 1, 0, 0)
      /\ TrStepIs("shitstorm", "server", "seal", "ticket", 3, 2, 0, 1)
      /\ TrStepIs("shitstorm", "server", "seal", "ticket", 4, 2, 1, 1)
  BY DEF TrStepIs, TrMail, TrSealNonce, TrPeer
<1>4. /\ TrStepOk("shitstorm", "server", S, 0) /\ TrStepOk("shitstorm", "server", S, 1)
      /\ TrStepOk("shitstorm", "server", S, 2) /\ TrStepOk("shitstorm", "server", S, 3)
      /\ TrStepOk("shitstorm", "server", S, 4) /\ TrStepOk("shitstorm", "server", S, 5)
      /\ TrStepOk("shitstorm", "server", S, 6) /\ TrStepOk("shitstorm", "server", S, 7)
      /\ TrStepOk("shitstorm", "server", S, 8)
  <2>1. /\ TrStepOk("shitstorm", "server", S, 0) /\ TrStepOk("shitstorm", "server", S, 1)
        /\ TrStepOk("shitstorm", "server", S, 2) /\ TrStepOk("shitstorm", "server", S, 3)
        /\ TrStepOk("shitstorm", "server", S, 4)
    BY <1>1, <1>2, <1>3, TrOnes, TrStepFrom
  <2>2. /\ TrStepOk("shitstorm", "server", S, 5) /\ TrStepOk("shitstorm", "server", S, 6)
        /\ TrStepOk("shitstorm", "server", S, 7) /\ TrStepOk("shitstorm", "server", S, 8)
    BY <1>1, <1>2, <1>3, TrOnes, TrStepFrom
  <2> QED BY <2>1, <2>2
<1>5. /\ TrCount(S, {"seal"}, 9) = 2 /\ TrCount(S, {"open"}, 9) = 1
      /\ TrCount(S, {"keys"}, 9) = 1 /\ TrCount(S, {"know"}, 9) = 1
  BY TrShitstormServerTable DEF TrTables, TrTally
<1>6. TrEndOk("shitstorm", "server", S, 9)  BY <1>5 DEF TrEndOk, TrSealed, TrPeer
<1>7. \A p \in 0..(9 - 1) : p = 0 \/ p = 1 \/ p = 2 \/ p = 3 \/ p = 4 \/ p = 5 \/ p = 6 \/ p = 7 \/ p = 8
  OBVIOUS
<1> QED BY <1>4, <1>6, <1>7

-----------------------------------------------------------------------------

\* What the proofs use of a script S of n steps, and of a pair of them.
TrPlan(k, x, S, n) ==
    /\ n \in 0..9 /\ S \in Seq(TrStepsOf(S)) /\ Len(S) = n /\ (n = 0 <=> k = "raw")
    /\ \A p \in 0..(n - 1) : TrStepOk(k, x, S, p)
    /\ k # "raw" => TrEndOk(k, x, S, n)

\* Every kind has such a plan for each side.
LEMMA TrPlans ==
  ASSUME NEW k \in TrKinds \cup {"raw"}, NEW x \in TrSides, NEW S, S = TrScript(k, x)
  PROVE  \E n \in 0..9 : TrPlan(k, x, S, n)
<1>1. CASE k = "raw"
  <2>1. S = <<>>  BY <1>1 DEF TrScript
  <2>2. S \in Seq(TrStepsOf(S)) /\ Len(S) = 0  BY <2>1
  <2>3. TrPlan(k, x, S, 0)  BY <1>1, <2>2 DEF TrPlan
  <2> QED BY <2>3
<1>2. CASE k = "scramble" /\ x = "client"
  <2>1. S = TrScrambleClient  BY <1>2 DEF TrScript
  <2>2. S \in Seq(TrStepsOf(S)) /\ Len(S) = 3  BY <2>1, TrScrambleClientTyped, Zenon
  <2>3. TrPlan(k, x, S, 3)  BY <1>2, <2>1, <2>2, TrScrambleClientPlan DEF TrPlan
  <2> QED BY <2>3
<1>3. CASE k = "scramble" /\ x = "server"
  <2>1. S = TrScrambleServer  BY <1>3 DEF TrScript
  <2>2. S \in Seq(TrStepsOf(S)) /\ Len(S) = 4  BY <2>1, TrScrambleServerTyped, Zenon
  <2>3. TrPlan(k, x, S, 4)  BY <1>3, <2>1, <2>2, TrScrambleServerPlan DEF TrPlan
  <2> QED BY <2>3
<1>4. CASE k = "shade" /\ x = "client"
  <2>1. S = TrShadeClient  BY <1>4 DEF TrScript
  <2>2. S \in Seq(TrStepsOf(S)) /\ Len(S) = 3  BY <2>1, TrShadeClientTyped, Zenon
  <2>3. TrPlan(k, x, S, 3)  BY <1>4, <2>1, <2>2, TrShadeClientPlan DEF TrPlan
  <2> QED BY <2>3
<1>5. CASE k = "shade" /\ x = "server"
  <2>1. S = TrShadeServer  BY <1>5 DEF TrScript
  <2>2. S \in Seq(TrStepsOf(S)) /\ Len(S) = 4  BY <2>1, TrShadeServerTyped, Zenon
  <2>3. TrPlan(k, x, S, 4)  BY <1>5, <2>1, <2>2, TrShadeServerPlan DEF TrPlan
  <2> QED BY <2>3
<1>6. CASE k = "mirage" /\ x = "client"
  <2>1. S = TrMirageClient  BY <1>6 DEF TrScript
  <2>2. S \in Seq(TrStepsOf(S)) /\ Len(S) = 6  BY <2>1, TrMirageClientTyped, Zenon
  <2>3. TrPlan(k, x, S, 6)  BY <1>6, <2>1, <2>2, TrMirageClientPlan DEF TrPlan
  <2> QED BY <2>3
<1>7. CASE k = "mirage" /\ x = "server"
  <2>1. S = TrMirageServer  BY <1>7 DEF TrScript
  <2>2. S \in Seq(TrStepsOf(S)) /\ Len(S) = 7  BY <2>1, TrMirageServerTyped, Zenon
  <2>3. TrPlan(k, x, S, 7)  BY <1>7, <2>1, <2>2, TrMirageServerPlan DEF TrPlan
  <2> QED BY <2>3
<1>8. CASE k = "speakeasy" /\ x = "client"
  <2>1. S = TrSpeakeasyClient  BY <1>8 DEF TrScript
  <2>2. S \in Seq(TrStepsOf(S)) /\ Len(S) = 9  BY <2>1, TrSpeakeasyClientTyped, Zenon
  <2>3. TrPlan(k, x, S, 9)  BY <1>8, <2>1, <2>2, TrSpeakeasyClientPlan DEF TrPlan
  <2> QED BY <2>3
<1>9. CASE k = "speakeasy" /\ x = "server"
  <2>1. S = TrSpeakeasyServer  BY <1>9 DEF TrScript
  <2>2. S \in Seq(TrStepsOf(S)) /\ Len(S) = 9  BY <2>1, TrSpeakeasyServerTyped, Zenon
  <2>3. TrPlan(k, x, S, 9)  BY <1>9, <2>1, <2>2, TrSpeakeasyServerPlan DEF TrPlan
  <2> QED BY <2>3
<1>10. CASE k = "nether" /\ x = "client"
  <2>1. S = TrNetherClient  BY <1>10 DEF TrScript
  <2>2. S \in Seq(TrStepsOf(S)) /\ Len(S) = 7  BY <2>1, TrNetherClientTyped, Zenon
  <2>3. TrPlan(k, x, S, 7)  BY <1>10, <2>1, <2>2, TrNetherClientPlan DEF TrPlan
  <2> QED BY <2>3
<1>11. CASE k = "nether" /\ x = "server"
  <2>1. S = TrNetherServer  BY <1>11 DEF TrScript
  <2>2. S \in Seq(TrStepsOf(S)) /\ Len(S) = 7  BY <2>1, TrNetherServerTyped, Zenon
  <2>3. TrPlan(k, x, S, 7)  BY <1>11, <2>1, <2>2, TrNetherServerPlan DEF TrPlan
  <2> QED BY <2>3
<1>12. CASE k = "shitstorm" /\ x = "client"
  <2>1. S = TrShitstormClient  BY <1>12 DEF TrScript
  <2>2. S \in Seq(TrStepsOf(S)) /\ Len(S) = 8  BY <2>1, TrShitstormClientTyped, Zenon
  <2>3. TrPlan(k, x, S, 8)  BY <1>12, <2>1, <2>2, TrShitstormClientPlan DEF TrPlan
  <2> QED BY <2>3
<1>13. CASE k = "shitstorm" /\ x = "server"
  <2>1. S = TrShitstormServer  BY <1>13 DEF TrScript
  <2>2. S \in Seq(TrStepsOf(S)) /\ Len(S) = 9  BY <2>1, TrShitstormServerTyped, Zenon
  <2>3. TrPlan(k, x, S, 9)  BY <1>13, <2>1, <2>2, TrShitstormServerPlan DEF TrPlan
  <2> QED BY <2>3
<1> QED BY <1>1, <1>2, <1>3, <1>4, <1>5, <1>6, <1>7, <1>8, <1>9, <1>10, <1>11, <1>12, <1>13 DEF TrKinds, TrSides

\* A verb that a script has is counted at its end.
LEMMA TrCounted ==
  ASSUME NEW S, NEW V, NEW n \in 0..9, NEW p \in 0..(n - 1), S[p + 1][1] \in V
  PROVE  TrCount(S, V, n) >= 1
<1>1. \A i \in 1..9 : TrDid(S, V, n, i) \in {0, 1}  BY DEF TrDid
<1>2. TrDid(S, V, n, p + 1) = 1 /\ p + 1 \in 1..9  BY DEF TrDid
<1>3. p + 1 \in {1, 2, 3, 4, 5, 6, 7, 8, 9}  BY <1>2
<1> QED BY <1>1, <1>2, <1>3 DEF TrCount

\* Of all kinds only shitstorm opens messages: both of its pairs.
LEMMA TrShitstormOpens ==
  ASSUME NEW S, S = TrShitstormClient, NEW T, T = TrShitstormServer
  PROVE  /\ \A p \in 0..7, q \in 0..9 : TrOpenOk("client", S, p, T, q)
         /\ \A p \in 0..8, q \in 0..8 : TrOpenOk("server", T, p, S, q)
<1>1. /\ TrTally(S, {"send", "seal"}, <<0, 1, 1, 1, 1, 1, 2, 2, 2>>, 8)
      /\ TrTally(S, {"recv", "open"}, <<0, 0, 1, 2, 3, 3, 3, 4, 5>>, 8)
      /\ TrTally(S, {"keys"}, <<0, 0, 0, 0, 0, 1, 1, 1, 1>>, 8)
  BY TrShitstormClientTable DEF TrTables
<1>2. /\ TrTally(T, {"send", "seal"}, <<0, 0, 0, 1, 2, 3, 3, 3, 4, 5>>, 9)
      /\ TrTally(T, {"recv", "open"}, <<0, 1, 1, 1, 1, 1, 1, 2, 2, 2>>, 9)
      /\ TrTally(T, {"keys"}, <<0, 0, 0, 0, 0, 0, 1, 1, 1, 1>>, 9)
      /\ TrTally(T, {"know"}, <<0, 0, 1, 1, 1, 1, 1, 1, 1, 1>>, 9)
  BY TrShitstormServerTable DEF TrTables
<1>3. \A p \in 0..7 : S[p + 1][1] = "open" => p = 6 \/ p = 7
  <2>1. /\ S[1][1] = "send" /\ S[2][1] = "recv" /\ S[3][1] = "recv" /\ S[4][1] = "recv"
        /\ S[5][1] = "keys" /\ S[6][1] = "seal"
    BY DEF TrShitstormClient, TrShitstormFiller, TrShitstormFinish, TrShitstormTicket
  <2> QED BY <2>1
<1>4. \A p \in 0..8 : T[p + 1][1] = "open" => p = 6
  <2>1. /\ T[1][1] = "recv" /\ T[2][1] = "know" /\ T[3][1] = "send" /\ T[4][1] = "send"
        /\ T[5][1] = "send" /\ T[6][1] = "keys" /\ T[8][1] = "seal" /\ T[9][1] = "seal"
    BY DEF TrShitstormServer, TrShitstormFiller, TrShitstormFinish, TrShitstormTicket
  <2> QED BY <2>1
<1>5. /\ TrRecvs(S, 6) = 3 /\ TrRecvs(S, 7) = 4
      /\ TrCount(S, {"keys"}, 6) = 1 /\ TrCount(S, {"keys"}, 7) = 1 /\ TrCount(S, {"keys"}, 8) = 1
      /\ TrSends(S, 0) = 0 /\ TrSends(S, 1) = 1 /\ TrSends(S, 2) = 1
      /\ TrSends(S, 3) = 1 /\ TrSends(S, 4) = 1 /\ TrSends(S, 5) = 1
  BY <1>1 DEF TrTally, TrSends, TrRecvs
<1>6. /\ TrRecvs(T, 6) = 1
      /\ TrCount(T, {"keys"}, 6) = 1 /\ TrCount(T, {"keys"}, 8) = 1 /\ TrCount(T, {"keys"}, 9) = 1
      /\ TrCount(T, {"know"}, 6) = 1 /\ TrCount(T, {"know"}, 8) = 1 /\ TrCount(T, {"know"}, 9) = 1
      /\ TrSends(T, 0) = 0 /\ TrSends(T, 1) = 0 /\ TrSends(T, 2) = 0 /\ TrSends(T, 3) = 1
      /\ TrSends(T, 4) = 2 /\ TrSends(T, 5) = 3 /\ TrSends(T, 6) = 3 /\ TrSends(T, 7) = 3
  BY <1>2 DEF TrTally, TrSends, TrRecvs
<1>7. \A q \in 0..9 : TrSends(T, q) > 3 => q = 8 \/ q = 9  BY <1>6
<1>8. \A q \in 0..8 : TrSends(S, q) > 1 => q = 6 \/ q = 7 \/ q = 8  BY <1>5
<1>9. ASSUME NEW p \in 0..7, NEW q \in 0..9, S[p + 1][1] = "open", TrSends(T, q) > TrRecvs(S, p)
      PROVE  (p = 6 \/ p = 7) /\ (q = 8 \/ q = 9)
  <2>1. p = 6 \/ p = 7  BY <1>3, <1>9
  <2>2. TrSends(T, q) > 3
    <3>1. TrSends(T, q) \in 0..9  BY TrCountNat DEF TrSends
    <3> QED BY <1>5, <1>9, <2>1, <3>1
  <2> QED BY <1>7, <2>1, <2>2
<1>10. ASSUME NEW p \in 0..8, NEW q \in 0..8, T[p + 1][1] = "open", TrSends(S, q) > TrRecvs(T, p)
       PROVE  p = 6 /\ (q = 6 \/ q = 7 \/ q = 8)
  BY <1>4, <1>6, <1>8, <1>10
<1>11. ASSUME NEW p \in 0..7, NEW q \in 0..9 PROVE TrOpenOk("client", S, p, T, q)
  BY <1>5, <1>6, <1>9 DEF TrOpenOk
<1>12. ASSUME NEW p \in 0..8, NEW q \in 0..8 PROVE TrOpenOk("server", T, p, S, q)
  BY <1>5, <1>6, <1>10 DEF TrOpenOk
<1> QED BY <1>11, <1>12

\* Whatever the kind, a side that opens a message has what it needs for it.
LEMMA TrOpensAll ==
  ASSUME NEW k \in TrKinds \cup {"raw"}, NEW x \in TrSides, NEW S, NEW T, NEW n, NEW m,
         S = TrScript(k, x), T = TrScript(k, TrPeer(x)),
         TrPlan(k, x, S, n), TrPlan(k, TrPeer(x), T, m),
         NEW p \in 0..(n - 1), NEW q \in 0..m
  PROVE  TrOpenOk(x, S, p, T, q)
<1>1. CASE k # "shitstorm"
  <2>1. k # "raw" /\ n \in 0..9  BY DEF TrPlan
  <2>2. TrCount(S, {"open"}, n) = 0  BY <1>1, <2>1 DEF TrPlan, TrEndOk, TrSealed
  <2>3. S[p + 1][1] # "open"
    <3>1. S[p + 1][1] \in {"open"} => TrCount(S, {"open"}, n) >= 1  BY <2>1, TrCounted
    <3> QED BY <2>2, <3>1
  <2> QED BY <2>3 DEF TrOpenOk
<1>2. CASE k = "shitstorm" /\ x = "client"
  <2>1. S = TrShitstormClient /\ T = TrShitstormServer  BY <1>2 DEF TrScript, TrPeer
  <2>2. n = 8 /\ m = 9  BY <2>1, TrShitstormClientTyped, TrShitstormServerTyped DEF TrPlan
  <2> QED BY <1>2, <2>1, <2>2, TrShitstormOpens
<1>3. CASE k = "shitstorm" /\ x = "server"
  <2>1. T = TrShitstormClient /\ S = TrShitstormServer  BY <1>3 DEF TrScript, TrPeer
  <2>2. m = 8 /\ n = 9  BY <2>1, TrShitstormClientTyped, TrShitstormServerTyped DEF TrPlan
  <2> QED BY <1>3, <2>1, <2>2, TrShitstormOpens
<1> QED BY <1>1, <1>2, <1>3 DEF TrSides

-----------------------------------------------------------------------------

\* The two sides are each other's peer.
LEMMA TrPeers ==
  /\ TrPeer("client") = "server" /\ TrPeer("server") = "client"
  /\ \A x \in TrSides : TrPeer(x) \in TrSides /\ TrPeer(x) # x /\ TrPeer(TrPeer(x)) = x
  /\ \A x, y \in TrSides : y # x => y = TrPeer(x)
BY DEF TrPeer, TrSides

\* The keys of the two sides fit when neither, or both, have the static key.
LEMMA TrKeysFit ==
  ASSUME NEW k \in TrKinds \cup {"raw"}, NEW w \in BOOLEAN, w \/ k \notin {"mirage", "shitstorm"}
  PROVE  /\ TrDerive(k, "client", w).send = TrDerive(k, "server", TRUE).recv
         /\ TrDerive(k, "server", TRUE).send = TrDerive(k, "client", w).recv
<1>1. CASE w
  <2>1. w = TRUE  BY <1>1
  <2> QED BY <2>1 DEF TrKinds, TrDerive, TrPair, TrScrambleKeys, TrShadeKeys, TrMirageKeys,
                      TrSpeakeasyKeys, TrNetherKeys, TrShitstormKeys
<1>2. CASE ~w
  <2>1. k \notin {"mirage", "shitstorm"}  BY <1>2
  <2> QED BY <2>1 DEF TrKinds, TrDerive, TrPair, TrScrambleKeys, TrShadeKeys, TrMirageKeys,
                      TrSpeakeasyKeys, TrNetherKeys, TrShitstormKeys
<1> QED BY <1>1, <1>2

\* The keys that the two sides derive fit across the directions.
LEMMA TrOwnFit ==
  ASSUME TrType, trKind.knows \/ trKind.kind \notin {"mirage", "shitstorm"}
  PROVE  \A x \in TrSides : TrOwnKeys(x).send = TrOwnKeys(TrPeer(x)).recv
<1>1. PICK k, w : k = trKind.kind /\ w = trKind.knows  OBVIOUS
<1>2. k \in TrKinds \cup {"raw"} /\ w \in BOOLEAN /\ (w \/ k \notin {"mirage", "shitstorm"})
  BY <1>1 DEF TrType
<1>3. ("client" = "client" => w) = w /\ ("server" = "client" => w) = TRUE  BY <1>2
<1>4. TrOwnKeys("client") = TrDerive(k, "client", w)  BY <1>1, <1>3, Zenon DEF TrOwnKeys
<1>5. TrOwnKeys("server") = TrDerive(k, "server", TRUE)  BY <1>1, <1>3, Zenon DEF TrOwnKeys
<1>6. /\ TrOwnKeys("client").send = TrOwnKeys("server").recv
      /\ TrOwnKeys("server").send = TrOwnKeys("client").recv
  BY <1>2, <1>4, <1>5, TrKeysFit
<1> QED BY <1>6, TrPeers DEF TrSides

\* Side x is to do step p + 1 of its script S of n steps, and has rest left
\* after it.
TrAt(x, S, n, p, rest) ==
    /\ S = TrScr(x) /\ TrPlan(trKind.kind, x, S, n)
    /\ p = TrPos(x) /\ p \in 0..(n - 1)
    /\ Head(trHs[x].todo) = S[p + 1]
    /\ rest = Tail(trHs[x].todo)
    /\ rest \in Seq(TrStepsOf(S)) /\ Len(rest) = n - p - 1
    /\ \A i \in 1..Len(rest) : rest[i] = S[p + 1 + i]

\* A side whose handshake runs is at some step of its script.
LEMMA TrAtIs ==
  ASSUME TrInv, NEW x \in TrSides, TrRunning(x)
  PROVE  \E S, n, p, rest : TrAt(x, S, n, p, rest)
<1>1. PICK S : S = TrScr(x)  OBVIOUS
<1>2. PICK n : TrPlan(trKind.kind, x, S, n)  BY <1>1, TrPlans DEF TrScr, TrInv, TrType
<1>3. PICK p : p = TrPos(x)  OBVIOUS
<1>4. PICK todo, X : todo = trHs[x].todo /\ X = TrStepsOf(S)  OBVIOUS
<1>5. todo \in Seq(X) /\ todo # <<>>  BY <1>1, <1>4 DEF TrInv, TrType, TrRunning
<1>6. Len(S) = n /\ n \in 0..9  BY <1>2 DEF TrPlan
<1>7. p = n - Len(todo)  BY <1>1, <1>3, <1>4, <1>6 DEF TrPos
<1>8. \A i \in 1..Len(todo) : todo[i] = S[p + i]
  BY <1>1, <1>3, <1>4 DEF TrInv, TrHsInv, TrProgress
<1>9. p \in 0..n
  <2>1. TrPos(x) \in 0..Len(TrScr(x))  BY DEF TrInv, TrHsInv, TrProgress
  <2> QED BY <1>1, <1>3, <1>6, <2>1
<1>10. PICK rest : rest = Tail(todo)  OBVIOUS
<1>11. /\ rest \in Seq(X) /\ Len(rest) = Len(todo) - 1
       /\ \A i \in 1..Len(rest) : rest[i] = todo[i + 1]
       /\ Len(todo) \in Nat /\ Len(todo) > 0 /\ Head(todo) = todo[1]
  BY <1>5, <1>10
<1>12. p \in 0..(n - 1) /\ Len(rest) = n - p - 1  BY <1>6, <1>7, <1>9, <1>11
<1>13. Head(todo) = S[p + 1]  BY <1>8, <1>11
<1>14. \A i \in 1..Len(rest) : rest[i] = S[p + 1 + i]
  <2> SUFFICES ASSUME NEW i \in 1..Len(rest) PROVE rest[i] = S[p + 1 + i]
    OBVIOUS
  <2>1. rest[i] = todo[i + 1] /\ i + 1 \in 1..Len(todo) /\ p + (i + 1) = p + 1 + i
    BY <1>11, <1>12
  <2> QED BY <1>8, <2>1
<1>15. TrAt(x, S, n, p, rest)
  BY <1>1, <1>2, <1>3, <1>4, <1>10, <1>11, <1>12, <1>13, <1>14 DEF TrAt
<1> QED BY <1>15

\* The side is where it is in its script, and the messages follow.
TrGoesOn(x, rest, ix, iy) ==
    /\ trKind' = trKind /\ trBudget' = trBudget /\ trNet' = trNet
    /\ DOMAIN trHs' = TrSides
    /\ trHs'[x] = [todo |-> rest, inbox |-> ix, ended |-> IF rest = <<>> THEN "done" ELSE ""]
    /\ trHs'[TrPeer(x)] = [todo |-> trHs[TrPeer(x)].todo, inbox |-> iy, ended |-> trHs[TrPeer(x)].ended]

\* What TrAdvance does to the side that advances and to the other.
LEMMA TrAdvances ==
  ASSUME NEW hs, NEW x \in TrSides, DOMAIN hs = TrSides,
         hs[x] = [todo |-> hs[x].todo, inbox |-> hs[x].inbox, ended |-> hs[x].ended]
  PROVE  /\ DOMAIN TrAdvance(hs, x) = TrSides
         /\ TrAdvance(hs, x)[x] = [todo |-> Tail(hs[x].todo), inbox |-> hs[x].inbox,
                                   ended |-> IF Tail(hs[x].todo) = <<>> THEN "done" ELSE ""]
         /\ \A y \in TrSides : y # x => TrAdvance(hs, x)[y] = hs[y]
<1>1. PICK rest, fin, h : /\ rest = Tail(hs[x].todo) /\ fin = IF rest = <<>> THEN "done" ELSE ""
                          /\ h = hs[x]
  OBVIOUS
<1>2. TrAdvance(hs, x) = [hs EXCEPT ![x].todo = rest, ![x].ended = fin]
  BY <1>1, Zenon DEF TrAdvance
<1>3. TrAdvance(hs, x)[x] = [todo |-> rest, inbox |-> hs[x].inbox, ended |-> fin]  BY <1>2
<1> QED BY <1>1, <1>2, <1>3

\* The step itself: positions, and the rest of the script.
LEMMA TrMoves ==
  ASSUME TrInv, NEW x \in TrSides, NEW S, NEW n, NEW p, NEW rest, TrAt(x, S, n, p, rest),
         NEW ix, NEW iy, TrGoesOn(x, rest, ix, iy)
  PROVE  /\ TrPos(x)' = p + 1 /\ TrPos(TrPeer(x))' = TrPos(TrPeer(x))
         /\ \A y \in TrSides : TrScr(y)' = TrScr(y)
         /\ \A y \in TrSides : TrProgress(y)'
         /\ trHs'[x].ended = "done" <=> p + 1 = n
<1>1. \A y \in TrSides : TrScr(y)' = TrScr(y)  BY DEF TrGoesOn, TrScr
<1>2. PICK y \in TrSides : y = TrPeer(x) /\ y # x  BY TrPeers
<1>3. /\ trHs'[x].todo = rest /\ trHs'[y].todo = trHs[y].todo /\ trHs'[y].ended = trHs[y].ended
      /\ trHs'[x].ended = IF rest = <<>> THEN "done" ELSE ""
  <2>1. PICK fin : fin = IF rest = <<>> THEN "done" ELSE ""  OBVIOUS
  <2>2. trHs'[x] = [todo |-> rest, inbox |-> ix, ended |-> fin]  BY <2>1, Zenon DEF TrGoesOn
  <2>3. trHs'[y] = [todo |-> trHs[y].todo, inbox |-> iy, ended |-> trHs[y].ended]
    BY <1>2, Zenon DEF TrGoesOn
  <2>4. /\ trHs'[x].todo = rest /\ trHs'[y].todo = trHs[y].todo /\ trHs'[y].ended = trHs[y].ended
        /\ trHs'[x].ended = fin
    BY <2>2, <2>3
  <2> QED BY <2>1, <2>4, Zenon
<1>4. Len(S) = n /\ S = TrScr(x) /\ n \in 0..9 /\ p \in 0..(n - 1) /\ Len(rest) = n - p - 1
  BY DEF TrAt, TrPlan
<1>5. TrPos(x)' = p + 1
  <2>1. TrPos(x)' = Len(TrScr(x)) - Len(rest)  BY <1>1, <1>3, Zenon DEF TrPos
  <2> QED BY <1>4, <2>1
<1>6. TrPos(y)' = TrPos(y)  BY <1>1, <1>3, Zenon DEF TrPos
<1>7. trHs'[x].ended = "done" <=> p + 1 = n
  <2>0. PICK X : rest \in Seq(X)  BY DEF TrAt
  <2>1. rest = <<>> <=> Len(rest) = 0  BY <2>0
  <2>2. trHs'[x].ended = "done" <=> rest = <<>>  BY <1>3, Zenon
  <2> QED BY <1>4, <2>1, <2>2
<1>8. TrProgress(x)'
  <2>1. TrPos(x)' \in 0..Len(TrScr(x)')  BY <1>1, <1>4, <1>5
  <2>2. \A i \in 1..Len(rest) : rest[i] = TrScr(x)'[TrPos(x)' + i]  BY <1>1, <1>4, <1>5 DEF TrAt
  <2>3. trHs'[x].ended = "done" <=> TrPos(x)' = Len(TrScr(x)')  BY <1>1, <1>4, <1>5, <1>7
  <2>4. trHs'[x].ended # "failed"  BY <1>3
  <2> QED BY <1>3, <2>1, <2>2, <2>3, <2>4 DEF TrProgress
<1>9. TrProgress(y)'
  <2>1. TrProgress(y)  BY DEF TrInv, TrHsInv
  <2>2. TrScr(y)' = TrScr(y) /\ trKind' = trKind /\ trBudget' = trBudget  BY <1>1 DEF TrGoesOn
  <2> QED BY <1>3, <1>6, <2>1, <2>2 DEF TrProgress
<1>10. \A z \in TrSides : TrProgress(z)'  BY <1>2, <1>8, <1>9, TrPeers
<1> QED BY <1>1, <1>2, <1>5, <1>6, <1>7, <1>10

\* The counts that a step changes.
LEMMA TrCountsGo ==
  ASSUME NEW x \in TrSides, NEW S, NEW n, NEW p, NEW rest, TrAt(x, S, n, p, rest)
  PROVE  /\ \A V : TrCount(S, V, p + 1) = TrCount(S, V, p) + (IF S[p + 1][1] \in V THEN 1 ELSE 0)
         /\ TrStepOk(trKind.kind, x, S, p)
         /\ S[p + 1][1] \in {"send", "seal", "recv", "open", "keys", "know"}
<1>1. p \in 0..8
  <2>1. n \in 0..9 /\ p \in 0..(n - 1)  BY Zenon DEF TrAt, TrPlan
  <2> QED BY <2>1
<1>2. TrStepOk(trKind.kind, x, S, p)  BY DEF TrAt, TrPlan
<1>3. S[p + 1][1] \in {"send", "seal", "recv", "open", "keys", "know"}
  BY <1>2 DEF TrStepOk, TrStepIs
<1> QED BY <1>1, <1>2, <1>3, TrCountStep

\* The messages on their way after a step, counted from those before it.
LEMMA TrTransits ==
  ASSUME TrInv, NEW x \in TrSides, NEW S, NEW n, NEW p, NEW rest, TrAt(x, S, n, p, rest),
         NEW ix, NEW iy, TrGoesOn(x, rest, ix, iy),
         \/ /\ S[p + 1][1] \in {"send", "seal"}
            /\ ix = trHs[x].inbox
            /\ iy = Append(trHs[TrPeer(x)].inbox, TrLetter(TrPeer(x), TrSends(S, p) + 1))
         \/ /\ S[p + 1][1] \in {"recv", "open"}
            /\ trHs[x].inbox # <<>> /\ ix = Tail(trHs[x].inbox)
            /\ iy = trHs[TrPeer(x)].inbox
         \/ /\ S[p + 1][1] \in {"keys", "know"}
            /\ ix = trHs[x].inbox
            /\ iy = trHs[TrPeer(x)].inbox
  PROVE  TrInTransit(x)' /\ TrInTransit(TrPeer(x))'
<1>0. PICK y \in TrSides : y = TrPeer(x) /\ y # x /\ x = TrPeer(y)  BY TrPeers
<1>1. PICK T, q : T = TrScr(y) /\ q = TrPos(y)  OBVIOUS
<1>2. S = TrScr(x) /\ p = TrPos(x)  BY DEF TrAt
<1>3. PICK a, b, c, d : a = TrSends(S, p) /\ b = TrRecvs(S, p) /\ c = TrSends(T, q) /\ d = TrRecvs(T, q)
  OBVIOUS
<1>4. a \in 0..9 /\ b \in 0..9 /\ c \in 0..9 /\ d \in 0..9
  BY <1>3, TrCountNat DEF TrSends, TrRecvs
<1>5. PICK bx, by : bx = trHs[x].inbox /\ by = trHs[y].inbox  OBVIOUS
<1>6. PICK X, Y : bx \in Seq(X) /\ by \in Seq(Y)  BY <1>5 DEF TrInv, TrType
<1>7. Len(bx) = c - b /\ \A i \in 1..Len(bx) : bx[i] = TrLetter(x, b + i)
  <2>1. TrInTransit(x)  BY DEF TrInv, TrHsInv
  <2> QED BY <1>0, <1>1, <1>2, <1>3, <1>5, <2>1, Zenon DEF TrInTransit
<1>8. Len(by) = a - d /\ \A i \in 1..Len(by) : by[i] = TrLetter(y, d + i)
  <2>1. TrInTransit(y)  BY DEF TrInv, TrHsInv
  <2> QED BY <1>0, <1>1, <1>2, <1>3, <1>5, <2>1, Zenon DEF TrInTransit
<1>9. /\ TrScr(x)' = S /\ TrScr(y)' = T /\ TrPos(x)' = p + 1 /\ TrPos(y)' = q
  BY <1>0, <1>1, <1>2, TrMoves
<1>10. trHs'[x].inbox = ix /\ trHs'[y].inbox = iy
  <2>1. PICK fin : fin = IF rest = <<>> THEN "done" ELSE ""  OBVIOUS
  <2>2. trHs'[x] = [todo |-> rest, inbox |-> ix, ended |-> fin]  BY <2>1, Zenon DEF TrGoesOn
  <2>3. trHs'[y] = [todo |-> trHs[y].todo, inbox |-> iy, ended |-> trHs[y].ended]
    BY <1>0, Zenon DEF TrGoesOn
  <2> QED BY <2>2, <2>3
<1>11. \A z, j : TrLetter(z, j)' = TrLetter(z, j)  BY Zenon DEF TrLetter, TrMailNonce, TrGoesOn
<1>12. PICK v : v = S[p + 1][1]  OBVIOUS
<1>13. /\ TrSends(S, p + 1) = a + (IF v \in {"send", "seal"} THEN 1 ELSE 0)
       /\ TrRecvs(S, p + 1) = b + (IF v \in {"recv", "open"} THEN 1 ELSE 0)
  <2>1. /\ TrCount(S, {"send", "seal"}, p + 1) =
             TrCount(S, {"send", "seal"}, p) + (IF v \in {"send", "seal"} THEN 1 ELSE 0)
        /\ TrCount(S, {"recv", "open"}, p + 1) =
             TrCount(S, {"recv", "open"}, p) + (IF v \in {"recv", "open"} THEN 1 ELSE 0)
    BY <1>12, TrCountsGo
  <2> QED BY <1>3, <2>1, Zenon DEF TrSends, TrRecvs
<1>14. PICK a1, b1 : a1 = TrSends(S, p + 1) /\ b1 = TrRecvs(S, p + 1)  OBVIOUS
<1>15. /\ (v \in {"send", "seal"} => a1 = a + 1 /\ b1 = b)
       /\ (v \in {"recv", "open"} => a1 = a /\ b1 = b + 1)
       /\ (v \in {"keys", "know"} => a1 = a /\ b1 = b)
  BY <1>4, <1>13, <1>14
<1>16. /\ Len(ix) = c - b1 /\ \A i \in 1..Len(ix) : ix[i] = TrLetter(x, b1 + i)
       /\ Len(iy) = a1 - d /\ \A i \in 1..Len(iy) : iy[i] = TrLetter(y, d + i)
  <2>1. CASE v \in {"send", "seal"}
    <3>1. ix = bx /\ a1 = a + 1 /\ b1 = b  BY <1>5, <1>12, <1>15, <2>1
    <3>2. PICK m : m = TrLetter(y, a + 1)  OBVIOUS
    <3>3. iy = Append(by, m)  BY <1>0, <1>3, <1>5, <1>12, <2>1, <3>2
    <3>4. PICK Z : by \in Seq(Z) /\ m \in Z
      <4>1. by \in Seq(Y \cup {m})  BY <1>6
      <4> QED BY <4>1
    <3>5. /\ Len(iy) = Len(by) + 1 /\ iy[Len(by) + 1] = m
          /\ \A i \in 1..Len(by) : iy[i] = by[i]
      BY <3>3, <3>4
    <3>6. d + (Len(by) + 1) = a + 1 /\ Len(by) \in Nat  BY <1>4, <1>6, <1>8
    <3>7. \A i \in 1..Len(iy) : iy[i] = TrLetter(y, d + i)
      <4> SUFFICES ASSUME NEW i \in 1..Len(iy) PROVE iy[i] = TrLetter(y, d + i)
        OBVIOUS
      <4>1. CASE i \in 1..Len(by)
        BY <1>8, <3>5, <4>1
      <4>2. CASE i = Len(by) + 1
        BY <3>2, <3>5, <3>6, <4>2
      <4> QED BY <3>5, <3>6, <4>1, <4>2
    <3> QED BY <1>4, <1>7, <3>1, <3>5, <3>6, <3>7
  <2>2. CASE v \in {"recv", "open"}
    <3>1. iy = by /\ a1 = a /\ b1 = b + 1 /\ ix = Tail(bx) /\ bx # <<>>
      BY <1>0, <1>5, <1>12, <1>15, <2>2
    <3>2. /\ Len(ix) = Len(bx) - 1 /\ Len(bx) \in Nat
          /\ \A i \in 1..Len(ix) : ix[i] = bx[i + 1]
      BY <1>6, <3>1
    <3>3. \A i \in 1..Len(ix) : ix[i] = TrLetter(x, b1 + i)
      <4> SUFFICES ASSUME NEW i \in 1..Len(ix) PROVE ix[i] = TrLetter(x, b1 + i)
        OBVIOUS
      <4>1. ix[i] = bx[i + 1] /\ i + 1 \in 1..Len(bx) /\ b + (i + 1) = b1 + i
        BY <1>4, <3>1, <3>2
      <4> QED BY <1>7, <4>1
    <3> QED BY <1>4, <1>7, <1>8, <3>1, <3>2, <3>3
  <2>3. CASE v \in {"keys", "know"}
    <3>1. ix = bx /\ iy = by /\ a1 = a /\ b1 = b  BY <1>0, <1>5, <1>12, <1>15, <2>3
    <3> QED BY <1>7, <1>8, <3>1
  <2>4. v \in {"send", "seal", "recv", "open", "keys", "know"}  BY <1>12, TrCountsGo
  <2> QED BY <2>1, <2>2, <2>3, <2>4
<1>17. TrInTransit(x)'  BY <1>0, <1>3, <1>9, <1>10, <1>11, <1>14, <1>16, Zenon DEF TrInTransit
<1>18. TrInTransit(y)'  BY <1>0, <1>3, <1>9, <1>10, <1>11, <1>14, <1>16, Zenon DEF TrInTransit
<1> QED BY <1>0, <1>17, <1>18

\* What a step establishes: its own keys, or that the client is known.
LEMMA TrKeyeds ==
  ASSUME TrInv, NEW x \in TrSides, NEW S, NEW n, NEW p, NEW rest, TrAt(x, S, n, p, rest),
         NEW ix, NEW iy, TrGoesOn(x, rest, ix, iy),
         trKeys'[TrPeer(x)] = trKeys[TrPeer(x)],
         IF S[p + 1][1] = "keys" THEN trKeys'[x] = TrOwnKeys(x) ELSE trKeys'[x] = trKeys[x],
         S[p + 1][1] = "know" => trKind.knows
  PROVE  TrKeyed(x)' /\ TrKeyed(TrPeer(x))'
<1>0. PICK y \in TrSides : y = TrPeer(x) /\ y # x /\ x = TrPeer(y)  BY TrPeers
<1>1. /\ TrScr(x)' = S /\ TrScr(y)' = TrScr(y) /\ TrPos(x)' = p + 1 /\ TrPos(y)' = TrPos(y)
      /\ S = TrScr(x) /\ p = TrPos(x)
  <2>1. S = TrScr(x) /\ p = TrPos(x)  BY Zenon DEF TrAt
  <2> QED BY <1>0, <2>1, TrMoves
<1>2. trKind' = trKind /\ \A z \in TrSides : TrOwnKeys(z)' = TrOwnKeys(z)
  BY Zenon DEF TrGoesOn, TrOwnKeys
<1>3. TrKeyed(x) /\ TrKeyed(y)  BY DEF TrInv, TrHsInv
<1>4. TrKeyed(y)'  BY <1>0, <1>1, <1>2, <1>3, Zenon DEF TrKeyed
<1>5. PICK v : v = S[p + 1][1]  OBVIOUS
<1>6. /\ TrCount(S, {"keys"}, p + 1) = TrCount(S, {"keys"}, p) + (IF v \in {"keys"} THEN 1 ELSE 0)
      /\ TrCount(S, {"know"}, p + 1) = TrCount(S, {"know"}, p) + (IF v \in {"know"} THEN 1 ELSE 0)
  BY <1>5, TrCountsGo
<1>7. TrCount(S, {"keys"}, p) \in 0..9 /\ TrCount(S, {"know"}, p) \in 0..9  BY TrCountNat
<1>8. /\ v # "keys" => TrCount(S, {"keys"}, p + 1) = TrCount(S, {"keys"}, p)
      /\ v # "know" => TrCount(S, {"know"}, p + 1) = TrCount(S, {"know"}, p)
  BY <1>6, <1>7
<1>9. trKeys'[x] = trKeys[x] \/ trKeys'[x] = TrOwnKeys(x)  OBVIOUS
<1>10. TrCount(S, {"keys"}, p + 1) = 1 => trKeys'[x] = TrOwnKeys(x)
  <2>1. CASE v = "keys"
    BY <1>5, <2>1
  <2>2. CASE v # "keys"
    <3>1. trKeys'[x] = trKeys[x]  BY <1>5, <2>2
    <3> QED BY <1>1, <1>3, <1>8, <2>2, <3>1 DEF TrKeyed
  <2> QED BY <2>1, <2>2
<1>11. TrCount(S, {"know"}, p + 1) = 1 => trKind.knows
  <2>1. CASE v = "know"
    BY <1>5, <2>1
  <2>2. CASE v # "know"
    BY <1>1, <1>3, <1>8, <2>2 DEF TrKeyed
  <2> QED BY <2>1, <2>2
<1>12. trKind.kind = "raw" => trKeys'[x] = TrOwnKeys(x)  BY <1>3, <1>9 DEF TrKeyed
<1>13. TrKeyed(x)'  BY <1>1, <1>2, <1>10, <1>11, <1>12, Zenon DEF TrKeyed
<1> QED BY <1>0, <1>4, <1>13

\* A handshake step leaves the two ends of the data alone but for a nonce.
TrOutGoes(d) ==
    /\ trOut' \in [nonce : Nat, epoch : Nat, records : Nat, open : BOOLEAN]
    /\ trOut'.epoch = trOut.epoch /\ trOut'.records = trOut.records /\ trOut'.open = trOut.open
    /\ trOut'.nonce = trOut.nonce + d
TrInGoes(d) ==
    /\ trIn' \in TrInType(trKind)
    /\ trIn'.epoch = trIn.epoch /\ trIn'.records = trIn.records /\ trIn'.open = trIn.open
    /\ trIn'.buf = trIn.buf /\ trIn'.got = trIn.got
    /\ trIn'.failed = trIn.failed /\ trIn'.timedOut = trIn.timedOut
    /\ trIn'.nonce = trIn.nonce + d

\* What the invariant says of the two ends of the data holds after the step.
LEMMA TrEndsKept ==
  ASSUME TrInv, NEW x \in TrSides, NEW S, NEW n, NEW p, NEW rest, TrAt(x, S, n, p, rest), TrRunning(x),
         NEW ix, NEW iy, TrGoesOn(x, rest, ix, iy),
         TrOutGoes(IF S[p + 1][1] = "seal" /\ x = trKind.dir THEN 1 ELSE 0),
         TrInGoes(IF S[p + 1][1] = "open" /\ x # trKind.dir THEN 1 ELSE 0)
  PROVE  TrOutInv' /\ TrInInv'
<1>0. PICK y \in TrSides : y = TrPeer(x) /\ y # x /\ x = TrPeer(y)  BY TrPeers
<1>1. PICK s : s = trKind  OBVIOUS
<1>2. s.dir \in TrSides /\ (s.dir = x \/ s.dir = y)  BY <1>0, <1>1, TrPeers DEF TrInv, TrType
<1>3. /\ trKind' = s /\ trNet' = trNet /\ TrSent' = TrSent /\ trKind'.dir = s.dir
  BY <1>1 DEF TrGoesOn, TrSent
<1>4. /\ TrScr(x)' = S /\ TrScr(y)' = TrScr(y) /\ TrPos(x)' = p + 1 /\ TrPos(y)' = TrPos(y)
      /\ S = TrScr(x) /\ p = TrPos(x) /\ (trHs'[x].ended = "done" <=> p + 1 = n)
  <2>1. S = TrScr(x) /\ p = TrPos(x)  BY Zenon DEF TrAt
  <2> QED BY <1>0, <2>1, TrMoves
<1>5. trHs'[y].ended = trHs[y].ended
  <2>3. trHs'[y] = [todo |-> trHs[y].todo, inbox |-> iy, ended |-> trHs[y].ended]
    BY <1>0, Zenon DEF TrGoesOn
  <2> QED BY <2>3
<1>6. trHs[x].ended # "done"  BY DEF TrRunning
<1>7. PICK v : v = S[p + 1][1]  OBVIOUS
<1>8. /\ TrCount(S, {"seal"}, p + 1) = TrCount(S, {"seal"}, p) + (IF v \in {"seal"} THEN 1 ELSE 0)
      /\ TrCount(S, {"open"}, p + 1) = TrCount(S, {"open"}, p) + (IF v \in {"open"} THEN 1 ELSE 0)
  BY <1>7, TrCountsGo
<1>9. /\ trOut' \in [nonce : Nat, epoch : Nat, records : Nat, open : BOOLEAN]
      /\ trOut'.epoch = trOut.epoch /\ trOut'.records = trOut.records /\ trOut'.open = trOut.open
      /\ trOut'.nonce = trOut.nonce + (IF v = "seal" /\ x = s.dir THEN 1 ELSE 0)
  BY <1>1, <1>7, Zenon DEF TrOutGoes
<1>10. /\ trOut.nonce \in Nat
       /\ trHs[s.dir].ended # "done" =>
            /\ trOut.open /\ TrSent = 0
            /\ trOut.nonce = TrCount(TrScr(s.dir), {"seal"}, TrPos(s.dir))
       /\ trHs[s.dir].ended = "done" /\ trOut.open => trOut.nonce = TrBase(s) + TrSent
       /\ trOut.open => trOut.records = TrSent /\ trOut.epoch = TrEpAfter(s, TrSent) /\ ~trNet.eof
  BY <1>1 DEF TrInv, TrOutInv
<1>11. p + 1 = n => TrCount(S, {"seal"}, n) = TrSealed(s.kind, x)
  <2>1. TrPlan(s.kind, x, S, n) /\ n - 1 \in 0..9 /\ p \in 0..(n - 1)
    <3>1. TrPlan(s.kind, x, S, n) /\ p \in 0..(n - 1)  BY <1>1, Zenon DEF TrAt
    <3>2. n \in 0..9  BY <3>1, Zenon DEF TrPlan
    <3> QED BY <3>1, <3>2
  <2>2. s.kind # "raw"  BY <2>1 DEF TrPlan
  <2> QED BY <2>1, <2>2, Zenon DEF TrPlan, TrEndOk
<1>12. TrOutInv'
  <2>1. CASE s.dir = x
    <3>1. /\ trOut.open /\ TrSent = 0 /\ trOut.nonce = TrCount(S, {"seal"}, p)
      BY <1>4, <1>6, <1>10, <2>1
    <3>2. trOut'.nonce = TrCount(S, {"seal"}, p + 1)  BY <1>8, <1>9, <2>1, <3>1
    <3>3. p + 1 = n => trOut'.nonce = TrBase(s) + TrSent
      <4> SUFFICES ASSUME p + 1 = n PROVE trOut'.nonce = TrBase(s) + TrSent
        OBVIOUS
      <4>1. trOut'.nonce = TrBase(s)  BY <1>11, <2>1, <3>2 DEF TrBase
      <4> QED BY <1>9, <3>1, <4>1
    <3>4. /\ trHs'[s.dir].ended # "done" =>
               trOut'.open /\ TrSent' = 0 /\ trOut'.nonce = TrCount(TrScr(s.dir)', {"seal"}, TrPos(s.dir)')
          /\ trHs'[s.dir].ended = "done" /\ trOut'.open => trOut'.nonce = TrBase(s) + TrSent'
      BY <1>3, <1>4, <1>9, <2>1, <3>1, <3>2, <3>3
    <3> QED BY <1>3, <1>9, <1>10, <3>4, Zenon DEF TrOutInv
  <2>2. CASE s.dir = y
    <3>1. trOut'.nonce = trOut.nonce  BY <1>0, <1>9, <1>10, <2>2
    <3>4. /\ trHs'[s.dir].ended # "done" =>
               trOut'.open /\ TrSent' = 0 /\ trOut'.nonce = TrCount(TrScr(s.dir)', {"seal"}, TrPos(s.dir)')
          /\ trHs'[s.dir].ended = "done" /\ trOut'.open => trOut'.nonce = TrBase(s) + TrSent'
      BY <1>3, <1>4, <1>5, <1>9, <1>10, <2>2, <3>1
    <3> QED BY <1>3, <1>9, <1>10, <3>4, Zenon DEF TrOutInv
  <2> QED BY <1>2, <2>1, <2>2
<1>13. /\ trIn' \in TrInType(s)
       /\ trIn'.epoch = trIn.epoch /\ trIn'.records = trIn.records /\ trIn'.buf = trIn.buf
       /\ trIn'.got = trIn.got /\ trIn'.failed = trIn.failed /\ trIn'.timedOut = trIn.timedOut
       /\ trIn'.nonce = trIn.nonce + (IF v = "open" /\ x # s.dir THEN 1 ELSE 0)
  BY <1>1, <1>7, Zenon DEF TrInGoes
<1>14. TrInOk(trIn, trNet.kernel, TrOpened)  BY DEF TrInv, TrInInv
<1>15. trIn'.nonce = TrOpened' + trIn'.records
  <2>0. trIn.nonce = TrOpened + trIn.records /\ trIn.records \in Nat
    BY <1>14 DEF TrInOk, TrInType
  <2>1. CASE s.dir = y
    <3>1. TrOpened = TrCount(S, {"open"}, p) /\ TrOpened' = TrCount(S, {"open"}, p + 1)
      BY <1>0, <1>1, <1>3, <1>4, <2>1, Zenon DEF TrOpened
    <3>2. TrCount(S, {"open"}, p) \in 0..9  BY TrCountNat
    <3>3. trIn'.nonce = trIn.nonce + (IF v \in {"open"} THEN 1 ELSE 0)  BY <1>0, <1>13, <2>1
    <3> QED BY <1>8, <1>13, <2>0, <3>1, <3>2, <3>3
  <2>2. CASE s.dir = x
    <3>1. TrOpened' = TrOpened  BY <1>0, <1>1, <1>3, <1>4, <2>2, Zenon DEF TrOpened
    <3>2. TrOpened \in Nat  BY TrCountNat DEF TrOpened
    <3> QED BY <1>13, <2>0, <2>2, <3>1, <3>2
  <2> QED BY <1>2, <2>1, <2>2
<1>16. TrInOk(trIn, trNet.kernel, TrOpened)'
  <2>1. /\ trNet.kernel \in Seq(TrAllPieces(s)) /\ trIn.got = trIn.records
        /\ (trIn.failed => trIn.timedOut)
        /\ ~trIn.timedOut => TrTrack(s, trIn.records, trIn.buf, trIn.epoch, trNet.kernel, trNet.flight,
                                     trNet.eof, trOut.open, TrSent)
    BY <1>1, <1>14, Zenon DEF TrInOk
  <2> QED BY <1>3, <1>9, <1>13, <1>15, <2>1, Zenon DEF TrInOk
<1>17. /\ trNet = [flight |-> trNet.flight, kernel |-> trNet.kernel, eof |-> trNet.eof]
       /\ trNet.eof \in BOOLEAN /\ trNet.flight \in Seq(TrAllPieces(s))
       /\ trHs[s.dir].ended # "done" =>
            trNet.flight = <<>> /\ trNet.kernel = <<>> /\ trIn.buf = <<>> /\ ~trNet.eof
       /\ trHs[TrPeer(s.dir)].ended # "done" => trIn.records = 0 /\ trIn.buf = <<>>
  BY <1>1, Zenon DEF TrInv, TrInInv
<1>18. /\ trHs'[s.dir].ended # "done" => trHs[s.dir].ended # "done"
       /\ trHs'[TrPeer(s.dir)].ended # "done" => trHs[TrPeer(s.dir)].ended # "done"
  <2>1. CASE s.dir = x
    BY <1>0, <1>5, <1>6, <2>1
  <2>2. CASE s.dir = y
    BY <1>0, <1>5, <1>6, <2>2
  <2> QED BY <1>2, <2>1, <2>2
<1>19. TrInInv'  BY <1>3, <1>13, <1>16, <1>17, <1>18, Zenon DEF TrInInv
<1> QED BY <1>12, <1>19

\* So do the types.
LEMMA TrTypeGoes ==
  ASSUME TrInv, NEW x \in TrSides, NEW S, NEW n, NEW p, NEW rest, TrAt(x, S, n, p, rest),
         NEW ix, NEW iy, TrGoesOn(x, rest, ix, iy), DOMAIN trKeys' = TrSides,
         ix \in Seq(TrMsgs(TrScr(TrPeer(x)))), iy \in Seq(TrMsgs(TrScr(x)))
  PROVE  TrType'
<1>0. PICK y \in TrSides : y = TrPeer(x) /\ y # x /\ x = TrPeer(y)  BY TrPeers
<1>1. \A z \in TrSides : TrScr(z)' = TrScr(z)  BY TrMoves
<1>2. PICK fin : fin = IF rest = <<>> THEN "done" ELSE ""  OBVIOUS
<1>3. trHs'[x] = [todo |-> rest, inbox |-> ix, ended |-> fin]  BY <1>2, Zenon DEF TrGoesOn
<1>4. trHs'[y] = [todo |-> trHs[y].todo, inbox |-> iy, ended |-> trHs[y].ended]
  BY <1>0, Zenon DEF TrGoesOn
<1>5. rest \in Seq(TrStepsOf(TrScr(x)))  BY DEF TrAt
<1>6. trHs[y].todo \in Seq(TrStepsOf(TrScr(y))) /\ trHs[y].ended \in {"", "done", "failed"}
  BY DEF TrInv, TrType
<1>7. /\ trHs'[x].todo = rest /\ trHs'[x].inbox = ix /\ trHs'[x].ended = fin
      /\ trHs'[y].todo = trHs[y].todo /\ trHs'[y].inbox = iy /\ trHs'[y].ended = trHs[y].ended
  BY <1>3, <1>4
<1>8. fin \in {"", "done", "failed"}  BY <1>2
<1>9. /\ trHs'[x] = [todo |-> trHs'[x].todo, inbox |-> trHs'[x].inbox, ended |-> trHs'[x].ended]
      /\ trHs'[x].ended \in {"", "done", "failed"}
      /\ trHs'[x].inbox \in Seq(TrMsgs(TrScr(TrPeer(x))'))
      /\ trHs'[x].todo \in Seq(TrStepsOf(TrScr(x)'))
  BY <1>0, <1>1, <1>3, <1>5, <1>7, <1>8, Zenon
<1>10. /\ trHs'[y] = [todo |-> trHs'[y].todo, inbox |-> trHs'[y].inbox, ended |-> trHs'[y].ended]
       /\ trHs'[y].ended \in {"", "done", "failed"}
       /\ trHs'[y].inbox \in Seq(TrMsgs(TrScr(TrPeer(y))'))
       /\ trHs'[y].todo \in Seq(TrStepsOf(TrScr(y)'))
  BY <1>0, <1>1, <1>4, <1>6, <1>7, Zenon
<1>11. \A z \in TrSides : z = x \/ z = y  BY <1>0, TrPeers
<1>12. /\ trKind' \in [kind : TrKinds \cup {"raw"}, dir : TrSides, knows : BOOLEAN]
       /\ trBudget' \in [cells : 0..TrMaxCells, faults : 0..TrMaxFaults]
       /\ DOMAIN trHs' = TrSides
  BY Zenon DEF TrGoesOn, TrInv, TrType
<1> QED BY <1>9, <1>10, <1>11, <1>12, Zenon DEF TrType

\* One step of a handshake, whichever it is.
LEMMA TrStepKeeps ==
  ASSUME TrInv, NEW x \in TrSides, NEW S, NEW n, NEW p, NEW rest, TrAt(x, S, n, p, rest), TrRunning(x),
         NEW ix, NEW iy, TrGoesOn(x, rest, ix, iy), DOMAIN trKeys' = TrSides,
         ix \in Seq(TrMsgs(TrScr(TrPeer(x)))), iy \in Seq(TrMsgs(TrScr(x))),
         TrInTransit(x)', TrInTransit(TrPeer(x))',
         TrKeyed(x)', TrKeyed(TrPeer(x))',
         TrOutGoes(IF S[p + 1][1] = "seal" /\ x = trKind.dir THEN 1 ELSE 0),
         TrInGoes(IF S[p + 1][1] = "open" /\ x # trKind.dir THEN 1 ELSE 0)
  PROVE  TrInv'
<1>1. TrType'  BY TrTypeGoes
<1>2. TrOutInv' /\ TrInInv'  BY TrEndsKept
<1>3. \A z \in TrSides : TrProgress(z)'  BY TrMoves
<1>4. \A z \in TrSides : z = x \/ z = TrPeer(x)  BY TrPeers
<1>5. TrHsInv'  BY <1>3, <1>4, Zenon DEF TrHsInv
<1> QED BY <1>1, <1>2, <1>5, Zenon DEF TrInv

\* A side sends a message of its handshake.
LEMMA TrSendKeeps ==
  ASSUME TrInv, NEW x \in TrSides, TrHsSend(x)
  PROVE  TrInv'
<1>0. PICK y \in TrSides : y = TrPeer(x) /\ y # x /\ x = TrPeer(y)  BY TrPeers
<1>1. TrRunning(x)  BY DEF TrHsSend
<1>2. PICK S, n, p, rest : TrAt(x, S, n, p, rest)  BY <1>1, TrAtIs
<1>3. PICK step, v, m : step = Head(trHs[x].todo) /\ v = step[1] /\ m = step[2]  OBVIOUS
<1>4. /\ step = S[p + 1] /\ v = S[p + 1][1] /\ m = S[p + 1][2] /\ S = TrScr(x) /\ p = TrPos(x)
      /\ rest = Tail(trHs[x].todo)
  BY <1>2, <1>3, Zenon DEF TrAt
<1>5. v \in {"send", "seal"}  BY <1>3, Zenon DEF TrHsSend
<1>6. PICK sealed \in BOOLEAN : sealed <=> v = "seal" /\ x = trKind.dir  OBVIOUS
<1>7. PICK msg : msg = [name |-> m, nonce |-> IF sealed THEN trOut.nonce ELSE 0]  OBVIOUS
<1>8. PICK hs : hs = TrAdvance(trHs, x)  OBVIOUS
<1>9. /\ trHs' = [hs EXCEPT ![y].inbox = Append(@, msg)]
      /\ trOut' = [trOut EXCEPT !.nonce = IF sealed THEN @ + 1 ELSE @]
      /\ trKind' = trKind /\ trKeys' = trKeys /\ trIn' = trIn /\ trNet' = trNet /\ trBudget' = trBudget
  BY <1>0, <1>3, <1>6, <1>7, <1>8 DEF TrHsSend
<1>10. /\ DOMAIN trHs = TrSides
       /\ \A z \in TrSides : trHs[z] = [todo |-> trHs[z].todo, inbox |-> trHs[z].inbox, ended |-> trHs[z].ended]
  BY DEF TrInv, TrType
<1>11. PICK fin : fin = IF rest = <<>> THEN "done" ELSE ""  OBVIOUS
<1>12. /\ DOMAIN hs = TrSides /\ hs[y] = trHs[y]
       /\ hs[x] = [todo |-> rest, inbox |-> trHs[x].inbox, ended |-> fin]
  BY <1>0, <1>4, <1>8, <1>10, <1>11, TrAdvances
<1>13. PICK iy : iy = Append(trHs[y].inbox, msg)  OBVIOUS
<1>14. /\ DOMAIN trHs' = TrSides /\ trHs'[x] = hs[x]
       /\ trHs'[y] = [todo |-> trHs[y].todo, inbox |-> iy, ended |-> trHs[y].ended]
  <2>1. trHs' = [hs EXCEPT ![y] = [hs[y] EXCEPT !.inbox = Append(hs[y].inbox, msg)]]  BY <1>9
  <2>2. hs[y] = [todo |-> trHs[y].todo, inbox |-> trHs[y].inbox, ended |-> trHs[y].ended]
    BY <1>10, <1>12
  <2>3. [hs[y] EXCEPT !.inbox = Append(hs[y].inbox, msg)] =
          [todo |-> trHs[y].todo, inbox |-> iy, ended |-> trHs[y].ended]
    <3>1. PICK h, td, ib, en : h = hs[y] /\ td = trHs[y].todo /\ ib = trHs[y].inbox /\ en = trHs[y].ended
      OBVIOUS
    <3>2. h = [todo |-> td, inbox |-> ib, ended |-> en] /\ Append(h.inbox, msg) = iy
      BY <1>12, <1>13, <2>2, <3>1
    <3>3. [h EXCEPT !.inbox = iy] = [todo |-> td, inbox |-> iy, ended |-> en]  BY <3>2
    <3> QED BY <3>1, <3>2, <3>3
  <2> QED BY <1>0, <1>12, <2>1, <2>3
<1>15. TrGoesOn(x, rest, trHs[x].inbox, iy)
  BY <1>0, <1>9, <1>11, <1>12, <1>14, Zenon DEF TrGoesOn
<1>16. TrOutGoes(IF S[p + 1][1] = "seal" /\ x = trKind.dir THEN 1 ELSE 0)
  <2>1. trOut \in [nonce : Nat, epoch : Nat, records : Nat, open : BOOLEAN]
    BY DEF TrInv, TrOutInv
  <2>2. PICK d : d = IF sealed THEN 1 ELSE 0  OBVIOUS
  <2>3. trOut' = [trOut EXCEPT !.nonce = trOut.nonce + d]  BY <1>9, <2>1, <2>2
  <2>4. d \in Nat  BY <2>2
  <2>5. TrOutGoes(d)  BY <2>1, <2>3, <2>4 DEF TrOutGoes
  <2> QED BY <1>4, <1>6, <2>2, <2>5, Zenon
<1>17. TrInGoes(IF S[p + 1][1] = "open" /\ x # trKind.dir THEN 1 ELSE 0)
  <2>1. trIn \in TrInType(trKind)  BY DEF TrInv, TrInInv, TrInOk
  <2>2. trIn.nonce + 0 = trIn.nonce  BY <2>1 DEF TrInType
  <2>3. TrInGoes(0)  BY <1>9, <2>1, <2>2, Zenon DEF TrInGoes
  <2>4. S[p + 1][1] # "open"  BY <1>4, <1>5
  <2> QED BY <2>3, <2>4, Zenon
<1>18. TrStepOk(trKind.kind, x, S, p)  BY <1>2, TrCountsGo
<1>19. TrStepIs(trKind.kind, x, v, m, TrSends(S, p), TrRecvs(S, p), TrCount(S, {"seal"}, p), TrCount(S, {"open"}, p))
  BY <1>4, <1>18, Zenon DEF TrStepOk
<1>20. msg = TrLetter(y, TrSends(S, p) + 1)
  <2>1. m = TrMail(trKind.kind, x)[TrSends(S, p) + 1]  BY <1>5, <1>19 DEF TrStepIs
  <2>2. (IF sealed THEN trOut.nonce ELSE 0) = TrMailNonce(trKind.kind, x, TrSends(S, p) + 1)
    <3>1. CASE x # trKind.dir
      BY <1>6, <3>1 DEF TrMailNonce
    <3>2. CASE x = trKind.dir /\ v = "send"
      BY <1>6, <1>19, <3>2 DEF TrMailNonce, TrStepIs
    <3>3. CASE x = trKind.dir /\ v = "seal"
      <4>1. trOut.nonce = TrCount(S, {"seal"}, p)
        <5>1. trHs[trKind.dir].ended # "done"  BY <1>1, <3>3 DEF TrRunning
        <5> QED BY <1>4, <3>3, <5>1 DEF TrInv, TrOutInv
      <4> QED BY <1>6, <1>19, <3>3, <4>1 DEF TrMailNonce, TrStepIs
    <3> QED BY <1>5, <3>1, <3>2, <3>3
  <2> QED BY <1>0, <1>7, <2>1, <2>2, Zenon DEF TrLetter
<1>21. TrInTransit(x)' /\ TrInTransit(y)'
  <2>1. S[p + 1][1] \in {"send", "seal"} /\ iy = Append(trHs[TrPeer(x)].inbox, TrLetter(TrPeer(x), TrSends(S, p) + 1))
    BY <1>0, <1>4, <1>5, <1>13, <1>20, Zenon
  <2> QED BY <1>0, <1>2, <1>15, <2>1, TrTransits
<1>22. TrKeyed(x)' /\ TrKeyed(y)'
  <2>1. S[p + 1][1] # "keys" /\ S[p + 1][1] # "know"  BY <1>4, <1>5
  <2>2. trKeys'[x] = trKeys[x] /\ trKeys'[TrPeer(x)] = trKeys[TrPeer(x)]  BY <1>9
  <2> QED BY <1>0, <1>2, <1>15, <2>1, <2>2, TrKeyeds
<1>23. /\ trHs[x].inbox \in Seq(TrMsgs(TrScr(TrPeer(x)))) /\ trHs[y].inbox \in Seq(TrMsgs(TrScr(x)))
       /\ DOMAIN trKeys' = TrSides
  BY <1>0, <1>9 DEF TrInv, TrType
<1>24. msg \in TrMsgs(TrScr(x))
  <2>1. msg.nonce \in 0..1  BY <1>20 DEF TrLetter, TrMailNonce, TrSealNonce
  <2>2. \E i \in 1..9 : m = S[i][2]
    <3>1. n \in 0..9 /\ p \in 0..(n - 1)  BY <1>2, Zenon DEF TrAt, TrPlan
    <3>2. p + 1 \in 1..9  BY <3>1
    <3> QED BY <1>4, <3>2
  <2>3. msg = [name |-> m, nonce |-> msg.nonce]  BY <1>7
  <2> QED BY <1>4, <2>1, <2>2, <2>3 DEF TrMsgs
<1>25. iy \in Seq(TrMsgs(TrScr(x)))  BY <1>13, <1>23, <1>24
<1> QED BY <1>0, <1>1, <1>2, <1>15, <1>16, <1>17, <1>21, <1>22, <1>23, <1>25, TrStepKeeps

\* Both sides' keys fit when the side about to open a message has one to open.
LEMMA TrOpenFits ==
  ASSUME TrInv, NEW x \in TrSides, NEW S, NEW n, NEW p, NEW rest, TrAt(x, S, n, p, rest),
         S[p + 1][1] = "open", trHs[x].inbox # <<>>
  PROVE  trKeys[x].recv = trKeys[TrPeer(x)].send
<1>0. PICK y \in TrSides : y = TrPeer(x) /\ y # x /\ x = TrPeer(y)  BY TrPeers
<1>1. PICK k, T, q : k = trKind.kind /\ T = TrScr(y) /\ q = TrPos(y)  OBVIOUS
<1>2. S = TrScr(x) /\ p = TrPos(x) /\ p \in 0..(n - 1) /\ TrPlan(k, x, S, n)
  BY <1>1, Zenon DEF TrAt
<1>3. k \in TrKinds \cup {"raw"}  BY <1>1 DEF TrInv, TrType
<1>4. S = TrScript(k, x) /\ T = TrScript(k, y)  BY <1>1, <1>2, Zenon DEF TrScr
<1>5. PICK m : TrPlan(k, y, T, m)  BY <1>3, <1>4, TrPlans
<1>6. q \in 0..m
  <2>1. Len(T) = m  BY <1>5, Zenon DEF TrPlan
  <2>2. q \in 0..Len(T)  BY <1>1, Zenon DEF TrInv, TrHsInv, TrProgress
  <2> QED BY <2>1, <2>2
<1>7. TrSends(T, q) > TrRecvs(S, p)
  <2>1. Len(trHs[x].inbox) = TrSends(T, q) - TrRecvs(S, p)
    <3>1. TrInTransit(x)  BY DEF TrInv, TrHsInv
    <3> QED BY <1>0, <1>1, <1>2, <3>1, Zenon DEF TrInTransit
  <2>2. PICK X : trHs[x].inbox \in Seq(X)  BY DEF TrInv, TrType
  <2>3. Len(trHs[x].inbox) > 0  BY <2>2
  <2>4. TrSends(T, q) \in 0..9 /\ TrRecvs(S, p) \in 0..9  BY TrCountNat DEF TrSends, TrRecvs
  <2> QED BY <2>1, <2>3, <2>4
<1>8. TrOpenOk(x, S, p, T, q)  BY <1>0, <1>2, <1>3, <1>4, <1>5, <1>6, TrOpensAll
<1>9. /\ TrCount(S, {"keys"}, p) = 1 /\ TrCount(T, {"keys"}, q) = 1
      /\ IF x = "server" THEN TrCount(S, {"know"}, p) = 1 ELSE TrCount(T, {"know"}, q) = 1
  BY <1>7, <1>8, Zenon DEF TrOpenOk
<1>10. TrKeyed(x) /\ TrKeyed(y)  BY DEF TrInv, TrHsInv
<1>11. trKeys[x] = TrOwnKeys(x) /\ trKeys[y] = TrOwnKeys(y)
  BY <1>1, <1>2, <1>9, <1>10, Zenon DEF TrKeyed
<1>12. trKind.knows  BY <1>1, <1>2, <1>9, <1>10, Zenon DEF TrKeyed
<1>13. TrOwnKeys(y).send = TrOwnKeys(x).recv  BY <1>0, <1>12, TrOwnFit DEF TrInv
<1> QED BY <1>0, <1>11, <1>13

\* A side takes one: it is the one its script names, and it opens.
LEMMA TrRecvKeeps ==
  ASSUME TrInv, NEW x \in TrSides, TrHsRecv(x)
  PROVE  TrInv'
<1>0. PICK y \in TrSides : y = TrPeer(x) /\ y # x /\ x = TrPeer(y)  BY TrPeers
<1>1. TrRunning(x) /\ trHs[x].inbox # <<>>  BY DEF TrHsRecv
<1>2. PICK S, n, p, rest : TrAt(x, S, n, p, rest)  BY <1>1, TrAtIs
<1>3. PICK step, v, m, msg : step = Head(trHs[x].todo) /\ v = step[1] /\ m = step[2] /\ msg = Head(trHs[x].inbox)
  OBVIOUS
<1>4. /\ step = S[p + 1] /\ v = S[p + 1][1] /\ m = S[p + 1][2] /\ S = TrScr(x) /\ p = TrPos(x)
      /\ rest = Tail(trHs[x].todo)
  BY <1>2, <1>3, Zenon DEF TrAt
<1>5. v \in {"recv", "open"}  BY <1>3, Zenon DEF TrHsRecv
<1>6. PICK sealed \in BOOLEAN : sealed <=> v = "open" /\ x # trKind.dir  OBVIOUS
<1>7. PICK b : b = TrRecvs(S, p)  OBVIOUS
<1>8. msg = TrLetter(x, b + 1)
  <2>1. PICK X : trHs[x].inbox \in Seq(X)  BY DEF TrInv, TrType
  <2>2. PICK bx : bx = trHs[x].inbox  OBVIOUS
  <2>3. 1 \in 1..Len(bx) /\ msg = bx[1]  BY <1>1, <1>3, <2>1, <2>2
  <2>4. \A i \in 1..Len(bx) : bx[i] = TrLetter(x, b + i)
    <3>1. TrInTransit(x)  BY DEF TrInv, TrHsInv
    <3> QED BY <1>4, <1>7, <2>2, <3>1, Zenon DEF TrInTransit
  <2> QED BY <2>3, <2>4
<1>9. TrStepIs(trKind.kind, x, v, m, TrSends(S, p), b, TrCount(S, {"seal"}, p), TrCount(S, {"open"}, p))
  <2>1. TrStepOk(trKind.kind, x, S, p)  BY <1>2, TrCountsGo
  <2> QED BY <1>4, <1>7, <2>1, Zenon DEF TrStepOk
<1>10. msg.name = m
  <2>1. m = TrMail(trKind.kind, y)[b + 1]  BY <1>0, <1>5, <1>9, Zenon DEF TrStepIs
  <2>2. msg.name = TrMail(trKind.kind, y)[b + 1]  BY <1>0, <1>8 DEF TrLetter
  <2> QED BY <2>1, <2>2
<1>11. v = "open" => trKeys[x].recv = trKeys[TrPeer(x)].send  BY <1>1, <1>2, <1>4, TrOpenFits
<1>12. sealed => msg.nonce = trIn.nonce
  <2> SUFFICES ASSUME sealed PROVE msg.nonce = trIn.nonce
    OBVIOUS
  <2>1. v = "open" /\ x # trKind.dir /\ trKind.dir = y  BY <1>0, <1>6, TrPeers DEF TrInv, TrType
  <2>2. TrSealNonce(trKind.kind, y, b + 1) = TrCount(S, {"open"}, p)
    BY <1>0, <1>9, <2>1, Zenon DEF TrStepIs
  <2>3. msg.nonce = TrSealNonce(trKind.kind, y, b + 1)
    BY <1>0, <1>8, <2>1 DEF TrLetter, TrMailNonce
  <2>4. trIn.records = 0
    <3>1. trHs[TrPeer(trKind.dir)].ended # "done"  BY <1>0, <1>1, <2>1 DEF TrRunning
    <3> QED BY <3>1, Zenon DEF TrInv, TrInInv
  <2>5. trIn.nonce = TrOpened + trIn.records  BY DEF TrInv, TrInInv, TrInOk
  <2>6. TrOpened = TrCount(S, {"open"}, p)  BY <1>0, <1>4, <2>1, Zenon DEF TrOpened
  <2>7. TrCount(S, {"open"}, p) \in 0..9  BY TrCountNat
  <2> QED BY <2>2, <2>3, <2>4, <2>5, <2>6, <2>7
<1>13. PICK hs : hs = [trHs EXCEPT ![x].inbox = Tail(@)]  OBVIOUS
<1>14. /\ trHs' = TrAdvance(hs, x)
       /\ trIn' = [trIn EXCEPT !.nonce = IF sealed THEN @ + 1 ELSE @]
       /\ trKind' = trKind /\ trKeys' = trKeys /\ trOut' = trOut /\ trNet' = trNet /\ trBudget' = trBudget
  BY <1>3, <1>6, <1>10, <1>11, <1>12, <1>13 DEF TrHsRecv
<1>15. /\ DOMAIN trHs = TrSides
       /\ \A z \in TrSides : trHs[z] = [todo |-> trHs[z].todo, inbox |-> trHs[z].inbox, ended |-> trHs[z].ended]
  BY DEF TrInv, TrType
<1>16. PICK ix : ix = Tail(trHs[x].inbox)  OBVIOUS
<1>17. /\ DOMAIN hs = TrSides /\ hs[y] = trHs[y]
       /\ hs[x] = [todo |-> trHs[x].todo, inbox |-> ix, ended |-> trHs[x].ended]
  <2>1. hs = [trHs EXCEPT ![x] = [trHs[x] EXCEPT !.inbox = Tail(trHs[x].inbox)]]  BY <1>13
  <2>2. PICK h, td, ib, en : h = trHs[x] /\ td = trHs[x].todo /\ ib = trHs[x].inbox /\ en = trHs[x].ended
    OBVIOUS
  <2>3. h = [todo |-> td, inbox |-> ib, ended |-> en] /\ Tail(h.inbox) = ix
    BY <1>15, <1>16, <2>2
  <2>4. [h EXCEPT !.inbox = ix] = [todo |-> td, inbox |-> ix, ended |-> en]  BY <2>3
  <2> QED BY <1>0, <1>15, <2>1, <2>2, <2>3, <2>4
<1>18. PICK fin : fin = IF rest = <<>> THEN "done" ELSE ""  OBVIOUS
<1>19. hs[x].todo = trHs[x].todo /\ hs[x].inbox = ix /\ hs[x].ended = trHs[x].ended  BY <1>17
<1>20. hs[x] = [todo |-> hs[x].todo, inbox |-> hs[x].inbox, ended |-> hs[x].ended]
  BY <1>17, <1>19, Zenon
<1>21. /\ DOMAIN trHs' = TrSides /\ trHs'[y] = trHs[y]
       /\ trHs'[x] = [todo |-> rest, inbox |-> ix, ended |-> fin]
  <2>1. PICK ha : ha = TrAdvance(hs, x)  OBVIOUS
  <2>2. PICK td : td = hs[x].todo  OBVIOUS
  <2>3. /\ DOMAIN ha = TrSides /\ ha[y] = hs[y]
        /\ ha[x] = [todo |-> Tail(td), inbox |-> ix, ended |-> IF Tail(td) = <<>> THEN "done" ELSE ""]
    BY <1>0, <1>17, <1>19, <1>20, <2>1, <2>2, TrAdvances, Zenon
  <2>4. Tail(td) = rest  BY <1>4, <1>19, <2>2, Zenon
  <2> QED BY <1>14, <1>17, <1>18, <2>1, <2>3, <2>4, Zenon
<1>22. TrGoesOn(x, rest, ix, trHs[y].inbox)
  BY <1>0, <1>14, <1>15, <1>18, <1>21, Zenon DEF TrGoesOn
<1>23. TrOutGoes(IF S[p + 1][1] = "seal" /\ x = trKind.dir THEN 1 ELSE 0)
  <2>1. trOut \in [nonce : Nat, epoch : Nat, records : Nat, open : BOOLEAN]
    BY DEF TrInv, TrOutInv
  <2>2. trOut.nonce + 0 = trOut.nonce  BY <2>1
  <2>3. TrOutGoes(0)  BY <1>14, <2>1, <2>2, Zenon DEF TrOutGoes
  <2>4. S[p + 1][1] # "seal"  BY <1>4, <1>5
  <2> QED BY <2>3, <2>4, Zenon
<1>24. TrInGoes(IF S[p + 1][1] = "open" /\ x # trKind.dir THEN 1 ELSE 0)
  <2>1. trIn \in TrInType(trKind)  BY DEF TrInv, TrInInv, TrInOk
  <2>2. PICK d : d = IF sealed THEN 1 ELSE 0  OBVIOUS
  <2>3. trIn' = [trIn EXCEPT !.nonce = trIn.nonce + d]  BY <1>14, <2>1, <2>2 DEF TrInType
  <2>4. d \in Nat  BY <2>2
  <2>5. TrInGoes(d)  BY <2>1, <2>3, <2>4 DEF TrInGoes, TrInType
  <2> QED BY <1>4, <1>6, <2>2, <2>5, Zenon
<1>25. TrInTransit(x)' /\ TrInTransit(y)'
  <2>1. S[p + 1][1] \in {"recv", "open"}  BY <1>4, <1>5
  <2> QED BY <1>0, <1>1, <1>2, <1>16, <1>22, <2>1, TrTransits
<1>26. TrKeyed(x)' /\ TrKeyed(y)'
  <2>1. S[p + 1][1] # "keys" /\ S[p + 1][1] # "know"  BY <1>4, <1>5
  <2>2. trKeys'[x] = trKeys[x] /\ trKeys'[TrPeer(x)] = trKeys[TrPeer(x)]  BY <1>14
  <2> QED BY <1>0, <1>2, <1>22, <2>1, <2>2, TrKeyeds
<1>27. /\ trHs[x].inbox \in Seq(TrMsgs(TrScr(TrPeer(x)))) /\ trHs[y].inbox \in Seq(TrMsgs(TrScr(x)))
       /\ DOMAIN trKeys' = TrSides
  BY <1>0, <1>14 DEF TrInv, TrType
<1>28. ix \in Seq(TrMsgs(TrScr(TrPeer(x))))  BY <1>1, <1>16, <1>27
<1> QED BY <1>0, <1>1, <1>2, <1>22, <1>23, <1>24, <1>25, <1>26, <1>27, <1>28, TrStepKeeps

\* A step that moves no message.
LEMMA TrQuietKeeps ==
  ASSUME TrInv, NEW x \in TrSides, TrRunning(x), Head(trHs[x].todo)[1] \in {"keys", "know"},
         trHs' = TrAdvance(trHs, x), DOMAIN trKeys' = TrSides,
         trKeys'[TrPeer(x)] = trKeys[TrPeer(x)],
         IF Head(trHs[x].todo)[1] = "keys" THEN trKeys'[x] = TrOwnKeys(x) ELSE trKeys'[x] = trKeys[x],
         Head(trHs[x].todo)[1] = "know" => trKind.knows,
         UNCHANGED <<trKind, trOut, trIn, trNet, trBudget>>
  PROVE  TrInv'
<1>0. PICK y \in TrSides : y = TrPeer(x) /\ y # x /\ x = TrPeer(y)  BY TrPeers
<1>2. PICK S, n, p, rest : TrAt(x, S, n, p, rest)  BY TrAtIs
<1>3. /\ Head(trHs[x].todo) = S[p + 1] /\ rest = Tail(trHs[x].todo)  BY <1>2, Zenon DEF TrAt
<1>4. S[p + 1][1] \in {"keys", "know"}  BY <1>3
<1>5. /\ DOMAIN trHs = TrSides
      /\ \A z \in TrSides : trHs[z] = [todo |-> trHs[z].todo, inbox |-> trHs[z].inbox, ended |-> trHs[z].ended]
  BY DEF TrInv, TrType
<1>6. PICK fin : fin = IF rest = <<>> THEN "done" ELSE ""  OBVIOUS
<1>7. /\ DOMAIN trHs' = TrSides /\ trHs'[y] = trHs[y]
      /\ trHs'[x] = [todo |-> rest, inbox |-> trHs[x].inbox, ended |-> fin]
  <2>1. PICK ha : ha = TrAdvance(trHs, x)  OBVIOUS
  <2>2. PICK td : td = trHs[x].todo  OBVIOUS
  <2>3. /\ DOMAIN ha = TrSides /\ ha[y] = trHs[y]
        /\ ha[x] = [todo |-> Tail(td), inbox |-> trHs[x].inbox, ended |-> IF Tail(td) = <<>> THEN "done" ELSE ""]
    BY <1>0, <1>5, <2>1, <2>2, TrAdvances, Zenon
  <2> QED BY <1>3, <1>6, <2>1, <2>2, <2>3, Zenon
<1>8. TrGoesOn(x, rest, trHs[x].inbox, trHs[y].inbox)
  BY <1>0, <1>5, <1>6, <1>7, Zenon DEF TrGoesOn
<1>9. TrOutGoes(IF S[p + 1][1] = "seal" /\ x = trKind.dir THEN 1 ELSE 0)
  <2>1. trOut \in [nonce : Nat, epoch : Nat, records : Nat, open : BOOLEAN]
    BY DEF TrInv, TrOutInv
  <2>2. trOut.nonce + 0 = trOut.nonce  BY <2>1
  <2>3. TrOutGoes(0)  BY <2>1, <2>2, Zenon DEF TrOutGoes
  <2>4. S[p + 1][1] # "seal"  BY <1>4
  <2> QED BY <2>3, <2>4, Zenon
<1>10. TrInGoes(IF S[p + 1][1] = "open" /\ x # trKind.dir THEN 1 ELSE 0)
  <2>1. trIn \in TrInType(trKind)  BY DEF TrInv, TrInInv, TrInOk
  <2>2. trIn.nonce + 0 = trIn.nonce  BY <2>1 DEF TrInType
  <2>3. TrInGoes(0)  BY <2>1, <2>2, Zenon DEF TrInGoes
  <2>4. S[p + 1][1] # "open"  BY <1>4
  <2> QED BY <2>3, <2>4, Zenon
<1>11. TrInTransit(x)' /\ TrInTransit(y)'  BY <1>0, <1>2, <1>4, <1>8, TrTransits
<1>12. TrKeyed(x)' /\ TrKeyed(y)'  BY <1>0, <1>2, <1>3, <1>8, TrKeyeds
<1>13. trHs[x].inbox \in Seq(TrMsgs(TrScr(TrPeer(x)))) /\ trHs[y].inbox \in Seq(TrMsgs(TrScr(x)))
  BY <1>0 DEF TrInv, TrType
<1> QED BY <1>0, <1>2, <1>8, <1>9, <1>10, <1>11, <1>12, <1>13, TrStepKeeps

\* A side derives its keys.
LEMMA TrHsKeysKeeps ==
  ASSUME TrInv, NEW x \in TrSides, TrHsKeys(x)
  PROVE  TrInv'
<1>1. /\ TrRunning(x) /\ Head(trHs[x].todo)[1] = "keys" /\ trHs' = TrAdvance(trHs, x)
      /\ trKeys' = [trKeys EXCEPT ![x] = TrOwnKeys(x)]
      /\ UNCHANGED <<trKind, trOut, trIn, trNet, trBudget>>
  BY Zenon DEF TrHsKeys, TrOwnKeys
<1>2. DOMAIN trKeys = TrSides  BY DEF TrInv, TrType
<1>3. /\ DOMAIN trKeys' = TrSides /\ trKeys'[x] = TrOwnKeys(x)
      /\ trKeys'[TrPeer(x)] = trKeys[TrPeer(x)]
  BY <1>1, <1>2, TrPeers
<1> QED BY <1>1, <1>3, TrQuietKeeps

\* Only the ends of the handshake change, by a fault or with a client that
\* does not know the bridge.
LEMMA TrFailKeeps ==
  ASSUME TrInv, NEW x \in TrSides, TrRunning(x), trHs' = [trHs EXCEPT ![x].ended = "failed"],
         NEW f \in 0..TrMaxFaults, trBudget' = [trBudget EXCEPT !.faults = f], f <= trBudget.faults,
         ~trKind.knows \/ f < TrMaxFaults,
         UNCHANGED <<trKind, trKeys, trOut, trIn, trNet>>
  PROVE  TrInv'
<1>0. PICK y \in TrSides : y = TrPeer(x) /\ y # x /\ x = TrPeer(y)  BY TrPeers
<1>1. /\ DOMAIN trHs = TrSides
      /\ \A z \in TrSides : trHs[z] = [todo |-> trHs[z].todo, inbox |-> trHs[z].inbox, ended |-> trHs[z].ended]
  BY DEF TrInv, TrType
<1>2. /\ DOMAIN trHs' = TrSides /\ trHs'[y] = trHs[y]
      /\ trHs'[x] = [todo |-> trHs[x].todo, inbox |-> trHs[x].inbox, ended |-> "failed"]
  <2>1. trHs' = [trHs EXCEPT ![x] = [trHs[x] EXCEPT !.ended = "failed"]]  OBVIOUS
  <2>2. PICK h, td, ib, en : h = trHs[x] /\ td = trHs[x].todo /\ ib = trHs[x].inbox /\ en = trHs[x].ended
    OBVIOUS
  <2>3. h = [todo |-> td, inbox |-> ib, ended |-> en]  BY <1>1, <2>2
  <2>4. [h EXCEPT !.ended = "failed"] = [todo |-> td, inbox |-> ib, ended |-> "failed"]  BY <2>3
  <2> QED BY <1>0, <1>1, <2>1, <2>2, <2>4
<1>3. /\ trHs'[x].todo = trHs[x].todo /\ trHs'[x].inbox = trHs[x].inbox /\ trHs'[x].ended = "failed"
      /\ trHs'[y].todo = trHs[y].todo /\ trHs'[y].inbox = trHs[y].inbox /\ trHs'[y].ended = trHs[y].ended
  BY <1>2
<1>4. \A z \in TrSides : z = x \/ z = y  BY <1>0, TrPeers
<1>5. /\ \A z \in TrSides : TrScr(z)' = TrScr(z)
      /\ \A z \in TrSides : TrPos(z)' = TrPos(z)
  <2>1. \A z \in TrSides : TrScr(z)' = TrScr(z)  BY Zenon DEF TrScr
  <2> QED BY <1>3, <1>4, <2>1, Zenon DEF TrPos
<1>6. trBudget \in [cells : 0..TrMaxCells, faults : 0..TrMaxFaults]  BY DEF TrInv, TrType
<1>7. /\ trBudget' \in [cells : 0..TrMaxCells, faults : 0..TrMaxFaults]
      /\ trBudget'.cells = trBudget.cells /\ trBudget'.faults = f
  BY <1>6
<1>8. TrType'
  <2>1. \A z \in TrSides : /\ trHs[z].ended \in {"", "done", "failed"}
                           /\ trHs[z].inbox \in Seq(TrMsgs(TrScr(TrPeer(z))))
                           /\ trHs[z].todo \in Seq(TrStepsOf(TrScr(z)))
    BY DEF TrInv, TrType
  <2>2. /\ trHs'[x] = [todo |-> trHs'[x].todo, inbox |-> trHs'[x].inbox, ended |-> trHs'[x].ended]
        /\ trHs'[y] = [todo |-> trHs'[y].todo, inbox |-> trHs'[y].inbox, ended |-> trHs'[y].ended]
    BY <1>1, <1>2, <1>3, Zenon
  <2>3. "failed" \in {"", "done", "failed"}  OBVIOUS
  <2>4. ASSUME NEW z \in TrSides
        PROVE  /\ trHs'[z] = [todo |-> trHs'[z].todo, inbox |-> trHs'[z].inbox, ended |-> trHs'[z].ended]
               /\ trHs'[z].ended \in {"", "done", "failed"}
               /\ trHs'[z].inbox \in Seq(TrMsgs(TrScr(TrPeer(z))'))
               /\ trHs'[z].todo \in Seq(TrStepsOf(TrScr(z)'))
    <3>1. TrPeer(z) \in TrSides  BY TrPeers
    <3> QED BY <1>3, <1>4, <1>5, <2>1, <2>2, <2>3, <3>1, Zenon
  <2>5. trKind' \in [kind : TrKinds \cup {"raw"}, dir : TrSides, knows : BOOLEAN] /\ DOMAIN trKeys' = TrSides
    BY Zenon DEF TrInv, TrType
  <2> QED BY <1>2, <1>7, <2>4, <2>5, Zenon DEF TrType
<1>9. trHs[x].ended = ""  BY DEF TrRunning
<1>10. \A z \in TrSides : TrProgress(z)'
  <2>1. TrProgress(x) /\ TrProgress(y)  BY DEF TrInv, TrHsInv
  <2>2. TrProgress(x)'
    <3>1. trHs'[x].ended = "failed" => ~trKind'.knows \/ trBudget'.faults < TrMaxFaults  BY <1>7
    <3>2. trHs'[x].ended = "done" <=> TrPos(x)' = Len(TrScr(x)')
      <4>1. trHs[x].ended # "done" /\ trHs'[x].ended # "done"  BY <1>3, <1>9
      <4> QED BY <1>5, <2>1, <4>1, Zenon DEF TrProgress
    <3> QED BY <1>3, <1>5, <2>1, <3>1, <3>2, Zenon DEF TrProgress
  <2>3. TrProgress(y)'
    <3>1. trBudget.faults < TrMaxFaults => trBudget'.faults < TrMaxFaults
      BY <1>6, <1>7, TrAssumption
    <3>2. trHs'[y].ended = "failed" => ~trKind'.knows \/ trBudget'.faults < TrMaxFaults
      BY <1>3, <2>1, <3>1 DEF TrProgress
    <3> QED BY <1>3, <1>5, <2>1, <3>2, Zenon DEF TrProgress
  <2> QED BY <1>4, <2>2, <2>3
<1>11. \A z, j : TrLetter(z, j)' = TrLetter(z, j)  BY Zenon DEF TrLetter, TrMailNonce
<1>12. ASSUME NEW z \in TrSides PROVE TrInTransit(z)' /\ TrKeyed(z)'
  <2>1. TrInTransit(z) /\ TrKeyed(z) /\ TrPeer(z) \in TrSides  BY TrPeers DEF TrInv, TrHsInv
  <2>2. TrOwnKeys(z)' = TrOwnKeys(z)  BY Zenon DEF TrOwnKeys
  <2>3. trHs'[z].inbox = trHs[z].inbox  BY <1>3, <1>4
  <2>4. TrInTransit(z)'  BY <1>5, <1>11, <2>1, <2>3, Zenon DEF TrInTransit
  <2>5. TrKeyed(z)'  BY <1>5, <2>1, <2>2, Zenon DEF TrKeyed
  <2> QED BY <2>4, <2>5
<1>13. TrSent' = TrSent /\ TrOpened' = TrOpened
  <2>1. TrPeer(trKind.dir) \in TrSides  BY TrPeers DEF TrInv, TrType
  <2> QED BY <1>5, <1>7, <2>1, Zenon DEF TrSent, TrOpened
<1>14. \A z \in TrSides : trHs'[z].ended = "done" <=> trHs[z].ended = "done"
  BY <1>3, <1>4, <1>9
<1>15. trKind.dir \in TrSides /\ TrPeer(trKind.dir) \in TrSides  BY TrPeers DEF TrInv, TrType
<1>16. TrOutInv'
  <2>1. TrOutInv  BY DEF TrInv
  <2> QED BY <1>5, <1>13, <1>14, <1>15, <2>1, Zenon DEF TrOutInv
<1>17. TrInInv'
  <2>1. TrInInv  BY DEF TrInv
  <2>2. TrInOk(trIn, trNet.kernel, TrOpened)'  BY <1>13, <2>1, Zenon DEF TrInInv, TrInOk
  <2> QED BY <1>14, <1>15, <2>1, <2>2, Zenon DEF TrInInv
<1> QED BY <1>8, <1>10, <1>12, <1>16, <1>17, Zenon DEF TrInv, TrHsInv

\* The bridge checks that the client knows it.
LEMMA TrHsKnowKeeps ==
  ASSUME TrInv, TrHsKnow
  PROVE  TrInv'
<1>0. "server" \in TrSides  BY DEF TrSides
<1>1. /\ TrRunning("server") /\ Head(trHs["server"].todo)[1] = "know"
      /\ UNCHANGED <<trKind, trKeys, trOut, trIn, trNet, trBudget>>
  BY DEF TrHsKnow
<1>2. CASE trKind.knows
  <2>1. trHs' = TrAdvance(trHs, "server")  BY <1>2 DEF TrHsKnow
  <2>2. DOMAIN trKeys' = TrSides /\ trKeys' = trKeys  BY <1>1 DEF TrInv, TrType
  <2> QED BY <1>0, <1>1, <1>2, <2>1, <2>2, TrQuietKeeps
<1>3. CASE ~trKind.knows
  <2>1. trHs' = [trHs EXCEPT !["server"].ended = "failed"]  BY <1>3 DEF TrHsKnow
  <2>2. PICK f : f = trBudget.faults  OBVIOUS
  <2>3. trBudget \in [cells : 0..TrMaxCells, faults : 0..TrMaxFaults]  BY DEF TrInv, TrType
  <2>4. trBudget' = [trBudget EXCEPT !.faults = f] /\ f \in 0..TrMaxFaults /\ f <= trBudget.faults
    BY <1>1, <2>2, <2>3
  <2> QED BY <1>0, <1>1, <1>3, <2>1, <2>4, TrFailKeeps
<1> QED BY <1>2, <1>3

\* A handshake fails.
LEMMA TrHsFailKeeps ==
  ASSUME TrInv, NEW x \in TrSides, TrHsFail(x)
  PROVE  TrInv'
<1>1. PICK hung \in BOOLEAN : hung <=> trHs[TrPeer(x)].ended = "failed" /\ trHs[x].inbox = <<>>
  OBVIOUS
<1>2. PICK f : f = IF hung THEN trBudget.faults ELSE trBudget.faults - 1  OBVIOUS
<1>3. trBudget \in [cells : 0..TrMaxCells, faults : 0..TrMaxFaults]  BY DEF TrInv, TrType
<1>4. /\ TrRunning(x) /\ (hung \/ trBudget.faults > 0)
      /\ trBudget' = [trBudget EXCEPT !.faults = f]
      /\ trHs' = [trHs EXCEPT ![x].ended = "failed"]
      /\ UNCHANGED <<trKind, trKeys, trOut, trIn, trNet>>
  BY <1>1, <1>2, <1>3 DEF TrHsFail
<1>5. f \in 0..TrMaxFaults /\ f <= trBudget.faults  BY <1>2, <1>3, <1>4, TrAssumption
<1>6. ~trKind.knows \/ f < TrMaxFaults
  <2>1. CASE hung
    <3>1. TrProgress(TrPeer(x))  BY TrPeers DEF TrInv, TrHsInv
    <3> QED BY <1>1, <1>2, <2>1, <3>1 DEF TrProgress
  <2>2. CASE ~hung
    BY <1>2, <1>3, <1>4, <2>2, TrAssumption
  <2> QED BY <2>1, <2>2
<1> QED BY <1>4, <1>5, <1>6, TrFailKeeps

-----------------------------------------------------------------------------
(* The data.                                                                *)

\* A step of the link leaves the handshakes as they are.
LEMMA TrHsKept ==
  ASSUME TrInv, trKind' = trKind, trHs' = trHs, trKeys' = trKeys,
         trBudget' \in [cells : 0..TrMaxCells, faults : 0..TrMaxFaults],
         trBudget'.faults <= trBudget.faults
  PROVE  TrType' /\ TrHsInv' /\ TrOpened' = TrOpened
<1>1. (\A x : TrScr(x)' = TrScr(x)) /\ (\A x : TrPos(x)' = TrPos(x))  BY Zenon DEF TrScr, TrPos
<1>2. \A x, j : TrLetter(x, j)' = TrLetter(x, j)  BY Zenon DEF TrLetter, TrMailNonce
<1>3. \A x : TrOwnKeys(x)' = TrOwnKeys(x)  BY Zenon DEF TrOwnKeys
<1>4. trBudget.faults < TrMaxFaults => trBudget'.faults < TrMaxFaults
  <2>1. trBudget \in [cells : 0..TrMaxCells, faults : 0..TrMaxFaults]  BY DEF TrInv, TrType
  <2> QED BY <2>1, TrAssumption
<1>5. TrType'  BY <1>1, Zenon DEF TrInv, TrType
<1>6. ASSUME NEW x \in TrSides PROVE TrProgress(x)' /\ TrInTransit(x)' /\ TrKeyed(x)'
  <2>1. TrProgress(x) /\ TrInTransit(x) /\ TrKeyed(x)  BY DEF TrInv, TrHsInv
  <2>2. TrProgress(x)'  BY <1>1, <1>4, <2>1, Zenon DEF TrProgress
  <2>3. TrInTransit(x)'  BY <1>1, <1>2, <2>1, Zenon DEF TrInTransit
  <2>4. TrKeyed(x)'  BY <1>1, <1>3, <2>1, Zenon DEF TrKeyed
  <2> QED BY <2>2, <2>3, <2>4
<1>7. TrOpened' = TrOpened  BY <1>1, Zenon DEF TrOpened
<1> QED BY <1>5, <1>6, <1>7, Zenon DEF TrHsInv

\* A piece goes from the flight to the kernel.
LEMMA TrArriveKeeps ==
  ASSUME TrInv, TrArrive
  PROVE  TrInv'
<1>1. PICK f, k, s, X : f = trNet.flight /\ k = trNet.kernel /\ s = trKind /\ X = TrAllPieces(s)
  OBVIOUS
<1>2. f \in Seq(X) /\ k \in Seq(X) /\ f # <<>>  BY <1>1 DEF TrInv, TrInInv, TrInOk, TrArrive
<1>3. PICK f1, k1, m : f1 = Tail(f) /\ k1 = Append(k, m) /\ m = Head(f)  OBVIOUS
<1>4. trNet = [flight |-> f, kernel |-> k, eof |-> trNet.eof]  BY <1>1 DEF TrInv, TrInInv
<1>5. /\ trNet' = [trNet EXCEPT !.flight = f1, !.kernel = k1]
      /\ trKind' = s /\ trHs' = trHs /\ trKeys' = trKeys /\ trOut' = trOut /\ trIn' = trIn
      /\ trBudget' = trBudget
  BY <1>1, <1>3 DEF TrArrive
<1>6. /\ trNet' = [flight |-> f1, kernel |-> k1, eof |-> trNet.eof]
      /\ trNet'.flight = f1 /\ trNet'.kernel = k1 /\ trNet'.eof = trNet.eof
  BY <1>4, <1>5
<1>7. /\ f1 \in Seq(X) /\ k1 \in Seq(X) /\ Len(f1) = Len(f) - 1 /\ Len(k1) = Len(k) + 1
      /\ Len(f) \in Nat \ {0} /\ Len(k) \in Nat
      /\ \A j \in 1..Len(f1) : f1[j] = f[j + 1]
      /\ \A j \in 1..Len(k) : k1[j] = k[j]
      /\ k1[Len(k) + 1] = f[1] /\ k1 # <<>>
  BY <1>2, <1>3
<1>8. TrType' /\ TrHsInv' /\ TrOpened' = TrOpened
  <2>1. trBudget \in [cells : 0..TrMaxCells, faults : 0..TrMaxFaults]  BY DEF TrInv, TrType
  <2>2. trBudget'.faults <= trBudget.faults /\ trBudget' \in [cells : 0..TrMaxCells, faults : 0..TrMaxFaults]
    BY <1>5, <2>1, TrAssumption
  <2> QED BY <1>1, <1>5, <2>2, TrHsKept
<1>9. TrSent' = TrSent  BY <1>5 DEF TrSent
<1>10. TrOutInv'
  <2>1. TrOutInv /\ \A x : TrScr(x)' = TrScr(x) /\ TrPos(x)' = TrPos(x)
    BY <1>1, <1>5, Zenon DEF TrInv, TrScr, TrPos
  <2> QED BY <1>1, <1>5, <1>6, <1>9, <2>1, Zenon DEF TrOutInv
<1>11. TrInOk(trIn, k, TrOpened)  BY <1>1 DEF TrInv, TrInInv
<1>12. PICK r, buf, e, eof, open, n : /\ r = trIn.records /\ buf = trIn.buf /\ e = trIn.epoch
                                      /\ eof = trNet.eof /\ open = trOut.open /\ n = TrSent
  OBVIOUS
<1>13. r \in Nat /\ buf \in Seq(X) /\ n \in Nat
  <2>1. r \in Nat /\ buf \in Seq(X)  BY <1>1, <1>11, <1>12 DEF TrInOk, TrInType
  <2>2. trBudget \in [cells : 0..TrMaxCells, faults : 0..TrMaxFaults]  BY DEF TrInv, TrType
  <2>3. n \in Nat  BY <1>12, <2>2, TrAssumption DEF TrSent
  <2> QED BY <2>1, <2>3
<1>14. TrTrack(s, r, buf, e, k, f, eof, open, n) => TrTrack(s, r, buf, e, k1, f1, eof, open, n)
  <2> SUFFICES ASSUME TrTrack(s, r, buf, e, k, f, eof, open, n)
               PROVE  TrTrack(s, r, buf, e, k1, f1, eof, open, n)
    OBVIOUS
  <2>1. TrOnWay(s, r, buf, k, f)  BY DEF TrTrack
  <2>2. PICK b : b = Len(buf) /\ b \in Nat  BY <1>13
  <2>3. \A j \in 1..Len(k1) : k1[j] = TrPiece(s, 2 * r + b + j)
    <3> SUFFICES ASSUME NEW j \in 1..Len(k1) PROVE k1[j] = TrPiece(s, 2 * r + b + j)
      OBVIOUS
    <3>1. CASE j \in 1..Len(k)
      BY <1>7, <2>1, <2>2, <3>1 DEF TrOnWay
    <3>2. CASE j = Len(k) + 1
      <4>1. 1 \in 1..Len(f)  BY <1>7
      <4>2. f[1] = TrPiece(s, 2 * r + b + Len(k) + 1)  BY <2>1, <2>2, <4>1 DEF TrOnWay
      <4>3. 2 * r + b + Len(k) + 1 = 2 * r + b + j  BY <1>7, <1>13, <2>2, <3>2
      <4> QED BY <1>7, <3>2, <4>2, <4>3
    <3> QED BY <1>7, <3>1, <3>2
  <2>4. \A j \in 1..Len(f1) : f1[j] = TrPiece(s, 2 * r + b + Len(k1) + j)
    <3> SUFFICES ASSUME NEW j \in 1..Len(f1) PROVE f1[j] = TrPiece(s, 2 * r + b + Len(k1) + j)
      OBVIOUS
    <3>1. j + 1 \in 1..Len(f) /\ f1[j] = f[j + 1]  BY <1>7
    <3>2. f[j + 1] = TrPiece(s, 2 * r + b + Len(k) + (j + 1))  BY <2>1, <2>2, <3>1 DEF TrOnWay
    <3>3. 2 * r + b + Len(k) + (j + 1) = 2 * r + b + Len(k1) + j  BY <1>7, <1>13, <2>2
    <3> QED BY <3>1, <3>2, <3>3
  <2>5. TrOnWay(s, r, buf, k1, f1)  BY <2>1, <2>2, <2>3, <2>4, Zenon DEF TrOnWay
  <2>6. open => 2 * r + Len(buf) + Len(k1) + Len(f1) = 2 * n
    <3> SUFFICES ASSUME open PROVE 2 * r + Len(buf) + Len(k1) + Len(f1) = 2 * n
      OBVIOUS
    <3>1. 2 * r + Len(buf) + Len(k) + Len(f) = 2 * n  BY Zenon DEF TrTrack
    <3>2. PICK l \in Nat, g \in Nat : l = Len(k) /\ g = Len(f)  BY <1>7, Zenon
    <3>3. 2 * r + b + (l + 1) + (g - 1) = 2 * r + b + l + g  BY <1>13, <2>2
    <3>4. Len(k1) = l + 1 /\ Len(f1) = g - 1 /\ Len(buf) = b  BY <1>7, <2>2, <3>2, Zenon
    <3> QED BY <3>1, <3>2, <3>3, <3>4, Zenon
  <2> QED BY <1>2, <1>7, <2>5, <2>6, Zenon DEF TrTrack
<1>15. TrInOk(trIn, trNet.kernel, TrOpened)'
  BY <1>1, <1>5, <1>6, <1>7, <1>8, <1>9, <1>11, <1>12, <1>14, Zenon DEF TrInOk
<1>16. TrInInv'
  <2>1. TrInInv  BY DEF TrInv
  <2>2. trHs[s.dir].ended = "done"  BY <1>1, <1>2, <2>1, Zenon DEF TrInInv
  <2> QED BY <1>1, <1>5, <1>6, <1>7, <1>15, <2>1, <2>2, Zenon DEF TrInInv
<1> QED BY <1>8, <1>10, <1>16, Zenon DEF TrInv

\* The sender closes its socket.
LEMMA TrCloseKeeps ==
  ASSUME TrInv, TrClose
  PROVE  TrInv'
<1>1. PICK s, d : s = trKind /\ d = IF trOut.open THEN trBudget.faults - 1 ELSE trBudget.faults
  OBVIOUS
<1>2. trBudget \in [cells : 0..TrMaxCells, faults : 0..TrMaxFaults]  BY DEF TrInv, TrType
<1>3. /\ trHs[s.dir].ended = "done" /\ ~trNet.eof /\ (~trOut.open \/ trBudget.faults > 0)
      /\ trOut' = [trOut EXCEPT !.open = FALSE]
      /\ trNet' = [trNet EXCEPT !.eof = TRUE]
      /\ trBudget' = [trBudget EXCEPT !.faults = d]
      /\ trKind' = s /\ trHs' = trHs /\ trKeys' = trKeys /\ trIn' = trIn
  BY <1>1, <1>2 DEF TrClose
<1>4. d \in 0..TrMaxFaults /\ d <= trBudget.faults  BY <1>1, <1>2, <1>3, TrAssumption
<1>5. /\ trBudget' \in [cells : 0..TrMaxCells, faults : 0..TrMaxFaults]
      /\ trBudget'.faults <= trBudget.faults /\ trBudget'.cells = trBudget.cells
  BY <1>2, <1>3, <1>4
<1>6. TrType' /\ TrHsInv' /\ TrOpened' = TrOpened  BY <1>1, <1>3, <1>5, TrHsKept
<1>7. TrSent' = TrSent  BY <1>5 DEF TrSent
<1>8. trOut' \in [nonce : Nat, epoch : Nat, records : Nat, open : BOOLEAN] /\ trOut'.open = FALSE
  <2>1. trOut \in [nonce : Nat, epoch : Nat, records : Nat, open : BOOLEAN]
    BY DEF TrInv, TrOutInv
  <2> QED BY <1>3, <2>1
<1>9. TrOutInv'  BY <1>1, <1>3, <1>8, Zenon DEF TrOutInv
<1>10. /\ trNet' = [flight |-> trNet.flight, kernel |-> trNet.kernel, eof |-> TRUE]
       /\ trNet'.flight = trNet.flight /\ trNet'.kernel = trNet.kernel /\ trNet'.eof = TRUE
  <2>1. trNet = [flight |-> trNet.flight, kernel |-> trNet.kernel, eof |-> trNet.eof]
    BY DEF TrInv, TrInInv
  <2> QED BY <1>3, <2>1
<1>11. TrInOk(trIn, trNet.kernel, TrOpened)  BY DEF TrInv, TrInInv
<1>12. \A r, buf, e, k, f, n : TrTrack(s, r, buf, e, k, f, trNet.eof, trOut.open, n) =>
         TrTrack(s, r, buf, e, k, f, TRUE, FALSE, n)
  <2> SUFFICES ASSUME NEW r, NEW buf, NEW e, NEW k, NEW f, NEW n,
                      TrTrack(s, r, buf, e, k, f, trNet.eof, trOut.open, n)
               PROVE  TrTrack(s, r, buf, e, k, f, TRUE, FALSE, n)
    OBVIOUS
  <2>1. ~trNet.eof  BY <1>3
  <2>2. buf = <<>> => e = TrEpAfter(s, r)  BY <2>1, Zenon DEF TrTrack
  <2> QED BY <2>2, Zenon DEF TrTrack
<1>13. TrInOk(trIn, trNet.kernel, TrOpened)'
  BY <1>1, <1>3, <1>6, <1>7, <1>8, <1>10, <1>11, <1>12, Zenon DEF TrInOk
<1>14. TrInInv'
  <2>1. TrInInv  BY DEF TrInv
  <2> QED BY <1>1, <1>3, <1>10, <1>13, <2>1, Zenon DEF TrInInv
<1> QED BY <1>6, <1>9, <1>14, Zenon DEF TrInv

\* A receive call gives up what it read.
LEMMA TrTimeoutKeeps ==
  ASSUME TrInv, TrReadTimeout
  PROVE  TrInv'
<1>1. PICK s, d : s = trKind /\ d = trBudget.faults - 1  OBVIOUS
<1>2. trBudget \in [cells : 0..TrMaxCells, faults : 0..TrMaxFaults]  BY DEF TrInv, TrType
<1>3. /\ trBudget.faults > 0
      /\ trIn' = [trIn EXCEPT !.buf = <<>>, !.timedOut = TRUE]
      /\ trBudget' = [trBudget EXCEPT !.faults = d]
      /\ trKind' = s /\ trHs' = trHs /\ trKeys' = trKeys /\ trOut' = trOut /\ trNet' = trNet
  BY <1>1, <1>2 DEF TrReadTimeout
<1>4. d \in 0..TrMaxFaults /\ d <= trBudget.faults  BY <1>1, <1>2, <1>3, TrAssumption
<1>5. /\ trBudget' \in [cells : 0..TrMaxCells, faults : 0..TrMaxFaults]
      /\ trBudget'.faults <= trBudget.faults /\ trBudget'.cells = trBudget.cells
  BY <1>2, <1>3, <1>4
<1>6. TrType' /\ TrHsInv' /\ TrOpened' = TrOpened  BY <1>1, <1>3, <1>5, TrHsKept
<1>7. TrSent' = TrSent  BY <1>5 DEF TrSent
<1>9. TrOutInv'
  <2>1. TrOutInv /\ \A x : TrScr(x)' = TrScr(x) /\ TrPos(x)' = TrPos(x)
    BY <1>1, <1>3, Zenon DEF TrInv, TrScr, TrPos
  <2> QED BY <1>1, <1>3, <1>7, <2>1, Zenon DEF TrOutInv
<1>10. TrInOk(trIn, trNet.kernel, TrOpened)  BY DEF TrInv, TrInInv
<1>11. PICK X : X = TrAllPieces(s)  OBVIOUS
<1>12. trIn \in [nonce : Nat, epoch : Nat, records : Nat, open : BOOLEAN, buf : Seq(X),
                 got : Nat, failed : BOOLEAN, timedOut : BOOLEAN]
  BY <1>1, <1>10, <1>11, Zenon DEF TrInOk, TrInType
<1>13. <<>> \in Seq(X)  OBVIOUS
<1>14. /\ trIn' \in [nonce : Nat, epoch : Nat, records : Nat, open : BOOLEAN, buf : Seq(X),
                     got : Nat, failed : BOOLEAN, timedOut : BOOLEAN]
       /\ trIn'.nonce = trIn.nonce /\ trIn'.records = trIn.records /\ trIn'.got = trIn.got
       /\ trIn'.timedOut = TRUE /\ trIn'.buf = <<>>
  BY <1>3, <1>12, <1>13
<1>15. TrInOk(trIn, trNet.kernel, TrOpened)'
  BY <1>1, <1>3, <1>6, <1>10, <1>11, <1>14, Zenon DEF TrInOk, TrInType
<1>16. TrInInv'
  <2>1. TrInInv  BY DEF TrInv
  <2> QED BY <1>1, <1>3, <1>14, <1>15, <2>1, Zenon DEF TrInInv
<1> QED BY <1>6, <1>9, <1>16, Zenon DEF TrInv

\* Both pieces of record c.
LEMMA TrPiecesOf ==
  ASSUME NEW s, NEW c \in Nat
  PROVE  /\ TrPiece(s, 2 * c + 1) = [part |-> 1, rec |-> TrRec(s, c + 1)]
         /\ TrPiece(s, 2 * c + 2) = [part |-> 2, rec |-> TrRec(s, c + 1)]
<1>1. /\ (2 * c + 1) % 2 = 1 /\ ((2 * c + 1) + 1) \div 2 = c + 1
      /\ (2 * c + 2) % 2 # 1 /\ ((2 * c + 2) + 1) \div 2 = c + 1
  OBVIOUS
<1> QED BY <1>1, Zenon DEF TrPiece

\* The ratchet takes a side from the epoch after n records to that of the
\* next one.
LEMMA TrRatchet ==
  ASSUME NEW s, NEW n \in Nat, NEW e, e = TrEpAfter(s, n)
  PROVE  /\ TrEp(s, n + 1) = IF s.kind = "shitstorm" /\ n > 0 /\ n % TrRekey = 0 THEN e + 1 ELSE e
         /\ TrEp(s, n + 1) \in Nat
         /\ TrEpAfter(s, n + 1) = TrEp(s, n + 1)
<1>0. TrRekey \in Nat \ {0}  BY TrAssumption
<1>1. TrEpAfter(s, n + 1) = TrEp(s, n + 1)  BY DEF TrEpAfter
<1>2. CASE s.kind # "shitstorm"
  BY <1>1, <1>2 DEF TrEp, TrEpAfter
<1>3. CASE s.kind = "shitstorm" /\ n = 0
  <2>1. 0 \div TrRekey = 0  BY <1>0
  <2>2. (0 + 1) - 1 = 0  OBVIOUS
  <2> QED BY <1>1, <1>3, <2>1, <2>2 DEF TrEp, TrEpAfter
<1>4. CASE s.kind = "shitstorm" /\ n # 0
  <2>1. n \in Nat \ {0} /\ (n + 1) - 1 = n  BY <1>4
  <2>2. n \div TrRekey = (n - 1) \div TrRekey + (IF n % TrRekey = 0 THEN 1 ELSE 0)
    BY <1>0, <2>1, TrDivStep
  <2>3. e = (n - 1) \div TrRekey /\ TrEp(s, n + 1) = n \div TrRekey
    BY <1>4, <2>1 DEF TrEp, TrEpAfter
  <2>4. (n - 1) \div TrRekey \in Nat  BY <1>0, <2>1
  <2> QED BY <1>1, <1>4, <2>1, <2>2, <2>3, <2>4
<1> QED BY <1>2, <1>3, <1>4

\* More pieces behind those in flight.
LEMMA TrMoreInFlight ==
  ASSUME NEW s, NEW X, NEW r \in Nat, NEW buf \in Seq(X), NEW k \in Seq(X), NEW f \in Seq(X),
         NEW g \in Seq(X), NEW n \in Nat, TrOnWay(s, r, buf, k, f),
         2 * r + Len(buf) + Len(k) + Len(f) = n,
         \A j \in 1..Len(g) : g[j] = TrPiece(s, n + j)
  PROVE  TrOnWay(s, r, buf, k, f \o g)
<1>0. Len(buf) \in Nat /\ Len(k) \in Nat /\ Len(f) \in Nat  OBVIOUS
<1>1. PICK b \in Nat, l \in Nat, m \in Nat : b = Len(buf) /\ l = Len(k) /\ m = Len(f)
  BY <1>0, Zenon
<1>2. PICK h : h = f \o g  OBVIOUS
<1>3. /\ Len(h) = m + Len(g) /\ Len(g) \in Nat
      /\ \A j \in 1..m : h[j] = f[j]
      /\ \A j \in 1..Len(g) : h[m + j] = g[j]
  BY <1>1, <1>2
<1>4. \A j \in 1..m : f[j] = TrPiece(s, 2 * r + b + l + j)  BY <1>1, Zenon DEF TrOnWay
<1>5. \A j \in 1..Len(h) : h[j] = TrPiece(s, 2 * r + b + l + j)
  <2> SUFFICES ASSUME NEW j \in 1..Len(h) PROVE h[j] = TrPiece(s, 2 * r + b + l + j)
    OBVIOUS
  <2>1. CASE j <= m
    <3>1. j \in 1..m  BY <1>1, <1>3, <2>1
    <3> QED BY <1>3, <1>4, <3>1
  <2>2. CASE j > m
    <3>1. PICK i : i = j - m  OBVIOUS
    <3>0. 2 * r + b + l + m = n  BY <1>1, Zenon
    <3>a. i \in 1..Len(g) /\ j = m + i  BY <1>3, <2>2, <3>1
    <3>b. n + i = 2 * r + b + l + j  BY <3>0, <3>a
    <3>2. i \in 1..Len(g) /\ j = m + i /\ n + i = 2 * r + b + l + j  BY <3>a, <3>b
    <3>3. h[m + i] = g[i] /\ g[i] = TrPiece(s, n + i)  BY <1>3, <3>2
    <3> QED BY <3>2, <3>3
  <2> QED BY <1>1, <1>3, <2>1, <2>2
<1> QED BY <1>1, <1>2, <1>5, Zenon DEF TrOnWay

\* A sender's two properties are Boolean.
LEMMA TrSenderIs ==
  ASSUME NEW k \in TrKinds \cup {"raw"}
  PROVE  TrSender(k) = [waits |-> TrSender(k).waits, early |-> TrSender(k).early]
         /\ TrSender(k).waits \in BOOLEAN /\ TrSender(k).early \in BOOLEAN
BY DEF TrKinds, TrSender, TrScrambleSend, TrShadeSend, TrMirageSend, TrSpeakeasySend, TrNetherSend,
       TrShitstormSend

\* A cell is sent, or cut short.
LEMMA TrSendCellKeeps ==
  ASSUME TrInv, TrSend
  PROVE  TrInv'
<1>1. PICK s, n, X : s = trKind /\ n = TrSent /\ X = TrAllPieces(s)  OBVIOUS
<1>2. trBudget \in [cells : 0..TrMaxCells, faults : 0..TrMaxFaults]  BY DEF TrInv, TrType
<1>3. PICK waits \in BOOLEAN, early \in BOOLEAN : waits = TrSender(s.kind).waits /\ early = TrSender(s.kind).early
  <2>1. s.kind \in TrKinds \cup {"raw"}  BY <1>1 DEF TrInv, TrType
  <2> QED BY <2>1, TrSenderIs
<1>4. PICK whole \in BOOLEAN : whole = (TrRoom >= 2)
  <2>1. (TrRoom >= 2) \in BOOLEAN  OBVIOUS
  <2> QED BY <2>1, Zenon
<1>5. PICK g : g = TrPieces(IF whole THEN 2 ELSE TrRoom)  OBVIOUS
<1>6. PICK o1 : o1 = TrRekeySend(s.kind, trOut)  OBVIOUS
<1>7. /\ trHs[s.dir].ended = "done" /\ trOut.open /\ ~trNet.eof /\ trBudget.cells > 0
      /\ whole \/ ~waits \/ trBudget.faults > 0
      /\ trNet' = [trNet EXCEPT !.flight = trNet.flight \o g]
      /\ trOut' = [o1 EXCEPT !.nonce = IF whole \/ early THEN o1.nonce + 1 ELSE o1.nonce,
                             !.records = IF whole THEN o1.records + 1 ELSE o1.records,
                             !.open = whole]
      /\ trBudget' = [trBudget EXCEPT !.cells = trBudget.cells - 1,
                        !.faults = IF ~whole /\ waits THEN trBudget.faults - 1 ELSE trBudget.faults]
      /\ trKind' = s /\ trHs' = trHs /\ trKeys' = trKeys /\ trIn' = trIn
  <2>1. /\ trHs[s.dir].ended = "done" /\ trOut.open /\ ~trNet.eof /\ trBudget.cells > 0
        /\ trKind' = s /\ trHs' = trHs /\ trKeys' = trKeys /\ trIn' = trIn
    BY <1>1, Zenon DEF TrSend
  <2>2. whole \/ ~waits \/ trBudget.faults > 0  BY <1>1, <1>3, <1>4, Zenon DEF TrSend
  <2>3. trNet' = [trNet EXCEPT !.flight = trNet.flight \o g]
    BY <1>1, <1>4, <1>5, Zenon DEF TrSend
  <2>4. trOut' = [o1 EXCEPT !.nonce = IF whole \/ early THEN o1.nonce + 1 ELSE o1.nonce,
                            !.records = IF whole THEN o1.records + 1 ELSE o1.records,
                            !.open = whole]
    BY <1>1, <1>3, <1>4, <1>6, Zenon DEF TrSend
  <2>5. trBudget' = [trBudget EXCEPT !.cells = trBudget.cells - 1,
                       !.faults = IF ~whole /\ waits THEN trBudget.faults - 1 ELSE trBudget.faults]
    BY <1>1, <1>3, <1>4, Zenon DEF TrSend
  <2> QED BY <2>1, <2>2, <2>3, <2>4, <2>5
<1>8. /\ n \in Nat /\ n < TrMaxCells
      /\ trBudget' \in [cells : 0..TrMaxCells, faults : 0..TrMaxFaults]
      /\ trBudget'.faults <= trBudget.faults /\ trBudget'.cells = trBudget.cells - 1
      /\ TrSent' = n + 1
  <2>1. PICK c, f, f1 : /\ c = trBudget.cells /\ f = trBudget.faults
                        /\ f1 = IF ~whole /\ waits THEN f - 1 ELSE f
    OBVIOUS
  <2>2. c \in 1..TrMaxCells /\ f \in 0..TrMaxFaults /\ TrMaxCells \in Nat /\ TrMaxFaults \in Nat
    BY <1>2, <1>7, <2>1, TrAssumption
  <2>3. f1 \in 0..TrMaxFaults /\ f1 <= f  BY <1>7, <2>1, <2>2
  <2>4. /\ trBudget' = [trBudget EXCEPT !.cells = c - 1, !.faults = f1]  BY <1>7, <2>1
  <2>5. /\ trBudget' \in [cells : 0..TrMaxCells, faults : 0..TrMaxFaults]
        /\ trBudget'.cells = c - 1 /\ trBudget'.faults = f1
    <3>1. PICK c1 : c1 = c - 1  OBVIOUS
    <3>2. c1 \in 0..TrMaxCells  BY <2>2, <3>1
    <3>3. trBudget' = [trBudget EXCEPT !.cells = c1, !.faults = f1]  BY <2>4, <3>1
    <3>4. /\ trBudget' \in [cells : 0..TrMaxCells, faults : 0..TrMaxFaults]
          /\ trBudget'.cells = c1 /\ trBudget'.faults = f1
      BY <1>2, <2>3, <3>2, <3>3
    <3> QED BY <3>1, <3>4, Zenon
  <2>6. n = TrMaxCells - c  BY <1>1, <2>1 DEF TrSent
  <2>7. TrSent' = n + 1  BY <2>2, <2>5, <2>6 DEF TrSent
  <2> QED BY <2>1, <2>2, <2>3, <2>5, <2>6, <2>7
<1>9. TrType' /\ TrHsInv' /\ TrOpened' = TrOpened  BY <1>1, <1>7, <1>8, TrHsKept
<1>10. /\ trOut \in [nonce : Nat, epoch : Nat, records : Nat, open : BOOLEAN]
       /\ trOut.nonce = TrBase(s) + n /\ trOut.records = n /\ trOut.epoch = TrEpAfter(s, n)
  BY <1>1, <1>7, Zenon DEF TrInv, TrOutInv
<1>11. /\ o1 \in [nonce : Nat, epoch : Nat, records : Nat, open : BOOLEAN]
       /\ o1.nonce = trOut.nonce /\ o1.records = n /\ o1.epoch = TrEp(s, n + 1)
  <2>1. PICK e : e = trOut.epoch  OBVIOUS
  <2>2. /\ TrEp(s, n + 1) = IF s.kind = "shitstorm" /\ n > 0 /\ n % TrRekey = 0 THEN e + 1 ELSE e
    BY <1>8, <1>10, <2>1, TrRatchet
  <2>3. e \in Nat  BY <1>10, <2>1
  <2>4. CASE s.kind = "shitstorm" /\ n > 0 /\ n % TrRekey = 0
    <3>1. o1 = [trOut EXCEPT !.epoch = e + 1]  BY <1>6, <1>10, <2>1, <2>4 DEF TrRekeySend
    <3> QED BY <1>10, <2>2, <2>3, <2>4, <3>1
  <2>5. CASE ~(s.kind = "shitstorm" /\ n > 0 /\ n % TrRekey = 0)
    <3>1. o1 = trOut  BY <1>6, <1>10, <2>5 DEF TrRekeySend
    <3> QED BY <1>10, <2>1, <2>2, <2>5, <3>1
  <2> QED BY <2>4, <2>5
<1>12. TrBase(s) \in Nat  BY DEF TrBase, TrSealed
<1>13. PICK nn, rr : /\ nn = IF whole \/ early THEN o1.nonce + 1 ELSE o1.nonce
                     /\ rr = IF whole THEN o1.records + 1 ELSE o1.records
  OBVIOUS
<1>14. /\ trOut' \in [nonce : Nat, epoch : Nat, records : Nat, open : BOOLEAN]
       /\ trOut'.nonce = nn /\ trOut'.records = rr /\ trOut'.epoch = TrEp(s, n + 1) /\ trOut'.open = whole
  <2>1. nn \in Nat /\ rr \in Nat  BY <1>11, <1>13
  <2>2. trOut' = [o1 EXCEPT !.nonce = nn, !.records = rr, !.open = whole]  BY <1>7, <1>13
  <2> QED BY <1>11, <2>1, <2>2
<1>15. /\ trNet' = [flight |-> trNet.flight \o g, kernel |-> trNet.kernel, eof |-> trNet.eof]
       /\ trNet'.flight = trNet.flight \o g /\ trNet'.kernel = trNet.kernel /\ trNet'.eof = trNet.eof
  <2>1. trNet = [flight |-> trNet.flight, kernel |-> trNet.kernel, eof |-> trNet.eof]
    BY DEF TrInv, TrInInv
  <2>2. PICK fl : fl = trNet.flight \o g  OBVIOUS
  <2>3. trNet' = [trNet EXCEPT !.flight = fl]  BY <1>7, <2>2
  <2> QED BY <2>1, <2>2, <2>3
<1>16. TrOutInv'
  <2>1. whole => nn = TrBase(s) + (n + 1) /\ rr = n + 1  BY <1>8, <1>10, <1>11, <1>12, <1>13
  <2>2. TrEpAfter(s, n + 1) = TrEp(s, n + 1)  BY <1>8, TrRatchet
  <2> QED BY <1>7, <1>8, <1>14, <1>15, <2>1, <2>2, Zenon DEF TrOutInv
<1>17. PICK p1, p2 : p1 = TrPiece(s, 2 * n + 1) /\ p2 = TrPiece(s, 2 * n + 2)  OBVIOUS
<1>18. p1 \in X /\ p2 \in X
  <2>1. 2 * n + 1 \in 1..(2 * TrMaxCells) /\ 2 * n + 2 \in 1..(2 * TrMaxCells)
    BY <1>8, TrAssumption
  <2> QED BY <1>1, <1>17, <2>1 DEF TrAllPieces
<1>19. PICK w : w = IF whole THEN 2 ELSE TrRoom  OBVIOUS
<1>20. g = SubSeq(<<p1, p2>>, 1, w)
  <2>1. PICK rec : rec = [cell |-> TrMaxCells - trBudget.cells + 1, nonce |-> trOut.nonce, epoch |-> o1.epoch]
    OBVIOUS
  <2>2. rec = TrRec(s, n + 1)
    <3>1. trOut.nonce = TrBase(s) + (n + 1) - 1  BY <1>8, <1>10, <1>12
    <3>2. TrMaxCells - trBudget.cells + 1 = n + 1  BY <1>1 DEF TrSent
    <3> QED BY <1>11, <2>1, <3>1, <3>2, Zenon DEF TrRec
  <2>3. p1 = [part |-> 1, rec |-> rec] /\ p2 = [part |-> 2, rec |-> rec]
    BY <1>8, <1>17, <2>2, TrPiecesOf
  <2> QED BY <1>1, <1>5, <1>6, <1>19, <2>1, <2>3, Zenon DEF TrPieces
<1>21. w \in Int /\ w <= 2
  <2>1. PICK f, k : f = trNet.flight /\ k = trNet.kernel  OBVIOUS
  <2>2. f \in Seq(X) /\ k \in Seq(X)  BY <1>1, <2>1 DEF TrInv, TrInInv, TrInOk
  <2>3. TrRoom = TrWire - Len(f) - Len(k)  BY <2>1 DEF TrRoom
  <2>4. TrRoom \in Int  BY <2>2, <2>3, TrAssumption
  <2>5. whole <=> TrRoom >= 2  BY <1>4, Zenon
  <2> QED BY <1>19, <2>4, <2>5
<1>22. /\ g \in Seq(X) /\ (Len(g) = IF w >= 0 THEN w ELSE 0)
       /\ \A j \in 1..Len(g) : g[j] = TrPiece(s, 2 * n + j)
  <2>1. PICK t : t = <<p1, p2>>  OBVIOUS
  <2>2. t \in Seq(X) /\ Len(t) = 2  BY <1>18, <2>1
  <2>3. t[1] = p1 /\ t[2] = p2  BY <2>1
  <2>4. PICK m \in 0..2 : m = IF w >= 0 THEN w ELSE 0  BY <1>21
  <2>5. g = SubSeq(t, 1, w)  BY <1>20, <2>1
  <2>6. g \in Seq(X) /\ Len(g) = m /\ \A j \in 1..m : g[j] = t[j]  BY <1>21, <2>2, <2>4, <2>5
  <2>7. \A j \in 1..m : t[j] = TrPiece(s, 2 * n + j)
    <3>1. \A j \in 1..m : j = 1 \/ j = 2  OBVIOUS
    <3> QED BY <1>17, <2>3, <3>1
  <2> QED BY <2>4, <2>6, <2>7
<1>23. PICK f, k, r, buf, e : /\ f = trNet.flight /\ k = trNet.kernel
                              /\ r = trIn.records /\ buf = trIn.buf /\ e = trIn.epoch
  OBVIOUS
<1>24. f \in Seq(X) /\ k \in Seq(X) /\ r \in Nat /\ buf \in Seq(X)
  BY <1>1, <1>23 DEF TrInv, TrInInv, TrInOk, TrInType
<1>25. f \o g \in Seq(X) /\ Len(f \o g) = Len(f) + Len(g)  BY <1>22, <1>24
<1>26. TrTrack(s, r, buf, e, k, f, trNet.eof, trOut.open, n) =>
         TrTrack(s, r, buf, e, k, f \o g, trNet.eof, whole, n + 1)
  <2> SUFFICES ASSUME TrTrack(s, r, buf, e, k, f, trNet.eof, trOut.open, n)
               PROVE  TrTrack(s, r, buf, e, k, f \o g, trNet.eof, whole, n + 1)
    OBVIOUS
  <2>1. TrOnWay(s, r, buf, k, f) /\ 2 * r + Len(buf) + Len(k) + Len(f) = 2 * n
    BY <1>7, Zenon DEF TrTrack
  <2>2. 2 * n \in Nat  BY <1>8
  <2>3. TrOnWay(s, r, buf, k, f \o g)  BY <1>22, <1>24, <2>1, <2>2, TrMoreInFlight
  <2>4. whole => 2 * r + Len(buf) + Len(k) + Len(f \o g) = 2 * (n + 1)
    <3> SUFFICES ASSUME whole PROVE 2 * r + Len(buf) + Len(k) + Len(f \o g) = 2 * (n + 1)
      OBVIOUS
    <3>1. Len(g) = 2  BY <1>19, <1>22
    <3>2. Len(buf) \in Nat /\ Len(k) \in Nat /\ Len(f) \in Nat  BY <1>24
    <3> QED BY <1>8, <1>24, <1>25, <2>1, <3>1, <3>2
  <2>5. ~trNet.eof  BY <1>7
  <2>6. buf = <<>> => e = TrEpAfter(s, r)  BY <2>5, Zenon DEF TrTrack
  <2> QED BY <2>3, <2>4, <2>6, Zenon DEF TrTrack
<1>27. TrInOk(trIn, trNet.kernel, TrOpened)  BY DEF TrInv, TrInInv
<1>28. TrInOk(trIn, trNet.kernel, TrOpened)'
  BY <1>1, <1>7, <1>8, <1>9, <1>14, <1>15, <1>23, <1>26, <1>27, Zenon DEF TrInOk
<1>29. TrInInv'
  <2>1. TrInInv  BY DEF TrInv
  <2> QED BY <1>1, <1>7, <1>15, <1>23, <1>25, <1>28, <2>1, Zenon DEF TrInInv
<1> QED BY <1>9, <1>16, <1>29, Zenon DEF TrInv

\* A side whose handshake is over has all of its script behind it.
LEMMA TrDoneAt ==
  ASSUME TrInv, NEW x \in TrSides, trHs[x].ended = "done"
  PROVE  /\ trKind.kind = "raw" => TrPos(x) = 0
         /\ trKind.kind # "raw" => TrEndOk(trKind.kind, x, TrScr(x), TrPos(x))
<1>1. PICK S, k : S = TrScr(x) /\ k = trKind.kind  OBVIOUS
<1>2. k \in TrKinds \cup {"raw"} /\ S = TrScript(k, x)  BY <1>1 DEF TrInv, TrType, TrScr
<1>3. PICK n : TrPlan(k, x, S, n)  BY <1>2, TrPlans
<1>4. Len(S) = n /\ (n = 0 <=> k = "raw") /\ (k # "raw" => TrEndOk(k, x, S, n))
  BY <1>3, Zenon DEF TrPlan
<1>5. TrPos(x) = Len(S)  BY <1>1, Zenon DEF TrInv, TrHsInv, TrProgress
<1> QED BY <1>1, <1>4, <1>5, Zenon

\* Once both handshakes are over, the keys fit.
LEMMA TrDoneFits ==
  ASSUME TrInv, \A x \in TrSides : trHs[x].ended = "done"
  PROVE  \A x \in TrSides : trKeys[x].send = trKeys[TrPeer(x)].recv
<1>1. ASSUME NEW x \in TrSides PROVE trKeys[x] = TrOwnKeys(x)
  <2>1. TrKeyed(x)  BY DEF TrInv, TrHsInv
  <2>2. CASE trKind.kind = "raw"
    BY <2>1, <2>2, Zenon DEF TrKeyed
  <2>3. CASE trKind.kind # "raw"
    <3>1. TrEndOk(trKind.kind, x, TrScr(x), TrPos(x))  BY <2>3, TrDoneAt
    <3> QED BY <2>1, <3>1, Zenon DEF TrEndOk, TrKeyed
  <2> QED BY <2>2, <2>3
<1>2. trKind.knows \/ trKind.kind \notin {"mirage", "shitstorm"}
  <2> SUFFICES ASSUME trKind.kind \in {"mirage", "shitstorm"} PROVE trKind.knows
    OBVIOUS
  <2>1. "server" \in TrSides /\ trKind.kind # "raw"  BY DEF TrSides
  <2>2. TrEndOk(trKind.kind, "server", TrScr("server"), TrPos("server")) /\ TrKeyed("server")
    BY <2>1, TrDoneAt DEF TrInv, TrHsInv
  <2> QED BY <2>2, Zenon DEF TrEndOk, TrKeyed
<1>3. \A x \in TrSides : TrPeer(x) \in TrSides  BY TrPeers
<1>4. \A x \in TrSides : TrOwnKeys(x).send = TrOwnKeys(TrPeer(x)).recv
  BY <1>2, TrOwnFit DEF TrInv
<1> QED BY <1>1, <1>3, <1>4

\* A receiver that is through has opened all that the sender sealed.
LEMMA TrOpenedAll ==
  ASSUME TrInv, trHs[TrPeer(trKind.dir)].ended = "done"
  PROVE  TrOpened = TrBase(trKind)
<1>1. PICK x \in TrSides : x = TrPeer(trKind.dir) /\ TrPeer(x) = trKind.dir
  BY TrPeers DEF TrInv, TrType
<1>2. CASE trKind.kind = "raw"
  <2>1. TrPos(x) = 0  BY <1>1, <1>2, TrDoneAt
  <2>2. TrOpened = 0  BY <1>1, <2>1, TrCountNone DEF TrOpened
  <2> QED BY <1>2, <2>2 DEF TrBase, TrSealed
<1>3. CASE trKind.kind # "raw"
  <2>1. TrEndOk(trKind.kind, x, TrScr(x), TrPos(x))  BY <1>1, <1>3, TrDoneAt
  <2> QED BY <1>1, <2>1, Zenon DEF TrEndOk, TrBase, TrOpened
<1> QED BY <1>2, <1>3

-----------------------------------------------------------------------------
(* A receive call, part by part.                                            *)

TrHow(st) == TrReceiver(trKind.kind, Len(st.in.buf))
TrTook(st) == TrTake(TrHow(st).reads, Len(st.in.buf), Len(st.kernel))
TrIn1(st) == IF TrHow(st).reads = "blocks" /\ st.in.buf = <<>> THEN TrRekeyRecv(trKind.kind, st.in) ELSE st.in
TrIn2(st) == [TrIn1(st) EXCEPT !.buf = @ \o SubSeq(st.kernel, 1, TrTook(st))]
TrLeft(st) == SubSeq(st.kernel, TrTook(st) + 1, Len(st.kernel))
TrShut(st) == TrLeft(st) = <<>> /\ trNet.flight = <<>> /\ trNet.eof

\* TrRecvCell in terms of these parts.
LEMMA TrCellIs ==
  ASSUME NEW st
  PROVE  TrRecvCell(st) =
           IF ~TrHow(st).pending /\ st.kernel = <<>> /\ ~TrShut(st)
           THEN [st EXCEPT !.ret = IF st.in.buf # <<>> /\ TrHow(st).reads = "blocks" THEN "wait" ELSE "0"]
           ELSE IF Len(TrIn2(st).buf) < 2
           THEN CASE TrShut(st) /\ TrHow(st).reads = "blocks" ->
                       [in |-> [TrIn2(st) EXCEPT !.buf = <<>>], kernel |-> TrLeft(st), ret |-> "0"]
                  [] TrShut(st) /\ TrHow(st).reads # "blocks" ->
                       [in |-> [TrIn2(st) EXCEPT !.open = FALSE], kernel |-> TrLeft(st), ret |-> "-1"]
                  [] ~TrShut(st) -> [in |-> TrIn2(st), kernel |-> TrLeft(st),
                                     ret |-> IF TrHow(st).reads = "blocks" THEN "wait" ELSE "0"]
           ELSE IF TrOpens(trKeys, TrIn2(st))
           THEN [in |-> [TrIn2(st) EXCEPT !.buf = SubSeq(@, 3, Len(@)), !.nonce = @ + 1,
                                          !.records = @ + 1, !.got = TrIn2(st).buf[1].rec.cell],
                 kernel |-> TrLeft(st), ret |-> "1"]
           ELSE [in |-> [TrIn2(st) EXCEPT !.failed = TRUE,
                                          !.buf = IF TrHow(st).reads = "blocks" THEN <<>> ELSE @],
                 kernel |-> TrLeft(st), ret |-> "0"]
BY Zenon DEF TrRecvCell, TrIn2, TrIn1, TrLeft, TrTook, TrHow, TrShut

\* What the receivers of all kinds have in common.
LEMMA TrReceiverIs ==
  ASSUME NEW k \in TrKinds \cup {"raw"}, NEW n \in Nat
  PROVE  /\ TrReceiver(k, n).reads \in {"ahead", "blocks", "exact"}
         /\ k = "shitstorm" => TrReceiver(k, n).reads = "blocks"
         /\ n = 0 => ~TrReceiver(k, n).pending
<1>1. CASE k = "scramble"
  <2>1. TrReceiver(k, n) = TrScrambleRecv(n)  BY <1>1 DEF TrReceiver
  <2>2. n = 0 => ~(n > 0)  OBVIOUS
  <2>3. k # "shitstorm"  BY <1>1
  <2>4. TrReceiver(k, n).reads = "ahead" /\ TrReceiver(k, n).pending = (n > 0)
    <3>1. PICK r : r = TrReceiver(k, n)  OBVIOUS
    <3>2. r = [reads |-> "ahead", pending |-> n > 0]  BY <2>1, <3>1, Zenon DEF TrScrambleRecv
    <3>3. r.pending = (n > 0)  BY <3>2, Zenon
    <3>4. r.reads = "ahead"  BY <3>2
    <3> QED BY <3>1, <3>3, <3>4, Zenon
  <2>5. n = 0 => ~TrReceiver(k, n).pending  BY <2>2, <2>4, Zenon
  <2> QED BY <2>3, <2>4, <2>5, Zenon
<1>2. CASE k = "shade"
  <2>1. TrReceiver(k, n) = TrShadeRecv(n)  BY <1>2 DEF TrReceiver
  <2> QED BY <1>2, <2>1 DEF TrShadeRecv
<1>3. CASE k = "mirage"
  <2>1. TrReceiver(k, n) = TrMirageRecv(n)  BY <1>3 DEF TrReceiver
  <2>2. n = 0 => ~(n >= 2)  OBVIOUS
  <2>3. k # "shitstorm"  BY <1>3
  <2>4. TrReceiver(k, n).reads = "ahead" /\ TrReceiver(k, n).pending = (n >= 2)
    <3>1. PICK r : r = TrReceiver(k, n)  OBVIOUS
    <3>2. r = [reads |-> "ahead", pending |-> n >= 2]  BY <2>1, <3>1, Zenon DEF TrMirageRecv
    <3>3. r.pending = (n >= 2)  BY <3>2, Zenon
    <3>4. r.reads = "ahead"  BY <3>2
    <3> QED BY <3>1, <3>3, <3>4, Zenon
  <2>5. n = 0 => ~TrReceiver(k, n).pending  BY <2>2, <2>4, Zenon
  <2> QED BY <2>3, <2>4, <2>5, Zenon
<1>4. CASE k = "speakeasy"
  <2>1. TrReceiver(k, n) = TrSpeakeasyRecv(n)  BY <1>4 DEF TrReceiver
  <2>2. n = 0 => ~(n > 0)  OBVIOUS
  <2>3. k # "shitstorm"  BY <1>4
  <2>4. TrReceiver(k, n).reads = "exact" /\ TrReceiver(k, n).pending = (n > 0)
    <3>1. PICK r : r = TrReceiver(k, n)  OBVIOUS
    <3>2. r = [reads |-> "exact", pending |-> n > 0]  BY <2>1, <3>1, Zenon DEF TrSpeakeasyRecv
    <3>3. r.pending = (n > 0)  BY <3>2, Zenon
    <3>4. r.reads = "exact"  BY <3>2
    <3> QED BY <3>1, <3>3, <3>4, Zenon
  <2>5. n = 0 => ~TrReceiver(k, n).pending  BY <2>2, <2>4, Zenon
  <2> QED BY <2>3, <2>4, <2>5, Zenon
<1>5. CASE k = "nether"
  <2>1. TrReceiver(k, n) = TrNetherRecv(n)  BY <1>5 DEF TrReceiver
  <2> QED BY <1>5, <2>1 DEF TrNetherRecv
<1>6. CASE k = "shitstorm"
  <2>1. TrReceiver(k, n) = TrShitstormRecv(n)  BY <1>6 DEF TrReceiver
  <2> QED BY <1>6, <2>1 DEF TrShitstormRecv
<1>7. CASE k = "raw"
  <2>1. TrReceiver(k, n) = [reads |-> "ahead", pending |-> n >= 2]  BY <1>7 DEF TrReceiver
  <2>2. n = 0 => ~(n >= 2)  OBVIOUS
  <2>3. k # "shitstorm"  BY <1>7
  <2>4. TrReceiver(k, n).reads = "ahead" /\ TrReceiver(k, n).pending = (n >= 2)
    <3>1. PICK r : r = TrReceiver(k, n)  OBVIOUS
    <3>2. r = [reads |-> "ahead", pending |-> n >= 2]  BY <2>1, <3>1, Zenon
    <3>3. r.pending = (n >= 2)  BY <3>2, Zenon
    <3>4. r.reads = "ahead"  BY <3>2
    <3> QED BY <3>1, <3>3, <3>4, Zenon
  <2>5. n = 0 => ~TrReceiver(k, n).pending  BY <2>2, <2>4, Zenon
  <2> QED BY <2>3, <2>4, <2>5, Zenon
<1> QED BY <1>1, <1>2, <1>3, <1>4, <1>5, <1>6, <1>7 DEF TrKinds

\* How much a receive call takes from the kernel.
LEMMA TrTakes ==
  ASSUME NEW reads, NEW h \in Nat, NEW n \in Nat
  PROVE  /\ TrTake(reads, h, n) \in 0..n
         /\ h = 0 /\ n > 0 => TrTake(reads, h, n) > 0
         /\ reads = "blocks" /\ h < 2 => h + TrTake(reads, h, n) <= 2
BY TrAssumption DEF TrTake

\* Pieces go from the kernel to the buffer.
TrShiftFrom(X, r, buf, k, f, t, b2, k2) ==
    /\ r \in Nat /\ buf \in Seq(X) /\ k \in Seq(X) /\ f \in Seq(X) /\ t \in 0..Len(k)
    /\ b2 = buf \o SubSeq(k, 1, t) /\ k2 = SubSeq(k, t + 1, Len(k))
TrShiftTo(X, s, r, buf, k, f, t, b2, k2) ==
    /\ b2 \in Seq(X) /\ Len(b2) = Len(buf) + t
    /\ k2 \in Seq(X) /\ Len(k2) = Len(k) - t
    /\ TrOnWay(s, r, buf, k, f) => TrOnWay(s, r, b2, k2, f)

\* Pieces on their way stay a run of numbers.
LEMMA TrShift ==
  ASSUME NEW X, NEW s, NEW r, NEW buf, NEW k, NEW f, NEW t, NEW b2, NEW k2,
         TrShiftFrom(X, r, buf, k, f, t, b2, k2)
  PROVE  TrShiftTo(X, s, r, buf, k, f, t, b2, k2)
<1> /\ r \in Nat /\ buf \in Seq(X) /\ k \in Seq(X) /\ f \in Seq(X) /\ t \in 0..Len(k)
    /\ b2 = buf \o SubSeq(k, 1, t) /\ k2 = SubSeq(k, t + 1, Len(k))
  BY Zenon DEF TrShiftFrom
<1>0. Len(buf) \in Nat /\ Len(k) \in Nat  OBVIOUS
<1>1. PICK b \in Nat, l \in Nat : b = Len(buf) /\ l = Len(k)  BY <1>0, Zenon
<1>2. PICK a : a = SubSeq(k, 1, t)  OBVIOUS
<1>3. t \in 0..l /\ t \in Nat  BY <1>1
<1>4. a \in Seq(X) /\ Len(a) = t /\ \A j \in 1..t : a[j] = k[j]  BY <1>1, <1>2, <1>3
<1>5. k2 \in Seq(X) /\ Len(k2) = l - t /\ \A j \in 1..(l - t) : k2[j] = k[t + j]  BY <1>1, <1>3
<1>6. /\ b2 \in Seq(X) /\ Len(b2) = b + t
      /\ \A j \in 1..b : b2[j] = buf[j]
      /\ \A j \in 1..t : b2[b + j] = a[j]
  BY <1>1, <1>2, <1>4
<1>7. ASSUME TrOnWay(s, r, buf, k, f) PROVE TrOnWay(s, r, b2, k2, f)
  <2>1. /\ \A j \in 1..b : buf[j] = TrPiece(s, 2 * r + j)
        /\ \A j \in 1..l : k[j] = TrPiece(s, 2 * r + b + j)
        /\ \A j \in 1..Len(f) : f[j] = TrPiece(s, 2 * r + b + l + j)
    BY <1>1, <1>7, Zenon DEF TrOnWay
  <2>2. \A j \in 1..Len(b2) : b2[j] = TrPiece(s, 2 * r + j)
    <3> SUFFICES ASSUME NEW j \in 1..Len(b2) PROVE b2[j] = TrPiece(s, 2 * r + j)
      OBVIOUS
    <3>1. CASE j <= b
      <4>1. j \in 1..b  BY <1>6, <3>1
      <4> QED BY <1>6, <2>1, <4>1
    <3>2. CASE j > b
      <4>1. PICK i : i = j - b  OBVIOUS
      <4>2. i \in 1..t /\ i \in 1..l /\ j = b + i /\ 2 * r + b + i = 2 * r + j
        BY <1>3, <1>6, <3>2, <4>1
      <4>3. b2[b + i] = a[i] /\ a[i] = k[i] /\ k[i] = TrPiece(s, 2 * r + b + i)
        BY <1>4, <1>6, <2>1, <4>2
      <4> QED BY <4>2, <4>3
    <3>3. j <= b \/ j > b  BY <1>6
    <3> QED BY <3>1, <3>2, <3>3
  <2>3. \A j \in 1..Len(k2) : k2[j] = TrPiece(s, 2 * r + Len(b2) + j)
    <3> SUFFICES ASSUME NEW j \in 1..Len(k2) PROVE k2[j] = TrPiece(s, 2 * r + Len(b2) + j)
      OBVIOUS
    <3>0. j \in 1..(l - t)  BY <1>5, Zenon
    <3>a. t + j \in 1..l /\ 2 * r + b + (t + j) = 2 * r + (b + t) + j  BY <1>3, <3>0
    <3>1. t + j \in 1..l /\ 2 * r + b + (t + j) = 2 * r + Len(b2) + j  BY <1>6, <3>a, Zenon
    <3>2. k2[j] = k[t + j] /\ k[t + j] = TrPiece(s, 2 * r + b + (t + j))  BY <1>5, <2>1, <3>1
    <3> QED BY <3>1, <3>2
  <2>4. 2 * r + Len(b2) + Len(k2) = 2 * r + b + l
    <3>1. 2 * r + (b + t) + (l - t) = 2 * r + b + l  BY <1>3
    <3> QED BY <1>5, <1>6, <3>1, Zenon
  <2> QED BY <2>1, <2>2, <2>3, <2>4, Zenon DEF TrOnWay
<1> QED BY <1>1, <1>5, <1>6, <1>7, Zenon DEF TrShiftTo

\* A record leaves the buffer.
TrDropFrom(X, r, buf, k, f, b2) ==
    /\ r \in Nat /\ buf \in Seq(X) /\ k \in Seq(X) /\ f \in Seq(X)
    /\ Len(buf) >= 2 /\ b2 = SubSeq(buf, 3, Len(buf))
TrDropTo(X, s, r, buf, k, f, b2) ==
    /\ b2 \in Seq(X) /\ Len(b2) = Len(buf) - 2
    /\ TrOnWay(s, r, buf, k, f) => TrOnWay(s, r + 1, b2, k, f)

\* What is left begins with the next record.
LEMMA TrDrop ==
  ASSUME NEW X, NEW s, NEW r, NEW buf, NEW k, NEW f, NEW b2, TrDropFrom(X, r, buf, k, f, b2)
  PROVE  TrDropTo(X, s, r, buf, k, f, b2)
<1> /\ r \in Nat /\ buf \in Seq(X) /\ k \in Seq(X) /\ f \in Seq(X)
    /\ Len(buf) >= 2 /\ b2 = SubSeq(buf, 3, Len(buf))
  BY Zenon DEF TrDropFrom
<1>0. Len(buf) \in Nat /\ Len(k) \in Nat  OBVIOUS
<1>1. PICK b \in Nat, l \in Nat : b = Len(buf) /\ l = Len(k)  BY <1>0, Zenon
<1>2. b2 \in Seq(X) /\ Len(b2) = b - 2 /\ \A j \in 1..(b - 2) : b2[j] = buf[j + 2]  BY <1>1
<1>3. ASSUME TrOnWay(s, r, buf, k, f) PROVE TrOnWay(s, r + 1, b2, k, f)
  <2>1. /\ \A j \in 1..b : buf[j] = TrPiece(s, 2 * r + j)
        /\ \A j \in 1..l : k[j] = TrPiece(s, 2 * r + b + j)
        /\ \A j \in 1..Len(f) : f[j] = TrPiece(s, 2 * r + b + l + j)
    BY <1>1, <1>3, Zenon DEF TrOnWay
  <2>2. b >= 2  BY <1>1
  <2>3. \A j \in 1..Len(b2) : b2[j] = TrPiece(s, 2 * (r + 1) + j)
    <3> SUFFICES ASSUME NEW j \in 1..Len(b2) PROVE b2[j] = TrPiece(s, 2 * (r + 1) + j)
      OBVIOUS
    <3>1. j + 2 \in 1..b /\ j \in 1..(b - 2) /\ 2 * r + (j + 2) = 2 * (r + 1) + j  BY <1>2, <2>2
    <3>2. b2[j] = buf[j + 2] /\ buf[j + 2] = TrPiece(s, 2 * r + (j + 2))  BY <1>2, <2>1, <3>1
    <3> QED BY <3>1, <3>2
  <2>4. 2 * (r + 1) + Len(b2) = 2 * r + b
    <3>1. PICK c : c = Len(b2)  OBVIOUS
    <3>2. c = b - 2  BY <1>2, <3>1, Zenon
    <3>3. 2 * (r + 1) + c = 2 * r + b  BY <2>2, <3>2
    <3> QED BY <3>1, <3>3, Zenon
  <2> QED BY <1>1, <2>1, <2>3, <2>4, Zenon DEF TrOnWay
<1> QED BY <1>1, <1>2, <1>3, Zenon DEF TrDropTo

\* The fields of a receiver that reading into the buffer leaves alone.
TrAlike(i, j) ==
    /\ j.nonce = i.nonce /\ j.records = i.records /\ j.open = i.open /\ j.got = i.got
    /\ j.failed = i.failed /\ j.timedOut = i.timedOut

\* A receiver i that has taken what it can from the kernel, which has k left.
TrTaken(s, i, k, f, open, n) ==
    /\ TrOnWay(s, i.records, i.buf, k, f)
    /\ open => 2 * i.records + Len(i.buf) + Len(k) + Len(f) = 2 * n
    /\ s.kind = "shitstorm" => Len(i.buf) <= 2
    /\ i.buf # <<>> => i.epoch = TrEp(s, i.records + 1)

\* A blocking receiver ratchets before it reads the header of a record.
LEMMA TrIn1Is ==
  ASSUME NEW st, NEW s, s = trKind, NEW i, i = st.in, i \in TrInType(s), NEW i1, i1 = TrIn1(st)
  PROVE  /\ i1 \in TrInType(s) /\ TrAlike(i, i1) /\ i1.buf = i.buf
         /\ i.buf # <<>> => i1.epoch = i.epoch
         /\ TrHow(st).reads = "blocks" /\ i.buf = <<>> =>
              i1.epoch = IF s.kind = "shitstorm" /\ i.records > 0 /\ i.records % TrRekey = 0
                         THEN i.epoch + 1 ELSE i.epoch
         /\ TrHow(st).reads # "blocks" => i1.epoch = i.epoch
<1>1. PICK Y : Y = Seq(TrAllPieces(s))  OBVIOUS
<1>2. i \in [nonce : Nat, epoch : Nat, records : Nat, open : BOOLEAN, buf : Y,
             got : Nat, failed : BOOLEAN, timedOut : BOOLEAN]
  BY <1>1, Zenon DEF TrInType
<1>3. CASE /\ TrHow(st).reads = "blocks" /\ i.buf = <<>>
           /\ s.kind = "shitstorm" /\ i.records > 0 /\ i.records % TrRekey = 0
  <2>1. i1 = [i EXCEPT !.epoch = i.epoch + 1]  BY <1>3, Zenon DEF TrIn1, TrRekeyRecv
  <2>2. /\ i1 \in [nonce : Nat, epoch : Nat, records : Nat, open : BOOLEAN, buf : Y,
                   got : Nat, failed : BOOLEAN, timedOut : BOOLEAN]
        /\ i1.epoch = i.epoch + 1 /\ i1.buf = i.buf
    BY <1>2, <2>1
  <2>3. TrAlike(i, i1)  BY <1>2, <2>1 DEF TrAlike
  <2>4. i1 \in TrInType(s)  BY <1>1, <2>2, Zenon DEF TrInType
  <2> QED BY <1>3, <2>2, <2>3, <2>4, Zenon
<1>4. CASE ~(/\ TrHow(st).reads = "blocks" /\ i.buf = <<>>
             /\ s.kind = "shitstorm" /\ i.records > 0 /\ i.records % TrRekey = 0)
  <2>1. i1 = i  BY <1>4, Zenon DEF TrIn1, TrRekeyRecv
  <2>2. TrAlike(i, i1)  BY <2>1, Zenon DEF TrAlike
  <2> QED BY <1>4, <2>1, <2>2, Zenon
<1> QED BY <1>3, <1>4, Zenon

\* Reading keeps the pieces in order and puts the receiver in their epoch.
LEMMA TrIn2Is ==
  ASSUME TrInv, NEW st, NEW s, s = trKind, NEW i, i = st.in, NEW k, k = st.kernel,
         TrInOk(i, k, TrBase(s)), NEW i2, i2 = TrIn2(st), NEW k2, k2 = TrLeft(st)
  PROVE  /\ i2 \in TrInType(s) /\ k2 \in Seq(TrAllPieces(s)) /\ TrAlike(i, i2)
         /\ ~i.timedOut => TrTaken(s, i2, k2, trNet.flight, trOut.open, TrSent)
         /\ i2.buf = <<>> => i.buf = <<>> /\ k = <<>> /\ k2 = <<>> /\ ~TrHow(st).pending
<1>1. PICK X, f : X = TrAllPieces(s) /\ f = trNet.flight  OBVIOUS
<1>2. i \in TrInType(s) /\ k \in Seq(X) /\ f \in Seq(X)
  BY <1>1, Zenon DEF TrInOk, TrInv, TrInInv
<1>3. i \in [nonce : Nat, epoch : Nat, records : Nat, open : BOOLEAN, buf : Seq(X),
             got : Nat, failed : BOOLEAN, timedOut : BOOLEAN]
  BY <1>1, <1>2, Zenon DEF TrInType
<1>4. PICK r, buf : r = i.records /\ buf = i.buf  OBVIOUS
<1>5. r \in Nat /\ buf \in Seq(X)  BY <1>3, <1>4
<1>6. PICK reads, t : reads = TrHow(st).reads /\ t = TrTook(st)  OBVIOUS
<1>7. PICK b \in Nat, l \in Nat : b = Len(buf) /\ l = Len(k)
  <2>1. Len(buf) \in Nat /\ Len(k) \in Nat  BY <1>2, <1>5
  <2> QED BY <2>1, Zenon
<1>8. /\ t \in 0..l /\ (b = 0 /\ l > 0 => t > 0) /\ (reads = "blocks" /\ b < 2 => b + t <= 2)
  <2>1. t = TrTake(reads, b, l)  BY <1>4, <1>6, <1>7, Zenon DEF TrTook
  <2> QED BY <2>1, TrTakes
<1>9. PICK i1 : i1 = TrIn1(st)  OBVIOUS
<1>10. /\ i1 \in TrInType(s) /\ TrAlike(i, i1) /\ i1.buf = buf
       /\ (buf # <<>> => i1.epoch = i.epoch)
       /\ (reads = "blocks" /\ buf = <<>> =>
             i1.epoch = IF s.kind = "shitstorm" /\ r > 0 /\ r % TrRekey = 0 THEN i.epoch + 1 ELSE i.epoch)
       /\ (reads # "blocks" => i1.epoch = i.epoch)
  <2>1. /\ i1 \in TrInType(s) /\ TrAlike(i, i1) /\ i1.buf = i.buf
        /\ (i.buf # <<>> => i1.epoch = i.epoch)
        /\ (TrHow(st).reads = "blocks" /\ i.buf = <<>> =>
              i1.epoch = IF s.kind = "shitstorm" /\ i.records > 0 /\ i.records % TrRekey = 0
                         THEN i.epoch + 1 ELSE i.epoch)
        /\ (TrHow(st).reads # "blocks" => i1.epoch = i.epoch)
    BY <1>2, <1>9, TrIn1Is
  <2> QED BY <1>4, <1>6, <2>1, Zenon
<1>11. PICK b2 : b2 = buf \o SubSeq(k, 1, t)  OBVIOUS
<1>12. k2 = SubSeq(k, t + 1, Len(k))  BY <1>6, Zenon DEF TrLeft
<1>13. /\ b2 \in Seq(X) /\ Len(b2) = b + t /\ k2 \in Seq(X) /\ Len(k2) = l - t
       /\ TrOnWay(s, r, buf, k, f) => TrOnWay(s, r, b2, k2, f)
  <2>1. t \in 0..Len(k)  BY <1>7, <1>8, Zenon
  <2>2. /\ b2 \in Seq(X) /\ Len(b2) = Len(buf) + t /\ k2 \in Seq(X) /\ Len(k2) = Len(k) - t
        /\ TrOnWay(s, r, buf, k, f) => TrOnWay(s, r, b2, k2, f)
    <3>1. k \in Seq(X) /\ f \in Seq(X) /\ r \in Nat /\ buf \in Seq(X)  BY <1>2, <1>5
    <3>2. TrShiftFrom(X, r, buf, k, f, t, b2, k2)
      BY <3>1, <1>11, <1>12, <2>1, Zenon DEF TrShiftFrom
    <3>3. TrShiftTo(X, s, r, buf, k, f, t, b2, k2)  BY <3>2, TrShift, Zenon
    <3> QED BY <3>3, Zenon DEF TrShiftTo
  <2> QED BY <1>7, <2>2, Zenon
<1>14. i2 = [i1 EXCEPT !.buf = b2]  BY <1>6, <1>9, <1>10, <1>11 DEF TrIn2
<1>15. i1 \in [nonce : Nat, epoch : Nat, records : Nat, open : BOOLEAN, buf : Seq(X),
               got : Nat, failed : BOOLEAN, timedOut : BOOLEAN]
  BY <1>1, <1>10, Zenon DEF TrInType
<1>16. PICK Y : Y = Seq(X)  OBVIOUS
<1>17. /\ i2 \in [nonce : Nat, epoch : Nat, records : Nat, open : BOOLEAN, buf : Y,
                  got : Nat, failed : BOOLEAN, timedOut : BOOLEAN]
       /\ i2.buf = b2 /\ i2.epoch = i1.epoch
  <2>1. b2 \in Y  BY <1>13, <1>16
  <2>2. i1 \in [nonce : Nat, epoch : Nat, records : Nat, open : BOOLEAN, buf : Y,
               got : Nat, failed : BOOLEAN, timedOut : BOOLEAN]
    BY <1>15, <1>16, Zenon
  <2> QED BY <1>14, <2>1, <2>2
<1>18. TrAlike(i, i2)
  <2>1. /\ i2.nonce = i1.nonce /\ i2.records = i1.records /\ i2.open = i1.open /\ i2.got = i1.got
        /\ i2.failed = i1.failed /\ i2.timedOut = i1.timedOut
    BY <1>14, <1>15
  <2> QED BY <1>10, <2>1, Zenon DEF TrAlike
<1>19. i2 \in TrInType(s)  BY <1>1, <1>16, <1>17, Zenon DEF TrInType
<1>20. b2 = <<>> => b = 0 /\ l = 0 /\ t = 0
  <2> SUFFICES ASSUME b2 = <<>> PROVE b = 0 /\ l = 0 /\ t = 0
    OBVIOUS
  <2>1. b + t = 0
    <3>1. Len(b2) = 0  OBVIOUS
    <3> QED BY <1>13, <3>1
  <2> QED BY <1>8, <2>1
<1>21. s.kind \in TrKinds \cup {"raw"}  BY DEF TrInv, TrType
<1>22. i2.buf = <<>> => i.buf = <<>> /\ k = <<>> /\ k2 = <<>> /\ ~TrHow(st).pending
  <2> SUFFICES ASSUME b2 = <<>> PROVE buf = <<>> /\ k = <<>> /\ k2 = <<>> /\ ~TrHow(st).pending
    BY <1>4, <1>17
  <2>1. buf = <<>> /\ k = <<>>  BY <1>2, <1>5, <1>7, <1>20
  <2>2. k2 = <<>>  BY <1>13, <1>20
  <2>3. ~TrReceiver(s.kind, b).pending  BY <1>20, <1>21, TrReceiverIs
  <2> QED BY <1>4, <1>7, <2>1, <2>2, <2>3, Zenon DEF TrHow
<1>23. ASSUME ~i.timedOut PROVE TrTaken(s, i2, k2, f, trOut.open, TrSent)
  <2>1. TrTrack(s, r, buf, i.epoch, k, f, trNet.eof, trOut.open, TrSent)
    BY <1>1, <1>4, <1>23, Zenon DEF TrInOk
  <2>2. TrOnWay(s, r, b2, k2, f)  BY <1>13, <2>1, Zenon DEF TrTrack
  <2>3. trOut.open => 2 * r + Len(b2) + Len(k2) + Len(f) = 2 * TrSent
    <3> SUFFICES ASSUME trOut.open PROVE 2 * r + Len(b2) + Len(k2) + Len(f) = 2 * TrSent
      OBVIOUS
    <3>1. 2 * r + b + l + Len(f) = 2 * TrSent  BY <1>7, <2>1, Zenon DEF TrTrack
    <3>2. 2 * r + (b + t) + (l - t) = 2 * r + b + l  BY <1>5, <1>8
    <3> QED BY <1>13, <3>1, <3>2, Zenon
  <2>4. s.kind = "shitstorm" => reads = "blocks"
    <3>1. s.kind = "shitstorm" => TrReceiver(s.kind, b).reads = "blocks"  BY <1>21, TrReceiverIs
    <3> QED BY <1>4, <1>6, <1>7, <3>1, Zenon DEF TrHow
  <2>5. s.kind = "shitstorm" => Len(b2) <= 2
    <3> SUFFICES ASSUME s.kind = "shitstorm" PROVE Len(b2) <= 2
      OBVIOUS
    <3>1. b < 2  BY <1>7, <2>1, Zenon DEF TrTrack
    <3>2. b + t <= 2  BY <1>8, <2>4, <3>1
    <3> QED BY <1>13, <3>2, Zenon
  <2>6. b2 # <<>> => i2.epoch = TrEp(s, r + 1)
    <3> SUFFICES ASSUME b2 # <<>> PROVE i1.epoch = TrEp(s, r + 1)
      BY <1>17
    <3>1. CASE buf # <<>>
      BY <1>10, <2>1, <3>1, Zenon DEF TrTrack
    <3>2. CASE buf = <<>>
      <4>1. k # <<>>
        <5>1. b + t # 0  BY <1>13
        <5>2. b = 0  BY <1>7, <3>2
        <5>3. l # 0  BY <1>8, <5>1, <5>2
        <5> QED BY <1>7, <5>3
      <4>2. i.epoch = TrEpAfter(s, r)  BY <2>1, <3>2, <4>1, Zenon DEF TrTrack
      <4>3. TrEp(s, r + 1) = IF s.kind = "shitstorm" /\ r > 0 /\ r % TrRekey = 0 THEN i.epoch + 1 ELSE i.epoch
        BY <1>5, <4>2, TrRatchet
      <4>4. CASE reads = "blocks"
        BY <1>10, <3>2, <4>3, <4>4, Zenon
      <4>5. CASE reads # "blocks"
        BY <1>10, <2>4, <4>3, <4>5, Zenon
      <4> QED BY <4>4, <4>5
    <3> QED BY <3>1, <3>2
  <2>7. i2.records = r  BY <1>4, <1>18, Zenon DEF TrAlike
  <2> QED BY <1>17, <2>2, <2>3, <2>5, <2>6, <2>7, Zenon DEF TrTaken
<1> QED BY <1>1, <1>13, <1>18, <1>19, <1>22, <1>23, Zenon

\* A receiver i in the middle of a receive call, with k left in the kernel.
TrMid(i, k) ==
    /\ i \in TrInType(trKind)
    /\ k \in Seq(TrAllPieces(trKind))
    /\ i.nonce = TrBase(trKind) + i.records
    /\ i.got = i.records
    /\ i.failed => i.timedOut
    /\ ~i.timedOut => TrTaken(trKind, i, k, trNet.flight, trOut.open, TrSent)

\* So after reading, the receiver is in the middle of a call.
LEMMA TrIn2Mid ==
  ASSUME TrInv, NEW st, TrInOk(st.in, st.kernel, TrBase(trKind))
  PROVE  /\ TrMid(TrIn2(st), TrLeft(st))
         /\ TrIn2(st).buf = <<>> => /\ st.in.buf = <<>> /\ st.kernel = <<>> /\ TrLeft(st) = <<>>
                                    /\ ~TrHow(st).pending
<1>1. PICK s, i, k, i2, k2 : s = trKind /\ i = st.in /\ k = st.kernel /\ i2 = TrIn2(st) /\ k2 = TrLeft(st)
  OBVIOUS
<1>2. TrInOk(i, k, TrBase(s))  BY <1>1, Zenon
<1>3. /\ i2 \in TrInType(s) /\ k2 \in Seq(TrAllPieces(s)) /\ TrAlike(i, i2)
      /\ ~i.timedOut => TrTaken(s, i2, k2, trNet.flight, trOut.open, TrSent)
      /\ i2.buf = <<>> => i.buf = <<>> /\ k = <<>> /\ k2 = <<>> /\ ~TrHow(st).pending
  BY <1>1, <1>2, TrIn2Is
<1>4. /\ i.nonce = TrBase(s) + i.records /\ i.got = i.records /\ (i.failed => i.timedOut)
  BY <1>2, Zenon DEF TrInOk
<1>5. /\ i2.nonce = i.nonce /\ i2.records = i.records /\ i2.got = i.got
      /\ i2.failed = i.failed /\ i2.timedOut = i.timedOut
  BY <1>3, Zenon DEF TrAlike
<1>6. TrMid(i2, k2)  BY <1>1, <1>3, <1>4, <1>5, Zenon DEF TrMid
<1> QED BY <1>1, <1>3, <1>6, Zenon

\* A receiver as a record of fields with their types.
LEMMA TrInFields ==
  ASSUME NEW s, NEW i \in TrInType(s)
  PROVE  /\ i.nonce \in Nat /\ i.epoch \in Nat /\ i.records \in Nat /\ i.open \in BOOLEAN
         /\ i.buf \in Seq(TrAllPieces(s)) /\ i.got \in Nat /\ i.failed \in BOOLEAN
         /\ i.timedOut \in BOOLEAN
<1>1. PICK Y : Y = Seq(TrAllPieces(s))  OBVIOUS
<1>2. i \in [nonce : Nat, epoch : Nat, records : Nat, open : BOOLEAN, buf : Y,
             got : Nat, failed : BOOLEAN, timedOut : BOOLEAN]
  BY <1>1, Zenon DEF TrInType
<1>3. /\ i.nonce \in Nat /\ i.epoch \in Nat /\ i.records \in Nat /\ i.open \in BOOLEAN
      /\ i.buf \in Y /\ i.got \in Nat /\ i.failed \in BOOLEAN /\ i.timedOut \in BOOLEAN
  BY <1>2
<1> QED BY <1>1, <1>3, Zenon

\* The call ends with part of a record.
LEMMA TrShortKeeps ==
  ASSUME TrInv, NEW i, NEW k, TrMid(i, k), Len(i.buf) < 2, i.buf # <<>>
  PROVE  TrInOk(i, k, TrBase(trKind))
<1>1. ~i.timedOut => TrTaken(trKind, i, k, trNet.flight, trOut.open, TrSent)  BY Zenon DEF TrMid
<1>2. ~i.timedOut => TrTrack(trKind, i.records, i.buf, i.epoch, k, trNet.flight, trNet.eof,
                             trOut.open, TrSent)
  BY <1>1, Zenon DEF TrTaken, TrTrack
<1> QED BY <1>2, Zenon DEF TrMid, TrInOk

\* At the end of file the sender goes on no more.
LEMMA TrShutKeeps ==
  ASSUME TrInv, NEW i, NEW k, TrMid(i, k), k = <<>>, trNet.flight = <<>>, trNet.eof,
         NEW j, NEW buf, NEW open \in BOOLEAN, buf = <<>> \/ (buf = i.buf /\ Len(buf) < 2),
         j = [i EXCEPT !.buf = buf, !.open = open]
  PROVE  TrInOk(j, k, TrBase(trKind))
<1>1. PICK s, f : s = trKind /\ f = trNet.flight  OBVIOUS
<1>2. i \in TrInType(s)  BY <1>1, Zenon DEF TrMid
<1>3. /\ i.nonce \in Nat /\ i.epoch \in Nat /\ i.records \in Nat /\ i.open \in BOOLEAN
      /\ i.buf \in Seq(TrAllPieces(s)) /\ i.got \in Nat /\ i.failed \in BOOLEAN
      /\ i.timedOut \in BOOLEAN
  BY <1>2, TrInFields, Zenon
<1>4. buf \in Seq(TrAllPieces(s)) /\ Len(buf) < 2
  <2>1. CASE buf = <<>>
    <3>1. <<>> \in Seq(TrAllPieces(s)) /\ Len(<<>>) < 2  OBVIOUS
    <3> QED BY <2>1, <3>1, Zenon
  <2>2. CASE buf = i.buf /\ Len(buf) < 2
    BY <1>3, <2>2, Zenon
  <2> QED BY <2>1, <2>2, Zenon
<1>5. PICK Y : Y = Seq(TrAllPieces(s))  OBVIOUS
<1>6. /\ j \in TrInType(s) /\ j.buf = buf /\ j.nonce = i.nonce
      /\ j.records = i.records /\ j.got = i.got /\ j.failed = i.failed /\ j.epoch = i.epoch
      /\ j.timedOut = i.timedOut
  <2>1. buf \in Y  BY <1>4, <1>5, Zenon
  <2>2. i \in [nonce : Nat, epoch : Nat, records : Nat, open : BOOLEAN, buf : Y,
               got : Nat, failed : BOOLEAN, timedOut : BOOLEAN]
    BY <1>2, <1>5, Zenon DEF TrInType
  <2>3. j \in [nonce : Nat, epoch : Nat, records : Nat, open : BOOLEAN, buf : Y,
                got : Nat, failed : BOOLEAN, timedOut : BOOLEAN]
    BY <2>1, <2>2
  <2>4. /\ j.buf = buf /\ j.nonce = i.nonce
        /\ j.records = i.records /\ j.got = i.got /\ j.failed = i.failed /\ j.epoch = i.epoch
        /\ j.timedOut = i.timedOut
    BY <2>2
  <2> QED BY <1>5, <2>3, <2>4, Zenon DEF TrInType
<1>7. ASSUME ~j.timedOut
      PROVE  TrTrack(s, i.records, buf, i.epoch, k, f, trNet.eof, trOut.open, TrSent)
  <2>1. TrTaken(s, i, k, f, trOut.open, TrSent)  BY <1>1, <1>6, <1>7, Zenon DEF TrMid
  <2>2. ~trOut.open  BY Zenon DEF TrInv, TrOutInv
  <2>3. k = <<>> /\ f = <<>>  BY <1>1
  <2>4. CASE buf = i.buf
    BY <1>4, <2>1, <2>2, <2>3, <2>4, Zenon DEF TrTaken, TrTrack
  <2>5. CASE buf = <<>>
    <3>1. TrOnWay(s, i.records, buf, k, f)
      <4>1. 1..Len(buf) = {} /\ 1..Len(k) = {} /\ 1..Len(f) = {}  BY <2>3, <2>5
      <4> QED BY <4>1, Zenon DEF TrOnWay
    <3> QED BY <1>4, <2>2, <2>3, <2>5, <3>1, Zenon DEF TrTrack
  <2> QED BY <2>4, <2>5
<1>8. /\ k \in Seq(TrAllPieces(s)) /\ i.nonce = TrBase(s) + i.records /\ i.got = i.records
      /\ (i.failed => i.timedOut)
  BY <1>1, Zenon DEF TrMid
<1> QED BY <1>1, <1>6, <1>7, <1>8, Zenon DEF TrInOk

\* The number of sealed messages is a number.
LEMMA TrBaseNat == TrBase(trKind) \in Nat
  BY DEF TrBase, TrSealed

\* A record under the receiver's nonce is that of its next cell.
LEMMA TrCellOf ==
  ASSUME NEW s, NEW p \in TrAllPieces(s), NEW b \in Nat, b = TrBase(s), NEW r \in Nat,
         p.rec.nonce = b + r
  PROVE  p.rec.cell = r + 1
<1>1. PICK j \in 1..(2 * TrMaxCells) : p = TrPiece(s, j)  BY Zenon DEF TrAllPieces
<1>2. PICK c : c = (j + 1) \div 2  OBVIOUS
<1>3. c \in Int  BY <1>1, <1>2, TrAssumption
<1>4. p.rec = [cell |-> c, nonce |-> b + c - 1, epoch |-> TrEp(s, c)]
  <2>1. p.rec = TrRec(s, (j + 1) \div 2)  BY <1>1 DEF TrPiece
  <2> QED BY <1>2, <2>1, Zenon DEF TrRec
<1>5. p.rec.cell = c /\ p.rec.nonce = b + c - 1  BY <1>4
<1>6. b + c - 1 = b + r  BY <1>5, Zenon
<1>7. c = r + 1  BY <1>3, <1>6
<1> QED BY <1>5, <1>7, Zenon

\* A record opens: it is the next cell.
LEMMA TrOpenKeeps ==
  ASSUME TrInv, NEW i, NEW k, TrMid(i, k), ~(Len(i.buf) < 2), TrOpens(trKeys, i), NEW j,
         j = [i EXCEPT !.buf = SubSeq(i.buf, 3, Len(i.buf)), !.nonce = i.nonce + 1,
                       !.records = i.records + 1, !.got = i.buf[1].rec.cell]
  PROVE  TrInOk(j, k, TrBase(trKind))
<1>1. PICK s, f, X, Y : s = trKind /\ f = trNet.flight /\ X = TrAllPieces(s) /\ Y = Seq(X)
  OBVIOUS
<1>2. i \in TrInType(s) /\ k \in Seq(X) /\ f \in Seq(X)
  BY <1>1, Zenon DEF TrMid, TrInv, TrInInv
<1>3. /\ i.nonce \in Nat /\ i.epoch \in Nat /\ i.records \in Nat /\ i.open \in BOOLEAN
      /\ i.buf \in Seq(X) /\ i.got \in Nat /\ i.failed \in BOOLEAN
      /\ i.timedOut \in BOOLEAN
  BY <1>1, <1>2, TrInFields, Zenon
<1>4. PICK buf, r, n, b2, g : buf = i.buf /\ r = i.records /\ n = i.nonce
                          /\ b2 = SubSeq(buf, 3, Len(buf)) /\ g = i.buf[1].rec.cell
  OBVIOUS
<1>5. buf \in Seq(X) /\ r \in Nat /\ n \in Nat /\ Len(buf) \in Nat /\ ~(Len(buf) < 2)
  <2>1. buf \in Seq(X) /\ r \in Nat /\ n \in Nat /\ ~(Len(buf) < 2)  BY <1>3, <1>4, Zenon
  <2> QED BY <2>1
<1>6. Len(buf) >= 2  BY <1>5
<1>7. TrDropTo(X, s, r, buf, k, f, b2)
  <2>1. TrDropFrom(X, r, buf, k, f, b2)  BY <1>2, <1>4, <1>5, <1>6, Zenon DEF TrDropFrom
  <2> QED BY <2>1, TrDrop, Zenon
<1>8. b2 \in Seq(X) /\ Len(b2) = Len(buf) - 2  BY <1>7, Zenon DEF TrDropTo
<1>9. /\ i.nonce = TrBase(s) + i.records /\ i.got = i.records /\ (i.failed => i.timedOut)
  BY <1>1, Zenon DEF TrMid
<1>10. g = r + 1
  <2>1. PICK p, b : p = buf[1] /\ b = TrBase(s)  OBVIOUS
  <2>2. p \in X  BY <1>5, <1>6, <2>1
  <2>3. p.rec.nonce = n  BY <1>4, <2>1, Zenon DEF TrOpens
  <2>4. n = b + r  BY <1>4, <1>9, <2>1, Zenon
  <2>5. b \in Nat  BY <1>1, <2>1, TrBaseNat, Zenon
  <2>6. p.rec.cell = r + 1  BY <1>1, <1>5, <2>1, <2>2, <2>3, <2>4, <2>5, TrCellOf
  <2> QED BY <1>4, <2>1, <2>6, Zenon
<1>11. /\ j \in TrInType(s) /\ j.buf = b2 /\ j.nonce = n + 1 /\ j.records = r + 1 /\ j.got = g
       /\ j.failed = i.failed /\ j.epoch = i.epoch /\ j.timedOut = i.timedOut
  <2>1. PICK n1, r1 : n1 = n + 1 /\ r1 = r + 1  OBVIOUS
  <2>2. b2 \in Y /\ n1 \in Nat /\ r1 \in Nat /\ g \in Nat
    <3>1. n1 \in Nat /\ r1 \in Nat /\ g \in Nat  BY <1>5, <1>10, <2>1
    <3> QED BY <1>1, <1>8, <3>1, Zenon
  <2>3. i \in [nonce : Nat, epoch : Nat, records : Nat, open : BOOLEAN, buf : Y,
               got : Nat, failed : BOOLEAN, timedOut : BOOLEAN]
    BY <1>1, <1>2, Zenon DEF TrInType
  <2>4. j = [i EXCEPT !.buf = b2, !.nonce = n1, !.records = r1, !.got = g]  BY <1>4, <2>1, Zenon
  <2>5. j \in [nonce : Nat, epoch : Nat, records : Nat, open : BOOLEAN, buf : Y,
                got : Nat, failed : BOOLEAN, timedOut : BOOLEAN]
    BY <2>2, <2>3, <2>4
  <2>6. /\ j.buf = b2 /\ j.nonce = n1 /\ j.records = r1 /\ j.got = g
        /\ j.failed = i.failed /\ j.epoch = i.epoch /\ j.timedOut = i.timedOut
    BY <2>3, <2>4
  <2> QED BY <1>1, <2>1, <2>5, <2>6, Zenon DEF TrInType
<1>12. j.nonce = TrBase(s) + j.records
  <2>1. PICK b : b = TrBase(s)  OBVIOUS
  <2>2. b \in Nat /\ n = b + r  BY <1>1, <1>4, <1>9, <2>1, TrBaseNat, Zenon
  <2>3. n + 1 = b + (r + 1)  BY <1>5, <2>2
  <2> QED BY <1>11, <2>1, <2>3, Zenon
<1>13. ASSUME ~j.timedOut
       PROVE  TrTrack(s, r + 1, b2, i.epoch, k, f, trNet.eof, trOut.open, TrSent)
  <2>1. TrTaken(s, i, k, f, trOut.open, TrSent)  BY <1>1, <1>11, <1>13, Zenon DEF TrMid
  <2>2. TrOnWay(s, r + 1, b2, k, f)  BY <1>4, <1>7, <2>1, Zenon DEF TrDropTo, TrTaken
  <2>3. trOut.open => 2 * (r + 1) + Len(b2) + Len(k) + Len(f) = 2 * TrSent
    <3>1. trOut.open => 2 * r + Len(buf) + Len(k) + Len(f) = 2 * TrSent
      BY <1>4, <2>1, Zenon DEF TrTaken
    <3>2. 2 * (r + 1) + (Len(buf) - 2) = 2 * r + Len(buf)  BY <1>5
    <3> QED BY <1>8, <3>1, <3>2, Zenon
  <2>4. i.epoch = TrEp(s, r + 1)
    <3>1. buf # <<>>  BY <1>6
    <3> QED BY <1>4, <2>1, <3>1, Zenon DEF TrTaken
  <2>5. TrEpAfter(s, r + 1) = TrEp(s, r + 1)  BY <1>5, TrRatchet
  <2>6. CASE s.kind = "shitstorm"
    <3>1. Len(buf) <= 2  BY <1>4, <2>1, <2>6, Zenon DEF TrTaken
    <3>2. Len(b2) = 0  BY <1>5, <1>6, <1>8, <3>1
    <3>3. b2 = <<>> /\ Len(b2) < 2
      <4>1. Len(b2) < 2  BY <3>2
      <4>2. b2 \in Seq(X)  BY <1>8, Zenon
      <4>3. b2 = <<>>  BY <3>2, <4>2
      <4> QED BY <4>1, <4>3, Zenon
    <3> QED BY <2>2, <2>3, <2>4, <2>5, <3>3, Zenon DEF TrTrack
  <2>7. CASE s.kind # "shitstorm"
    <3>1. TrEp(s, (r + 1) + 1) = TrEp(s, r + 1)  BY <2>7, Zenon DEF TrEp
    <3> QED BY <2>2, <2>3, <2>4, <2>5, <2>7, <3>1, Zenon DEF TrTrack
  <2> QED BY <2>6, <2>7
<1>14. j.got = j.records /\ (j.failed => j.timedOut)  BY <1>9, <1>10, <1>11, Zenon
<1> QED BY <1>1, <1>2, <1>11, <1>12, <1>13, <1>14, Zenon DEF TrInOk

\* A record that does not open: only behind pieces that a call gave up.
LEMMA TrBadKeeps ==
  ASSUME TrInv, \A x \in TrSides : trHs[x].ended = "done",
         NEW i, NEW k, TrMid(i, k), ~(Len(i.buf) < 2), ~TrOpens(trKeys, i), NEW j, NEW buf,
         buf = <<>> \/ buf = i.buf, j = [i EXCEPT !.failed = TRUE, !.buf = buf]
  PROVE  TrInOk(j, k, TrBase(trKind))
<1>1. PICK s, f, X, Y : s = trKind /\ f = trNet.flight /\ X = TrAllPieces(s) /\ Y = Seq(X)
  OBVIOUS
<1>2. i \in TrInType(s) /\ k \in Seq(X) /\ f \in Seq(X)
  BY <1>1, Zenon DEF TrMid, TrInv, TrInInv
<1>3. /\ i.nonce \in Nat /\ i.epoch \in Nat /\ i.records \in Nat /\ i.open \in BOOLEAN
      /\ i.buf \in Seq(X) /\ i.got \in Nat /\ i.failed \in BOOLEAN
      /\ i.timedOut \in BOOLEAN
  BY <1>1, <1>2, TrInFields, Zenon
<1>4. /\ i.nonce = TrBase(s) + i.records /\ i.got = i.records /\ (i.failed => i.timedOut)
  BY <1>1, Zenon DEF TrMid
<1>5. i.timedOut
  <2> SUFFICES ASSUME ~i.timedOut PROVE FALSE
    OBVIOUS
  <2>1. PICK c, r, h, p : c = i.buf /\ r = i.records /\ h = c[1] /\ p = c[2]  OBVIOUS
  <2>2. TrTaken(s, i, k, f, trOut.open, TrSent)  BY <1>1, Zenon DEF TrMid
  <2>3. c \in Seq(X) /\ r \in Nat /\ ~(Len(c) < 2)  BY <1>3, <2>1, Zenon
  <2>4. 1 \in 1..Len(c) /\ 2 \in 1..Len(c) /\ c # <<>>  BY <2>3
  <2>5. h = TrPiece(s, 2 * r + 1) /\ p = TrPiece(s, 2 * r + 2) /\ i.epoch = TrEp(s, r + 1)
    BY <2>1, <2>2, <2>4, Zenon DEF TrTaken, TrOnWay
  <2>6. h = [part |-> 1, rec |-> TrRec(s, r + 1)] /\ p = [part |-> 2, rec |-> TrRec(s, r + 1)]
    BY <2>3, <2>5, TrPiecesOf
  <2>7. PICK q : q = TrRec(s, r + 1)  OBVIOUS
  <2>8. /\ h.part = 1 /\ p.part = 2 /\ h.rec = q /\ p.rec = q  BY <2>6, <2>7
  <2>9. q.nonce = TrBase(s) + (r + 1) - 1 /\ q.epoch = TrEp(s, r + 1)  BY <2>7 DEF TrRec
  <2>10. TrBase(s) + (r + 1) - 1 = TrBase(s) + r
    <3>1. PICK b : b = TrBase(s)  OBVIOUS
    <3>2. b \in Nat  BY <1>1, <3>1, TrBaseNat, Zenon
    <3>3. b + (r + 1) - 1 = b + r  BY <2>3, <3>2
    <3> QED BY <3>1, <3>3, Zenon
  <2>11. h.rec.nonce = i.nonce /\ h.rec.epoch = i.epoch
    BY <1>4, <2>1, <2>5, <2>8, <2>9, <2>10, Zenon
  <2>12. trKind.dir \in TrSides  BY DEF TrInv, TrType
  <2>13. trKeys[trKind.dir].send = trKeys[TrPeer(trKind.dir)].recv  BY <2>12, TrDoneFits
  <2> QED BY <2>1, <2>8, <2>11, <2>13, Zenon DEF TrOpens
<1>6. buf \in Y
  <2>1. CASE buf = <<>>
    <3>1. <<>> \in Seq(X)  OBVIOUS
    <3> QED BY <1>1, <2>1, <3>1, Zenon
  <2>2. CASE buf = i.buf
    BY <1>1, <1>3, <2>2, Zenon
  <2> QED BY <2>1, <2>2, Zenon
<1>7. /\ j \in TrInType(s) /\ j.nonce = i.nonce /\ j.records = i.records /\ j.got = i.got
      /\ j.timedOut = i.timedOut
  <2>3. i \in [nonce : Nat, epoch : Nat, records : Nat, open : BOOLEAN, buf : Y,
               got : Nat, failed : BOOLEAN, timedOut : BOOLEAN]
    BY <1>1, <1>2, Zenon DEF TrInType
  <2>5. j \in [nonce : Nat, epoch : Nat, records : Nat, open : BOOLEAN, buf : Y,
                got : Nat, failed : BOOLEAN, timedOut : BOOLEAN]
    BY <1>6, <2>3
  <2>6. /\ j.nonce = i.nonce /\ j.records = i.records /\ j.got = i.got /\ j.timedOut = i.timedOut
    BY <2>3
  <2> QED BY <1>1, <2>5, <2>6, Zenon DEF TrInType
<1> QED BY <1>1, <1>2, <1>4, <1>5, <1>7, Zenon DEF TrInOk

\* A receive call, whatever becomes of it.
LEMMA TrCellKeeps ==
  ASSUME TrInv, \A x \in TrSides : trHs[x].ended = "done",
         NEW st, st = [in |-> st.in, kernel |-> st.kernel, ret |-> st.ret],
         TrInOk(st.in, st.kernel, TrBase(trKind)), NEW c, c = TrRecvCell(st)
  PROVE  /\ c = [in |-> c.in, kernel |-> c.kernel, ret |-> c.ret]
         /\ TrInOk(c.in, c.kernel, TrBase(trKind))
<1>1. PICK i, k, w : i = TrIn2(st) /\ k = TrLeft(st)
                     /\ w = (IF TrHow(st).reads = "blocks" THEN "wait" ELSE "0")
  OBVIOUS
<1>2. /\ TrMid(i, k)
      /\ i.buf = <<>> => /\ st.in.buf = <<>> /\ st.kernel = <<>> /\ TrLeft(st) = <<>>
                         /\ ~TrHow(st).pending
  BY <1>1, TrIn2Mid, Zenon
<1>3. CASE ~TrHow(st).pending /\ st.kernel = <<>> /\ ~TrShut(st)
  <2>1. PICK v : v = (IF st.in.buf # <<>> /\ TrHow(st).reads = "blocks" THEN "wait" ELSE "0")
    OBVIOUS
  <2>2. c = [st EXCEPT !.ret = v]  BY <1>3, <2>1, TrCellIs, Zenon
  <2>3. c = [in |-> st.in, kernel |-> st.kernel, ret |-> v]  BY <2>2
  <2>4. c.in = st.in /\ c.kernel = st.kernel /\ c = [in |-> c.in, kernel |-> c.kernel, ret |-> c.ret]
    BY <2>3
  <2> QED BY <2>4, Zenon
<1>4. CASE ~(~TrHow(st).pending /\ st.kernel = <<>> /\ ~TrShut(st)) /\ Len(i.buf) < 2
  <2>1. CASE TrShut(st) /\ TrHow(st).reads = "blocks"
    <3>1. PICK j : j = [i EXCEPT !.buf = <<>>]  OBVIOUS
    <3>2. c = [in |-> j, kernel |-> k, ret |-> "0"]  BY <1>1, <1>4, <2>1, <3>1, TrCellIs, Zenon
    <3>3. c.in = j /\ c.kernel = k /\ c = [in |-> c.in, kernel |-> c.kernel, ret |-> c.ret]
      BY <3>2
    <3>4. i \in TrInType(trKind)  BY <1>2, Zenon DEF TrMid
    <3>5. PICK e : e = i.open  OBVIOUS
    <3>6. j = [i EXCEPT !.buf = <<>>, !.open = e] /\ e \in BOOLEAN
      <4>1. PICK Y : Y = Seq(TrAllPieces(trKind))  OBVIOUS
      <4>2. i \in [nonce : Nat, epoch : Nat, records : Nat, open : BOOLEAN, buf : Y,
                   got : Nat, failed : BOOLEAN, timedOut : BOOLEAN]
        BY <3>4, <4>1, Zenon DEF TrInType
      <4> QED BY <3>1, <3>5, <4>2
    <3>7. k = <<>> /\ trNet.flight = <<>> /\ trNet.eof  BY <1>1, <2>1, Zenon DEF TrShut
    <3>8. TrInOk(j, k, TrBase(trKind))
      <4>1. PICK b : b = <<>>  OBVIOUS
      <4>2. j = [i EXCEPT !.buf = b, !.open = e] /\ (b = <<>> \/ (b = i.buf /\ Len(b) < 2))
        BY <3>6, <4>1, Zenon
      <4> QED BY <1>2, <3>6, <3>7, <4>2, TrShutKeeps, Zenon
    <3> QED BY <3>3, <3>8, Zenon
  <2>2. CASE TrShut(st) /\ TrHow(st).reads # "blocks"
    <3>1. PICK j : j = [i EXCEPT !.open = FALSE]  OBVIOUS
    <3>2. c = [in |-> j, kernel |-> k, ret |-> "-1"]  BY <1>1, <1>4, <2>2, <3>1, TrCellIs, Zenon
    <3>3. c.in = j /\ c.kernel = k /\ c = [in |-> c.in, kernel |-> c.kernel, ret |-> c.ret]
      BY <3>2
    <3>4. i \in TrInType(trKind)  BY <1>2, Zenon DEF TrMid
    <3>5. PICK b : b = i.buf  OBVIOUS
    <3>6. j = [i EXCEPT !.buf = b, !.open = FALSE]
      <4>1. PICK Y : Y = Seq(TrAllPieces(trKind))  OBVIOUS
      <4>2. i \in [nonce : Nat, epoch : Nat, records : Nat, open : BOOLEAN, buf : Y,
                   got : Nat, failed : BOOLEAN, timedOut : BOOLEAN]
        BY <3>4, <4>1, Zenon DEF TrInType
      <4> QED BY <3>1, <3>5, <4>2
    <3>7. k = <<>> /\ trNet.flight = <<>> /\ trNet.eof  BY <1>1, <2>2, Zenon DEF TrShut
    <3>8. TrInOk(j, k, TrBase(trKind))
      <4>1. PICK e \in BOOLEAN : e = FALSE  OBVIOUS
      <4>2. j = [i EXCEPT !.buf = b, !.open = e] /\ (b = <<>> \/ (b = i.buf /\ Len(b) < 2))
        BY <1>4, <3>5, <3>6, <4>1, Zenon
      <4> QED BY <1>2, <3>7, <4>2, TrShutKeeps, Zenon
    <3> QED BY <3>3, <3>8, Zenon
  <2>3. CASE ~TrShut(st)
    <3>1. c = [in |-> i, kernel |-> k, ret |-> w]  BY <1>1, <1>4, <2>3, TrCellIs, Zenon
    <3>2. c.in = i /\ c.kernel = k /\ c = [in |-> c.in, kernel |-> c.kernel, ret |-> c.ret]
      BY <3>1
    <3>3. i.buf # <<>>  BY <1>2, <1>4, <2>3, Zenon
    <3>4. TrInOk(i, k, TrBase(trKind))  BY <1>2, <1>4, <3>3, TrShortKeeps, Zenon
    <3> QED BY <3>2, <3>4, Zenon
  <2> QED BY <2>1, <2>2, <2>3, Zenon
<1>5. CASE ~(~TrHow(st).pending /\ st.kernel = <<>> /\ ~TrShut(st)) /\ ~(Len(i.buf) < 2) /\ TrOpens(trKeys, i)
  <2>1. PICK j : j = [i EXCEPT !.buf = SubSeq(i.buf, 3, Len(i.buf)), !.nonce = i.nonce + 1,
                               !.records = i.records + 1, !.got = i.buf[1].rec.cell]
    OBVIOUS
  <2>2. c = [in |-> j, kernel |-> k, ret |-> "1"]  BY <1>1, <1>5, <2>1, TrCellIs, Zenon
  <2>3. c.in = j /\ c.kernel = k /\ c = [in |-> c.in, kernel |-> c.kernel, ret |-> c.ret]
    BY <2>2
  <2>4. TrInOk(j, k, TrBase(trKind))  BY <1>2, <1>5, <2>1, TrOpenKeeps, Zenon
  <2> QED BY <2>3, <2>4, Zenon
<1>6. CASE ~(~TrHow(st).pending /\ st.kernel = <<>> /\ ~TrShut(st)) /\ ~(Len(i.buf) < 2) /\ ~TrOpens(trKeys, i)
  <2>1. PICK j, b : b = (IF TrHow(st).reads = "blocks" THEN <<>> ELSE i.buf) /\ j = [i EXCEPT !.failed = TRUE, !.buf = b]
    OBVIOUS
  <2>2. c = [in |-> j, kernel |-> k, ret |-> "0"]  BY <1>1, <1>6, <2>1, TrCellIs, Zenon
  <2>3. c.in = j /\ c.kernel = k /\ c = [in |-> c.in, kernel |-> c.kernel, ret |-> c.ret]
    BY <2>2
  <2>4. b = <<>> \/ b = i.buf  BY <2>1, Zenon
  <2>5. TrInOk(j, k, TrBase(trKind))  BY <1>2, <1>6, <2>1, <2>4, TrBadKeeps, Zenon
  <2> QED BY <2>3, <2>5, Zenon
<1> QED BY <1>3, <1>4, <1>5, <1>6, Zenon

-----------------------------------------------------------------------------
(* A read event: a loop of receive calls.                                   *)

TrTurn(s) == IF s.ret = "1" THEN TrRecvCell(s) ELSE s
TrRuns(f, n, a) == f = [i \in 0..n |-> IF i = 0 THEN a ELSE TrTurn(f[i - 1])]

\* A function of the turns of the loop exists, for any number of them.
LEMMA TrTurnsExist ==
  ASSUME NEW n \in Nat, NEW a
  PROVE  \E f : TrRuns(f, n, a)
<1> DEFINE E(j) == \E f : f = [k \in 0..j |-> IF k = 0 THEN a ELSE TrTurn(f[k - 1])]
           P == {j \in Nat : E(j)}
<1>1. 0 \in P
  <2>1. [k \in 0..0 |-> a]
          = [k \in 0..0 |-> IF k = 0 THEN a ELSE TrTurn([i \in 0..0 |-> a][k - 1])]
    OBVIOUS
  <2> QED BY <2>1
<1>2. ASSUME NEW j \in 0..(n - 1), j \in P PROVE j + 1 \in P
  <2>1. PICK f : f = [k \in 0..j |-> IF k = 0 THEN a ELSE TrTurn(f[k - 1])]  BY <1>2
  <2> DEFINE h == [k \in 0..(j + 1) |-> IF k = j + 1 THEN TrTurn(f[j]) ELSE f[k]]
  <2>2. \A k \in 0..(j + 1) : h[k] = IF k = 0 THEN a ELSE TrTurn(h[k - 1])  BY <2>1
  <2>3. h = [k \in 0..(j + 1) |-> IF k = 0 THEN a ELSE TrTurn(h[k - 1])]  BY <2>2
  <2> HIDE DEF h
  <2>4. E(j + 1)  BY <2>3
  <2>5. j + 1 \in Nat  OBVIOUS
  <2> HIDE DEF E
  <2> QED BY <2>4, <2>5
<1> HIDE DEF P
<1>3. n \in P  BY <1>1, <1>2, UpTo DEF P
<1> QED BY <1>3 DEF P, TrRuns

\* The loop is such a function, as TrReadLoop defines it.
LEMMA TrLoopIs ==
  \E f : /\ TrRuns(f, TrBatch, [in |-> trIn, kernel |-> trNet.kernel, ret |-> "1"])
         /\ TrReadLoop = f[TrBatch]
<1> DEFINE a == [in |-> trIn, kernel |-> trNet.kernel, ret |-> "1"]
           g == CHOOSE f : f = [i \in 0..TrBatch |->
                  IF i = 0 THEN a ELSE IF f[i - 1].ret = "1" THEN TrRecvCell(f[i - 1]) ELSE f[i - 1]]
<1>1. TrReadLoop = g[TrBatch]  BY Zenon DEF TrReadLoop
<1>2. PICK f : TrRuns(f, TrBatch, a)  BY TrAssumption, TrTurnsExist
<1>3. f = [i \in 0..TrBatch |->
             IF i = 0 THEN a ELSE IF f[i - 1].ret = "1" THEN TrRecvCell(f[i - 1]) ELSE f[i - 1]]
  BY <1>2, Zenon DEF TrRuns, TrTurn
<1>4. g = [i \in 0..TrBatch |->
             IF i = 0 THEN a ELSE IF g[i - 1].ret = "1" THEN TrRecvCell(g[i - 1]) ELSE g[i - 1]]
  BY <1>3, Zenon
<1>5. TrRuns(g, TrBatch, a)  BY <1>4, Zenon DEF TrRuns, TrTurn
<1> QED BY <1>1, <1>5, Zenon

\* Every turn keeps what the invariant says of the receiver.
LEMMA TrLoopKeeps ==
  ASSUME TrInv, \A x \in TrSides : trHs[x].ended = "done"
  PROVE  TrInOk(TrReadLoop.in, TrReadLoop.kernel, TrBase(trKind))
<1>1. PICK a, b : a = [in |-> trIn, kernel |-> trNet.kernel, ret |-> "1"] /\ b = TrBase(trKind)
  OBVIOUS
<1>2. PICK f : TrRuns(f, TrBatch, a) /\ TrReadLoop = f[TrBatch]  BY <1>1, TrLoopIs, Zenon
<1> DEFINE Q(s) == s = [in |-> s.in, kernel |-> s.kernel, ret |-> s.ret] /\ TrInOk(s.in, s.kernel, b)
           P == {j \in Nat : Q(f[j])}
<1>3. TrBatch \in Nat /\ 0 \in 0..TrBatch  BY TrAssumption
<1>4. Q(a)
  <2>1. a.in = trIn /\ a.kernel = trNet.kernel /\ a = [in |-> a.in, kernel |-> a.kernel, ret |-> a.ret]
    BY <1>1
  <2>2. trKind.dir \in TrSides /\ TrPeer(trKind.dir) \in TrSides
    BY DEF TrInv, TrType, TrPeer, TrSides
  <2>3. TrInOk(trIn, trNet.kernel, b)  BY <1>1, <2>2, TrOpenedAll, Zenon DEF TrInv, TrInInv
  <2> QED BY <2>1, <2>3, Zenon
<1>5. 0 \in P
  <2>1. f[0] = a  BY <1>2, <1>3, Zenon DEF TrRuns
  <2>2. Q(f[0])  BY <1>4, <2>1, Zenon
  <2> HIDE DEF Q
  <2> QED BY <2>2
<1>6. ASSUME NEW j \in 0..(TrBatch - 1), j \in P PROVE j + 1 \in P
  <2>1. PICK s, t : s = f[j] /\ t = f[j + 1]  OBVIOUS
  <2>2. j + 1 \in 0..TrBatch /\ j + 1 # 0 /\ (j + 1) - 1 = j /\ j + 1 \in Nat  BY <1>3
  <2>3. t = TrTurn(s)
    <3>1. f[j + 1] = IF j + 1 = 0 THEN a ELSE TrTurn(f[(j + 1) - 1])
      BY <1>2, <2>2, Zenon DEF TrRuns
    <3> QED BY <2>1, <2>2, <3>1, Zenon
  <2>4. Q(s)  BY <1>6, <2>1, Zenon
  <2>5. Q(t)
    <3>1. CASE s.ret = "1"
      <4>1. t = TrRecvCell(s)  BY <2>3, <3>1, Zenon DEF TrTurn
      <4> QED BY <1>1, <2>4, <4>1, TrCellKeeps, Zenon
    <3>2. CASE s.ret # "1"
      <4>1. t = s  BY <2>3, <3>2, Zenon DEF TrTurn
      <4> QED BY <2>4, <4>1, Zenon
    <3> QED BY <3>1, <3>2, Zenon
  <2> HIDE DEF Q
  <2> QED BY <2>1, <2>2, <2>5
<1> HIDE DEF Q
<1>7. P \in SUBSET Nat  BY Zenon
<1> HIDE DEF P
<1>8. TrBatch \in P  BY <1>3, <1>5, <1>6, <1>7, UpTo
<1>9. Q(f[TrBatch])  BY <1>8, Zenon DEF P
<1> QED BY <1>1, <1>2, <1>9, Zenon DEF Q

\* The read event keeps the invariant.
LEMMA TrReadKeeps ==
  ASSUME TrInv, TrRead
  PROVE  TrInv'
<1>1. PICK s, k, i : s = trKind /\ k = TrReadLoop.kernel /\ i = TrReadLoop.in  OBVIOUS
<1>2. /\ trIn' = i /\ trNet' = [trNet EXCEPT !.kernel = k]
      /\ trKind' = s /\ trHs' = trHs /\ trKeys' = trKeys /\ trOut' = trOut /\ trBudget' = trBudget
  BY <1>1 DEF TrRead
<1>3. trNet = [flight |-> trNet.flight, kernel |-> trNet.kernel, eof |-> trNet.eof]
  BY DEF TrInv, TrInInv
<1>4. /\ trNet' = [flight |-> trNet.flight, kernel |-> k, eof |-> trNet.eof]
      /\ trNet'.flight = trNet.flight /\ trNet'.kernel = k /\ trNet'.eof = trNet.eof
  BY <1>2, <1>3
<1>5. \A x \in TrSides : trHs[x].ended = "done"
  <2>1. trHs[TrPeer(s.dir)].ended = "done" /\ TrReadable  BY <1>1, Zenon DEF TrRead
  <2>2. trHs[s.dir].ended = "done"  BY <1>1, <2>1, Zenon DEF TrReadable, TrInv, TrInInv
  <2>3. s.dir \in TrSides  BY <1>1 DEF TrInv, TrType
  <2> QED BY <2>1, <2>2, <2>3, TrPeers, Zenon
<1>6. TrInOk(i, k, TrBase(s))  BY <1>1, <1>5, TrLoopKeeps, Zenon
<1>7. TrType' /\ TrHsInv' /\ TrOpened' = TrOpened
  <2>1. trBudget \in [cells : 0..TrMaxCells, faults : 0..TrMaxFaults]  BY DEF TrInv, TrType
  <2>2. trBudget'.faults <= trBudget.faults /\ trBudget' \in [cells : 0..TrMaxCells, faults : 0..TrMaxFaults]
    BY <1>2, <2>1, TrAssumption
  <2> QED BY <1>1, <1>2, <2>2, TrHsKept
<1>8. TrSent' = TrSent  BY <1>2 DEF TrSent
<1>9. TrOutInv'
  <2>1. TrOutInv /\ \A x : TrScr(x)' = TrScr(x) /\ TrPos(x)' = TrPos(x)
    BY <1>1, <1>2, Zenon DEF TrInv, TrScr, TrPos
  <2> QED BY <1>1, <1>2, <1>4, <1>8, <2>1, Zenon DEF TrOutInv
<1>10. TrOpened = TrBase(s)
  <2>1. trHs[TrPeer(trKind.dir)].ended = "done"  BY Zenon DEF TrRead
  <2> QED BY <1>1, <2>1, TrOpenedAll, Zenon
<1>11. TrInOk(trIn, trNet.kernel, TrOpened)'
  BY <1>1, <1>2, <1>4, <1>6, <1>7, <1>8, <1>10, Zenon DEF TrInOk
<1>12. TrInInv'
  <2>1. TrInInv  BY DEF TrInv
  <2>2. s.dir \in TrSides  BY <1>1 DEF TrInv, TrType
  <2>3. trHs[s.dir].ended = "done" /\ trHs[TrPeer(s.dir)].ended = "done"
    BY <1>5, <2>2, TrPeers, Zenon
  <2> QED BY <1>1, <1>2, <1>4, <1>11, <2>1, <2>3, Zenon DEF TrInInv
<1> QED BY <1>7, <1>9, <1>12, Zenon DEF TrInv

-----------------------------------------------------------------------------

\* Every session starts in it, whatever its kind.
LEMMA TrInitInv == TrInit => TrInv
<1> SUFFICES ASSUME TrInit PROVE TrInv
  OBVIOUS
<1>1. trKind \in [kind : TrKinds \cup {"raw"}, dir : TrSides, knows : BOOLEAN]
  <2>1. Range(TrRegistered) \subseteq TrKinds  BY TrAssumption DEF Range
  <2>2. trKind \in [kind : {k \in Range(TrRegistered) : TrFind(k)} \cup {"raw"}, dir : TrSides, knows : BOOLEAN]
    BY DEF TrInit
  <2> QED BY <2>1, <2>2
<1>2. PICK K : K = trKind.kind  OBVIOUS
<1>3. K \in TrKinds \cup {"raw"} /\ trKind.dir \in TrSides /\ trKind.knows \in BOOLEAN
  BY <1>1, <1>2
<1>4. /\ DOMAIN trHs = TrSides
      /\ \A x \in TrSides : trHs[x] = [todo |-> TrScr(x), inbox |-> <<>>,
                                       ended |-> IF K = "raw" THEN "done" ELSE ""]
  BY <1>2, Zenon DEF TrInit, TrScr
<1>5. /\ DOMAIN trKeys = TrSides
      /\ \A x \in TrSides : trKeys[x] = TrDerive("raw", x, FALSE)
  BY DEF TrInit
<1>6. \A x \in TrSides : /\ trHs[x].todo = TrScr(x) /\ trHs[x].inbox = <<>>
                         /\ trHs[x].ended = IF K = "raw" THEN "done" ELSE ""
                         /\ trHs[x] = [todo |-> trHs[x].todo, inbox |-> trHs[x].inbox, ended |-> trHs[x].ended]
  <2> SUFFICES ASSUME NEW x \in TrSides
               PROVE  /\ trHs[x].todo = TrScr(x) /\ trHs[x].inbox = <<>>
                      /\ trHs[x].ended = IF K = "raw" THEN "done" ELSE ""
                      /\ trHs[x] = [todo |-> trHs[x].todo, inbox |-> trHs[x].inbox, ended |-> trHs[x].ended]
    OBVIOUS
  <2>1. PICK h, t, i, e : h = trHs[x] /\ t = TrScr(x) /\ i = <<>> /\ e = IF K = "raw" THEN "done" ELSE ""
    OBVIOUS
  <2>2. h = [todo |-> t, inbox |-> i, ended |-> e]  BY <1>4, <2>1, Zenon
  <2>3. h.todo = t /\ h.inbox = i /\ h.ended = e /\ h = [todo |-> h.todo, inbox |-> h.inbox, ended |-> h.ended]
    BY <2>2
  <2> QED BY <2>1, <2>3, Zenon
<1>7. ASSUME NEW x \in TrSides
      PROVE  /\ TrScr(x) \in Seq(TrStepsOf(TrScr(x))) /\ Len(TrScr(x)) \in Nat
             /\ (Len(TrScr(x)) = 0 <=> K = "raw")
  <2>1. TrScr(x) = TrScript(K, x)  BY <1>2, Zenon DEF TrScr
  <2>2. PICK n \in 0..9 : TrPlan(K, x, TrScr(x), n)  BY <1>3, <2>1, TrPlans
  <2>3. /\ n \in 0..9 /\ TrScr(x) \in Seq(TrStepsOf(TrScr(x))) /\ Len(TrScr(x)) = n /\ (n = 0 <=> K = "raw")
    BY <2>2, Zenon DEF TrPlan
  <2>4. n \in Nat  OBVIOUS
  <2> QED BY <2>3, <2>4, Zenon
<1>8. ASSUME NEW x \in TrSides
      PROVE  TrPos(x) = 0
  <2>1. PICK n \in Nat : n = Len(TrScr(x))  BY <1>7, Zenon
  <2>2. TrPos(x) = n - n  BY <1>6, <2>1, Zenon DEF TrPos
  <2> QED BY <2>1, <2>2
<1>9. trBudget = [cells |-> TrMaxCells, faults |-> TrMaxFaults]  BY DEF TrInit
<1>10. trBudget \in [cells : 0..TrMaxCells, faults : 0..TrMaxFaults] /\ TrSent = 0
  BY <1>9, TrAssumption DEF TrSent
<1>11. TrType
  <2>1. \A x \in TrSides :
         /\ trHs[x] = [todo |-> trHs[x].todo, inbox |-> trHs[x].inbox, ended |-> trHs[x].ended]
         /\ trHs[x].ended \in {"", "done", "failed"}
         /\ trHs[x].inbox \in Seq(TrMsgs(TrScr(TrPeer(x))))
         /\ trHs[x].todo \in Seq(TrStepsOf(TrScr(x)))
    <3> SUFFICES ASSUME NEW x \in TrSides
                 PROVE  /\ trHs[x].ended \in {"", "done", "failed"}
                        /\ trHs[x].inbox \in Seq(TrMsgs(TrScr(TrPeer(x))))
                        /\ trHs[x].todo \in Seq(TrStepsOf(TrScr(x)))
      BY <1>6, Zenon
    <3>1. trHs[x].ended \in {"", "done", "failed"}  BY <1>6
    <3>2. \A M : <<>> \in Seq(M)  OBVIOUS
    <3>3. trHs[x].inbox \in Seq(TrMsgs(TrScr(TrPeer(x))))  BY <1>6, <3>2, Zenon
    <3>4. trHs[x].todo \in Seq(TrStepsOf(TrScr(x)))  BY <1>6, <1>7, Zenon
    <3> QED BY <3>1, <3>3, <3>4, Zenon
  <2> QED BY <1>1, <1>4, <1>5, <1>10, <2>1, Zenon DEF TrType
<1>12. TrHsInv
  <2> SUFFICES ASSUME NEW x \in TrSides PROVE TrProgress(x) /\ TrInTransit(x) /\ TrKeyed(x)
    BY Zenon DEF TrHsInv
  <2>1. PICK n \in Nat : n = Len(TrScr(x))  BY <1>7, Zenon
  <2>2. n = 0 <=> K = "raw"  BY <1>7, <2>1, Zenon
  <2>3. TrProgress(x)
    <3>1. TrPos(x) \in 0..Len(TrScr(x))  BY <1>8, <2>1
    <3>2. \A i \in 1..Len(trHs[x].todo) : trHs[x].todo[i] = TrScr(x)[TrPos(x) + i]
      <4>1. \A i \in 1..n : TrScr(x)[i] = TrScr(x)[0 + i]  OBVIOUS
      <4> QED BY <1>6, <1>8, <2>1, <4>1, Zenon
    <3>3. trHs[x].ended = "done" <=> TrPos(x) = Len(TrScr(x))
      <4>1. trHs[x].ended = "done" <=> K = "raw"  BY <1>6
      <4>2. 0 = n <=> K = "raw"  BY <2>2
      <4> QED BY <1>8, <2>1, <4>1, <4>2, Zenon
    <3>4. trHs[x].ended # "failed"  BY <1>6
    <3> QED BY <3>1, <3>2, <3>3, <3>4, Zenon DEF TrProgress
  <2>4. TrInTransit(x)
    <3>1. TrPeer(x) \in TrSides  BY TrPeers, Zenon
    <3>2. TrPos(TrPeer(x)) = 0 /\ TrPos(x) = 0  BY <1>8, <3>1, Zenon
    <3>3. TrSends(TrScr(TrPeer(x)), 0) = 0 /\ TrRecvs(TrScr(x), 0) = 0
      BY TrCountNone, Zenon DEF TrSends, TrRecvs
    <3>4. Len(trHs[x].inbox) = 0 /\ 0 - 0 = 0 /\ 1..0 = {}
      <4>1. Len(<<>>) = 0 /\ 0 - 0 = 0 /\ 1..0 = {}  OBVIOUS
      <4> QED BY <1>6, <4>1, Zenon
    <3> QED BY <3>2, <3>3, <3>4, Zenon DEF TrInTransit
  <2>5. TrKeyed(x)
    <3>1. TrCount(TrScr(x), {"keys"}, 0) = 0 /\ TrCount(TrScr(x), {"know"}, 0) = 0 /\ 0 # 1
      BY TrCountNone
    <3>2. K = "raw" => trKeys[x] = TrOwnKeys(x)
      <4>1. \A w : TrDerive("raw", x, w) = TrPair(x = "client", {"up"}, {"down"}, FALSE)
        BY DEF TrDerive
      <4> QED BY <1>2, <1>5, <4>1, Zenon DEF TrOwnKeys
    <3> QED BY <1>2, <1>8, <3>1, <3>2, Zenon DEF TrKeyed
  <2> QED BY <2>3, <2>4, <2>5, Zenon
<1>13. /\ trOut = [nonce |-> 0, epoch |-> 0, records |-> 0, open |-> TRUE]
       /\ trIn = [nonce |-> 0, epoch |-> 0, records |-> 0, open |-> TRUE, buf |-> <<>>,
                  got |-> 0, failed |-> FALSE, timedOut |-> FALSE]
       /\ trNet = [flight |-> <<>>, kernel |-> <<>>, eof |-> FALSE]
  BY DEF TrInit
<1>14. /\ trNet.flight = <<>> /\ trNet.kernel = <<>> /\ trNet.eof = FALSE
       /\ trNet = [flight |-> trNet.flight, kernel |-> trNet.kernel, eof |-> trNet.eof]
  BY <1>13
<1>15. TrOutInv
  <2>1. /\ trOut \in [nonce : Nat, epoch : Nat, records : Nat, open : BOOLEAN]
        /\ trOut.nonce = 0 /\ trOut.epoch = 0 /\ trOut.records = 0 /\ trOut.open = TRUE
    BY <1>13
  <2>2. TrCount(TrScr(trKind.dir), {"seal"}, TrPos(trKind.dir)) = 0
    BY <1>3, <1>8, TrCountNone, Zenon
  <2>3. trHs[trKind.dir].ended = "done" => TrBase(trKind) + 0 = 0
    <3>1. trHs[trKind.dir].ended = "done" => K = "raw"  BY <1>3, <1>6
    <3>2. K = "raw" => TrBase(trKind) = 0  BY <1>2 DEF TrBase, TrSealed
    <3> QED BY <3>1, <3>2
  <2>4. TrEpAfter(trKind, 0) = 0  BY Zenon DEF TrEpAfter
  <2> QED BY <1>10, <1>14, <2>1, <2>2, <2>3, <2>4, Zenon DEF TrOutInv
<1>16. TrInInv
  <2>1. PICK X, Y : X = TrAllPieces(trKind) /\ Y = Seq(X)  OBVIOUS
  <2>2. <<>> \in Y  BY <2>1
  <2>3. trIn \in [nonce : Nat, epoch : Nat, records : Nat, open : BOOLEAN, buf : Y,
                  got : Nat, failed : BOOLEAN, timedOut : BOOLEAN]
    BY <1>13, <2>2
  <2>4. /\ trIn.nonce = 0 /\ trIn.epoch = 0 /\ trIn.records = 0 /\ trIn.buf = <<>> /\ trIn.got = 0
        /\ trIn.failed = FALSE /\ trIn.timedOut = FALSE
    BY <1>13
  <2>5. TrOpened = 0
    <3>1. TrPeer(trKind.dir) \in TrSides  BY <1>3, TrPeers, Zenon
    <3> QED BY <1>8, <3>1, TrCountNone, Zenon DEF TrOpened
  <2>6. TrTrack(trKind, 0, <<>>, 0, <<>>, <<>>, FALSE, trOut.open, 0)
    <3>1. 1..Len(<<>>) = {} /\ Len(<<>>) < 2 /\ 2 * 0 + Len(<<>>) + Len(<<>>) + Len(<<>>) = 2 * 0
      OBVIOUS
    <3>2. TrOnWay(trKind, 0, <<>>, <<>>, <<>>)  BY <3>1, Zenon DEF TrOnWay
    <3>3. TrEpAfter(trKind, 0) = 0  BY Zenon DEF TrEpAfter
    <3> QED BY <3>1, <3>2, <3>3, Zenon DEF TrTrack
  <2>7. TrInOk(trIn, trNet.kernel, TrOpened)
    <3>1. 0 = 0 + 0  OBVIOUS
    <3>2. trIn \in TrInType(trKind) /\ trNet.kernel \in Seq(TrAllPieces(trKind))
      BY <1>14, <2>1, <2>2, <2>3, Zenon DEF TrInType
    <3> QED BY <1>10, <1>14, <2>4, <2>5, <2>6, <3>1, <3>2, Zenon DEF TrInOk
  <2>8. trNet.flight \in Seq(TrAllPieces(trKind)) /\ trNet.eof \in BOOLEAN
    <3>1. FALSE \in BOOLEAN  OBVIOUS
    <3> QED BY <1>14, <2>1, <2>2, <3>1, Zenon
  <2>9. ~trNet.eof  BY <1>14, Zenon
  <2> QED BY <1>14, <2>4, <2>7, <2>8, <2>9, Zenon DEF TrInInv
<1> QED BY <1>11, <1>12, <1>15, <1>16, Zenon DEF TrInv

\* A step that changes nothing keeps it.
LEMMA TrStillInv ==
  ASSUME TrInv, UNCHANGED trVars
  PROVE  TrInv'
<1>1. trKind' = trKind /\ trHs' = trHs /\ trKeys' = trKeys /\ trOut' = trOut /\ trIn' = trIn
      /\ trNet' = trNet /\ trBudget' = trBudget
  BY DEF trVars
<1>2. TrType' /\ TrHsInv' /\ TrOpened' = TrOpened
  <2>1. trBudget \in [cells : 0..TrMaxCells, faults : 0..TrMaxFaults]  BY DEF TrInv, TrType
  <2>2. trBudget'.faults <= trBudget.faults /\ trBudget' \in [cells : 0..TrMaxCells, faults : 0..TrMaxFaults]
    BY <1>1, <2>1, TrAssumption
  <2> QED BY <1>1, <2>2, TrHsKept
<1>3. TrSent' = TrSent  BY <1>1 DEF TrSent
<1>4. TrOutInv'
  <2>1. TrOutInv /\ \A x : TrScr(x)' = TrScr(x) /\ TrPos(x)' = TrPos(x)
    BY <1>1, Zenon DEF TrInv, TrScr, TrPos
  <2> QED BY <1>1, <1>3, <2>1, Zenon DEF TrOutInv
<1>5. TrInInv'
  <2>1. TrInInv  BY DEF TrInv
  <2>2. TrInOk(trIn, trNet.kernel, TrOpened)'
    BY <1>1, <1>2, <1>3, <2>1, Zenon DEF TrInInv, TrInOk
  <2> QED BY <1>1, <2>1, <2>2, Zenon DEF TrInInv
<1> QED BY <1>2, <1>4, <1>5, Zenon DEF TrInv

\* Every step keeps it.
LEMMA TrNextKeeps == TrInv /\ [TrNext]_trVars => TrInv'
<1> SUFFICES ASSUME TrInv, [TrNext]_trVars PROVE TrInv'
  OBVIOUS
<1>1. ASSUME NEW x \in TrSides, TrHsSend(x) PROVE TrInv'
  BY <1>1, TrSendKeeps
<1>2. ASSUME NEW x \in TrSides, TrHsRecv(x) PROVE TrInv'
  BY <1>2, TrRecvKeeps
<1>3. ASSUME NEW x \in TrSides, TrHsKeys(x) PROVE TrInv'
  BY <1>3, TrHsKeysKeeps
<1>4. ASSUME NEW x \in TrSides, TrHsFail(x) PROVE TrInv'
  BY <1>4, TrHsFailKeeps
<1>5. CASE TrHsKnow
  BY <1>5, TrHsKnowKeeps
<1>6. CASE TrSend
  BY <1>6, TrSendCellKeeps
<1>7. CASE TrArrive
  BY <1>7, TrArriveKeeps
<1>8. CASE TrClose
  BY <1>8, TrCloseKeeps
<1>9. CASE TrRead
  BY <1>9, TrReadKeeps
<1>10. CASE TrReadTimeout
  BY <1>10, TrTimeoutKeeps
<1>11. CASE UNCHANGED trVars
  BY <1>11, TrStillInv
<1> QED BY <1>1, <1>2, <1>3, <1>4, <1>5, <1>6, <1>7, <1>8, <1>9, <1>10, <1>11, Zenon DEF TrNext

(***************************************************************************)
(* TrSpec => []TrInStep: for every registry, buffer, batch and ratchet      *)
(* interval, a handshake with a client that knows the bridge ends only by a *)
(* fault, the two sides' keys fit, cells come out in order, and a record    *)
(* fails to open only after a receive call gave up pieces it had read.      *)
(* TrInv follows the two scripts by position, counts the messages and       *)
(* nonces between them, and numbers the pieces of all records, so that what *)
(* is buffered, in the kernel and in flight is a run of those numbers.      *)
(***************************************************************************)
THEOREM TransportsInStep == TrSpec => []TrInStep
<1>1. TrInit => TrInv  BY TrInitInv
<1>2. TrInv /\ [TrNext]_trVars => TrInv'  BY TrNextKeeps
<1>3. TrInv => TrInStep
  <2> SUFFICES ASSUME TrInv PROVE TrInStep
    OBVIOUS
  <2>1. \A x \in TrSides :
          trHs[x].ended = "failed" => ~trKind.knows \/ trBudget.faults < TrMaxFaults
    BY Zenon DEF TrInv, TrHsInv, TrProgress
  <2>2. (\A x \in TrSides : trHs[x].ended = "done") =>
          \A x \in TrSides : trKeys[x].send = trKeys[TrPeer(x)].recv
    BY TrDoneFits, Zenon
  <2>3. trIn.got = trIn.records /\ (trIn.failed => trIn.timedOut)
    BY Zenon DEF TrInv, TrInInv, TrInOk
  <2> QED BY <2>1, <2>2, <2>3, Zenon DEF TrInStep
<1> QED BY <1>1, <1>2, <1>3, PTL DEF TrSpec
=============================================================================
