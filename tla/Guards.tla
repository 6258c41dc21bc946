------------------------------- MODULE Guards -------------------------------
(***************************************************************************)
(* Entry guards, path bias and path selection of the client (circuit.c,    *)
(* node.c) and the vanguards of a hidden service (circuit.c,               *)
(* hidden_service.c, main.c).                                              *)
(*                                                                         *)
(* A process is a client (guard state gu, its file guFile, asynchronous    *)
(* builds of the main thread and blocking builds of a worker thread) or a  *)
(* service (vanguards vg, their file vgFile).  Every relay is listed in    *)
(* the consensus with its flags; RUNNING changes.                          *)
(***************************************************************************)
EXTENDS Integers, Sequences, FiniteSets, SequencesExt

CONSTANTS
    GuRelays,        \* relays of the consensus
    GuFlags,         \* [GuRelays -> SUBSET flags], RUNNING apart
    GuSelf,          \* the builder's own identity
    GuEntryNode,     \* the configured EntryNode, or GuSelf when there is none
    GuSampledMax, GuConfirmedMax, GuPrimaryMax,
    GuMinCircs,      \* MOOR_PB_MIN_CIRCS
    GuScaleAt,       \* MOOR_PB_SCALE_AT
    GuL2Count, GuL3Count, GuL2Rotate, GuL3Rotate,
    GuMaxTime, GuMaxBuilds, GuMaxUses, GuMaxChurn    \* bounds

\* The sizes of the lists are fixed at compile time (circuit.h).
ASSUME GuAssumption ==
    /\ IsFiniteSet(GuRelays)
    /\ GuSampledMax \in Nat /\ GuConfirmedMax \in Nat /\ GuPrimaryMax \in Nat \ {0}

VARIABLES
    guMode,          \* "client" or "service"
    gu,              \* [sampled, confirmed, primary, rr]: moor_guard_state_t
    guFile,          \* guard_state on disk: [sampled, confirmed, primary] or GuNoFile
    guNow,
    guRunning,       \* relays with RUNNING
    guAsync,         \* path of the main thread's build, <<>> when none
    guWorker,        \* the worker's build: [pc, path, seen, raced]; seen holds the
                     \* guards its unlocked list update has tested, raced (history)
                     \* those of them the last path-bias check found disabled
    vg,              \* [l2, l3]: sequences of [id, expires]
    vgFile,
    vgPath,          \* last path of a service circuit
    guBudget         \* [builds, uses, churn] still allowed

guClient == <<gu, guFile, guAsync, guWorker>>
guService == <<vg, vgFile, vgPath>>
guVars == <<guMode, guClient, guService, guNow, guRunning, guBudget>>

GuNoFile == [sampled |-> <<>>, confirmed |-> <<>>, primary |-> <<>>]
GuEmpty == [sampled |-> <<>>, confirmed |-> <<>>, primary |-> <<>>, rr |-> 0]
GuUnseen == [live |-> {}, up |-> {}]
GuIdle == [pc |-> "idle", path |-> <<>>, seen |-> GuUnseen, raced |-> {}]

-----------------------------------------------------------------------------
(* Relay selection. *)

GuFlagsOf(r) == GuFlags[r] \cup (IF r \in guRunning THEN {"RUNNING"} ELSE {})

\* moor_node_select_relay: the relays it may return.  The draw is weighted,
\* and every weight is at least 1, so each candidate can come out.
GuSelectable(required, exclude) ==
    {r \in GuRelays \ exclude :
        /\ required \subseteq GuFlagsOf(r)
        /\ "EXIT" \in required => "BADEXIT" \notin GuFlags[r]
        /\ required \cap {"GUARD", "EXIT"} # {} => "MIDDLEONLY" \notin GuFlags[r]}

\* moor_node_select_relay_diverse (with a GeoIP database): ten draws that
\* prefer another family, country and network, then any candidate.
GuDiverse(required, exclude) == GuSelectable(required, exclude)

GuOrElse(S, T) == IF S = {} THEN T ELSE S

\* Middle selection that forgets the exit.
MutGuPaths(guard) ==
    {p \in {guard} \X GuSelectable({"RUNNING"}, {GuSelf, guard})
                  \X GuSelectable({"EXIT", "RUNNING"}, {GuSelf, guard}) : TRUE}

\* Exit first, then middle; <<guard, middle, exit>>.
GuPaths(guard) ==
    {p \in {guard} \X GuRelays \X GuDiverse({"EXIT", "RUNNING"}, {GuSelf, guard}) :
        p[2] \in GuDiverse({"RUNNING"}, {GuSelf, guard, p[3]})}

-----------------------------------------------------------------------------
(* The guard state. *)

GuEntry(r) == [id |-> r, confirmed |-> FALSE, reachable |-> FALSE,
               att |-> 0, suc |-> 0, uatt |-> 0, usuc |-> 0, disabled |-> FALSE]

\* The samples moor_guard_sample may end with.
GuSamples(old) ==
    LET known == {old[i].id : i \in DOMAIN old}
        free  == GuSelectable({"GUARD", "STABLE", "RUNNING"}, known)
        n     == IF Cardinality(free) < GuSampledMax - Len(old)
                 THEN Cardinality(free) ELSE GuSampledMax - Len(old)
    IN  {old \o [i \in 1..n |-> GuEntry(p[i])] :
            p \in {q \in [1..n -> free] : \A i, j \in 1..n : i # j => q[i] # q[j]}}

\* What s has at the places P, in their order: the n-th of them has n places
\* of P up to it.
GuKeep(s, P) ==
    [n \in 1..Cardinality(P) |-> s[CHOOSE i \in P : Cardinality({j \in P : j <= i}) = n]]

\* The indices of the list s that are in S, in order.
GuOnly(s, S) == GuKeep(s, {k \in DOMAIN s : s[k] \in S})

GuTake(s) == SubSeq(s, 1, IF Len(s) < GuPrimaryMax THEN Len(s) ELSE GuPrimaryMax)

\* What the tests of moor_guard_update_primary find: the enabled guards, and
\* the reachable ones among them.
GuTested(g) ==
    LET live == {i \in DOMAIN g.sampled : ~g.sampled[i].disabled}
    IN  [live |-> live, up |-> {i \in live : g.sampled[i].reachable}]

\* What moor_guard_update_primary appends to a primary list it has already
\* partly filled, by what its tests saw: confirmed and reachable, confirmed,
\* sampled; never a guard seen disabled.  Only the first loop does not look
\* for the index already.
GuFill(g, primary, seen) ==
    LET p1 == GuTake(primary \o GuOnly(g.confirmed, seen.up))
        p2 == GuTake(p1 \o GuOnly(g.confirmed, seen.live \ ToSet(p1)))
        p3 == GuTake(p2 \o GuOnly([i \in DOMAIN g.sampled |-> i], seen.live \ ToSet(p2)))
    IN  [g EXCEPT !.primary = p3]

GuUpdatePrimary(g) == GuFill(g, <<>>, GuTested(g))

\* moor_guard_select: the index it returns (0 for none); the round robin
\* moves only when nothing is reachable.
GuSelect(g) ==
    LET up    == {i \in DOMAIN g.sampled : g.sampled[i].reachable}
        prim  == GuOnly(g.primary, up)
        any   == GuOnly([i \in DOMAIN g.sampled |-> i], up)
        n     == Len(g.primary)
    IN  CASE prim # <<>> -> [idx |-> prim[1], rr |-> g.rr]
          [] prim = <<>> /\ any # <<>> -> [idx |-> any[1], rr |-> g.rr]
          [] any = <<>> /\ n > 0 -> [idx |-> g.primary[(g.rr % n) + 1], rr |-> g.rr + 1]
          [] OTHER -> [idx |-> IF g.sampled = <<>> THEN 0 ELSE 1, rr |-> g.rr]

GuIndex(g, r) == {i \in DOMAIN g.sampled : g.sampled[i].id = r}

\* Everything moor_guard_mark_reachable does before it updates the primaries.
GuReached(g, r) ==
    IF GuIndex(g, r) = {} THEN g
    ELSE LET i == CHOOSE k \in GuIndex(g, r) : TRUE
             room == ~g.sampled[i].confirmed /\ Len(g.confirmed) < GuConfirmedMax
         IN  [g EXCEPT !.sampled[i].reachable = TRUE,
                       !.sampled[i].confirmed = TRUE,
                       !.confirmed = IF room THEN Append(@, i) ELSE @]

GuMarkUnreachable(g, r) ==
    IF GuIndex(g, r) = {} THEN g
    ELSE GuUpdatePrimary([g EXCEPT !.sampled[CHOOSE k \in GuIndex(g, r) : TRUE].reachable = FALSE])

\* Path-bias counters; only an attempt may scale them.
GuCount(g, r, field) ==
    LET Inc(e) == CASE field = "att"  -> [e EXCEPT !.att = @ + 1]
                    [] field = "suc"  -> [e EXCEPT !.suc = @ + 1]
                    [] field = "uatt" -> [e EXCEPT !.uatt = @ + 1]
                    [] field = "usuc" -> [e EXCEPT !.usuc = @ + 1]
        Scaled(e) == IF field = "att" /\ e.att >= GuScaleAt
                     THEN [e EXCEPT !.att = @ \div 2, !.suc = @ \div 2,
                                    !.uatt = @ \div 2, !.usuc = @ \div 2]
                     ELSE e
    IN  [g EXCEPT !.sampled = [i \in DOMAIN @ |->
            IF @[i].id = r THEN Scaled(Inc(@[i])) ELSE @[i]]]

\* moor_pathbias_check_all: below 30 % of the builds or 50 % of the uses.
GuBiased(e) == /\ ~e.disabled
               /\ e.att >= GuMinCircs
               /\ \/ 10 * e.suc < 3 * e.att
                  \/ e.uatt >= GuMinCircs /\ 2 * e.usuc < e.uatt

\* Disabling that leaves the primary list as it was.
MutGuCheckAll(g) ==
    [g EXCEPT !.sampled = [i \in DOMAIN @ |->
        IF GuBiased(@[i]) THEN [@[i] EXCEPT !.disabled = TRUE, !.reachable = FALSE] ELSE @[i]]]

GuCheckAll(g) ==
    LET judged == [g EXCEPT !.sampled = [i \in DOMAIN @ |->
                      IF GuBiased(@[i])
                      THEN [@[i] EXCEPT !.disabled = TRUE, !.reachable = FALSE]
                      ELSE @[i]]]
    IN  IF \E k \in DOMAIN g.primary : judged.sampled[g.primary[k]].disabled
        THEN GuUpdatePrimary(judged) ELSE judged

\* The file has no path-bias field.
GuWire(g) ==
    [sampled |-> [i \in DOMAIN g.sampled |->
         [g.sampled[i] EXCEPT !.att = 0, !.suc = 0, !.uatt = 0, !.usuc = 0, !.disabled = FALSE]],
     confirmed |-> g.confirmed, primary |-> g.primary]

-----------------------------------------------------------------------------
(* The client process. *)

\* The guards moor_circuit_build and moor_circuit_build_async may start from.
GuPinned == LET i == GuSelect(gu).idx
            IN  IF i = 0 THEN {} ELSE {gu.sampled[i].id} \cap guRunning

GuAsyncGuards == GuOrElse(GuPinned, GuSelectable({"GUARD", "RUNNING"}, {GuSelf}))

GuSyncGuards ==
    IF GuEntryNode # GuSelf THEN {GuEntryNode}
    ELSE GuOrElse(GuAsyncGuards, GuSelectable({"RUNNING"}, {GuSelf}))

\* Start of the client: load, sample, choose primaries.  The sample is taken
\* from a consensus that lists relays; a guard file that cannot be read
\* leaves the state empty.
GuStart ==
    /\ guBudget.churn > 0
    /\ \E s \in GuSamples(guFile.sampled) :
          gu' = GuUpdatePrimary([sampled |-> s, confirmed |-> guFile.confirmed,
                                 primary |-> guFile.primary, rr |-> 0])
    /\ guAsync' = <<>>
    /\ guWorker' = GuIdle
    /\ guBudget' = [guBudget EXCEPT !.churn = @ - 1]
    /\ UNCHANGED <<guFile, guNow, guRunning, guService>>

\* moor_circuit_build_async: selects the whole path, counts no attempt.
GuAsyncStart ==
    /\ guAsync = <<>>
    /\ guBudget.builds > 0
    /\ \E guard \in GuAsyncGuards : \E p \in GuPaths(guard) : guAsync' = p
    /\ gu' = [gu EXCEPT !.rr = GuSelect(gu).rr]
    /\ guBudget' = [guBudget EXCEPT !.builds = @ - 1]
    /\ UNCHANGED <<guFile, guNow, guRunning, guWorker, guService>>

GuAsyncDone(ok) ==
    /\ guAsync # <<>>
    /\ gu' = IF ok THEN GuCount(gu, guAsync[1], "suc") ELSE GuMarkUnreachable(gu, guAsync[1])
    /\ guAsync' = <<>>
    /\ UNCHANGED <<guFile, guNow, guRunning, guWorker, guService, guBudget>>

\* moor_circuit_build in the worker: guard, attempt, then the other hops.
\* A failure anywhere after the attempt leaves the guard state as it is.
\* moor_guard_mark_reachable runs without the path-bias lock: the main thread
\* can run between its clearing the primary list, its testing the guards and
\* its appending the ones it found enabled.
GuSyncStart ==
    /\ guWorker.pc = "idle"
    /\ guBudget.builds > 0
    /\ \E guard \in GuSyncGuards :
        /\ gu' = GuCount([gu EXCEPT !.rr = IF GuEntryNode = GuSelf THEN GuSelect(gu).rr ELSE @],
                         guard, "att")
        /\ \/ \E p \in GuPaths(guard) : guWorker' = [guWorker EXCEPT !.pc = "building", !.path = p]
           \/ GuPaths(guard) = {} /\ guWorker' = guWorker
    /\ guBudget' = [guBudget EXCEPT !.builds = @ - 1]
    /\ UNCHANGED <<guFile, guNow, guRunning, guAsync, guService>>

GuWorkerEnds == guWorker' = [guWorker EXCEPT !.pc = "idle", !.path = <<>>, !.seen = GuUnseen]

GuSyncDone(ok) ==
    /\ guWorker.pc = "building"
    /\ LET r == guWorker.path[1]
           reached == GuReached(GuCount(gu, r, "suc"), r)
       IN  \/ ~ok /\ gu' = gu /\ GuWorkerEnds
           \/ ok /\ GuIndex(gu, r) = {} /\ gu' = gu /\ GuWorkerEnds
           \/ ok /\ GuIndex(gu, r) # {}
                 /\ gu' = [reached EXCEPT !.primary = <<>>]
                 /\ guWorker' = [guWorker EXCEPT !.pc = "testing"]
    /\ UNCHANGED <<guFile, guNow, guRunning, guAsync, guService, guBudget>>

\* The rest of the worker's unlocked moor_guard_update_primary: it tests
\* pb_disabled and is_reachable,
GuSyncTest ==
    /\ guWorker.pc = "testing"
    /\ guWorker' = [guWorker EXCEPT !.pc = "adding", !.seen = GuTested(gu)]
    /\ UNCHANGED <<gu, guFile, guNow, guRunning, guAsync, guService, guBudget>>

\* and appends the guards that passed.
GuSyncFill ==
    /\ guWorker.pc = "adding"
    /\ gu' = GuFill(gu, gu.primary, guWorker.seen)
    /\ GuWorkerEnds
    /\ UNCHANGED <<guFile, guNow, guRunning, guAsync, guService, guBudget>>

\* A stream begins on a circuit of guard r, or its CONNECTED arrives.
GuUse(r, field) ==
    /\ guBudget.uses > 0
    /\ GuIndex(gu, r) # {}
    /\ gu' = GuCount(gu, r, field)
    /\ guBudget' = [guBudget EXCEPT !.uses = @ - 1]
    /\ UNCHANGED <<guFile, guNow, guRunning, guAsync, guWorker, guService>>

GuPathbiasTimer ==
    /\ gu' = GuCheckAll(gu)
    /\ guWorker' = [guWorker EXCEPT !.raced =
                      {i \in guWorker.seen.live : gu'.sampled[i].disabled}]
    /\ UNCHANGED <<guFile, guNow, guRunning, guAsync, guService, guBudget>>

\* moor_guard_save truncates the file and writes it in place: the process
\* may die in between, and the file it leaves is refused by the load.
GuSave(torn) ==
    /\ torn => guBudget.churn > 0
    /\ guFile' = IF torn THEN GuNoFile ELSE GuWire(gu)
    /\ UNCHANGED <<gu, guNow, guRunning, guAsync, guWorker, guService, guBudget>>

-----------------------------------------------------------------------------
(* The service process. *)

GuFresh(entries) == SelectSeq(entries, LAMBDA e : guNow < e.expires)
GuIds(entries) == {entries[i].id : i \in DOMAIN entries}

\* One layer of moor_vanguard_init: every way to fill it up.
GuFilled(old, cand, count, expires) ==
    LET n == IF Cardinality(cand) < count - Len(old) THEN Cardinality(cand) ELSE count - Len(old)
    IN  {old \o [i \in 1..n |-> [id |-> p[i], expires |-> expires]] :
            p \in {q \in [1..n -> cand] : \A i, j \in 1..n : i # j => q[i] # q[j]}}

GuVanguardInit(v) ==
    UNION {{[l2 |-> l2, l3 |-> l3] :
              l3 \in LET old == GuFresh(v.l3)
                     IN  GuFilled(old, GuSelectable({"RUNNING"}, {GuSelf} \cup GuIds(old) \cup GuIds(l2)),
                                  GuL3Count, guNow + GuL3Rotate)} :
            l2 \in LET old == GuFresh(v.l2)
                   IN  GuFilled(old, GuSelectable({"RUNNING", "STABLE"}, {GuSelf} \cup GuIds(old)),
                                GuL2Count, guNow + GuL2Rotate)}

\* moor_hs_init: load or clear, refresh, save.
GuVanguardStart ==
    /\ guBudget.churn > 0
    /\ \E v \in GuVanguardInit(vgFile) : vg' = v /\ vgFile' = v
    /\ guBudget' = [guBudget EXCEPT !.churn = @ - 1]
    /\ UNCHANGED <<guClient, guNow, guRunning, vgPath>>

\* hs_vanguard_rotation_cb: saved only when a count changed.
GuVanguardRotate ==
    /\ \E v \in GuVanguardInit(vg) :
        /\ vg' = v
        /\ vgFile' = IF Len(v.l2) # Len(vg.l2) \/ Len(v.l3) # Len(vg.l3) THEN v ELSE vgFile
    /\ UNCHANGED <<guClient, guNow, guRunning, vgPath, guBudget>>

\* The service never samples guards, so it draws one; the vanguard draw may
\* run out of attempts and fall back to any running relay.
GuServiceGuards(exclude) ==
    GuOrElse(GuSelectable({"GUARD", "RUNNING"}, exclude), GuSelectable({"RUNNING"}, exclude))

GuVanguardOr(entries, exclude) ==
    (GuIds(entries) \ exclude) \cup GuSelectable({"RUNNING"}, exclude)

\* moor_hs_build_circuit
GuServiceBuild ==
    /\ vg.l2 # <<>>
    /\ \E g \in GuServiceGuards({GuSelf}) :
       \E m \in GuVanguardOr(vg.l2, {GuSelf, g}) :
       \E t \in GuVanguardOr(vg.l3, {GuSelf, g, m}) : vgPath' = <<g, m, t>>
    /\ UNCHANGED <<guClient, guNow, guRunning, vg, vgFile, guBudget>>

\* moor_hs_build_circuit_to_rp
GuServiceToRp(rp) ==
    /\ vg.l2 # <<>>
    /\ \E g \in GuServiceGuards({GuSelf, rp}) :
       \E m \in GuVanguardOr(vg.l2, {GuSelf, g, rp}) : vgPath' = <<g, m, rp>>
    /\ UNCHANGED <<guClient, guNow, guRunning, vg, vgFile, guBudget>>

-----------------------------------------------------------------------------

\* A new consensus moves RUNNING.
GuConsensus(r) ==
    /\ guBudget.churn > 0
    /\ guRunning' = IF r \in guRunning THEN guRunning \ {r} ELSE guRunning \cup {r}
    /\ guBudget' = [guBudget EXCEPT !.churn = @ - 1]
    /\ UNCHANGED <<guClient, guService, guNow>>

GuTick ==
    /\ guNow < GuMaxTime
    /\ guNow' = guNow + 1
    /\ UNCHANGED <<guClient, guService, guRunning, guBudget>>

GuInit ==
    /\ guMode \in {"client", "service"}
    /\ gu = GuEmpty /\ guFile = GuNoFile /\ guNow = 0
    /\ guRunning \in {GuRelays} \cup {GuRelays \ {r} : r \in GuRelays}
    /\ guAsync = <<>> /\ guWorker = GuIdle
    /\ vg = [l2 |-> <<>>, l3 |-> <<>>] /\ vgFile = vg /\ vgPath = <<>>
    /\ guBudget = [builds |-> GuMaxBuilds, uses |-> GuMaxUses, churn |-> GuMaxChurn]

GuClientNext ==
    \/ GuStart \/ GuAsyncStart \/ GuSyncStart \/ GuSyncTest \/ GuSyncFill
    \/ \E ok \in BOOLEAN : GuAsyncDone(ok) \/ GuSyncDone(ok)
    \/ \E r \in GuRelays : GuUse(r, "uatt") \/ GuUse(r, "usuc")
    \/ GuPathbiasTimer
    \/ \E torn \in BOOLEAN : GuSave(torn)

GuServiceNext ==
    \/ GuVanguardStart \/ GuVanguardRotate \/ GuServiceBuild
    \/ \E r \in GuRelays : GuServiceToRp(r)

GuNext ==
    /\ \/ guMode = "client" /\ GuClientNext
       \/ guMode = "service" /\ GuServiceNext
       \/ \E r \in GuRelays : GuConsensus(r)
       \/ GuTick
    /\ UNCHANGED guMode

GuSpec == GuInit /\ [][GuNext]_guVars

-----------------------------------------------------------------------------

GuDistinct(s) == \A i, j \in DOMAIN s : i # j => s[i] # s[j]

\* The primary and confirmed lists of the guard state are indices into the
\* sampled list and must follow it through sampling, path-bias disabling,
\* saving and restart, while the worker updates them without the lock: the
\* samples and the confirmed list name no guard twice, an index names a guard
\* of the sample, a confirmed index one that was confirmed.  A primary guard
\* is enabled, except one the path-bias timer disabled between the worker's
\* test and its append (circuit.c:3110, 3186), and that one only until the
\* next path-bias check; and while a guard is enabled there is a primary.
GuListsAgree ==
    /\ GuDistinct([i \in DOMAIN gu.sampled |-> gu.sampled[i].id])
    /\ GuDistinct(gu.confirmed)
    /\ ToSet(gu.confirmed) \cup ToSet(gu.primary) \subseteq DOMAIN gu.sampled
    /\ \A i \in ToSet(gu.confirmed) : gu.sampled[i].confirmed
    /\ \A i \in ToSet(gu.primary) : gu.sampled[i].disabled => i \in guWorker.raced
    /\ guWorker.pc \notin {"testing", "adding"} /\ gu.primary = <<>> =>
        \A i \in DOMAIN gu.sampled : gu.sampled[i].disabled

\* The path-bias mutex "protects g_pathbias_guard_state": no interleaving of
\* the threads that use it lists a primary guard twice.
GuPrimaryDistinct == GuDistinct(gu.primary)

\* Whatever the guard state, the vanguards and the consensus have become, a
\* circuit never passes the same relay twice, never its own builder (a
\* pinned or configured guard apart, which the code does not compare with
\* it), and the client's exit was an exit that is not marked bad.
GuPathsSound ==
    /\ \A p \in {guAsync, guWorker.path} \ {<<>>} :
        GuDistinct(p) /\ {p[2], p[3]} \cap {GuSelf} = {}
            /\ "EXIT" \in GuFlags[p[3]] /\ "BADEXIT" \notin GuFlags[p[3]]
    /\ vgPath # <<>> => GuDistinct(vgPath) /\ vgPath[1] # GuSelf /\ vgPath[2] # GuSelf

\* A relay that asked to be middle-only is never the entry of a circuit.
GuMiddleOnlyKept ==
    \A p \in {guAsync, guWorker.path, vgPath} \ {<<>>} : "MIDDLEONLY" \notin GuFlags[p[1]]

\* Rotation and restarts keep a vanguard until it expires.
GuVanguardsKept ==
    [][ \A e \in ToSet(vg.l2) \cup ToSet(vg.l3) :
          guNow < e.expires => e \in ToSet(vg'.l2) \cup ToSet(vg'.l3) ]_guVars

=============================================================================
