----------------------------- MODULE Registration -----------------------------
(***************************************************************************)
(* A relay keeps itself registered with the directory authorities (relay.c  *)
(* and the relay's timers in main.c): the event loop and its background     *)
(* threads register, each registration spending one proof-of-work solution  *)
(* from a cache that a solver thread fills, and refresh the consensus.    *)
(* Timers may fire in any order.                                            *)
(***************************************************************************)
EXTENDS Integers, Sequences, FiniteSets

CONSTANTS RgDas,        \* 1..n: the authorities, in the order of da_list
          RgThreads,    \* background threads that may exist at a time
          RgWindow,     \* MOOR_POW_TIMESTAMP_WINDOW (300)
          RgSlack,      \* how long a nonce is remembered beyond it (60)
          RgSlots,      \* POW_NONCE_CACHE_SIZE (4096)
          RgProbes,     \* slots probed for a nonce (8)
          RgStuck,      \* RELAY_PERIODIC_MAX_SEC (120)
          RgKeyLife,    \* MOOR_ONION_KEY_LIFETIME_SEC
          RgMaxTime, RgMaxSolved, RgMaxCalls  \* bounds: clock, solutions, registrations

ASSUME RgAssumption ==
  /\ IsFiniteSet(RgDas) /\ RgDas # {} /\ RgDas = 1..Cardinality(RgDas)
  /\ RgSlots \in Nat \ {0} /\ RgProbes \in Nat \ {0}

VARIABLES rgTime,
          rgCfg,        \* "main": g_relay_cfg, "relay": g_relay_config, with bw, key and key's age
          rgPow,        \* the cached solution and its flags ready, failed, solving
          rgSolvers,    \* solver threads, by the time they began
          rgSolved,     \* solutions found so far; a solution is its number
          rgThread,     \* what each thread is doing
          rgFlag,       \* the running flag of each background job and when it was set
          rgRegistered, \* g_reg_registered
          rgArmed,      \* the registration retry timer exists
          rgTest,       \* the self-test: "due", "done" (its result waits), "over"
          rgDa,         \* per authority: its nonce cache, and whether it refused a solution
                        \* as seen before
          rgCalls

rgVars == <<rgTime, rgCfg, rgPow, rgSolvers, rgSolved, rgThread, rgFlag, rgRegistered,
            rgArmed, rgTest, rgDa, rgCalls>>

RgJobs == {"periodic", "retry"}
RgOff == [on |-> FALSE, since |-> 0]
RgNoDesc == [bw |-> 0, key |-> 0]
RgIdle == [job |-> "none", pc |-> "idle", desc |-> RgNoDesc, nonce |-> 0, ts |-> 0,
           da |-> 1, ok |-> FALSE]
RgUnseen == [nonce |-> 0, ts |-> 0, at |-> 0]

(* moor_relay_register, called on one of the two copies of the              *)
(* configuration: the descriptor is made from it first.                     *)
RgCall(job, cfg) ==
  [RgIdle EXCEPT !.job = job, !.pc = "start",
                 !.desc = [bw |-> rgCfg[cfg].bw, key |-> rgCfg[cfg].key]]

(* run_relay: the first registration runs before the event loop.            *)
RgInit ==
  /\ rgTime = 1
  /\ rgCfg = [c \in {"main", "relay"} |-> [bw |-> 1, key |-> 1, at |-> 0]]
  /\ rgPow = [ready |-> FALSE, failed |-> FALSE, solving |-> FALSE, nonce |-> 0, ts |-> 0]
  /\ rgSolvers = <<>> /\ rgSolved = 0
  /\ rgThread = [t \in RgThreads \cup {"main"} |->
                   IF t = "main" THEN [RgIdle EXCEPT !.job = "boot", !.pc = "start",
                                                     !.desc = [bw |-> 1, key |-> 1]]
                   ELSE RgIdle]
  /\ rgFlag = [j \in RgJobs |-> RgOff]
  /\ rgRegistered = FALSE /\ rgArmed = FALSE /\ rgTest = "due"
  /\ rgDa = [d \in RgDas |-> [seen |-> [i \in 1..RgSlots |-> RgUnseen], refused |-> FALSE]]
  /\ rgCalls = 1

-----------------------------------------------------------------------------
(* moor_pow_timestamp_is_fresh                                              *)
RgFresh(ts) ==
  /\ rgTime - ts <= RgWindow
  /\ rgTime \div RgWindow - ts \div RgWindow \in {0, 1}

(* What taking or discarding the solution leaves of the cache.              *)
MutRgTaken == rgPow
RgTaken == [rgPow EXCEPT !.ready = FALSE, !.nonce = 0, !.ts = 0]

(* moor_relay_pow_solve_start: an expired solution is discarded; a solver   *)
(* starts unless one is running or a solution is ready, and its thread may  *)
(* fail to start.                                                           *)
RgStart(t) ==
  LET ready == rgPow.ready /\ RgFresh(rgPow.ts)
      old == IF ready THEN rgPow ELSE RgTaken
  IN /\ rgThread[t].pc = "start"
     /\ rgThread' = [rgThread EXCEPT ![t].pc = "wait"]
     /\ \/ /\ ready \/ rgPow.solving
           /\ rgPow' = old /\ UNCHANGED rgSolvers
        \/ /\ ~ready /\ ~rgPow.solving
           /\ \/ /\ rgPow' = [old EXCEPT !.failed = FALSE, !.solving = TRUE]
                 /\ rgSolvers' = Append(rgSolvers, rgTime)
              \/ /\ rgPow' = [old EXCEPT !.failed = TRUE]
                 /\ UNCHANGED rgSolvers
     /\ UNCHANGED <<rgTime, rgCfg, rgSolved, rgFlag, rgRegistered, rgArmed, rgTest, rgDa, rgCalls>>

(* relay_pow_solve_thread ends: with a solution that is still fresh it      *)
(* fills the cache, otherwise it reports failure.                           *)
RgSolveEnds ==
  /\ rgSolvers # <<>>
  /\ rgSolvers' = Tail(rgSolvers)
  /\ \/ /\ RgFresh(Head(rgSolvers)) /\ rgSolved < RgMaxSolved
        /\ rgSolved' = rgSolved + 1
        /\ rgPow' = [ready |-> TRUE, failed |-> FALSE, solving |-> FALSE,
                     nonce |-> rgSolved + 1, ts |-> Head(rgSolvers)]
     \/ /\ rgPow' = [rgPow EXCEPT !.failed = TRUE, !.solving = FALSE]
        /\ UNCHANGED rgSolved
  /\ UNCHANGED <<rgTime, rgCfg, rgThread, rgFlag, rgRegistered, rgArmed, rgTest, rgDa, rgCalls>>

(* pow_cache_wait: it waits once, for a broadcast or the deadline, and may  *)
(* wake early; a fresh solution is taken out of the cache, and without one  *)
(* the registration solves for itself.                                      *)
RgWait(t) ==
  /\ rgThread[t].pc = "wait"
  /\ \/ /\ rgPow.ready /\ RgFresh(rgPow.ts)
        /\ rgPow' = RgTaken
        /\ rgThread' = [rgThread EXCEPT ![t].pc = "check", ![t].nonce = rgPow.nonce,
                                        ![t].ts = rgPow.ts]
     \/ /\ ~(rgPow.ready /\ RgFresh(rgPow.ts))
        /\ rgPow' = RgTaken
        /\ rgThread' = [rgThread EXCEPT ![t].pc = "inline", ![t].ts = rgTime]
  /\ UNCHANGED <<rgTime, rgCfg, rgSolvers, rgSolved, rgFlag, rgRegistered, rgArmed, rgTest,
                 rgDa, rgCalls>>

(* moor_pow_solve in the registering thread itself.                         *)
RgInline(t) ==
  /\ rgThread[t].pc = "inline"
  /\ \/ /\ rgSolved < RgMaxSolved
        /\ rgSolved' = rgSolved + 1
        /\ rgThread' = [rgThread EXCEPT ![t].pc = "check", ![t].nonce = rgSolved + 1]
     \/ /\ rgThread' = [rgThread EXCEPT ![t].pc = "end"]
        /\ UNCHANGED rgSolved
  /\ UNCHANGED <<rgTime, rgCfg, rgPow, rgSolvers, rgFlag, rgRegistered, rgArmed, rgTest, rgDa, rgCalls>>

RgCheck(t) ==
  /\ rgThread[t].pc = "check"
  /\ rgThread' = [rgThread EXCEPT ![t].pc = IF RgFresh(rgThread[t].ts) THEN "post" ELSE "end"]
  /\ UNCHANGED <<rgTime, rgCfg, rgPow, rgSolvers, rgSolved, rgFlag, rgRegistered, rgArmed,
                 rgTest, rgDa, rgCalls>>

-----------------------------------------------------------------------------
(* nonce_cache_check_and_insert: the slots probed for a nonce, those before *)
(* the first that is empty or out of date; a nonce found among these was    *)
(* seen, otherwise it goes to that slot, or replaces the oldest.            *)
RgProbed(n) == [k \in 1..RgProbes |-> ((n + k - 2) % RgSlots) + 1]

RgSeen(seen, n, ts) ==
  LET free(k) == LET e == seen[RgProbed(n)[k]]
                 IN e.at = 0 \/ rgTime > e.at + RgWindow + RgSlack
  IN \E k \in 1..RgProbes :
       /\ seen[RgProbed(n)[k]].nonce = n /\ seen[RgProbed(n)[k]].ts = ts
       /\ \A j \in 1..k : ~free(j)

RgInsert(seen, n, ts) ==
  LET free(k) == LET e == seen[RgProbed(n)[k]]
                 IN e.at = 0 \/ rgTime > e.at + RgWindow + RgSlack
      best(k) == \A j \in 1..RgProbes :
        IF \E i \in 1..RgProbes : free(i) THEN free(k) /\ (j < k => ~free(j))
        ELSE /\ seen[RgProbed(n)[k]].at <= seen[RgProbed(n)[j]].at
             /\ j < k => seen[RgProbed(n)[k]].at < seen[RgProbed(n)[j]].at
  IN [seen EXCEPT ![RgProbed(n)[CHOOSE k \in 1..RgProbes : best(k)]] =
        [nonce |-> n, ts |-> ts, at |-> rgTime]]

(* PUBLISH at an authority: moor_pow_verify; Directory has the rest.        *)
RgPublished(d, n, ts) ==
  IF ~RgFresh(ts) THEN rgDa
  ELSE IF RgSeen(rgDa[d].seen, n, ts) THEN [rgDa EXCEPT ![d].refused = TRUE]
  ELSE [rgDa EXCEPT ![d].seen = RgInsert(@, n, ts)]

(* relay_register_single, for one authority after the other: it may be out  *)
(* of reach, and its answer may be lost.                                    *)
RgPost(t) ==
  LET d == rgThread[t].da
      after == RgPublished(d, rgThread[t].nonce, rgThread[t].ts)
      accepted == after # rgDa /\ ~after[d].refused
      on(ok) == [rgThread EXCEPT ![t].ok = @ \/ ok, ![t].da = @ + 1,
                                 ![t].pc = IF d + 1 \in RgDas THEN "post" ELSE "end"]
  IN /\ rgThread[t].pc = "post"
     /\ \/ /\ rgThread' = on(FALSE)
           /\ UNCHANGED rgDa
        \/ /\ rgDa' = after
           /\ \E answered \in BOOLEAN : rgThread' = on(accepted /\ answered)
     /\ UNCHANGED <<rgTime, rgCfg, rgPow, rgSolvers, rgSolved, rgFlag, rgRegistered, rgArmed,
                    rgTest, rgCalls>>

(* moor_relay_register returns.  In the event loop a success at boot or on  *)
(* the retry timer stops the retries, and a failure at boot starts them; in *)
(* the periodic thread the consensus is fetched next; the retry thread only *)
(* notes a success.                                                         *)
RgReturn(t) ==
  LET me == rgThread[t]
  IN /\ me.pc = "end"
     /\ rgThread' = [rgThread EXCEPT ![t] =
          CASE t = "main" -> RgIdle
            [] t # "main" /\ me.job = "periodic" -> [RgIdle EXCEPT !.job = "periodic", !.pc = "fetch"]
            [] OTHER -> [RgIdle EXCEPT !.job = me.job, !.pc = "done"]]
     /\ rgRegistered' = (rgRegistered \/ (me.ok /\ me.job \in {"boot", "again", "retry"}))
     /\ rgArmed' = CASE me.job = "boot" -> ~me.ok
                     [] me.job = "again" -> ~me.ok
                     [] OTHER -> rgArmed
     /\ UNCHANGED <<rgTime, rgCfg, rgPow, rgSolvers, rgSolved, rgFlag, rgTest, rgDa, rgCalls>>

-----------------------------------------------------------------------------
(* moor_client_fetch_consensus_multi in a background thread, the relay's    *)
(* consensus replaced on success; the retry thread registers only then.     *)
RgFetch(t) ==
  /\ rgThread[t].pc = "fetch"
  /\ \/ /\ rgThread' = [rgThread EXCEPT ![t].pc = "done"]
        /\ UNCHANGED rgCalls
     \/ /\ rgThread[t].job = "retry" /\ rgCalls < RgMaxCalls
        /\ rgThread' = [rgThread EXCEPT ![t] = RgCall("retry", "main")]
        /\ rgCalls' = rgCalls + 1
  /\ UNCHANGED <<rgTime, rgCfg, rgPow, rgSolvers, rgSolved, rgFlag, rgRegistered, rgArmed,
                 rgTest, rgDa>>

(* A thread ends and releases its job's flag, whoever set it meanwhile.     *)
RgDone(t) ==
  /\ rgThread[t].pc = "done"
  /\ rgThread' = [rgThread EXCEPT ![t] = RgIdle]
  /\ rgFlag' = [rgFlag EXCEPT ![rgThread[t].job] = RgOff]
  /\ UNCHANGED <<rgTime, rgCfg, rgPow, rgSolvers, rgSolved, rgRegistered, rgArmed, rgTest,
                 rgDa, rgCalls>>

-----------------------------------------------------------------------------
(* Callbacks run when the event loop is not inside a registration.          *)
RgLoop == rgThread["main"].pc = "idle"

RgIsStuck(j) == rgFlag[j].on /\ rgTime - rgFlag[j].since > RgStuck

RgFreeThreads == {t \in RgThreads : rgThread[t].pc = "idle"}

(* The job's flag is taken and its thread started, or the thread cannot be  *)
(* started and the flag is released again.                                  *)
RgSpawn(j, first) ==
  \/ \E t \in RgFreeThreads :
       /\ rgFlag' = [rgFlag EXCEPT ![j] = [on |-> TRUE, since |-> rgTime]]
       /\ rgThread' = [rgThread EXCEPT ![t] = first]
  \/ /\ rgFlag' = [rgFlag EXCEPT ![j] = RgOff]
     /\ UNCHANGED rgThread

(* relay_periodic_cb: the self-test's result is taken, the onion key        *)
(* rotated when it is due, and the periodic thread started unless one is    *)
(* running that is not stuck.                                               *)
RgPeriodicCb ==
  LET due == rgCfg.relay.at # 0 /\ rgTime - rgCfg.relay.at >= RgKeyLife
      rotated == IF due THEN [rgCfg.relay EXCEPT !.key = @ + 1, !.at = rgTime]
                 ELSE [rgCfg.relay EXCEPT !.at = IF @ = 0 THEN rgTime ELSE @]
  IN /\ RgLoop /\ rgCalls < RgMaxCalls
     /\ rgTest' = IF rgTest = "done" THEN "over" ELSE rgTest
     /\ rgCfg' = [main |-> IF rgTest = "done" THEN [rgCfg.main EXCEPT !.bw = 2] ELSE rgCfg.main,
                  relay |-> rotated]
     /\ \/ /\ rgFlag.periodic.on /\ ~RgIsStuck("periodic")
           /\ UNCHANGED <<rgFlag, rgThread, rgCalls>>
        \/ /\ ~rgFlag.periodic.on \/ RgIsStuck("periodic")
           /\ RgSpawn("periodic", [RgIdle EXCEPT !.job = "periodic", !.pc = "start",
                                     !.desc = [bw |-> rotated.bw, key |-> rotated.key]])
           /\ rgCalls' = rgCalls + 1
     /\ UNCHANGED <<rgTime, rgPow, rgSolvers, rgSolved, rgRegistered, rgArmed, rgDa>>

(* relay_consensus_retry_cb: a stuck thread only has its flag released.     *)
RgRetryCb ==
  /\ RgLoop
  /\ \/ /\ RgIsStuck("retry")
        /\ rgFlag' = [rgFlag EXCEPT !.retry = RgOff]
        /\ UNCHANGED rgThread
     \/ /\ ~rgFlag.retry.on
        /\ RgSpawn("retry", [RgIdle EXCEPT !.job = "retry", !.pc = "fetch"])
  /\ UNCHANGED <<rgTime, rgCfg, rgPow, rgSolvers, rgSolved, rgRegistered, rgArmed, rgTest,
                 rgDa, rgCalls>>

(* reg_retry_cb and the reload on SIGHUP register in the event loop itself. *)
RgRegRetryCb ==
  /\ RgLoop /\ rgArmed
  /\ \/ /\ rgRegistered
        /\ rgArmed' = FALSE /\ UNCHANGED <<rgThread, rgCalls>>
     \/ /\ ~rgRegistered /\ rgCalls < RgMaxCalls
        /\ rgThread' = [rgThread EXCEPT !["main"] = RgCall("again", "main")]
        /\ rgCalls' = rgCalls + 1 /\ UNCHANGED rgArmed
  /\ UNCHANGED <<rgTime, rgCfg, rgPow, rgSolvers, rgSolved, rgFlag, rgRegistered, rgTest,
                 rgDa>>

RgReload ==
  /\ RgLoop /\ rgCalls < RgMaxCalls
  /\ rgThread' = [rgThread EXCEPT !["main"] = RgCall("reload", "main")]
  /\ rgCalls' = rgCalls + 1
  /\ UNCHANGED <<rgTime, rgCfg, rgPow, rgSolvers, rgSolved, rgFlag, rgRegistered, rgArmed,
                 rgTest, rgDa>>

(* The self-test runs once, in a thread of its own: it connects to the      *)
(* relay's own port, in up to two attempts, and measures the bandwidth.     *)
RgSelfTest ==
  /\ rgTest = "due"
  /\ \E next \in {"done", "over"} : rgTest' = next
  /\ UNCHANGED <<rgTime, rgCfg, rgPow, rgSolvers, rgSolved, rgThread, rgFlag, rgRegistered,
                 rgArmed, rgDa, rgCalls>>

RgTick ==
  /\ rgTime < RgMaxTime /\ rgTime' = rgTime + 1
  /\ UNCHANGED <<rgCfg, rgPow, rgSolvers, rgSolved, rgThread, rgFlag, rgRegistered, rgArmed,
                 rgTest, rgDa, rgCalls>>

RgNext ==
  \/ \E t \in RgThreads \cup {"main"} :
       \/ RgStart(t) \/ RgWait(t) \/ RgInline(t) \/ RgCheck(t) \/ RgPost(t) \/ RgReturn(t)
       \/ RgFetch(t) \/ RgDone(t)
  \/ RgSolveEnds
  \/ RgPeriodicCb \/ RgRetryCb \/ RgRegRetryCb \/ RgReload
  \/ RgSelfTest \/ RgTick

RgSpec == RgInit /\ [][RgNext]_rgVars

-----------------------------------------------------------------------------
RgHeld == {t \in RgThreads \cup {"main"} : rgThread[t].pc \in {"check", "post"}}

(* However the threads that register overlap, a solution is spent by one    *)
(* registration only, so no authority refuses a registration as a replay;   *)
(* and one solver thread runs exactly when the cache says so (relay.c:      *)
(* "Each solution is one-shot because DAs maintain a nonce replay cache.").  *)
RgOneShot ==
  /\ \A d \in RgDas : ~rgDa[d].refused
  /\ \A t, u \in RgHeld : rgThread[t].nonce = rgThread[u].nonce => t = u
  /\ \A t \in RgHeld : rgPow.ready => rgThread[t].nonce # rgPow.nonce
  /\ Len(rgSolvers) = IF rgPow.solving THEN 1 ELSE 0

(* The periodic thread that relay_periodic_cb starts registers with the     *)
(* bandwidth the self-test measured (main.c: "Registration with new         *)
(* bandwidth runs in the periodic thread below").                           *)
RgNewBandwidthSent ==
  \A t \in RgThreads : rgThread[t].job = "periodic" /\ rgThread[t].pc = "start" =>
    rgThread[t].desc.bw = rgCfg.main.bw

(* A registration begins with the onion key that CREATE cells are answered  *)
(* with at that time, which rotation changes (relay.c,                      *)
(* moor_relay_rotate_onion_key).                                            *)
RgKeySent ==
  [][\A t \in RgThreads \cup {"main"} :
       rgThread[t].pc # "start" /\ rgThread'[t].pc = "start" =>
         rgThread'[t].desc.key = rgCfg'.relay.key]_rgVars
=============================================================================
