---------------------------- MODULE CircuitBuild ----------------------------
(***************************************************************************)
(* The client's non-blocking circuit builder (cbuild_* of circuit.c), the  *)
(* pool of ready circuits that drives it (prebuilt_* of socks5.c), and the *)
(* channels, links and timers both of them share.                          *)
(*                                                                         *)
(* A build allocates a circuit, arms a timer, picks a path and either      *)
(* rides on the open channel to its guard or opens one; the answers of the *)
(* relays, the timer, a DESTROY and the loss of the link all race to end   *)
(* it.  Circuits, links, channels and timers are slots that are reused, as *)
(* the allocator and the pools reuse them, so that a stale pointer in the  *)
(* code is a stale slot here.  One guard: every build wants its channel.   *)
(***************************************************************************)
EXTENDS Integers, Sequences, FiniteSets, SequencesExt

CONSTANTS
    CbCircs, CbConns, CbChans, CbTimers,  \* the slots of each kind
    CbHops,              \* MOOR_CIRCUIT_HOPS
    CbMuxMax,            \* MOOR_MUX_MAX
    CbMaxConcurrent,     \* MAX_CONCURRENT_BUILDS
    CbPreemptiveMin,     \* MOOR_PREEMPTIVE_MIN
    CbPoolSize,          \* PREBUILT_POOL_SIZE
    CbWedgeThreshold,    \* MOOR_CHAN_CBT_TIMEOUT_THRESHOLD
    CbMaxBuilds,         \* bound: builds started
    CbMaxFaults,         \* bound: bad answers, lost links, aged circuits
    CbMaxClients         \* bound: clients that ask for a circuit

VARIABLES
    cb,                  \* the builder's state, a record (see CbInit)
    cbBudget             \* what the bounds leave

cbVars == <<cb, cbBudget>>

CbNone == "none"
CbFreeCirc ==
    [alive |-> FALSE, ctx |-> FALSE, step |-> "none", hops |-> 0,
     timer |-> CbNone, timed_out |-> FALSE, marked |-> FALSE,
     cancelled |-> FALSE, conn |-> CbNone, chan |-> CbNone,
     counted |-> FALSE, cached |-> FALSE, old |-> FALSE]
CbFreeConn == [st |-> "none", refs |-> 0, hs |-> CbNone, ev |-> FALSE,
               short |-> FALSE]
CbFreeChan == [st |-> "closed", conn |-> CbNone, wedge |-> 0, bad |-> FALSE,
               mux |-> {}]

\* hs of a link is its handshake: "none" when it has no hs_state, "off" when
\* the callback was disarmed, "freed" when it holds a circuit that is gone, else
\* the circuit that waits for it.  counted says that the circuit has raised the
\* reference count of its link.  Three flags remember what the code got wrong:
\* short, that the count was lowered for a build that never raised it; overdue,
\* that check_timeouts marked a build whose link was still connecting; stale,
\* that a handshake called back for a circuit that is gone.
CbInit ==
    /\ cb = [circ |-> [c \in CbCircs |-> CbFreeCirc],
             conn |-> [n \in CbConns |-> CbFreeConn],
             chan |-> [h \in CbChans |-> CbFreeChan],
             timer |-> [t \in CbTimers |-> CbNone],
             pool |-> <<>>,        \* g_prebuilt_pool
             pend |-> <<>>,        \* g_pending_close
             inflight |-> 0,       \* g_inflight_builds
             failures |-> 0,       \* g_consecutive_build_failures
             waiting |-> 0,        \* clients in SOCKS5_STATE_BUILDING
             overdue |-> FALSE, stale |-> FALSE]
    /\ cbBudget = [builds |-> CbMaxBuilds, faults |-> CbMaxFaults,
                   clients |-> CbMaxClients]

CbSpend(k) == /\ cbBudget[k] > 0
              /\ cbBudget' = [cbBudget EXCEPT ![k] = @ - 1]

-----------------------------------------------------------------------------
(* Marking, closing and freeing.  Each operator takes the state s and      *)
(* returns the state after the call.                                       *)

\* moor_circuit_mark_for_close: the first mark cancels a build and queues
\* the circuit for the end of the loop.
MarkCirc(s, c) ==
    IF ~s.circ[c].alive \/ s.circ[c].marked THEN s
    ELSE [s EXCEPT !.circ[c].marked = TRUE,
                   !.circ[c].cancelled = s.circ[c].ctx,
                   !.pend = Append(@, c)]

\* moor_channel_mark_for_close and the change of state: every circuit of
\* the mux is marked with the channel.
MarkChan(s, h) ==
    IF s.chan[h].st \notin {"opening", "open"} THEN s
    ELSE FoldSet(LAMBDA c, t : MarkCirc(t, c),
                 [s EXCEPT !.chan[h].st = "closing"], s.chan[h].mux)

\* moor_circuit_nullify_conn, then moor_channel_nullify_conn.
NullifyConn(s, n) ==
    LET users == {c \in CbCircs : s.circ[c].alive /\ s.circ[c].conn = n}
        cut == [s EXCEPT !.circ = [c \in CbCircs |->
                    IF c \in users
                    THEN [s.circ[c] EXCEPT !.conn = CbNone, !.counted = FALSE]
                    ELSE s.circ[c]]]
        owners == {h \in CbChans : s.chan[h].conn = n}
    IN FoldSet(LAMBDA h, t : MarkChan([t EXCEPT !.chan[h].conn = CbNone], h),
               cut, owners)

\* moor_connection_close: nothing to do for a slot that is free already.
CloseConn(s, n) ==
    IF s.conn[n].st = "none" THEN s
    ELSE [NullifyConn(s, n) EXCEPT !.conn[n] = CbFreeConn]

RemoveTimer(s, t) == IF t = CbNone THEN s ELSE [s EXCEPT !.timer[t] = CbNone]

\* circ_cleanup_unlocked: every reference to the circuit is taken back, the
\* build's context and timer with it.
CleanupCirc(s, c) ==
    LET r == s.circ[c]
        n == r.conn
        h == r.chan
        unpooled == [s EXCEPT !.pool = [i \in DOMAIN @ |->
                                   IF @[i] = c THEN CbNone ELSE @[i]]]
        unref == IF n = CbNone \/ s.conn[n].refs = 0 THEN unpooled
                 ELSE [unpooled EXCEPT !.conn[n].refs = @ - 1]
        detached == IF h = CbNone THEN unref
                    ELSE [unref EXCEPT !.chan[h].mux = @ \ {c}]
        timers == IF r.ctx THEN RemoveTimer(detached, r.timer) ELSE detached
    IN [timers EXCEPT !.circ[c] = CbFreeCirc,
                      !.conn = [m \in CbConns |->
                          IF @[m].hs = c THEN [@[m] EXCEPT !.hs = "freed"] ELSE @[m]]]

\* moor_circuit_free leaves a marked circuit to the close list.
FreeCirc(s, c) == IF s.circ[c].marked THEN s ELSE CleanupCirc(s, c)

-----------------------------------------------------------------------------
(* The pool.                                                               *)

\* An entry prebuilt_pop hands out: live, its link open, not aged.
Usable(s, c) == /\ c /= CbNone
                /\ s.circ[c].alive
                /\ s.circ[c].conn /= CbNone
                /\ s.conn[s.circ[c].conn].st = "open"
                /\ ~s.circ[c].old

\* prebuilt_pop: the newest usable entry; the ones above it are thrown away.
PoolTop(s) ==
    LET good == {i \in DOMAIN s.pool : Usable(s, s.pool[i])}
    IN IF good = {} THEN 0 ELSE Max(good)

PoolPop(s) ==
    LET top == PoolTop(s)
        gone == {s.pool[i] : i \in (top + 1)..Len(s.pool)} \ {CbNone}
        cut == [s EXCEPT !.pool = SubSeq(@, 1, IF top = 0 THEN 0 ELSE top - 1)]
    IN FoldSet(LAMBDA c, t : MarkCirc(t, c), cut, gone)

\* get_circuit_for_domain: the popped circuit goes to the cache.
Assign(s) ==
    [PoolPop(s) EXCEPT !.circ[s.pool[PoolTop(s)]].cached = TRUE]

\* assign_circuits_to_waiting_clients, for a client of a new domain each.
AssignWaiting(s) ==
    IF s.waiting = 0 \/ PoolTop(s) = 0 THEN s
    ELSE LET once == [Assign(s) EXCEPT !.waiting = @ - 1]
         IN IF once.waiting = 0 \/ PoolTop(once) = 0 THEN once
            ELSE [Assign(once) EXCEPT !.waiting = @ - 1]

\* prebuilt_build_complete.
BuildComplete(s, c, ok) ==
    LET counted == [s EXCEPT !.inflight = @ - 1]
        n == s.circ[c].conn
    IN IF ~ok THEN [counted EXCEPT !.failures = @ + 1]
       ELSE IF Len(s.pool) < CbPoolSize
            THEN AssignWaiting([counted EXCEPT !.failures = 0,
                                               !.pool = Append(@, c)])
            ELSE LET gone == MarkCirc([counted EXCEPT !.failures = 0], c)
                 IN IF n = CbNone THEN gone ELSE CloseConn(gone, n)

-----------------------------------------------------------------------------
(* The end of a build.                                                     *)

\* The breaker: a channel whose builds keep timing out is evicted.
Wedge(s, c) ==
    LET h == s.circ[c].chan IN
    IF ~s.circ[c].timed_out \/ h = CbNone \/ s.chan[h].bad THEN s
    ELSE LET more == [s EXCEPT !.chan[h].wedge = @ + 1] IN
         IF more.chan[h].wedge < CbWedgeThreshold THEN more
         ELSE MarkChan([more EXCEPT !.chan[h].bad = TRUE], h)

DetachFromChannel(s, c) ==
    LET h == s.circ[c].chan IN
    IF h = CbNone THEN s
    ELSE LET cut == [s EXCEPT !.chan[h].mux = @ \ {c}]
             shut == IF cut.chan[h].mux = {} THEN MarkChan(cut, h) ELSE cut
         IN [shut EXCEPT !.circ[c].chan = CbNone]

\* Mutant: the callback of the handshake still holds the build's context.
MutDisarm(s, c) == s

Disarm(s, c) ==
    LET n == s.circ[c].conn IN
    IF n = CbNone \/ s.conn[n].hs = CbNone THEN s
    ELSE [s EXCEPT !.conn[n].hs = "off"]

\* The link of a failed build: its count drops, and with no circuit left
\* an open link is closed.
DropLink(s, c) ==
    LET n == s.circ[c].conn
        less == [s EXCEPT !.conn[n].refs = IF @ > 0 THEN @ - 1 ELSE 0,
                          !.circ[c].counted = FALSE]
    IN IF n = CbNone THEN s
       ELSE [(IF less.conn[n].refs = 0 /\ less.conn[n].st = "open"
              THEN CloseConn(less, n) ELSE less)
             EXCEPT !.circ[c].conn = CbNone]

\* cbuild_finish.
Finish(s, c, ok) ==
    LET untimed == RemoveTimer(s, s.circ[c].timer)
        settled == IF ok
                   THEN IF s.circ[c].chan = CbNone THEN untimed
                        ELSE [untimed EXCEPT !.chan[s.circ[c].chan].wedge = 0]
                   ELSE DropLink(Disarm(DetachFromChannel(
                            Wedge(untimed, c), c), c), c)
        done == [settled EXCEPT !.circ[c].ctx = FALSE,
                                !.circ[c].step = "none",
                                !.circ[c].timer = CbNone]
        told == BuildComplete(done, c, ok)
    IN IF ok THEN told ELSE FreeCirc(told, c)

-----------------------------------------------------------------------------
(* The steps of a build.                                                   *)

\* cbuild_on_connect with status 0, then cbuild_send_create; sent says
\* whether the link took the CREATE cell.
OnConnect(s, c, n, sent) ==
    IF s.circ[c].cancelled \/ ~s.circ[c].ctx
    THEN IF s.circ[c].ctx THEN Finish(s, c, FALSE) ELSE s
    ELSE
    LET h == s.circ[c].chan
        opening == h /= CbNone /\ s.chan[h].st = "opening"
        opened == IF ~opening THEN s
                  ELSE [s EXCEPT !.chan[h].st = "open", !.chan[h].conn = n,
                                 !.chan[h].mux = @ \cup {c}]
        linked == [opened EXCEPT !.circ[c].conn = n,
                                 !.circ[c].counted = TRUE,
                                 !.conn[n].refs = @ + 1,
                                 !.conn[n].ev = TRUE]
    IN IF ~sent THEN Finish(linked, c, FALSE)
       ELSE [linked EXCEPT !.circ[c].step = "created"]

\* What building c starts from: an allocated circuit with its context, and
\* a timer when one of the slots is free.
Begun(s, c) ==
    LET free == {t \in CbTimers : s.timer[t] = CbNone}
        t == IF free = {} THEN CbNone ELSE CHOOSE x \in free : TRUE
        circ == [CbFreeCirc EXCEPT !.alive = TRUE, !.ctx = TRUE,
                                   !.step = "connecting", !.timer = t]
        put == [s EXCEPT !.circ[c] = circ]
    IN IF t = CbNone THEN put ELSE [put EXCEPT !.timer[t] = c]

\* A build that gives up inside moor_circuit_build_async: the context is
\* freed there, the circuit by the caller, with the channel and the link it was
\* given if the channel was full.
GivenUp(s, c) ==
    FreeCirc([s EXCEPT !.circ[c].ctx = FALSE, !.circ[c].timer = CbNone], c)

\* Mutant: a channel that is still opening is not found, and every build
\* opens one of its own.
MutGuardChannel(s) ==
    LET found == {h \in CbChans : s.chan[h].st = "open" /\ ~s.chan[h].bad}
    IN IF found = {} THEN CbNone ELSE CHOOSE h \in found : TRUE

\* The channel find_by_identity answers with.
GuardChannel(s) ==
    LET found == {h \in CbChans : /\ s.chan[h].st \in {"opening", "open"}
                                  /\ ~s.chan[h].bad}
    IN IF found = {} THEN CbNone ELSE CHOOSE h \in found : TRUE

\* The states moor_circuit_build_async can leave behind: `sent' as above;
\* "nopath" when a relay is missing, "noconnect" when connect fails at once.
BuildAsync(s, c, how) ==
    LET b == Begun(s, c)
        h == GuardChannel(b)
        ready == /\ h /= CbNone
                 /\ b.chan[h].st = "open"
                 /\ b.chan[h].conn /= CbNone
                 /\ b.conn[b.chan[h].conn].st = "open"
        freeChan == {x \in CbChans : b.chan[x].st = "closed"}
        freeConn == {x \in CbConns : b.conn[x].st = "none"}
        x == CHOOSE y \in freeChan : TRUE
        n == CHOOSE y \in freeConn : TRUE
    IN CASE how = "nopath" -> {GivenUp(b, c)}
       [] how /= "nopath" /\ ready ->
            IF Cardinality(b.chan[h].mux) >= CbMuxMax
            THEN {GivenUp([b EXCEPT !.circ[c].chan = h,
                                    !.circ[c].conn = b.chan[h].conn,
                                    !.conn[b.chan[h].conn].short = TRUE], c)}
            ELSE {[OnConnect([b EXCEPT !.circ[c].chan = h,
                                       !.circ[c].conn = b.chan[h].conn,
                                       !.chan[h].mux = @ \cup {c}],
                             c, b.chan[h].conn, how = "sent")
                   EXCEPT !.inflight = @ + 1]}
       [] how /= "nopath" /\ ~ready /\ h /= CbNone /\ b.chan[h].st = "opening" ->
            {GivenUp(b, c)}
       [] OTHER ->
            IF freeChan = {} \/ freeConn = {} THEN {GivenUp(b, c)}
            ELSE IF how = "noconnect"
            THEN {GivenUp(b, c)}
            ELSE {[b EXCEPT !.chan[x] = [CbFreeChan EXCEPT !.st = "opening"],
                            !.circ[c].chan = x,
                            !.circ[c].conn = n,
                            !.conn[n] = [CbFreeConn EXCEPT !.st = "connecting",
                                                           !.hs = c],
                            !.inflight = @ + 1]}

FreeSlots == {c \in CbCircs : ~cb.circ[c].alive}

\* prebuilt_timer_cb.
CbPrebuilt(c, how) ==
    /\ CbSpend("builds")
    /\ c \in FreeSlots
    /\ cb.inflight < CbMaxConcurrent
    /\ Len(cb.pool) + cb.inflight < CbPreemptiveMin
    /\ Len(cb.pool) < CbPoolSize
    /\ cb' \in BuildAsync(cb, c, how)

\* A client of a new domain is given a ready circuit, or waits.  Without
\* one a build is started on demand, unless too many are under way.
CbClientServed ==
    /\ CbSpend("clients")
    /\ PoolTop(cb) /= 0
    /\ cb' = Assign(cb)

CbClientWaits ==
    /\ CbSpend("clients")
    /\ PoolTop(cb) = 0
    /\ FreeSlots = {} \/ cb.inflight >= CbMaxConcurrent
    /\ cb' = [PoolPop(cb) EXCEPT !.waiting = @ + 1]

CbOnDemand(c, how) ==
    /\ CbSpend("clients")
    /\ PoolTop(cb) = 0
    /\ c \in FreeSlots
    /\ cb.inflight < CbMaxConcurrent
    /\ \E s \in BuildAsync(PoolPop(cb), c, how) :
          cb' = [s EXCEPT !.waiting = @ + 1]

\* The handshake of a link ends well (hs_async_complete) or not
\* (hs_async_fail, hs_timeout_cb).
CbConnected(n, sent) ==
    /\ cb.conn[n].st = "connecting"
    /\ sent \/ cbBudget.faults > 0
    /\ cbBudget' = [cbBudget EXCEPT !.faults = IF sent THEN @ ELSE @ - 1]
    /\ LET c == cb.conn[n].hs
           open == [cb EXCEPT !.conn[n].st = "open", !.conn[n].hs = CbNone]
       IN cb' = CASE c = "off" -> open
                  [] c = "freed" -> [open EXCEPT !.stale = TRUE]
                  [] OTHER -> OnConnect(open, c, n, sent)

CbConnectFails(n) ==
    /\ CbSpend("faults")
    /\ cb.conn[n].st = "connecting"
    /\ LET c == cb.conn[n].hs
           shut == [cb EXCEPT !.conn[n] = CbFreeConn]
       IN cb' = CASE c = "off" -> shut
                  [] c = "freed" -> [shut EXCEPT !.stale = TRUE]
                  [] OTHER -> IF cb.circ[c].ctx THEN Finish(shut, c, FALSE) ELSE shut

\* A cell for the building circuit c can be looked up: marked circuits are
\* invisible to moor_circuit_find.
Reachable(c) == /\ cb.circ[c].alive /\ cb.circ[c].ctx /\ ~cb.circ[c].marked
                /\ cb.circ[c].conn /= CbNone
                /\ cb.conn[cb.circ[c].conn].st = "open"
                /\ cb.conn[cb.circ[c].conn].ev

\* cbuild_send_next_onion_skin after one more hop.
NextSkin(s, c) ==
    LET longer == [s EXCEPT !.circ[c].hops = @ + 1] IN
    IF longer.circ[c].hops >= CbHops THEN Finish(longer, c, TRUE)
    ELSE [longer EXCEPT !.circ[c].step = "extended"]

\* moor_circuit_build_handle_created and _handle_extended: the right answer
\* adds a hop.
CbAnswered(c) ==
    /\ Reachable(c)
    /\ cb.circ[c].step \in {"created", "extended"}
    /\ cb' = NextSkin(cb, c)
    /\ UNCHANGED cbBudget

\* A wrong command, a short or unauthentic answer, a link that takes no
\* cell, and a DESTROY (moor_circuit_build_abort) end the build.
CbRefused(c) ==
    /\ CbSpend("faults")
    /\ Reachable(c)
    /\ cb' = Finish(cb, c, FALSE)

\* A RELAY cell that does not decrypt, or an EXTENDED out of turn, marks
\* the circuit.
CbGarbled(c) ==
    /\ CbSpend("faults")
    /\ Reachable(c)
    /\ cb' = MarkCirc(cb, c)

\* A DESTROY for a circuit that waits in the pool or serves a client.
CbDestroyed(c) ==
    /\ CbSpend("faults")
    /\ cb.circ[c].alive /\ ~cb.circ[c].ctx /\ ~cb.circ[c].marked
    /\ cb.circ[c].conn /= CbNone
    /\ LET gone == {i \in DOMAIN cb.pool : cb.pool[i] = c}
           last == Len(cb.pool)
           swapped == [i \in 1..(last - 1) |->
                          IF i \in gone THEN cb.pool[last] ELSE cb.pool[i]]
       IN cb' = MarkCirc([cb EXCEPT !.pool = IF gone = {} THEN @ ELSE swapped,
                                    !.circ[c].cached = FALSE], c)

\* ev_timer_cb and cbuild_timeout_cb: a slot whose callback does not remove
\* it is armed again.
CbTimerFires(t) ==
    LET c == cb.timer[t] IN
    /\ c /= CbNone
    /\ cb.circ[c].alive /\ cb.circ[c].ctx
    /\ cb' = Finish(RemoveTimer([cb EXCEPT !.circ[c].timer = CbNone,
                                           !.circ[c].timed_out = TRUE],
                                cb.circ[c].timer), c, FALSE)
    /\ UNCHANGED cbBudget

\* circuit_read_cb finds the link dead: cached circuits are marked, the
\* link is closed, and the channel takes its other circuits with it.
CbLinkLost(n) ==
    /\ CbSpend("faults")
    /\ cb.conn[n].st = "open" /\ cb.conn[n].ev
    /\ LET served == {c \in CbCircs : /\ cb.circ[c].cached
                                      /\ cb.circ[c].conn = n}
       IN cb' = CloseConn(FoldSet(LAMBDA c, s : MarkCirc(s, c), cb, served), n)

\* moor_socks5_invalidate_circuit: pool and cache forget the circuit.
Invalidate(s, c) ==
    [s EXCEPT !.pool = [i \in DOMAIN @ |-> IF @[i] = c THEN CbNone ELSE @[i]],
              !.circ[c].cached = FALSE]

\* A ready circuit is too old to be handed out.
CbAges(c) ==
    /\ CbSpend("faults")
    /\ \E i \in DOMAIN cb.pool : cb.pool[i] = c
    /\ cb.circ[c].alive /\ ~cb.circ[c].old
    /\ cb' = [cb EXCEPT !.circ[c].old = TRUE]

\* moor_circuit_check_timeouts: a circuit that is still incomplete after
\* MOOR_CIRCUIT_TIMEOUT, with or without a timer of its own, and one that is
\* complete and due for rotation, are forgotten and marked.
CbReaped(c) ==
    /\ CbSpend("faults")
    /\ cb.circ[c].alive
    /\ cb' = [MarkCirc(Invalidate(cb, c), c)
              EXCEPT !.overdue = @ \/ cb.circ[c].step = "connecting"]

\* postloop_cb: moor_circuit_close_all_marked, moor_channel_close_all_marked.
CloseMarked(s) ==
    FoldSeq(LAMBDA c, t : CleanupCirc(t, c), [s EXCEPT !.pend = <<>>], s.pend)

CloseChannels(s) ==
    LET closing == {h \in CbChans : s.chan[h].st = "closing"}
        Shut(h, t) == LET n == t.chan[h].conn
                          u == IF n = CbNone THEN t ELSE CloseConn(t, n)
                      IN [u EXCEPT !.chan[h] = CbFreeChan]
    IN FoldSet(Shut, s, closing)

CbPostloop ==
    /\ cb.pend /= <<>> \/ \E h \in CbChans : cb.chan[h].st = "closing"
    /\ cb' = CloseChannels(CloseMarked(cb))
    /\ UNCHANGED cbBudget

CbWays == {"sent", "unsent", "nopath", "noconnect"}

CbStep ==
    \/ \E c \in CbCircs, how \in CbWays : CbPrebuilt(c, how) \/ CbOnDemand(c, how)
    \/ CbClientServed \/ CbClientWaits
    \/ \E n \in CbConns : \/ \E sent \in BOOLEAN : CbConnected(n, sent)
                          \/ CbConnectFails(n) \/ CbLinkLost(n)
    \/ \E c \in CbCircs : \/ CbAnswered(c) \/ CbRefused(c) \/ CbGarbled(c)
                          \/ CbDestroyed(c) \/ CbAges(c) \/ CbReaped(c)
    \/ \E t \in CbTimers : CbTimerFires(t)
    \/ CbPostloop

\* The model ends where cbuild_on_connect runs on freed memory.
CbNext == ~cb.stale /\ CbStep

-----------------------------------------------------------------------------
(* Properties.                                                             *)

CbLive == {c \in CbCircs : cb.circ[c].alive}

\* Nothing refers to a slot that was freed: the pool, the close list, the
\* muxes, the links of channels and the callbacks of handshakes name live
\* objects that know of it, whichever of the answer, the timer, the DESTROY
\* and the loss of the link came first (cbuild_finish, circ_cleanup_unlocked,
\* moor_connection_close).  Only a build that check_timeouts marks while its
\* link is connecting leaves a handshake with a circuit that is gone.
CbNoDangling ==
    /\ cb.inflight \in 0..CbMaxConcurrent
    /\ \A i \in DOMAIN cb.pool : cb.pool[i] \in CbLive \cup {CbNone}
    /\ ToSet(cb.pend) = {c \in CbLive : cb.circ[c].marked}
    /\ Cardinality(ToSet(cb.pend)) = Len(cb.pend)
    /\ \A h \in CbChans :
          /\ \A c \in cb.chan[h].mux : c \in CbLive /\ cb.circ[c].chan = h
          /\ cb.chan[h].conn /= CbNone => cb.conn[cb.chan[h].conn].st = "open"
    /\ \A n \in CbConns :
          /\ cb.conn[n].hs = "freed" => cb.overdue
          /\ cb.conn[n].hs \in CbCircs =>
               LET r == cb.circ[cb.conn[n].hs]
               IN r.alive /\ r.ctx /\ r.step = "connecting" /\ r.conn = n
    /\ \A c \in CbLive :
          /\ cb.circ[c].conn /= CbNone => cb.conn[cb.circ[c].conn].st /= "none"
          /\ cb.circ[c].chan /= CbNone => cb.chan[cb.circ[c].chan].st /= "closed"

\* The reference count of a link is the number of circuits that have raised
\* it, so a link is closed exactly when its last circuit leaves it, until a
\* build gives up on the link's full channel; and at most one channel to the
\* guard is being opened (no thundering herd).
CbRefsExact ==
    /\ \A n \in CbConns : ~cb.conn[n].short =>
          cb.conn[n].refs = Cardinality({c \in CbLive : /\ cb.circ[c].counted
                                                        /\ cb.circ[c].conn = n})
    /\ Cardinality({h \in CbChans : cb.chan[h].st = "opening"}) <= 1

\* The in-flight count is the number of builds under way, so that the pool
\* can always be refilled.
CbInflightExact ==
    cb.inflight = Cardinality({c \in CbLive : cb.circ[c].ctx})

\* An armed timer belongs to a build under way.
CbTimersOwned ==
    \A t \in CbTimers : cb.timer[t] /= CbNone =>
        cb.timer[t] \in CbLive /\ cb.circ[cb.timer[t]].timer = t

=============================================================================
