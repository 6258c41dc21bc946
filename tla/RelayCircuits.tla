---------------------------- MODULE RelayCircuits ---------------------------
(***************************************************************************)
(* Life and death of a relay's circuits, links and channels: circuit.c     *)
(* (pool, mark for close), connection.c (pool, close, reaper), channel.c,  *)
(* and the handlers of relay.c and main.c that create, extend, join and    *)
(* destroy circuits.                                                       *)
(*                                                                         *)
(* Handlers run to completion on the event loop; extend workers are        *)
(* threads that hand their result to the loop.  Circuits are freed only by *)
(* the post-loop pass, between handlers.  A link is a pool slot when the   *)
(* peer connected to us and heap memory when a worker made it.             *)
(***************************************************************************)
EXTENDS Integers, Sequences, FiniteSets

CONSTANTS
    None,         \* the null pointer
    Circuits,     \* circuit structures (memory the allocator may reuse)
    Links,        \* slots of g_conn_pool: accepted connections
    Outs,         \* heap connections made by extend workers
    MaxChans,     \* MOOR_MAX_CHANNELS
    MaxWorkers,   \* EXTEND_MAX_THREADS
    MaxResults,   \* EXTEND_QUEUE_SIZE
    MaxCookies,   \* MAX_RP_COOKIES
    SendsFail,    \* whether a send can fail (a peer that has gone away)
    QueueFills,   \* the connections on which the cell queue can reach its limit
    PeerCreates,  \* whether the peer relay extends circuits to us over a
                  \* link that we opened to it
    Repeats       \* whether the far end of a circuit may extend or join it a
                  \* second time, as the relay lets it (MOOR's own never does)

Conns == Links \cup Outs
Chans == 1..MaxChans
Slots == 1..MaxCookies

ASSUME RelayAssumption ==
    /\ MaxChans \in Nat /\ MaxWorkers \in Nat /\ MaxResults \in Nat
    /\ MaxCookies \in Nat /\ Repeats \in BOOLEAN
    /\ QueueFills \subseteq Conns /\ SendsFail \in BOOLEAN /\ PeerCreates \in BOOLEAN
    /\ IsFiniteSet(Circuits)
    /\ None \notin Conns \cup Circuits \cup Chans
    /\ Links \cap Outs = {}

VARIABLES
    circs,     \* the circuits
    pending,   \* g_pending_close: how often each circuit is in the list
    table,     \* g_circ_ht: (connection, circuit) pairs that look-ups find
    conns,     \* the connections
    chans,     \* g_channels: channels to the one peer relay of the model
    cookies,   \* g_rp_cookies: the circuit of each valid rendezvous cookie
    works,     \* extend workers at work
    results,   \* g_extend_results
    again      \* whether a circuit was extended or joined a second time

vars == <<circs, pending, table, conns, chans, cookies, works, results, again>>

NoCirc == [live |-> FALSE, marked |-> FALSE, prev |-> None, next |-> None,
           chan |-> None, partner |-> None, extending |-> FALSE]
NoConn == [open |-> FALSE, fd |-> FALSE, watched |-> FALSE, ref |-> 0]
NoChan == [state |-> "CLOSED", conn |-> None, mux |-> {}]

Init ==
    /\ circs = [c \in Circuits |-> NoCirc]
    /\ pending = [c \in Circuits |-> 0]
    /\ table = {} /\ works = {} /\ results = <<>> /\ again = FALSE
    /\ cookies = [i \in Slots |-> None]
    /\ conns = [x \in Conns |-> NoConn]
    /\ chans = [h \in Chans |-> NoChan]

-----------------------------------------------------------------------------
(* Pieces shared by the handlers.                                          *)

\* moor_circuit_find: the table, then a scan of the circuits; marked
\* circuits are invisible.
Finds(x, c) ==
    /\ ~circs[c].marked
    /\ <<x, c>> \in table \/ (circs[c].live /\ x \in {circs[c].prev, circs[c].next})

\* A cell can arrive on x: it is open and in the event loop.
Readable(x) == conns[x].open /\ conns[x].watched

\* moor_connection_send_cell on the connections S: each send succeeds, or
\* fails and leaves a connection that is dead and out of the event loop.
SendOn(S) == IF SendsFail THEN SUBSET {x \in S : conns[x].open} ELSE {{}}
Dead(cn, F) == [x \in Conns |-> IF x \in F
                                THEN [cn[x] EXCEPT !.open = FALSE, !.watched = FALSE]
                                ELSE cn[x]]

\* Mutant: circuits that are marked already are marked again.
MutNewlyMarked(S) ==
    LET T == {c \in S : circs[c].live}
    IN  T \cup {p \in Circuits : \E c \in T : /\ circs[c].partner = p
                                              /\ circs[p].live /\ ~circs[p].marked}

\* Mutant: the partner is marked, but not put on the list.
MutNewlyPending(S) == {c \in S : circs[c].live /\ ~circs[c].marked}

\* moor_circuit_mark_for_close_ on each circuit of S: circuits that are
\* marked already are left alone, a rendezvous partner is marked too.
NewlyMarked(S) ==
    LET T == {c \in S : circs[c].live /\ ~circs[c].marked}
    IN  T \cup {p \in Circuits : \E c \in T : /\ circs[c].partner = p
                                              /\ circs[p].live /\ ~circs[p].marked}
NewlyPending(S) == NewlyMarked(S)

\* Partners are unlinked on both sides as circuits are marked.
MarkedCircs(S) ==
    [c \in Circuits |->
       IF c \in NewlyMarked(S)
       THEN [circs[c] EXCEPT !.marked = TRUE, !.partner = None]
       ELSE IF circs[c].partner \in NewlyMarked(S)
       THEN [circs[c] EXCEPT !.partner = None]
       ELSE circs[c]]
MarkedPending(S) ==
    [c \in Circuits |-> IF c \in NewlyPending(S) THEN pending[c] + 1 ELSE pending[c]]

\* Mutant: circuits are not detached from a connection that goes away.
MutNullify(cs, x) == [c \in Circuits |-> cs[c]]

\* moor_circuit_nullify_conn.
Nullify(cs, x) ==
    [c \in Circuits |->
       [cs[c] EXCEPT !.prev = IF @ = x THEN None ELSE @,
                     !.next = IF @ = x THEN None ELSE @]]

\* Mutant: the entry for the next hop is forgotten.
MutUnregister(S) ==
    {e \in table : e[2] \notin S \/ e[1] # circs[e[2]].prev}

\* circ_unregister_unlocked on each circuit of S.
Unregister(S) == {e \in table : e[2] \notin S}

\* Channels of a connection that is freed are marked for close.
ChansOf(x) == {h \in Chans : chans[h].conn = x}
Detached(S) == [h \in Chans |-> IF h \in S
                                THEN [chans[h] EXCEPT !.conn = None, !.state = "CLOSING"]
                                ELSE chans[h]]
MuxOf(S) == UNION {chans[h].mux : h \in S}

\* moor_connection_close, with the marking that precedes it (S): pointers to
\* x are cleared, its channels closed and their circuits marked.
CloseMarking(x, S) ==
    LET T == S \cup MuxOf(ChansOf(x))
    IN  /\ circs' = Nullify(MarkedCircs(T), x)
        /\ pending' = MarkedPending(T)
        /\ table' = {e \in table : e[1] # x}
        /\ chans' = Detached(ChansOf(x))
        /\ conns' = [conns EXCEPT ![x] = NoConn]

\* Mutant: the count may fall below zero.
MutUncounted(r, n) == r - n

\* A link's circuit_refcount after n circuits let go of it, floored.
Uncounted(r, n) == IF r > n THEN r - n ELSE 0

LinkedTo(x) == {c \in Circuits : circs[c].live /\ x \in {circs[c].prev, circs[c].next}}

\* moor_circuit_teardown_for_conn, moor_connection_close.
Teardown(x) == CloseMarking(x, LinkedTo(x))

-----------------------------------------------------------------------------
(* Links.                                                                  *)

FreeChans == {h \in Chans : chans[h].state = "CLOSED"}
Least(S) == CHOOSE h \in S : \A k \in S : h <= k

\* relay_accept_cb: a client, or the peer relay, which gets a channel that
\* extends may reuse (a client's channel is never looked up).
Accept(x, isPeer) ==
    /\ ~conns[x].fd /\ ~conns[x].open
    /\ conns' = [conns EXCEPT ![x] = [NoConn EXCEPT !.open = TRUE, !.fd = TRUE,
                                                    !.watched = TRUE]]
    /\ chans' = IF isPeer /\ FreeChans # {}
                THEN [chans EXCEPT ![Least(FreeChans)] =
                        [state |-> "OPEN", conn |-> x, mux |-> {}]]
                ELSE chans
    /\ UNCHANGED <<circs, pending, table, cookies, works, results>>

\* relay_read_cb, relay_conn_read_cb: the peer closed or the read failed; or
\* moor_connection_reap_stalled: its queue has not drained for too long.
ConnLost(x) ==
    /\ Readable(x)
    /\ Teardown(x)
    /\ UNCHANGED <<cookies, works, results>>

\* moor_connection_reap_idle: an open pool connection without circuits.
Reap(x) ==
    /\ conns[x].fd /\ conns[x].open /\ conns[x].ref <= 0
    /\ Teardown(x)
    /\ UNCHANGED <<cookies, works, results>>

\* Any other send on x (relayed data, keepalive) fails.
SendFails(x) ==
    /\ SendsFail /\ Readable(x)
    /\ conns' = Dead(conns, {x})
    /\ UNCHANGED <<circs, pending, table, chans, cookies, works, results>>

\* The socket is full and the global queue at its limit: the connection is
\* given up, but stays in the event loop.
QueueFull(x) ==
    /\ x \in QueueFills /\ Readable(x)
    /\ conns' = [conns EXCEPT ![x].open = FALSE]
    /\ UNCHANGED <<circs, pending, table, chans, cookies, works, results>>

\* relay_read_cb on such a connection: closed, its circuits left unmarked.
StaleEvent(x) ==
    /\ conns[x].watched /\ ~conns[x].open
    /\ CloseMarking(x, {})
    /\ UNCHANGED <<cookies, works, results>>

-----------------------------------------------------------------------------
(* CREATE, EXTEND, RENDEZVOUS, DESTROY.                                    *)

\* Mutant: the link's reference count is not raised.
MutCreate(x, c) ==
    /\ Readable(x) /\ ~circs[c].live
    /\ circs' = [circs EXCEPT ![c] = [NoCirc EXCEPT !.live = TRUE, !.prev = x]]
    /\ table' = table \cup {<<x, c>>}
    /\ UNCHANGED <<conns, pending, chans, cookies, works, results>>

\* moor_relay_handle_create: CREATED goes out, then the link is counted and
\* the circuit registered.
Create(x, c) ==
    /\ Readable(x) /\ ~circs[c].live
    /\ circs' = [circs EXCEPT ![c] = [NoCirc EXCEPT !.live = TRUE, !.prev = x]]
    /\ conns' = [conns EXCEPT ![x].ref = @ + 1]
    /\ table' = table \cup {<<x, c>>}
    /\ UNCHANGED <<pending, chans, cookies, works, results>>

\* CREATED cannot be sent: the circuit is freed at once, which lowers the
\* count of a link that was not raised yet.
CreateFails(x) ==
    /\ SendsFail /\ Readable(x)
    /\ conns' = [Dead(conns, {x}) EXCEPT ![x].ref = Uncounted(@, 1)]
    /\ UNCHANGED <<circs, pending, table, chans, cookies, works, results>>

\* moor_channel_find_by_identity: the first open channel to the peer.
OpenChans == {h \in Chans : chans[h].state = "OPEN"}
PeerChan == IF OpenChans = {} THEN None ELSE Least(OpenChans)
Reusable == PeerChan # None /\ chans[PeerChan].conn # None
            /\ conns[chans[PeerChan].conn].open

\* A relay cell of the circuit's far end that is meant for this relay: a
\* joined circuit's go to the partner instead, while its link is open.
Handles(c) ==
    /\ circs[c].live /\ ~circs[c].marked
    /\ circs[c].prev # None /\ Readable(circs[c].prev)
    /\ circs[c].partner # None =>
         LET x == circs[circs[c].partner].prev IN x # None => ~conns[x].open

\* EXTEND: refused while an extend is under way, but not where the circuit has
\* its next hop already.
CanExtend(c) == Handles(c) /\ ~circs[c].extending

\* Fast path: CREATE goes out over the channel's link.  A next hop the circuit
\* had is overwritten, its entry in the table stays.
ExtendFast(c) ==
    /\ CanExtend(c) /\ Reusable
    /\ LET x == chans[PeerChan].conn
       IN  \/ /\ circs' = [circs EXCEPT ![c].chan = PeerChan, ![c].next = x,
                                        ![c].extending = TRUE]
              /\ conns' = [conns EXCEPT ![x].ref = @ + 1]
              /\ chans' = [chans EXCEPT ![PeerChan].mux = @ \cup {c}]
              /\ table' = table \cup {<<x, c>>}
              /\ again' = (circs[c].next # None)
           \/ /\ SendsFail
              /\ conns' = Dead(conns, {x})
              /\ UNCHANGED <<circs, chans, table, again>>
    /\ UNCHANGED <<pending, cookies, works, results>>

\* Slow path: a worker connects to the peer.
ExtendSlow(c) ==
    /\ CanExtend(c) /\ ~Reusable
    /\ \E t \in (1..MaxWorkers) \ {w.thread : w \in works} :
         works' = works \cup {[thread |-> t, circ |-> c, prev |-> circs[c].prev]}
    /\ circs' = [circs EXCEPT ![c].extending = TRUE]
    /\ again' = (circs[c].next # None)
    /\ UNCHANGED <<pending, table, conns, chans, cookies, results>>

\* The worker's thread: a new link o with CREATED received on it, or None.
WorkerDone(w, o) ==
    /\ Len(results) < MaxResults
    /\ works' = works \ {w}
    /\ results' = Append(results, [circ |-> w.circ, prev |-> w.prev, next |-> o])
    /\ conns' = IF o = None THEN conns
                ELSE [conns EXCEPT ![o] = [NoConn EXCEPT !.open = TRUE, !.fd = TRUE]]
    /\ UNCHANGED <<circs, pending, table, chans, cookies>>

\* The result queue is full: the result and the link are dropped.
WorkerDropped(w) ==
    /\ Len(results) >= MaxResults
    /\ works' = works \ {w}
    /\ UNCHANGED <<circs, pending, table, conns, chans, cookies, results>>

\* extend_complete_cb.  The result is used if its circuit can still be found
\* on a live link and waits for it; otherwise the worker's link is closed.
Wanted(w) ==
    /\ conns[w.prev].open
    /\ w.circ # None
    /\ Finds(w.prev, w.circ)
    /\ circs[w.circ].extending

ExtendDiscarded ==
    /\ results # <<>> /\ ~Wanted(Head(results))
    /\ results' = Tail(results)
    /\ IF Head(results).next = None
       THEN UNCHANGED <<circs, pending, table, conns, chans>>
       ELSE CloseMarking(Head(results).next, {})
    /\ UNCHANGED <<cookies, works>>

ExtendFailed ==
    /\ results # <<>> /\ Wanted(Head(results)) /\ Head(results).next = None
    /\ results' = Tail(results)
    /\ circs' = [circs EXCEPT ![Head(results).circ].extending = FALSE]
    /\ \E F \in SendOn({Head(results).prev}) : conns' = Dead(conns, F)
    /\ UNCHANGED <<pending, table, chans, cookies, works>>

\* moor_channel_new_outbound returns an open channel if there is one, and
\* opens a new one on the worker's link otherwise.
OutboundChan == IF PeerChan # None THEN PeerChan
                ELSE IF FreeChans # {} THEN Least(FreeChans) ELSE None

ExtendSucceeded ==
    /\ results # <<>> /\ Wanted(Head(results)) /\ Head(results).next # None
    /\ results' = Tail(results)
    /\ LET w == Head(results)
           h == OutboundChan
       IN  /\ circs' = [circs EXCEPT ![w.circ].extending = FALSE,
                                     ![w.circ].next = w.next, ![w.circ].chan = h]
           /\ chans' = IF h = None THEN chans
                       ELSE IF PeerChan # None
                       THEN [chans EXCEPT ![h].mux = @ \cup {w.circ}]
                       ELSE [chans EXCEPT ![h] = [state |-> "OPEN", conn |-> w.next,
                                                  mux |-> {w.circ}]]
           /\ table' = table \cup {<<w.next, w.circ>>}
           /\ \E F \in SendOn({w.prev}) :
                conns' = [Dead(conns, F) EXCEPT ![w.next].watched = TRUE]
    /\ UNCHANGED <<pending, cookies, works>>

\* CREATED on the fast path's link: EXTENDED goes back to the client.
Created(c) ==
    /\ circs[c].live /\ circs[c].extending /\ circs[c].next # None
    /\ Readable(circs[c].next) /\ Finds(circs[c].next, c)
    /\ circs' = [circs EXCEPT ![c].extending = FALSE]
    /\ \E F \in SendOn({circs[c].prev} \ {None}) : conns' = Dead(conns, F)
    /\ UNCHANGED <<pending, table, chans, cookies, works, results>>

\* ESTABLISH_RENDEZVOUS: stale cookies are dropped, the new one takes the first
\* free slot and RENDEZVOUS_ESTABLISHED goes back; a full table refuses it.
EstablishRendezvous(c) ==
    /\ Handles(c)
    /\ \E stale \in SUBSET {i \in Slots : cookies[i] # None} :
         LET kept == [i \in Slots |-> IF i \in stale THEN None ELSE cookies[i]]
             free == {i \in Slots : kept[i] = None}
         IN  IF free = {}
             THEN UNCHANGED <<cookies, conns>>
             ELSE /\ cookies' = [kept EXCEPT ![Least(free)] = c]
                  /\ \E F \in SendOn({circs[c].prev}) : conns' = Dead(conns, F)
    /\ UNCHANGED <<circs, pending, table, chans, works, results>>

\* RENDEZVOUS1 on c with the i-th cookie: the two circuits are joined, and a
\* partner that either had is overwritten.
Rendezvous(c, i) ==
    LET k == cookies[i]
    IN  /\ Handles(c) /\ k # None
        /\ cookies' = [cookies EXCEPT ![i] = None]
        /\ IF /\ circs[k].prev # None /\ Finds(circs[k].prev, k)
              /\ conns[circs[k].prev].open
           THEN /\ circs' = [circs EXCEPT ![c].partner = k, ![k].partner = c]
                /\ again' = (circs[c].partner # None \/ circs[k].partner # None)
                /\ \E F \in SendOn({circs[k].prev}) : conns' = Dead(conns, F)
           ELSE UNCHANGED <<circs, conns, again>>
        /\ UNCHANGED <<pending, table, chans, works, results>>

MarkForClose(c) ==
    /\ circs' = MarkedCircs({c}) /\ pending' = MarkedPending({c})
    /\ UNCHANGED <<table, conns, chans, cookies, works, results>>

\* moor_relay_handle_destroy.
HandleDestroy(x, c) ==
    /\ Readable(x) /\ Finds(x, c)
    /\ MarkForClose(c)

\* moor_circuit_check_timeouts, moor_circuit_oom_kill.
Timeout(c) ==
    /\ circs[c].live /\ ~circs[c].marked
    /\ MarkForClose(c)

-----------------------------------------------------------------------------
(* postloop_cb.                                                            *)

Doomed == {c \in Circuits : pending[c] > 0}
Refs(x) == Cardinality({c \in Doomed : circs[c].prev = x})
           + Cardinality({c \in Doomed : circs[c].next = x})
Peers(S) == {x \in Conns : \E c \in S : x \in {circs[c].prev, circs[c].next}}

\* moor_circuit_close_all_marked: DESTROY to the open links, then every
\* circuit on the list is unregistered, uncounted, detached and freed.
\* moor_channel_close_all_marked: closing channels are cleared.
PostLoop ==
    /\ Doomed # {} \/ \E h \in Chans : chans[h].state = "CLOSING"
    /\ \E F \in SendOn(Peers(Doomed)) :
         conns' = [x \in Conns |->
                     [Dead(conns, F)[x] EXCEPT !.ref = Uncounted(@, Refs(x))]]
    /\ circs' = [c \in Circuits |-> IF c \in Doomed THEN NoCirc ELSE circs[c]]
    /\ pending' = [c \in Circuits |-> 0]
    /\ table' = Unregister(Doomed)
    /\ chans' = [h \in Chans |-> IF chans[h].state = "CLOSING" THEN NoChan
                                 ELSE [chans[h] EXCEPT !.mux = @ \ Doomed]]
    /\ cookies' = [i \in Slots |-> IF cookies[i] \in Doomed THEN None ELSE cookies[i]]
    /\ works' = {[w EXCEPT !.circ = IF @ \in Doomed THEN None ELSE @] : w \in works}
    /\ results' = [i \in DOMAIN results |->
                     [results[i] EXCEPT !.circ = IF @ \in Doomed THEN None ELSE @]]

-----------------------------------------------------------------------------
\* Steps that neither extend a circuit nor join two.
Step ==
    \/ \E x \in Links :
         (\E p \in BOOLEAN : Accept(x, p)) \/ Reap(x) \/ StaleEvent(x)
    \/ \E x \in Conns : ConnLost(x) \/ SendFails(x) \/ QueueFull(x)
    \/ \E x \in IF PeerCreates THEN Conns ELSE Links :
         CreateFails(x) \/ \E c \in Circuits : Create(x, c)
    \/ \E c \in Circuits : Created(c) \/ EstablishRendezvous(c) \/ Timeout(c)
    \/ \E x \in Conns, c \in Circuits : HandleDestroy(x, c)
    \/ \E w \in works : WorkerDone(w, None) \/ WorkerDropped(w)
                        \/ \E o \in {y \in Outs : ~conns[y].fd} : WorkerDone(w, o)
    \/ ExtendDiscarded \/ ExtendFailed \/ ExtendSucceeded
    \/ PostLoop

Join ==
    \E c \in Circuits : \/ ExtendFast(c) \/ ExtendSlow(c)
                        \/ \E i \in Slots : Rendezvous(c, i)

\* The model ends where a circuit is extended or joined a second time: from
\* there on the relay's tables lead to memory that it may have freed.
Next ==
    /\ ~again
    /\ \/ Step /\ UNCHANGED again
       \/ Join /\ (again' => Repeats)

\* A step of the event loop that leaves the routes of the circuits alone.
Turn(A) == ~again /\ A /\ UNCHANGED again

\* The event loop keeps turning: the post-loop pass runs every millisecond,
\* the timers of the reaper and of the circuit timeouts keep firing, stale
\* events are delivered, and finished workers are noticed.
Fairness ==
    /\ WF_vars(Turn(PostLoop))
    /\ WF_vars(Turn(ExtendDiscarded \/ ExtendFailed \/ ExtendSucceeded))
    /\ \A x \in Links : WF_vars(Turn(Reap(x))) /\ WF_vars(Turn(StaleEvent(x)))
    /\ \A c \in Circuits : WF_vars(Turn(Timeout(c)))

SafeSpec == Init /\ [][Next]_vars
Spec == SafeSpec /\ Fairness

-----------------------------------------------------------------------------
(* Properties.                                                             *)

\* Every variable has its type; a link's count of circuits never becomes
\* negative, also when a circuit is freed before it was counted.
TypeOK ==
    /\ circs \in [Circuits -> [live : BOOLEAN, marked : BOOLEAN,
                               prev : Conns \cup {None}, next : Conns \cup {None},
                               chan : Chans \cup {None},
                               partner : Circuits \cup {None}, extending : BOOLEAN]]
    /\ pending \in [Circuits -> Nat]
    /\ table \subseteq Conns \X Circuits
    /\ conns \in [Conns -> [open : BOOLEAN, fd : BOOLEAN, watched : BOOLEAN, ref : Nat]]
    /\ chans \in [Chans -> [state : {"CLOSED", "OPEN", "CLOSING"},
                            conn : Conns \cup {None}, mux : SUBSET Circuits]]
    /\ cookies \in [Slots -> Circuits \cup {None}]
    /\ again \in BOOLEAN

\* A circuit is on the close list once if it is marked and not at all
\* otherwise: nothing is freed twice, nothing marked is forgotten, however
\* DESTROYs, dying links, channels, partners and timeouts overlap.
PendingExact ==
    \A c \in Circuits : pending[c] = IF circs[c].marked THEN 1 ELSE 0

\* No pointer outlives what it points to ("No inline free, no cascade, no
\* UAF", relay.c): partners are mutual and live, links in use have their
\* descriptor, channels hold live circuits, and an unmarked circuit's
\* channel is open and knows it; cookies name live circuits.  This holds until
\* a circuit is extended or joined a second time, which the relay does not
\* refuse and which leaves the first partner with a pointer nobody clears.
NoDangling == ~again =>
    /\ \A c \in Circuits : circs[c].live =>
         /\ circs[c].partner # None =>
              circs[circs[c].partner].live /\ circs[circs[c].partner].partner = c
         /\ \A x \in {circs[c].prev, circs[c].next} \ {None} : conns[x].fd
         /\ circs[c].chan # None /\ ~circs[c].marked =>
              chans[circs[c].chan].state = "OPEN" /\ c \in chans[circs[c].chan].mux
    /\ \A h \in Chans :
         /\ \A c \in chans[h].mux : circs[c].live
         /\ chans[h].conn # None => conns[chans[h].conn].fd
    /\ \A i \in Slots : cookies[i] # None => circs[cookies[i]].live

\* The look-up table holds exactly the links of the live circuits: a cell is
\* never handed to a freed circuit, and the fast look-up finds every circuit
\* that the scan would.
TableExact ==
    table = {e \in Conns \X Circuits :
               circs[e[2]].live /\ e[1] \in {circs[e[2]].prev, circs[e[2]].next}}

\* The live circuits that came over x, and those extended over it.
PrevUsers(x) == {c \in Circuits : circs[c].live /\ circs[c].prev = x}
NextUsers(x) == {c \in Circuits : circs[c].live /\ circs[c].next = x}

\* The count of an open pool link is the number of circuits that use it, so
\* the reaper never closes a link in use and always can close an idle one.
RefcountExact ==
    \A x \in Links : conns[x].open =>
        conns[x].ref = Cardinality(PrevUsers(x)) + Cardinality(NextUsers(x))

\* However circuits, links and channels come and go, the look-up table and the
\* links' counts of circuits both agree with the circuits themselves, until a
\* circuit is extended a second time and its first next hop stays in the table.
TablesExact == ~again => TypeOK /\ TableExact /\ RefcountExact

\* A marked circuit is freed (close_all_marked "runs at end of event loop").
MarkedFreed == \A c \in Circuits : circs[c].marked ~> ~circs[c].live

\* The cells a circuit sends forward leave on the link it was extended over:
\* the scheduler sends them on its channel's connection.
RouteAgrees ==
    \A c \in Circuits :
        circs[c].live /\ ~circs[c].marked /\ circs[c].chan # None /\ circs[c].next # None
            => chans[circs[c].chan].conn = circs[c].next

\* The assertion at the head of relay_conn_read_cb: a connection of ours that
\* is in the event loop is open.
WatchedIsOpen == \A o \in Outs : conns[o].watched => conns[o].open

\* The link a worker's result is looked up by still exists.
ResultsAlive ==
    \A w \in works \cup {results[i] : i \in DOMAIN results} :
        w.prev \in Outs => conns[w.prev].fd

\* A pool link that has died is closed and its slot can be used again.
DeadLinkReclaimed ==
    \A x \in Links : conns[x].fd /\ ~conns[x].open ~> ~conns[x].fd
=============================================================================
