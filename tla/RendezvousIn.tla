---------------------------- MODULE RendezvousIn ----------------------------
(***************************************************************************)
(* A client's data to a hidden service: SOCKS client (socks5.c,            *)
(* circuit.c), rendezvous point (the splice of relay.c), service (main.c). *)
(*                                                                         *)
(* Three parties share the flow control.  The client spends its circuit    *)
(* and stream windows; the rendezvous point acknowledges at circuit level  *)
(* to the client and forwards every cell to the service; the service       *)
(* acknowledges at stream level.  Payloads are sealed end to end under one *)
(* nonce counter per circuit, shared by all its streams, and the service   *)
(* opens them in strict order: one nonce out of step ends the circuit.     *)
(*                                                                         *)
(* Streams are numbered in the order of the client's slot table, which is  *)
(* the order in which moor_socks5_resume_reads visits them.  The rejected  *)
(* circuit SENDMEs need no digests: the body of the rendezvous point's     *)
(* SENDME is empty, and the client refuses every body below 20 bytes.      *)
(* Of the guard link's queue, which other circuits fill as well, the model *)
(* keeps which clients were paused because it was long: at any time it may *)
(* be above that mark, hold a few cells or none.                           *)
(***************************************************************************)
EXTENDS Integers, Sequences, FiniteSetsExt

CONSTANTS
    N,            \* streams 1..N on the circuit
    CircWindow, StreamWindow, Increment,   \* as in SendmeForward
    MaxRead,      \* chunks one recv() of an application may yield
    MaxChunks     \* bound: chunks the applications write in all

ASSUME RendezvousAssumption ==
    /\ N \in Nat \ {0} /\ MaxRead \in Nat \ {0} /\ MaxChunks \in Nat
    /\ Increment \in Nat \ {0}
    /\ CircWindow \in Nat /\ Increment <= CircWindow
    /\ StreamWindow \in Nat /\ Increment <= StreamWindow

VARIABLES
    circ_package_window,   \* client: credit on the circuit
    e2e_send_nonce,        \* client: nonce of the next sealed chunk
    clients,               \* client: SOCKS clients and their streams
    connected,             \* client: open streams whose RELAY_CONNECTED has come
    held,                  \* client: open streams paused by the guard link's queue
    rp_deliver_window,     \* rendezvous point: deliver window of the client's circuit
    e2e_recv_nonce,        \* service: nonce it expects
    targets,               \* service: connections to the local service
    closed,                \* the circuit is gone: MAC failure, or CONNECTED timeout
    c2rp, rp2hs, hs2rp, rp2c   \* cells in flight

cvars == <<circ_package_window, e2e_send_nonce, clients>>
svars == <<e2e_recv_nonce, targets, closed>>
lvars == <<connected, held>>
vars  == <<cvars, lvars, rp_deliver_window, svars, c2rp, rp2hs, hs2rp, rp2c>>

Streams == 1..N
Sealed  == [seq : Nat, nonce : Nat]
Client  == [st : {"unused", "open", "closed"}, pkg : Int, next : Nat,
            paused : BOOLEAN, kept : Seq(Sealed),
            lost : Nat,       \* history: chunks a refused read or sendbuf left behind
            late : BOOLEAN]   \* history: a read was sealed while sendbuf held a chunk
NoData  == [seq |-> 0, nonce |-> 0]
Cell(cmd, s, d) == [cmd |-> cmd, sid |-> s, data |-> d]
Control(cmd, s) == Cell(cmd, s, NoData)

Init ==
    /\ circ_package_window = CircWindow /\ e2e_send_nonce = 0
    /\ clients = [s \in Streams |-> [st |-> "unused", pkg |-> StreamWindow,
                                     next |-> 1, paused |-> FALSE, kept |-> <<>>,
                                     lost |-> 0, late |-> FALSE]]
    /\ connected = {} /\ held = {}
    /\ rp_deliver_window = CircWindow
    /\ e2e_recv_nonce = 0 /\ closed = FALSE
    /\ targets = [s \in Streams |-> [open |-> FALSE, del |-> 0, got |-> <<>>]]
    /\ c2rp = <<>> /\ rp2hs = <<>> /\ hs2rp = <<>> /\ rp2c = <<>>

-----------------------------------------------------------------------------
(* The client.                                                             *)

ClientActs == ~closed /\ UNCHANGED <<rp_deliver_window, svars, rp2hs, hs2rp>>

\* moor_socks5_handle_client is called: the client is in the event loop.
Readable(s) == clients[s].st = "open" /\ ~clients[s].paused

OpenStream(s) ==
    /\ ClientActs
    /\ clients[s].st = "unused"
    /\ clients' = [clients EXCEPT ![s].st = "open"]
    /\ c2rp' = Append(c2rp, Control("BEGIN", s))
    /\ UNCHANGED <<circ_package_window, e2e_send_nonce, lvars, rp2c>>

CloseStream(s) ==
    /\ ClientActs
    /\ Readable(s)
    /\ clients' = [clients EXCEPT ![s].st = "closed"]
    /\ c2rp' = Append(c2rp, Control("END", s))
    /\ connected' = connected \ {s}
    /\ UNCHANGED <<circ_package_window, e2e_send_nonce, held, rp2c>>

Written == MapThenSumSet(LAMBDA s : clients[s].next - 1, Streams)

\* Mutant: the nonce is committed only for chunks that were sent.
MutClientSend(s, n) ==
    /\ ClientActs
    /\ Readable(s)
    /\ Written + n <= MaxChunks
    /\ LET sent  == Min({n, circ_package_window, clients[s].pkg})
           chunk == [i \in 1..n |-> [seq |-> clients[s].next + i - 1,
                                     nonce |-> e2e_send_nonce + i - 1]]
       IN  /\ c2rp' = c2rp \o [i \in 1..sent |-> Cell("DATA", s, chunk[i])]
           /\ circ_package_window' = circ_package_window - sent
           /\ clients' = [clients EXCEPT
                            ![s].pkg = @ - sent,
                            ![s].next = @ + n,
                            ![s].paused = sent < n,
                            ![s].kept = IF sent < n THEN <<chunk[sent + 1]>> ELSE @,
                            ![s].lost = @ + n - Min({n, sent + 1})
                                        + Len(clients[s].kept),
                            ![s].late = @ \/ clients[s].kept # <<>>]
           /\ e2e_send_nonce' = e2e_send_nonce + sent
    /\ UNCHANGED <<lvars, rp2c>>

\* Mutant: the refused chunk is not kept.
MutClientSendDrops(s, n) ==
    /\ ClientActs
    /\ Readable(s)
    /\ Written + n <= MaxChunks
    /\ LET sent  == Min({n, circ_package_window, clients[s].pkg})
           chunk == [i \in 1..n |-> [seq |-> clients[s].next + i - 1,
                                     nonce |-> e2e_send_nonce + i - 1]]
       IN  /\ c2rp' = c2rp \o [i \in 1..sent |-> Cell("DATA", s, chunk[i])]
           /\ circ_package_window' = circ_package_window - sent
           /\ clients' = [clients EXCEPT ![s].pkg = @ - sent,
                                         ![s].next = @ + n,
                                         ![s].paused = sent < n]
           /\ e2e_send_nonce' = e2e_send_nonce + sent
    /\ UNCHANGED <<lvars, rp2c>>

\* moor_socks5_forward_to_circuit, the e2e loop over the n chunks of one read:
\* each is sealed under the next nonce and sent.  The first one that the
\* windows refuse is kept as ciphertext in sendbuf, whatever sendbuf held, its
\* nonce is committed, the client is paused and the chunks after it are left
\* behind.  What sendbuf held stays there when all are sent.
ClientSend(s, n) ==
    /\ ClientActs
    /\ Readable(s)
    /\ Written + n <= MaxChunks
    /\ LET sent  == Min({n, circ_package_window, clients[s].pkg})
           chunk == [i \in 1..n |-> [seq |-> clients[s].next + i - 1,
                                     nonce |-> e2e_send_nonce + i - 1]]
       IN  /\ c2rp' = c2rp \o [i \in 1..sent |-> Cell("DATA", s, chunk[i])]
           /\ circ_package_window' = circ_package_window - sent
           /\ clients' = [clients EXCEPT
                            ![s].pkg = @ - sent,
                            ![s].next = @ + n,
                            ![s].paused = sent < n,
                            ![s].kept = IF sent < n THEN <<chunk[sent + 1]>> ELSE @,
                            ![s].lost = @ + n - Min({n, sent + 1})
                                        + Len(clients[s].kept),
                            ![s].late = @ \/ clients[s].kept # <<>>]
           /\ e2e_send_nonce' = e2e_send_nonce + Min({n, sent + 1})
    /\ UNCHANGED <<lvars, rp2c>>

\* The guard link's queue is above the mark: paused, and nothing is read.
ClientBackpressure(s) ==
    /\ ClientActs
    /\ Readable(s)
    /\ clients' = [clients EXCEPT ![s].paused = TRUE]
    /\ held' = held \cup {s}
    /\ UNCHANGED <<circ_package_window, e2e_send_nonce, connected, c2rp, rp2c>>

\* The WRITE half of circuit_read_cb: queued cells are flushed, and once few are
\* left every paused client of the link is unpaused, whatever it was paused
\* for and whatever its sendbuf holds.
LinkWritable ==
    /\ ClientActs
    /\ \E s \in Streams : clients[s].st = "open" /\ clients[s].paused
    /\ clients' = [s \in Streams |-> [clients[s] EXCEPT
                     !.paused = @ /\ clients[s].st # "open"]]
    /\ held' = {}
    /\ UNCHANGED <<circ_package_window, e2e_send_nonce, connected, c2rp, rp2c>>

\* moor_socks5_check_stream_timeouts: no CONNECTED came in time; the circuit
\* is invalidated and marked for close, its clients and cells go with it.
ClientTimeout(s) ==
    /\ ~closed
    /\ clients[s].st = "open" /\ s \notin connected
    /\ closed' = TRUE
    /\ clients' = [r \in Streams |-> [clients[r] EXCEPT
                     !.st = IF @ = "open" THEN "closed" ELSE @, !.paused = FALSE]]
    /\ c2rp' = <<>> /\ rp2hs' = <<>> /\ hs2rp' = <<>> /\ rp2c' = <<>>
    /\ connected' = {} /\ held' = {}
    /\ UNCHANGED <<circ_package_window, e2e_send_nonce, rp_deliver_window,
                   e2e_recv_nonce, targets>>

ClientTakes(cmd) ==
    /\ ClientActs
    /\ rp2c # <<>>
    /\ Head(rp2c).cmd = cmd
    /\ rp2c' = Tail(rp2c)
    /\ UNCHANGED e2e_send_nonce

\* Mutant: the resent chunk is not charged to the stream.
MutResumeFree(acc, s) ==
    LET c == acc.clients[s]
        k == Len(c.kept)
    IN  IF ~(c.st = "open" /\ c.paused) \/ Min({acc.window, c.pkg}) < k
        THEN acc
        ELSE [window  |-> acc.window - k,
              clients |-> [acc.clients EXCEPT ![s].paused = FALSE,
                                              ![s].kept = <<>>],
              out     |-> acc.out \o [i \in 1..k |-> Cell("DATA", s, c.kept[i])]]

\* One step of moor_socks5_resume_reads: a paused client resends what it kept
\* if both windows allow, and is then unpaused; otherwise it stays paused.
ResumeOne(acc, s) ==
    LET c == acc.clients[s]
        k == Len(c.kept)
    IN  IF ~(c.st = "open" /\ c.paused) \/ Min({acc.window, c.pkg}) < k
        THEN acc
        ELSE [window  |-> acc.window - k,
              clients |-> [acc.clients EXCEPT ![s].pkg = @ - k,
                                              ![s].paused = FALSE,
                                              ![s].kept = <<>>],
              out     |-> acc.out \o [i \in 1..k |-> Cell("DATA", s, c.kept[i])]]

\* The clients in the order of their slots.
ResumeReads(cs) ==
    LET upTo[i \in 0..N] ==
          IF i = 0 THEN [window |-> circ_package_window, clients |-> cs, out |-> c2rp]
          ELSE ResumeOne(upTo[i - 1], i)
    IN  upTo[N]

\* Mutant: the window is refilled and nobody is resumed.
MutClientStreamSendme ==
    /\ ClientTakes("SENDME")
    /\ LET s == Head(rp2c).sid
       IN  clients' = [clients EXCEPT ![s].pkg =
                         IF clients[s].st = "open" THEN @ + Increment ELSE @]
    /\ UNCHANGED <<circ_package_window, lvars, c2rp>>

\* moor_circuit_handle_sendme for a stream: refill, then every paused client
\* of the circuit is tried.
ClientStreamSendme ==
    /\ ClientTakes("SENDME")
    /\ LET s == Head(rp2c).sid
           r == ResumeReads([clients EXCEPT ![s].pkg = @ + Increment])
       IN  IF clients[s].st = "open"
           THEN /\ clients' = r.clients
                /\ circ_package_window' = r.window
                /\ c2rp' = r.out
           ELSE UNCHANGED <<clients, circ_package_window, c2rp>>
    /\ held' = {s \in held : clients'[s].paused}
    /\ UNCHANGED connected

\* moor_circuit_handle_sendme for the circuit: "SENDME too short".
ClientCircSendme ==
    /\ ClientTakes("CIRC_SENDME")
    /\ UNCHANGED <<circ_package_window, clients, lvars, c2rp>>

ClientConnected ==
    /\ ClientTakes("CONNECTED")
    /\ connected' = connected \cup {s \in {Head(rp2c).sid} : clients[s].st = "open"}
    /\ UNCHANGED <<circ_package_window, clients, held, c2rp>>

ClientEnd ==
    /\ ClientTakes("END")
    /\ clients' = [clients EXCEPT ![Head(rp2c).sid].st = "closed"]
    /\ connected' = connected \ {Head(rp2c).sid}
    /\ held' = held \ {Head(rp2c).sid}
    /\ UNCHANGED <<circ_package_window, c2rp>>

ClientCell ==
    ClientStreamSendme \/ ClientCircSendme \/ ClientConnected \/ ClientEnd

-----------------------------------------------------------------------------
(* The rendezvous point: relay.c splices the two circuits.                 *)

\* Mutant: the window is not refilled when a SENDME is sent.
MutRpForwards ==
    /\ ~closed
    /\ c2rp # <<>>
    /\ c2rp' = Tail(c2rp)
    /\ rp2hs' = Append(rp2hs, Head(c2rp))
    /\ IF Head(c2rp).cmd = "DATA"
       THEN LET w == rp_deliver_window - 1
            IN  /\ rp_deliver_window' = w
                /\ rp2c' = IF w <= CircWindow - Increment
                           THEN Append(rp2c, Control("CIRC_SENDME", 0)) ELSE rp2c
       ELSE UNCHANGED <<rp_deliver_window, rp2c>>
    /\ UNCHANGED <<cvars, lvars, svars, hs2rp>>

\* A cell of the client: DATA is counted and acknowledged with an empty
\* circuit SENDME, and every cell is forwarded.
RpForwards ==
    /\ ~closed
    /\ c2rp # <<>>
    /\ c2rp' = Tail(c2rp)
    /\ rp2hs' = Append(rp2hs, Head(c2rp))
    /\ IF Head(c2rp).cmd = "DATA"
       THEN LET w == rp_deliver_window - 1
            IN  IF w <= CircWindow - Increment
                THEN /\ rp_deliver_window' = w + Increment
                     /\ rp2c' = Append(rp2c, Control("CIRC_SENDME", 0))
                ELSE rp_deliver_window' = w /\ UNCHANGED rp2c
       ELSE UNCHANGED <<rp_deliver_window, rp2c>>
    /\ UNCHANGED <<cvars, lvars, svars, hs2rp>>

\* A control cell of the service (its DATA is in RendezvousOut).
RpReturns ==
    /\ ~closed
    /\ hs2rp # <<>>
    /\ hs2rp' = Tail(hs2rp)
    /\ rp2c' = Append(rp2c, Head(hs2rp))
    /\ UNCHANGED <<cvars, lvars, rp_deliver_window, svars, c2rp, rp2hs>>

-----------------------------------------------------------------------------
(* The service: hs_rp_read_cb.                                             *)

ServiceTakes(cmd) ==
    /\ ~closed
    /\ rp2hs # <<>>
    /\ Head(rp2hs).cmd = cmd
    /\ rp2hs' = Tail(rp2hs)
    /\ UNCHANGED <<cvars, lvars, rp_deliver_window, c2rp, rp2c>>

\* RELAY_BEGIN: the local service is connected, or END; without a socket
\* nothing is answered.
ServiceBegin ==
    /\ ServiceTakes("BEGIN")
    /\ LET s == Head(rp2hs).sid
       IN  \/ /\ targets' = [targets EXCEPT ![s].open = TRUE,
                                            ![s].del = StreamWindow]
              /\ hs2rp' = Append(hs2rp, Control("CONNECTED", s))
           \/ /\ hs2rp' = Append(hs2rp, Control("END", s))
              /\ UNCHANGED targets
           \/ UNCHANGED <<targets, hs2rp>>
    /\ UNCHANGED <<e2e_recv_nonce, closed>>

\* RELAY_DATA whose nonce is the expected one: delivered and counted if the
\* stream is known, dropped otherwise.
ServiceData ==
    /\ ServiceTakes("DATA")
    /\ Head(rp2hs).data.nonce = e2e_recv_nonce
    /\ e2e_recv_nonce' = e2e_recv_nonce + 1
    /\ LET s   == Head(rp2hs).sid
           del == targets[s].del - 1
           due == del <= StreamWindow - Increment
       IN  IF targets[s].open
           THEN /\ targets' = [targets EXCEPT
                                 ![s].del = IF due THEN del + Increment ELSE del,
                                 ![s].got = Append(@, Head(rp2hs).data.seq)]
                /\ hs2rp' = IF due THEN Append(hs2rp, Control("SENDME", s))
                            ELSE hs2rp
           ELSE UNCHANGED <<targets, hs2rp>>
    /\ UNCHANGED closed

\* RELAY_DATA that does not open: "e2e MAC fail -- tearing down".
ServiceMacFailure ==
    /\ ServiceTakes("DATA")
    /\ Head(rp2hs).data.nonce # e2e_recv_nonce
    /\ closed' = TRUE
    /\ UNCHANGED <<e2e_recv_nonce, targets, hs2rp>>

ServiceEnd ==
    /\ ServiceTakes("END")
    /\ targets' = [targets EXCEPT ![Head(rp2hs).sid].open = FALSE]
    /\ UNCHANGED <<e2e_recv_nonce, closed, hs2rp>>

ServiceCell == ServiceBegin \/ ServiceData \/ ServiceMacFailure \/ ServiceEnd

-----------------------------------------------------------------------------
Read(s) == \E n \in 1..MaxRead : ClientSend(s, n)
Timeout == \E s \in Streams : ClientTimeout(s)

Next ==
    \/ \E s \in Streams : \/ OpenStream(s) \/ CloseStream(s) \/ Read(s)
                          \/ ClientBackpressure(s)
    \/ Timeout \/ LinkWritable
    \/ ClientCell \/ RpForwards \/ RpReturns \/ ServiceCell

\* The three event loops keep reading, a guard link whose queue is long takes
\* bytes again, and the timer that looks for late streams keeps firing.
Fairness ==
    /\ WF_vars(held # {} /\ LinkWritable) /\ WF_vars(Timeout)
    /\ WF_vars(ClientCell) /\ WF_vars(RpForwards) /\ WF_vars(RpReturns)
    /\ WF_vars(ServiceCell)

SafeSpec == Init /\ [][Next]_vars
Spec == SafeSpec /\ Fairness

-----------------------------------------------------------------------------
(* Properties.                                                             *)

\* Every variable has its type; the client never overdraws a window, and the
\* rendezvous point's window never runs out, so that it drops nothing.
TypeOK ==
    /\ circ_package_window \in 0..CircWindow
    /\ clients \in [Streams -> Client]
    /\ connected \subseteq Streams
    /\ held \subseteq Streams
    /\ \A s \in Streams : clients[s].pkg \in 0..StreamWindow
    /\ rp_deliver_window \in CircWindow - Increment + 1..CircWindow
    /\ e2e_send_nonce \in Nat /\ e2e_recv_nonce \in Nat /\ closed \in BOOLEAN
    /\ \A s \in Streams : targets[s].del \in 0..StreamWindow

\* The cells on their way to the service, and how many cells of a queue are
\* of command cmd and stream s.
Way == rp2hs \o c2rp
CellsOf(q, cmd, s) == Cardinality({i \in DOMAIN q : q[i].cmd = cmd /\ q[i].sid = s})

\* Across the three parties, a stream's credit, its cells in flight, the cells
\* the service has counted and its SENDMEs in flight make up the window.
StreamCreditConserved ==
    \A s \in Streams :
      clients[s].st = "open" /\ targets[s].open /\ ~closed =>
        clients[s].pkg + CellsOf(Way, "DATA", s) + (StreamWindow - targets[s].del)
          + Increment * (CellsOf(hs2rp, "SENDME", s) + CellsOf(rp2c, "SENDME", s))
        = StreamWindow

\* Sealed chunks travel in the order of their nonces, without a gap from the
\* one the service expects ("so the nonce stays in sync", socks5.c).
NoncesInStep ==
    LET data == {i \in DOMAIN Way : Way[i].cmd = "DATA"}
        nonce(i) == Way[i].data.nonce
    IN  /\ \A i, j \in data : i < j => nonce(i) < nonce(j)
        /\ \A i \in data : /\ nonce(i) >= e2e_recv_nonce
                           /\ \A n \in e2e_recv_nonce..nonce(i) :
                                \E j \in data : nonce(j) = n

\* As long as a single stream has been used on the circuit, they do, until a
\* client that a write-ready link unpaused reads on while sendbuf holds a chunk.
NoncesInStepAlone ==
    /\ Cardinality({s \in Streams : clients[s].st # "unused"}) <= 1
    /\ \A s \in Streams : ~clients[s].late
    => NoncesInStep

\* The local service gets what the application wrote, without a gap, unless a
\* window has cut a read of several chunks short or sendbuf was passed over.
DeliveredInOrder ==
    \A s \in Streams : clients[s].lost = 0 =>
        \A i \in 1..Len(targets[s].got) : targets[s].got[i] = i

ReadAgain(s) == \/ ~clients[s].paused \/ clients[s].st = "closed"
                \/ closed \/ circ_package_window = 0

\* A client paused by its stream window or by the guard link's queue is read
\* again, unless its stream or the circuit ends, or the circuit's credit, which
\* nothing refills, is used up.
StreamResumes == \A s \in Streams : clients[s].paused ~> ReadAgain(s)
=============================================================================
