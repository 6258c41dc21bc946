---------------------------- MODULE RendezvousOut ---------------------------
(***************************************************************************)
(* A hidden service's data to its client: service (main.c), rendezvous     *)
(* point (the splice of relay.c), client (socks5.c, circuit.c).            *)
(*                                                                         *)
(* The service reads a local connection while the stream's and the         *)
(* circuit's package windows are positive, and takes it out of the event   *)
(* loop otherwise.  It is credited at circuit level twice, by the          *)
(* rendezvous point that forwards its cells and by the client's own        *)
(* SENDMEs, which the rendezvous point forwards like any other cell; the   *)
(* windows are capped.  Payloads are sealed under one nonce counter.       *)
(***************************************************************************)
EXTENDS Integers, Sequences, FiniteSetsExt

CONSTANTS
    Streams,                               \* streams open on the circuit
    CircWindow, StreamWindow, Increment,   \* as in SendmeForward
    MaxData                                \* bound: cells the targets send in all

RendezvousAssumption ==
    /\ Increment \in Nat \ {0} /\ MaxData \in Nat
    /\ CircWindow \in Nat /\ Increment <= CircWindow
    /\ StreamWindow \in Nat /\ Increment <= StreamWindow

VARIABLES
    circ_package_window,   \* service: credit on the circuit
    e2e_send_nonce,        \* service: nonce of the next sealed cell
    targets,               \* service: connections to the local service
    todo,                  \* cells each target still has to send
    rp_deliver_window,     \* rendezvous point: window of the service's circuit
    circ_deliver_window,   \* client: circuit window
    e2e_recv_nonce,        \* client: nonce it expects
    clients,               \* client: streams; dropped: freed without RELAY_END
    hs2rp, rp2c, c2rp, rp2hs   \* cells in flight

svars == <<circ_package_window, e2e_send_nonce, targets, todo>>
cvars == <<circ_deliver_window, e2e_recv_nonce, clients>>
vars  == <<svars, rp_deliver_window, cvars, hs2rp, rp2c, c2rp, rp2hs>>

NoStream == 0
Cell(cmd, s, nonce) == [cmd |-> cmd, sid |-> s, nonce |-> nonce]

\* The streams have been opened (RELAY_BEGIN is in RendezvousIn).
Init ==
    /\ circ_package_window = CircWindow /\ e2e_send_nonce = 0
    /\ targets = [s \in Streams |->
                    [open |-> TRUE, pkg |-> StreamWindow, reading |-> TRUE]]
    /\ todo \in {f \in [Streams -> 0..MaxData] :
                   MapThenSumSet(LAMBDA s : f[s], Streams) = MaxData}
    /\ rp_deliver_window = CircWindow
    /\ circ_deliver_window = CircWindow /\ e2e_recv_nonce = 0
    /\ clients = [s \in Streams |-> [open |-> TRUE, del |-> StreamWindow,
                                     dropped |-> FALSE]]
    /\ hs2rp = <<>> /\ rp2c = <<>> /\ c2rp = <<>> /\ rp2hs = <<>>

-----------------------------------------------------------------------------
(* The service: hs_target_read_cb on a readable local connection.          *)

HasCredit(s) == targets[s].pkg > 0 /\ circ_package_window > 0

ServicePaused(s) ==
    /\ targets[s].reading
    /\ ~HasCredit(s)
    /\ targets' = [targets EXCEPT ![s].reading = FALSE]
    /\ UNCHANGED <<circ_package_window, e2e_send_nonce, todo, rp_deliver_window,
                   cvars, hs2rp, rp2c, c2rp, rp2hs>>

\* Mutant: the nonce is not advanced when the stream's window runs out.
MutServiceReads(s) ==
    /\ targets[s].reading
    /\ HasCredit(s)
    /\ todo[s] > 0
    /\ todo' = [todo EXCEPT ![s] = @ - 1]
    /\ hs2rp' = Append(hs2rp, Cell("DATA", s, e2e_send_nonce))
    /\ e2e_send_nonce' = IF targets[s].pkg = 1 THEN e2e_send_nonce
                         ELSE e2e_send_nonce + 1
    /\ targets' = [targets EXCEPT ![s].pkg = @ - 1]
    /\ circ_package_window' = circ_package_window - 1
    /\ UNCHANGED <<rp_deliver_window, cvars, rp2c, c2rp, rp2hs>>

\* One cell is sealed under the next nonce and sent; both windows fall.
ServiceReads(s) ==
    /\ targets[s].reading
    /\ HasCredit(s)
    /\ todo[s] > 0
    /\ todo' = [todo EXCEPT ![s] = @ - 1]
    /\ hs2rp' = Append(hs2rp, Cell("DATA", s, e2e_send_nonce))
    /\ e2e_send_nonce' = e2e_send_nonce + 1
    /\ targets' = [targets EXCEPT ![s].pkg = @ - 1]
    /\ circ_package_window' = circ_package_window - 1
    /\ UNCHANGED <<rp_deliver_window, cvars, rp2c, c2rp, rp2hs>>

\* The local connection is closed: RELAY_END, the slot is freed.
ServiceTargetClosed(s) ==
    /\ targets[s].reading
    /\ HasCredit(s)
    /\ todo[s] = 0
    /\ hs2rp' = Append(hs2rp, Cell("END", s, 0))
    /\ targets' = [targets EXCEPT ![s].open = FALSE, ![s].reading = FALSE]
    /\ UNCHANGED <<circ_package_window, e2e_send_nonce, todo, rp_deliver_window,
                   cvars, rp2c, c2rp, rp2hs>>

-----------------------------------------------------------------------------
(* The service: hs_rp_read_cb on the head of rp2hs.                        *)

ServiceTakes(cmd) ==
    /\ rp2hs # <<>>
    /\ Head(rp2hs).cmd = cmd
    /\ rp2hs' = Tail(rp2hs)
    /\ UNCHANGED <<e2e_send_nonce, todo, rp_deliver_window, cvars, hs2rp, rp2c,
                   c2rp>>

\* Mutant: the refilled window is not capped.
MutServiceCircSendme ==
    /\ ServiceTakes("CIRC_SENDME")
    /\ circ_package_window' = circ_package_window + Increment
    /\ UNCHANGED targets

\* Circuit level: refill, capped.  No connection is put back.
ServiceCircSendme ==
    /\ ServiceTakes("CIRC_SENDME")
    /\ circ_package_window' = Min({CircWindow, circ_package_window + Increment})
    /\ UNCHANGED targets

\* Stream level: refill, capped, and the connection is read again.
ServiceStreamSendme ==
    /\ ServiceTakes("SENDME")
    /\ LET s == Head(rp2hs).sid
       IN  targets' = IF targets[s].open
                      THEN [targets EXCEPT
                              ![s].pkg = Min({StreamWindow, @ + Increment}),
                              ![s].reading = TRUE]
                      ELSE targets
    /\ UNCHANGED circ_package_window

ServiceEnd ==
    /\ ServiceTakes("END")
    /\ targets' = [targets EXCEPT ![Head(rp2hs).sid].open = FALSE,
                                  ![Head(rp2hs).sid].reading = FALSE]
    /\ UNCHANGED circ_package_window

ServiceCell == ServiceCircSendme \/ ServiceStreamSendme \/ ServiceEnd

-----------------------------------------------------------------------------
(* The rendezvous point.                                                   *)

\* A cell of the service: DATA beyond the window is dropped, other DATA is
\* counted and acknowledged to the service; what is left is forwarded.
RpForwards ==
    /\ hs2rp # <<>>
    /\ hs2rp' = Tail(hs2rp)
    /\ LET w   == rp_deliver_window - 1
           due == w <= CircWindow - Increment
       IN  IF Head(hs2rp).cmd # "DATA"
           THEN /\ rp2c' = Append(rp2c, Head(hs2rp))
                /\ UNCHANGED <<rp_deliver_window, rp2hs>>
           ELSE IF rp_deliver_window <= 0
           THEN UNCHANGED <<rp2c, rp_deliver_window, rp2hs>>
           ELSE /\ rp2c' = Append(rp2c, Head(hs2rp))
                /\ rp_deliver_window' = IF due THEN w + Increment ELSE w
                /\ rp2hs' = IF due THEN Append(rp2hs, Cell("CIRC_SENDME", NoStream, 0))
                            ELSE rp2hs
    /\ UNCHANGED <<svars, cvars, c2rp>>

\* A control cell of the client is forwarded, its circuit SENDMEs included.
RpReturns ==
    /\ c2rp # <<>>
    /\ c2rp' = Tail(c2rp)
    /\ rp2hs' = Append(rp2hs, Head(c2rp))
    /\ UNCHANGED <<svars, rp_deliver_window, cvars, hs2rp, rp2c>>

-----------------------------------------------------------------------------
(* The client.                                                             *)

CloseStream(s) ==
    /\ clients[s].open
    /\ clients' = [clients EXCEPT ![s].open = FALSE]
    /\ c2rp' = Append(c2rp, Cell("END", s, 0))
    /\ UNCHANGED <<svars, rp_deliver_window, circ_deliver_window, e2e_recv_nonce,
                   hs2rp, rp2c, rp2hs>>

ClientTakes(cmd) ==
    /\ rp2c # <<>>
    /\ Head(rp2c).cmd = cmd
    /\ rp2c' = Tail(rp2c)
    /\ UNCHANGED <<svars, rp_deliver_window, hs2rp, rp2hs>>

\* RELAY_DATA is opened (a nonce out of step would end the circuit:
\* NoncesInStep says that none ever is) and written to the application; if
\* that refuses, the stream is freed without a word.  Then the cell is counted
\* for the stream, if it is still there, and for the circuit
\* (moor_circuit_maybe_send_sendme).
ClientData ==
    /\ ClientTakes("DATA")
    /\ Head(rp2c).nonce = e2e_recv_nonce
    /\ e2e_recv_nonce' = e2e_recv_nonce + 1
    /\ \E refused \in BOOLEAN :
         LET s    == Head(rp2c).sid
             del  == clients[s].del - 1
             strm == ~refused /\ clients[s].open /\ del <= StreamWindow - Increment
             cw   == circ_deliver_window - 1
             circ == cw <= CircWindow - Increment
         IN  /\ refused => clients[s].open
             /\ clients' = IF refused
                           THEN [clients EXCEPT ![s].open = FALSE, ![s].dropped = TRUE]
                           ELSE IF clients[s].open
                           THEN [clients EXCEPT
                                   ![s].del = IF strm THEN del + Increment ELSE del]
                           ELSE clients
             /\ circ_deliver_window' = IF circ THEN cw + Increment ELSE cw
             /\ c2rp' = c2rp
                  \o (IF strm THEN <<Cell("SENDME", s, 0)>> ELSE <<>>)
                  \o (IF circ THEN <<Cell("CIRC_SENDME", NoStream, 0)>> ELSE <<>>)

ClientEnd ==
    /\ ClientTakes("END")
    /\ clients' = [clients EXCEPT ![Head(rp2c).sid].open = FALSE]
    /\ UNCHANGED <<circ_deliver_window, e2e_recv_nonce, c2rp>>

ClientCell == ClientData \/ ClientEnd

-----------------------------------------------------------------------------
ServiceRead(s) == ServicePaused(s) \/ ServiceReads(s)

Next ==
    \/ \E s \in Streams :
         ServiceRead(s) \/ ServiceTargetClosed(s) \/ CloseStream(s)
    \/ ServiceCell \/ RpForwards \/ RpReturns \/ ClientCell

\* The three event loops keep reading.
Fairness ==
    /\ WF_vars(ServiceCell) /\ WF_vars(RpForwards) /\ WF_vars(RpReturns)
    /\ WF_vars(ClientCell)
    /\ \A s \in Streams : WF_vars(ServiceRead(s))

SafeSpec == Init /\ [][Next]_vars
Spec == SafeSpec /\ Fairness

-----------------------------------------------------------------------------
(* Properties.                                                             *)

\* Every variable has its type; double credit never lifts a window above its
\* size, and neither the rendezvous point nor the client runs out of window.
TypeOK ==
    /\ circ_package_window \in 0..CircWindow
    /\ \A s \in Streams : targets[s].pkg \in 0..StreamWindow
    /\ todo \in [Streams -> 0..MaxData]
    /\ rp_deliver_window \in 1..CircWindow
    /\ circ_deliver_window \in 1..CircWindow
    /\ \A s \in Streams : clients[s].del \in 1..StreamWindow
    /\ e2e_send_nonce \in Nat /\ e2e_recv_nonce \in Nat

\* The sealed cells in flight, of all streams together, carry exactly the
\* nonces the client expects next: no interleaving of local connections, and
\* no closed stream, can make a payload unreadable.
NoncesInStep ==
    LET way == rp2c \o hs2rp
        data == {i \in DOMAIN way : way[i].cmd = "DATA"}
    IN  /\ {way[i].nonce : i \in data} = e2e_recv_nonce..(e2e_send_nonce - 1)
        /\ \A i, j \in data : i < j => way[i].nonce < way[j].nonce

\* A connection that was paused for want of circuit credit alone.
ShortOfCircuit(s) == ~targets[s].reading /\ targets[s].pkg > 0

Drained(s) == \/ todo[s] = 0 \/ ~targets[s].open
              \/ ShortOfCircuit(s) \/ clients[s].dropped

\* What a local connection has to send is read to the end ("pause reads until
\* client sends SENDME to refill", main.c): a connection whose own window is
\* used up is put back, unless the stream is closed, or dropped by a client
\* that does not say so.  One that is paused while it has credit of its own,
\* for want of the circuit's, is not: circuit SENDMEs put nothing back.
ServiceDrained == \A s \in Streams : targets[s].open ~> Drained(s)
=============================================================================
