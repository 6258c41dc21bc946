--------------------------- MODULE SendmeForward ---------------------------
(***************************************************************************)
(* Client-to-exit flow control of one circuit (circuit.c and the exit side *)
(* of relay.c).                                                            *)
(*                                                                         *)
(* The client may have at most CircWindow RELAY_DATA cells outstanding on  *)
(* the circuit and StreamWindow on a stream.  The exit returns a SENDME    *)
(* for every Increment cells it counts.  A circuit SENDME is authenticated *)
(* (Prop 289): it carries the exit's running digest of all relay cells     *)
(* received so far, and the client compares it with the digest that it     *)
(* recorded itself when it sent every Increment-th DATA cell.              *)
(*                                                                         *)
(* A running digest is abstracted to the number of relay cells hashed into *)
(* it: the link is reliable and ordered, so equal counts mean equal hashes *)
(* and different counts mean different hashes.  Every relay cell, DATA or  *)
(* not, moves the digest.  The circuit is alive throughout; its teardown   *)
(* is in RelayCircuits.                                                    *)
(***************************************************************************)
EXTENDS Integers, Sequences, FiniteSets

CONSTANTS
    Streams,          \* stream ids the client opens on this circuit
    CircWindow,       \* MOOR_CIRCUIT_WINDOW
    StreamWindow,     \* MOOR_STREAM_WINDOW
    Increment,        \* MOOR_SENDME_INCREMENT
    AuthMax,          \* MOOR_SENDME_AUTH_MAX, slots of the digest FIFO
    MaxData,          \* bound: DATA cells the client sends
    MaxOther,         \* bound: other relay cells the client sends
    MaxTargetErrors   \* bound: failed writes to an exit target

ASSUME WindowAssumption ==
    /\ Increment \in Nat \ {0}
    /\ CircWindow \in Nat /\ Increment <= CircWindow
    /\ StreamWindow \in Nat /\ Increment <= StreamWindow
    /\ AuthMax \in Nat /\ CircWindow <= AuthMax * Increment   \* 1000, 10 and 100
    /\ MaxData \in Nat /\ MaxOther \in Nat /\ MaxTargetErrors \in Nat

VARIABLES
    circ_package_window,   \* client: credit left on the circuit
    inflight,              \* client: DATA cells not yet acknowledged
    sendme_auth_expected,  \* client: FIFO of recorded digests, oldest first
    forward_digest,        \* client: running digest of what it sent
    cstreams,              \* client: stream slots
    circ_deliver_window,   \* exit: circuit deliver window
    relay_forward_digest,  \* exit: running digest of what it received
    estreams,              \* exit: stream slots
    fwd, bwd,              \* relay cells in flight, oldest first
    hist                   \* history: totals the properties speak of

cvars == <<circ_package_window, inflight, sendme_auth_expected,
           forward_digest, cstreams>>
evars == <<circ_deliver_window, relay_forward_digest, estreams>>
vars  == <<cvars, evars, fwd, bwd, hist>>

(***************************************************************************)
(* Cells.  A forward cell carries the digest after it (set_digest) and the *)
(* history value n, the number of DATA cells sent up to it; a backward     *)
(* cell carries the SENDME body and the history value n, the number of     *)
(* cells credited by circuit SENDMEs up to it.                             *)
(***************************************************************************)
FwdCmds == {"BEGIN", "DATA", "END", "OTHER"}
BwdCmds == {"CONNECTED", "END", "XOFF", "XON", "SENDME", "CIRC_SENDME"}
NoAuth  == 0

\* A cell that concerns no stream has stream id 0.
NoStream == 0

FwdCell == [cmd : FwdCmds \ {"OTHER"}, sid : Streams, dig : Nat, n : Nat]
             \cup [cmd : {"OTHER"}, sid : {NoStream}, dig : Nat, n : Nat]
BwdCell == [cmd : BwdCmds \ {"CIRC_SENDME"}, sid : Streams, auth : Nat, n : Nat]
             \cup [cmd : {"CIRC_SENDME"}, sid : {NoStream}, auth : Nat, n : Nat]

CStream == [st : {"unused", "open", "closed"}, pkg : Int]
Hist    == [sent : Nat, rcvd : Nat, credited : Nat, seen : Nat,
            other : Nat, errors : Nat]
EStream == [st : {"none", "connecting", "connected"}, del : Int,
            xoff_sent : BOOLEAN]

Init ==
    /\ circ_package_window = CircWindow
    /\ inflight = 0
    /\ sendme_auth_expected = <<>>
    /\ forward_digest = 0
    /\ cstreams = [s \in Streams |-> [st |-> "unused", pkg |-> 0]]
    /\ circ_deliver_window = CircWindow
    /\ relay_forward_digest = 0
    /\ estreams = [s \in Streams |->
                     [st |-> "none", del |-> 0, xoff_sent |-> FALSE]]
    /\ fwd = <<>>
    /\ bwd = <<>>
    /\ hist = [sent |-> 0, rcvd |-> 0, credited |-> 0, seen |-> 0,
               other |-> 0, errors |-> 0]

-----------------------------------------------------------------------------
(* The client: opening, closing and writing to streams.                    *)

\* moor_circuit_encrypt_forward, then moor_circuit_queue_cell: the cell is
\* hashed into the forward digest and handed to the link.
ForwardCell(cmd, s, n) ==
    /\ forward_digest' = forward_digest + 1
    /\ fwd' = Append(fwd, [cmd |-> cmd, sid |-> s, n |-> n,
                           dig |-> forward_digest + 1])

\* moor_circuit_open_stream: ids are not reused while 16 bits last.
OpenStream(s) ==
    /\ cstreams[s].st = "unused"
    /\ cstreams' = [cstreams EXCEPT ![s] = [st |-> "open", pkg |-> StreamWindow]]
    /\ ForwardCell("BEGIN", s, hist.sent)
    /\ UNCHANGED <<circ_package_window, inflight, sendme_auth_expected, evars,
                   bwd, hist>>

\* The application closed its socket: RELAY_END and the slot is freed.
CloseStream(s) ==
    /\ cstreams[s].st = "open"
    /\ cstreams' = [cstreams EXCEPT ![s].st = "closed"]
    /\ ForwardCell("END", s, hist.sent)
    /\ UNCHANGED <<circ_package_window, inflight, sendme_auth_expected, evars,
                   bwd, hist>>

\* Mutant: the digest is copied before the cell is hashed into it.
MutRecordDigest(infl, dig) ==
    IF infl % Increment = 0 /\ Len(sendme_auth_expected) < AuthMax
    THEN Append(sendme_auth_expected, dig - 1)
    ELSE sendme_auth_expected

\* The digest FIFO is written at each Increment-th cell in flight, unless full.
RecordDigest(infl, dig) ==
    IF infl % Increment = 0 /\ Len(sendme_auth_expected) < AuthMax
    THEN Append(sendme_auth_expected, dig)
    ELSE sendme_auth_expected

\* Mutant: the circuit window is not looked at.
MutSendNoCircCheck(s) ==
    /\ hist.sent < MaxData
    /\ cstreams[s].st = "open"
    /\ cstreams[s].pkg > 0
    /\ ForwardCell("DATA", s, hist.sent + 1)
    /\ inflight' = inflight + 1
    /\ circ_package_window' = circ_package_window - 1
    /\ cstreams' = [cstreams EXCEPT ![s].pkg = @ - 1]
    /\ sendme_auth_expected' = RecordDigest(inflight + 1, forward_digest + 1)
    /\ hist' = [hist EXCEPT !.sent = @ + 1]
    /\ UNCHANGED <<evars, bwd>>

\* Mutant: the stream window is checked and never charged.
MutSendNoStreamCharge(s) ==
    /\ hist.sent < MaxData
    /\ cstreams[s].st = "open"
    /\ circ_package_window > 0
    /\ cstreams[s].pkg > 0
    /\ ForwardCell("DATA", s, hist.sent + 1)
    /\ inflight' = inflight + 1
    /\ circ_package_window' = circ_package_window - 1
    /\ sendme_auth_expected' = RecordDigest(inflight + 1, forward_digest + 1)
    /\ hist' = [hist EXCEPT !.sent = @ + 1]
    /\ UNCHANGED <<cstreams, evars, bwd>>

\* One iteration of moor_circuit_send_data: both windows must be positive.
SendData(s) ==
    /\ hist.sent < MaxData
    /\ cstreams[s].st = "open"
    /\ circ_package_window > 0
    /\ cstreams[s].pkg > 0
    /\ ForwardCell("DATA", s, hist.sent + 1)
    /\ inflight' = inflight + 1
    /\ circ_package_window' = circ_package_window - 1
    /\ cstreams' = [cstreams EXCEPT ![s].pkg = @ - 1]
    /\ sendme_auth_expected' = RecordDigest(inflight + 1, forward_digest + 1)
    /\ hist' = [hist EXCEPT !.sent = @ + 1]
    /\ UNCHANGED <<evars, bwd>>

\* Any other relay cell to the exit, e.g. a SENDME for the backward direction.
SendOther ==
    /\ hist.other < MaxOther
    /\ ForwardCell("OTHER", NoStream, hist.sent)
    /\ hist' = [hist EXCEPT !.other = @ + 1]
    /\ UNCHANGED <<circ_package_window, inflight, sendme_auth_expected,
                   cstreams, evars, bwd>>

-----------------------------------------------------------------------------
(* The exit: moor_relay_handle_relay on the head of fwd.                   *)

Reply(cmd, s) == [cmd |-> cmd, sid |-> s, auth |-> NoAuth, n |-> hist.credited]

\* relay_decrypt and check_digest: the head cell is consumed and hashed.
ExitTakes(cmd) ==
    /\ fwd # <<>>
    /\ Head(fwd).cmd = cmd
    /\ fwd' = Tail(fwd)
    /\ relay_forward_digest' = relay_forward_digest + 1

ExitCloses(s) == [estreams EXCEPT ![s].st = "none"]

\* What xoff_sent a free slot was left with: nobody clears it.
LeftOver == {FALSE} \cup {estreams[r].xoff_sent : r \in {q \in Streams : estreams[q].st = "none"}}

\* RELAY_BEGIN through moor_relay_exit_connect: refused, with END or without
\* an answer, connected at once, or waiting for the non-blocking connect.
ExitBegin ==
    /\ ExitTakes("BEGIN")
    /\ LET s == Head(fwd).sid
           slot(st, x) == [st |-> st, del |-> StreamWindow, xoff_sent |-> x]
       IN  \/ /\ bwd' \in {bwd, Append(bwd, Reply("END", s))}
              /\ UNCHANGED estreams
           \/ /\ \E x \in LeftOver : estreams' = [estreams EXCEPT ![s] = slot("connected", x)]
              /\ bwd' = Append(bwd, Reply("CONNECTED", s))
           \/ /\ \E x \in LeftOver : estreams' = [estreams EXCEPT ![s] = slot("connecting", x)]
              /\ UNCHANGED bwd
    /\ hist' = [hist EXCEPT !.rcvd = Head(fwd).n]
    /\ UNCHANGED <<cvars, circ_deliver_window>>

\* exit_connect_complete_cb: SO_ERROR decides.
ExitConnectComplete(s) ==
    /\ estreams[s].st = "connecting"
    /\ \/ /\ estreams' = [estreams EXCEPT ![s].st = "connected"]
          /\ bwd' = Append(bwd, Reply("CONNECTED", s))
       \/ /\ estreams' = ExitCloses(s)
          /\ bwd' = Append(bwd, Reply("END", s))
    /\ UNCHANGED <<cvars, circ_deliver_window, relay_forward_digest, fwd, hist>>

\* The deliver windows after one more cell; an exhausted window stops falling
\* at minus its size.
Decrement(w, exhausted, size) == IF exhausted /\ w <= -size THEN w ELSE w - 1

AppendIf(q, cond, cell) == IF cond THEN Append(q, cell) ELSE q

\* Mutant: "else if", the stream SENDME only when no circuit SENDME is due.
MutSendmeCheck(s, known, cw, sw, x) ==
    LET circ == cw <= CircWindow - Increment
        strm == known /\ ~circ /\ sw <= StreamWindow - Increment
        credit == IF circ THEN hist.credited + Increment ELSE hist.credited
        ack  == [cmd |-> "CIRC_SENDME", sid |-> NoStream, n |-> credit,
                 auth |-> relay_forward_digest + 1]
        sack == [cmd |-> "SENDME", sid |-> s, n |-> credit, auth |-> NoAuth]
    IN  /\ circ_deliver_window' = IF circ THEN cw + Increment ELSE cw
        /\ estreams' =
             IF known
             THEN [estreams EXCEPT
                     ![s].del = IF strm THEN sw + Increment ELSE sw,
                     ![s].xoff_sent = (x = "XOFF") \/ (@ /\ x # "XON")]
             ELSE estreams
        /\ bwd' = AppendIf(AppendIf(AppendIf(bwd, x # "none", Reply(x, s)),
                                    circ, ack),
                           strm, sack)
        /\ hist' = [hist EXCEPT !.rcvd = Head(fwd).n, !.credited = credit]

\* The sendme_check tail of the DATA handler, once the windows have fallen to
\* cw and (for a known stream) sw: an XOFF or XON decided before it, then the
\* circuit SENDME with the digest, then the stream SENDME.
SendmeCheck(s, known, cw, sw, x) ==
    LET circ == cw <= CircWindow - Increment
        strm == known /\ sw <= StreamWindow - Increment
        credit == IF circ THEN hist.credited + Increment ELSE hist.credited
        ack  == [cmd |-> "CIRC_SENDME", sid |-> NoStream, n |-> credit,
                 auth |-> relay_forward_digest + 1]
        sack == [cmd |-> "SENDME", sid |-> s, n |-> credit, auth |-> NoAuth]
    IN  /\ circ_deliver_window' = IF circ THEN cw + Increment ELSE cw
        /\ estreams' =
             IF known
             THEN [estreams EXCEPT
                     ![s].del = IF strm THEN sw + Increment ELSE sw,
                     ![s].xoff_sent = (x = "XOFF") \/ (@ /\ x # "XON")]
             ELSE estreams
        /\ bwd' = AppendIf(AppendIf(AppendIf(bwd, x # "none", Reply(x, s)),
                                    circ, ack),
                           strm, sack)
        /\ hist' = [hist EXCEPT !.rcvd = Head(fwd).n, !.credited = credit]

\* RELAY_DATA for a stream the exit no longer has: counted, not delivered.
ExitDataUnknown ==
    /\ ExitTakes("DATA")
    /\ LET s == Head(fwd).sid
       IN  /\ estreams[s].st = "none"
           /\ SendmeCheck(s, FALSE, circ_deliver_window - 1, 0, "none")
    /\ UNCHANGED cvars

\* RELAY_DATA while the target connect is pending, or beyond a window:
\* counted in both windows, dropped.
ExitDataDropped ==
    /\ ExitTakes("DATA")
    /\ LET s == Head(fwd).sid
           e == estreams[s]
           exhausted == /\ e.st = "connected"
                        /\ circ_deliver_window <= 0 \/ e.del <= 0
       IN  /\ e.st = "connecting" \/ exhausted
           /\ SendmeCheck(s, TRUE,
                          Decrement(circ_deliver_window, exhausted, CircWindow),
                          Decrement(e.del, exhausted, StreamWindow), "none")
    /\ UNCHANGED cvars

\* Within both windows, RELAY_DATA is written to the target socket.
ExitCanDeliver(s) ==
    /\ estreams[s].st = "connected"
    /\ circ_deliver_window > 0
    /\ estreams[s].del > 0

\* The write takes everything (XON if XOFF was sent) or meets a full socket
\* buffer (XOFF unless sent already); either way the cell is counted.
ExitDataDelivered ==
    /\ ExitTakes("DATA")
    /\ LET s == Head(fwd).sid
           e == estreams[s]
       IN  /\ ExitCanDeliver(s)
           /\ \E full \in BOOLEAN :
                SendmeCheck(s, TRUE, circ_deliver_window - 1, e.del - 1,
                            CASE full /\ ~e.xoff_sent -> "XOFF"
                              [] ~full /\ e.xoff_sent -> "XON"
                              [] OTHER -> "none")
    /\ UNCHANGED cvars

\* The write fails: RELAY_END, the slot is freed, and the handler returns
\* before the windows are touched.
ExitDataError ==
    /\ hist.errors < MaxTargetErrors
    /\ ExitTakes("DATA")
    /\ LET s == Head(fwd).sid
       IN  /\ ExitCanDeliver(s)
           /\ estreams' = ExitCloses(s)
           /\ bwd' = Append(bwd, Reply("END", s))
    /\ hist' = [hist EXCEPT !.rcvd = Head(fwd).n, !.errors = @ + 1]
    /\ UNCHANGED <<cvars, circ_deliver_window>>

\* RELAY_END from the client closes the target socket.
ExitEnd ==
    /\ ExitTakes("END")
    /\ estreams' = ExitCloses(Head(fwd).sid)
    /\ hist' = [hist EXCEPT !.rcvd = Head(fwd).n]
    /\ UNCHANGED <<cvars, circ_deliver_window, bwd>>

\* Any other command: hashed, and of no concern to this direction.
ExitOther ==
    /\ ExitTakes("OTHER")
    /\ hist' = [hist EXCEPT !.rcvd = Head(fwd).n]
    /\ UNCHANGED <<cvars, circ_deliver_window, estreams, bwd>>

\* exit_target_read_cb: the target closed its socket.
ExitTargetClosed(s) ==
    /\ estreams[s].st = "connected"
    /\ estreams' = ExitCloses(s)
    /\ bwd' = Append(bwd, Reply("END", s))
    /\ UNCHANGED <<cvars, circ_deliver_window, relay_forward_digest, fwd, hist>>

ExitCell ==
    \/ ExitBegin \/ ExitDataUnknown \/ ExitDataDropped \/ ExitDataDelivered
    \/ ExitDataError \/ ExitEnd \/ ExitOther

-----------------------------------------------------------------------------
(* The client: process_circuit_cell on the head of bwd.                    *)

ClientTakes(cmds) ==
    /\ bwd # <<>>
    /\ Head(bwd).cmd \in cmds
    /\ bwd' = Tail(bwd)
    /\ hist' = [hist EXCEPT !.seen = Head(bwd).n]

\* moor_circuit_handle_sendme, stream 0: the digest must be the oldest one
\* recorded.
SendmeVerifies(auth) ==
    /\ sendme_auth_expected # <<>>
    /\ auth = Head(sendme_auth_expected)

\* A window above its size is first brought down to it, then refilled.
Refill(w, size) == (IF w > size THEN size ELSE w) + Increment

ClientCircSendme ==
    /\ ClientTakes({"CIRC_SENDME"})
    /\ SendmeVerifies(Head(bwd).auth)
    /\ sendme_auth_expected' = Tail(sendme_auth_expected)
    /\ inflight' = IF inflight >= Increment THEN inflight - Increment ELSE 0
    /\ circ_package_window' = Refill(circ_package_window, CircWindow)
    /\ UNCHANGED <<forward_digest, cstreams, evars, fwd>>

\* Mutant: the window is refilled before the digest is verified.
MutCircSendmeRejected ==
    /\ ClientTakes({"CIRC_SENDME"})
    /\ ~SendmeVerifies(Head(bwd).auth)
    /\ circ_package_window' = Refill(circ_package_window, CircWindow)
    /\ UNCHANGED <<inflight, sendme_auth_expected, forward_digest, cstreams,
                   evars, fwd>>

\* An unexpected or mismatching SENDME is logged and ignored.
ClientCircSendmeRejected ==
    /\ ClientTakes({"CIRC_SENDME"})
    /\ ~SendmeVerifies(Head(bwd).auth)
    /\ UNCHANGED <<cvars, evars, fwd>>

ClientStreamSendme ==
    /\ ClientTakes({"SENDME"})
    /\ LET s == Head(bwd).sid
       IN  cstreams' = IF cstreams[s].st = "open"
                       THEN [cstreams EXCEPT ![s].pkg = Refill(@, StreamWindow)]
                       ELSE cstreams
    /\ UNCHANGED <<circ_package_window, inflight, sendme_auth_expected,
                   forward_digest, evars, fwd>>

\* RELAY_END frees the client's slot.
ClientEnd ==
    /\ ClientTakes({"END"})
    /\ cstreams' = [cstreams EXCEPT ![Head(bwd).sid].st = "closed"]
    /\ UNCHANGED <<circ_package_window, inflight, sendme_auth_expected,
                   forward_digest, evars, fwd>>

\* CONNECTED, XOFF and XON concern the application socket (StreamPump).
ClientPauseResume ==
    /\ ClientTakes({"CONNECTED", "XOFF", "XON"})
    /\ UNCHANGED <<cvars, evars, fwd>>

ClientCell ==
    \/ ClientCircSendme \/ ClientCircSendmeRejected \/ ClientStreamSendme
    \/ ClientEnd \/ ClientPauseResume

-----------------------------------------------------------------------------
Next ==
    \/ \E s \in Streams :
         \/ OpenStream(s) \/ CloseStream(s) \/ SendData(s)
         \/ ExitConnectComplete(s) \/ ExitTargetClosed(s)
    \/ SendOther
    \/ ExitCell
    \/ ClientCell

\* The event loops of both ends keep reading their links, and a pending
\* connect completes or fails.
Fairness ==
    /\ WF_vars(ExitCell)
    /\ WF_vars(ClientCell)
    /\ \A s \in Streams : WF_vars(ExitConnectComplete(s))

SafeSpec == Init /\ [][Next]_vars
Spec == SafeSpec /\ Fairness

-----------------------------------------------------------------------------
(* Properties.                                                             *)

\* Every variable has its type; in particular no package window is negative
\* (moor_circuit_send_data stops at zero).
TypeOK ==
    /\ circ_package_window \in Nat
    /\ inflight \in Nat
    /\ sendme_auth_expected \in Seq(Nat)
    /\ forward_digest \in Nat
    /\ cstreams \in [Streams -> CStream]
    /\ circ_deliver_window \in Int
    /\ relay_forward_digest \in Nat
    /\ estreams \in [Streams -> EStream]
    /\ fwd \in Seq(FwdCell)
    /\ bwd \in Seq(BwdCell)
    /\ hist \in Hist

\* What the client takes as acknowledged was credited by the exit, and what
\* the exit credited it had received, so the client's window and its cells in
\* flight always make up the circuit window, whatever happens to streams.
WindowConserved ==
    /\ inflight + circ_package_window = CircWindow
    /\ hist.sent - inflight <= hist.credited
    /\ hist.credited <= hist.rcvd
    /\ hist.rcvd <= hist.sent

\* A client that respects its windows never meets the "deliver window
\* exhausted -- dropping cell" branch of the exit.
NoWindowDrop ==
    /\ circ_deliver_window > CircWindow - Increment
    /\ \A s \in Streams : estreams[s].st # "none" => estreams[s].del > 0

\* The circuit SENDMEs on their way to the client carry, in order, exactly the
\* digests at the front of the client's FIFO: none of them will be rejected.
SendmeAuthInSync ==
    \A i \in 1..Len(bwd) : bwd[i].cmd = "CIRC_SENDME" =>
      LET k == Cardinality({j \in 1..i : bwd[j].cmd = "CIRC_SENDME"})
      IN  k <= Len(sendme_auth_expected) /\ bwd[i].auth = sendme_auth_expected[k]

\* On a stream both ends have open, the client's window, its cells in flight,
\* the cells the exit has counted and the SENDMEs in flight make up the window.
StreamWindowConserved ==
    \A s \in Streams :
      cstreams[s].st = "open" /\ estreams[s].st # "none" =>
        LET data == {i \in 1..Len(fwd) : fwd[i].cmd = "DATA" /\ fwd[i].sid = s}
            acks == {i \in 1..Len(bwd) : bwd[i].cmd = "SENDME" /\ bwd[i].sid = s}
        IN  cstreams[s].pkg + Cardinality(data) + (StreamWindow - estreams[s].del)
              + Increment * Cardinality(acks) = StreamWindow

\* The same until a write to a target fails, the one branch of the DATA
\* handler that does not count the cell.
InSyncUntilError == hist.errors = 0 => SendmeAuthInSync

\* What one end sends within its windows the other takes: the exit drops no
\* cell for want of window, and until a write to a target fails the client
\* rejects no circuit SENDME.
NothingRefused == NoWindowDrop /\ InSyncUntilError

CircuitBlocked == circ_package_window = 0
CircuitFree == circ_package_window > 0 \/ hist.errors > 0

\* A client blocked by the circuit window gets credit again, or a target
\* write has failed.
CircuitUnblocks == CircuitBlocked ~> CircuitFree

StreamBlocked(s) == cstreams[s].st = "open" /\ cstreams[s].pkg = 0
\* The exit refused its BEGIN without an answer.
RefusedSilently(s) ==
    /\ estreams[s].st = "none" /\ estreams[s].del = 0
    /\ \A i \in DOMAIN fwd : fwd[i].cmd = "BEGIN" => fwd[i].sid # s
    /\ \A i \in DOMAIN bwd : bwd[i].cmd = "END" => bwd[i].sid # s
StreamFree(s) == cstreams[s].st = "closed" \/ cstreams[s].pkg > 0 \/ RefusedSilently(s)

\* A client blocked by a stream window gets credit again, or the stream ends,
\* or the exit refused it without telling.
StreamUnblocks == \A s \in Streams : StreamBlocked(s) ~> StreamFree(s)

\* The circuit windows implement the abstract credit window.
Credit == INSTANCE CreditWindow WITH
            Window <- CircWindow,
            sent <- hist.sent,
            received <- hist.rcvd,
            acked <- hist.sent - inflight

\* Every step of the two ends is a step of the credit window or leaves it
\* alone: no SENDME is accepted for cells that were not received.
RefinesCreditWindow == Credit!Spec
=============================================================================
