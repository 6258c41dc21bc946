--------------------------- MODULE SendmeBackward ---------------------------
(***************************************************************************)
(* Exit-to-client flow control of one circuit (relay.c's exit callbacks    *)
(* and the client's half in socks5.c and circuit.c).                       *)
(*                                                                         *)
(* The exit reads a target socket only while the stream's and the          *)
(* circuit's package windows are positive.  When one of them runs out the  *)
(* socket is taken out of the event loop, and it must be put back when a   *)
(* SENDME brings credit: a circuit SENDME wakes every stream, a stream     *)
(* SENDME its own.  The client returns SENDMEs for what it has read, the   *)
(* circuit ones with its running digest of the cells received.             *)
(*                                                                         *)
(* Digests are abstracted to counts of cells hashed, as in SendmeForward.  *)
(***************************************************************************)
EXTENDS Integers, Sequences, FiniteSets

CONSTANTS
    Streams,           \* stream ids the client opens
    CircWindow, StreamWindow, Increment, AuthMax,  \* as in SendmeForward
    MaxData,           \* bound: cells each target has to send
    MaxWriteFailures   \* bound: writes the application's socket refuses

ASSUME WindowAssumption ==
    /\ Increment \in Nat \ {0}
    /\ CircWindow \in Nat /\ Increment <= CircWindow
    /\ StreamWindow \in Nat /\ Increment <= StreamWindow
    /\ AuthMax \in Nat /\ CircWindow <= AuthMax * Increment   \* 1000, 10 and 100
    /\ MaxData \in Nat /\ MaxWriteFailures \in Nat

VARIABLES
    circ_package_window,     \* exit: credit left on the circuit
    sendme_auth_cells_sent,  \* exit: DATA cells since the last recorded digest
    sendme_auth_expected,    \* exit: FIFO of recorded digests
    relay_backward_digest,   \* exit: running digest of what it sent
    estreams,                \* exit: stream slots and their event registration
    circ_deliver_window,     \* client: circuit deliver window
    backward_digest,         \* client: running digest of what it received
    cstreams,                \* client: stream slots
    fwd, bwd,                \* relay cells in flight, oldest first
    todo,                    \* cells each target still has to send
    failures                 \* refused writes so far

evars == <<circ_package_window, sendme_auth_cells_sent, sendme_auth_expected,
           relay_backward_digest, estreams>>
cvars == <<circ_deliver_window, backward_digest, cstreams>>
vars  == <<evars, cvars, fwd, bwd, todo, failures>>

NoStream == 0
NoAuth   == 0

\* A circuit SENDME has stream id 0.
FwdCell == [cmd : {"BEGIN", "END", "SENDME"}, sid : Streams, auth : Nat]
             \cup [cmd : {"CIRC_SENDME"}, sid : {NoStream}, auth : Nat]
BwdCell == [cmd : {"CONNECTED", "DATA", "END"}, sid : Streams]
CStream == [st : {"unused", "open", "closed"}, del : Int]
EStream == [st : {"none", "connecting", "connected"}, pkg : Int,
            reading : BOOLEAN]

Init ==
    /\ circ_package_window = CircWindow
    /\ sendme_auth_cells_sent = 0
    /\ sendme_auth_expected = <<>>
    /\ relay_backward_digest = 0
    /\ estreams = [s \in Streams |->
                     [st |-> "none", pkg |-> 0, reading |-> FALSE]]
    /\ circ_deliver_window = CircWindow
    /\ backward_digest = 0
    /\ cstreams = [s \in Streams |-> [st |-> "unused", del |-> 0]]
    /\ fwd = <<>>
    /\ bwd = <<>>
    /\ todo \in [Streams -> 0..MaxData]
    /\ failures = 0

-----------------------------------------------------------------------------
(* The exit's target sockets.                                              *)

\* set_digest, relay_encrypt, queue_cell.
ExitSends(cmd, s) ==
    /\ relay_backward_digest' = relay_backward_digest + 1
    /\ bwd' = Append(bwd, [cmd |-> cmd, sid |-> s])

\* Mutant: only the stream window is looked at.
MutHasCredit(s) == estreams[s].pkg > 0

HasCredit(s) == estreams[s].pkg > 0 /\ circ_package_window > 0

\* exit_connect_complete_cb: READ is registered before CONNECTED is sent, or
\* the slot is freed and END is sent.
ExitConnectComplete(s) ==
    /\ estreams[s].st = "connecting"
    /\ \/ /\ estreams' = [estreams EXCEPT ![s].st = "connected",
                                          ![s].reading = TRUE]
          /\ ExitSends("CONNECTED", s)
       \/ /\ estreams' = [estreams EXCEPT ![s].st = "none"]
          /\ ExitSends("END", s)
    /\ UNCHANGED <<circ_package_window, sendme_auth_cells_sent,
                   sendme_auth_expected, cvars, fwd, todo, failures>>

\* exit_target_read_cb with a window exhausted: reading stops.
ExitReadPaused(s) ==
    /\ estreams[s].reading
    /\ ~HasCredit(s)
    /\ estreams' = [estreams EXCEPT ![s].reading = FALSE]
    /\ UNCHANGED <<circ_package_window, sendme_auth_cells_sent,
                   sendme_auth_expected, relay_backward_digest, cvars,
                   fwd, bwd, todo, failures>>

\* Mutant: the digest is recorded one cell late.
MutRecordDigest(cells, dig) ==
    IF cells > Increment
    THEN /\ sendme_auth_cells_sent' = 0
         /\ sendme_auth_expected' =
              IF Len(sendme_auth_expected) < AuthMax
              THEN Append(sendme_auth_expected, dig)
              ELSE sendme_auth_expected
    ELSE sendme_auth_cells_sent' = cells /\ UNCHANGED sendme_auth_expected

\* At each Increment-th DATA cell the digest is recorded, unless the FIFO is
\* full.
RecordDigest(cells, dig) ==
    IF cells >= Increment
    THEN /\ sendme_auth_cells_sent' = 0
         /\ sendme_auth_expected' =
              IF Len(sendme_auth_expected) < AuthMax
              THEN Append(sendme_auth_expected, dig)
              ELSE sendme_auth_expected
    ELSE sendme_auth_cells_sent' = cells /\ UNCHANGED sendme_auth_expected

\* Mutant: the stream window is not charged.
MutReadData(s) ==
    /\ estreams[s].reading
    /\ HasCredit(s)
    /\ todo[s] > 0
    /\ todo' = [todo EXCEPT ![s] = @ - 1]
    /\ circ_package_window' = circ_package_window - 1
    /\ ExitSends("DATA", s)
    /\ RecordDigest(sendme_auth_cells_sent + 1, relay_backward_digest + 1)
    /\ estreams' = [estreams EXCEPT ![s].reading = circ_package_window' > 0]
    /\ UNCHANGED <<cvars, fwd, failures>>

\* exit_target_read_cb with credit and data: one DATA cell, both windows fall,
\* and reading stops if one of them is now exhausted.
ExitReadData(s) ==
    /\ estreams[s].reading
    /\ HasCredit(s)
    /\ todo[s] > 0
    /\ todo' = [todo EXCEPT ![s] = @ - 1]
    /\ circ_package_window' = circ_package_window - 1
    /\ ExitSends("DATA", s)
    /\ RecordDigest(sendme_auth_cells_sent + 1, relay_backward_digest + 1)
    /\ LET pkg == estreams[s].pkg - 1
       IN  estreams' = [estreams EXCEPT
                          ![s].pkg = pkg,
                          ![s].reading = pkg > 0 /\ circ_package_window' > 0]
    /\ UNCHANGED <<cvars, fwd, failures>>

\* exit_target_read_cb at end of file: RELAY_END, the slot is freed.
ExitTargetClosed(s) ==
    /\ estreams[s].reading
    /\ HasCredit(s)
    /\ todo[s] = 0
    /\ ExitSends("END", s)
    /\ estreams' = [estreams EXCEPT ![s].st = "none", ![s].reading = FALSE]
    /\ UNCHANGED <<circ_package_window, sendme_auth_cells_sent,
                   sendme_auth_expected, cvars, fwd, todo, failures>>

-----------------------------------------------------------------------------
(* The exit: moor_relay_handle_relay on the head of fwd.                   *)

ExitTakes(cmd) ==
    /\ fwd # <<>>
    /\ Head(fwd).cmd = cmd
    /\ fwd' = Tail(fwd)
    /\ UNCHANGED <<cvars, todo, failures>>

\* RELAY_BEGIN: refused, with END or without an answer, connected, or waiting.
ExitBegin ==
    /\ ExitTakes("BEGIN")
    /\ LET s == Head(fwd).sid
           slot(st) == [st |-> st, pkg |-> StreamWindow,
                        reading |-> st = "connected"]
       IN  \/ /\ ExitSends("END", s) \/ UNCHANGED <<relay_backward_digest, bwd>>
              /\ UNCHANGED estreams
           \/ /\ estreams' = [estreams EXCEPT ![s] = slot("connected")]
              /\ ExitSends("CONNECTED", s)
           \/ /\ estreams' = [estreams EXCEPT ![s] = slot("connecting")]
              /\ UNCHANGED <<relay_backward_digest, bwd>>
    /\ UNCHANGED <<circ_package_window, sendme_auth_cells_sent,
                   sendme_auth_expected>>

\* RELAY_END: the target socket is closed.
ExitEnd ==
    /\ ExitTakes("END")
    /\ estreams' = [estreams EXCEPT ![Head(fwd).sid].st = "none",
                                    ![Head(fwd).sid].reading = FALSE]
    /\ UNCHANGED <<circ_package_window, sendme_auth_cells_sent,
                   sendme_auth_expected, relay_backward_digest, bwd>>

\* moor_event_add on the target sockets of the connected streams among ss.
Resumed(ss) ==
    [s \in Streams |->
       IF s \in ss /\ estreams[s].st = "connected"
       THEN [estreams[s] EXCEPT !.reading = TRUE] ELSE estreams[s]]

\* A digest is compared only when one is recorded.
SendmeVerifies(auth) ==
    sendme_auth_expected # <<>> => auth = Head(sendme_auth_expected)

Popped(q) == IF q = <<>> THEN <<>> ELSE Tail(q)

\* Mutant: only the paused streams with credit of their own are looked at
\* before the circuit window is refilled.
MutExitCircSendme ==
    /\ ExitTakes("CIRC_SENDME")
    /\ IF SendmeVerifies(Head(fwd).auth)
       THEN /\ sendme_auth_expected' = Popped(sendme_auth_expected)
            /\ IF circ_package_window <= CircWindow
               THEN /\ circ_package_window' = circ_package_window + Increment
                    /\ estreams' = Resumed({s \in Streams : HasCredit(s)})
               ELSE UNCHANGED <<circ_package_window, estreams>>
       ELSE UNCHANGED <<sendme_auth_expected, circ_package_window, estreams>>
    /\ UNCHANGED <<sendme_auth_cells_sent, relay_backward_digest, bwd>>

\* RELAY_SENDME for the circuit: once verified, and unless the window is above
\* its size, the window is refilled and every connected stream is read again.
ExitCircSendme ==
    /\ ExitTakes("CIRC_SENDME")
    /\ IF SendmeVerifies(Head(fwd).auth)
       THEN /\ sendme_auth_expected' = Popped(sendme_auth_expected)
            /\ IF circ_package_window <= CircWindow
               THEN /\ circ_package_window' = circ_package_window + Increment
                    /\ estreams' = Resumed(Streams)
               ELSE UNCHANGED <<circ_package_window, estreams>>
       ELSE UNCHANGED <<sendme_auth_expected, circ_package_window, estreams>>
    /\ UNCHANGED <<sendme_auth_cells_sent, relay_backward_digest, bwd>>

\* RELAY_SENDME for a stream: refill and read again; a stream that is gone or
\* whose window is above its size is left alone.
ExitStreamSendme ==
    /\ ExitTakes("SENDME")
    /\ LET s == Head(fwd).sid
       IN  estreams' = IF estreams[s].st = "none"
                          \/ estreams[s].pkg > StreamWindow
                       THEN estreams
                       ELSE [Resumed({s}) EXCEPT ![s].pkg = @ + Increment]
    /\ UNCHANGED <<circ_package_window, sendme_auth_cells_sent,
                   sendme_auth_expected, relay_backward_digest, bwd>>

ExitCell == ExitBegin \/ ExitEnd \/ ExitCircSendme \/ ExitStreamSendme

-----------------------------------------------------------------------------
(* The client.                                                             *)

ToExit(cmd, s, auth) == [cmd |-> cmd, sid |-> s, auth |-> auth]

OpenStream(s) ==
    /\ cstreams[s].st = "unused"
    /\ cstreams' = [cstreams EXCEPT ![s] = [st |-> "open", del |-> StreamWindow]]
    /\ fwd' = Append(fwd, ToExit("BEGIN", s, NoAuth))
    /\ UNCHANGED <<evars, circ_deliver_window, backward_digest, bwd, todo,
                   failures>>

\* Mutant: the slot is freed and the exit is not told.
MutCloseStream(s) ==
    /\ cstreams[s].st = "open"
    /\ cstreams' = [cstreams EXCEPT ![s].st = "closed"]
    /\ UNCHANGED <<evars, circ_deliver_window, backward_digest, fwd, bwd, todo,
                   failures>>

\* The application closed its socket: RELAY_END and the slot is freed.
CloseStream(s) ==
    /\ cstreams[s].st = "open"
    /\ cstreams' = [cstreams EXCEPT ![s].st = "closed"]
    /\ fwd' = Append(fwd, ToExit("END", s, NoAuth))
    /\ UNCHANGED <<evars, circ_deliver_window, backward_digest, bwd, todo,
                   failures>>

ClientTakes(cmd) ==
    /\ bwd # <<>>
    /\ Head(bwd).cmd = cmd
    /\ bwd' = Tail(bwd)
    /\ backward_digest' = backward_digest + 1
    /\ UNCHANGED <<evars, todo>>

ClientConnected ==
    /\ ClientTakes("CONNECTED")
    /\ UNCHANGED <<circ_deliver_window, cstreams, fwd, failures>>

ClientEnd ==
    /\ ClientTakes("END")
    /\ cstreams' = [cstreams EXCEPT ![Head(bwd).sid].st = "closed"]
    /\ UNCHANGED <<circ_deliver_window, fwd, failures>>

\* Mutant: cells of streams the client has closed are not counted.
MutClientCounts(s, open) ==
    LET del  == cstreams[s].del - 1
        strm == open /\ cstreams[s].del > 0 /\ del <= StreamWindow - Increment
        cw   == circ_deliver_window - 1
        circ == open /\ circ_deliver_window > 0 /\ cw <= CircWindow - Increment
    IN  /\ cstreams' =
             IF ~open THEN [cstreams EXCEPT ![s].st = "closed"]
             ELSE IF cstreams[s].del <= 0 THEN cstreams
             ELSE [cstreams EXCEPT ![s].del = IF strm THEN del + Increment ELSE del]
        /\ circ_deliver_window' =
             IF circ_deliver_window <= 0 \/ ~open THEN circ_deliver_window
             ELSE IF circ THEN cw + Increment ELSE cw
        /\ fwd' = fwd \o (IF strm THEN <<ToExit("SENDME", s, NoAuth)>> ELSE <<>>)
                      \o (IF circ THEN <<ToExit("CIRC_SENDME", NoStream,
                                                backward_digest + 1)>>
                          ELSE <<>>)

\* moor_circuit_maybe_send_sendme for the stream (if its slot is still there)
\* and then for the circuit; an exhausted window is left alone.
ClientCounts(s, open) ==
    LET del  == cstreams[s].del - 1
        strm == open /\ cstreams[s].del > 0 /\ del <= StreamWindow - Increment
        cw   == circ_deliver_window - 1
        circ == circ_deliver_window > 0 /\ cw <= CircWindow - Increment
    IN  /\ cstreams' =
             IF ~open THEN [cstreams EXCEPT ![s].st = "closed"]
             ELSE IF cstreams[s].del <= 0 THEN cstreams
             ELSE [cstreams EXCEPT ![s].del = IF strm THEN del + Increment ELSE del]
        /\ circ_deliver_window' =
             IF circ_deliver_window <= 0 THEN circ_deliver_window
             ELSE IF circ THEN cw + Increment ELSE cw
        /\ fwd' = fwd \o (IF strm THEN <<ToExit("SENDME", s, NoAuth)>> ELSE <<>>)
                      \o (IF circ THEN <<ToExit("CIRC_SENDME", NoStream,
                                                backward_digest + 1)>>
                          ELSE <<>>)

\* RELAY_DATA written to the application, or for a stream already closed.
ClientData ==
    /\ ClientTakes("DATA")
    /\ ClientCounts(Head(bwd).sid, cstreams[Head(bwd).sid].st = "open")
    /\ UNCHANGED failures

\* The application's socket does not take the whole payload: the client closes
\* it and frees the slot.  No RELAY_END goes to the exit.
ClientDataRefused ==
    /\ failures < MaxWriteFailures
    /\ ClientTakes("DATA")
    /\ cstreams[Head(bwd).sid].st = "open"
    /\ ClientCounts(Head(bwd).sid, FALSE)
    /\ failures' = failures + 1

ClientCell == ClientConnected \/ ClientEnd \/ ClientData \/ ClientDataRefused

-----------------------------------------------------------------------------
ExitRead(s) == ExitReadPaused(s) \/ ExitReadData(s)

Next ==
    \/ \E s \in Streams :
         \/ OpenStream(s) \/ CloseStream(s)
         \/ ExitConnectComplete(s) \/ ExitRead(s) \/ ExitTargetClosed(s)
    \/ ExitCell
    \/ ClientCell

\* Both event loops keep reading their links, a pending connect completes or
\* fails, and a registered socket with data is read.
Fairness ==
    /\ WF_vars(ExitCell)
    /\ WF_vars(ClientCell)
    /\ \A s \in Streams : /\ WF_vars(ExitConnectComplete(s))
                          /\ WF_vars(ExitRead(s))

SafeSpec == Init /\ [][Next]_vars
Spec == SafeSpec /\ Fairness

-----------------------------------------------------------------------------
(* Properties.                                                             *)

\* Every variable has its type; the exit's package windows are never negative.
TypeOK ==
    /\ circ_package_window \in Nat
    /\ sendme_auth_cells_sent \in 0..Increment - 1
    /\ sendme_auth_expected \in Seq(Nat)
    /\ relay_backward_digest \in Nat
    /\ estreams \in [Streams -> EStream]
    /\ \A s \in Streams : estreams[s].pkg >= 0
    /\ circ_deliver_window \in Int
    /\ backward_digest \in Nat
    /\ cstreams \in [Streams -> CStream]
    /\ fwd \in Seq(FwdCell)
    /\ bwd \in Seq(BwdCell)
    /\ todo \in [Streams -> Nat]
    /\ failures \in Nat

\* A target socket is out of the event loop only while one of its windows is
\* exhausted: no SENDME brings credit and leaves the stream asleep.
NoLostWakeup ==
    \A s \in Streams :
      estreams[s].st = "connected" /\ ~estreams[s].reading => ~HasCredit(s)

\* The exit's credit, the DATA cells in flight, the cells the client has
\* counted and the circuit SENDMEs in flight always make up the circuit
\* window, also for cells of streams that one end has closed.
CircuitCreditConserved ==
    LET data == {i \in 1..Len(bwd) : bwd[i].cmd = "DATA"}
        acks == {i \in 1..Len(fwd) : fwd[i].cmd = "CIRC_SENDME"}
    IN  circ_package_window + Cardinality(data) + (CircWindow - circ_deliver_window)
          + Increment * Cardinality(acks) = CircWindow

\* The same for a stream that both ends have open.
StreamCreditConserved ==
    \A s \in Streams :
      cstreams[s].st = "open" /\ estreams[s].st # "none" =>
        LET data == {i \in 1..Len(bwd) : bwd[i].cmd = "DATA" /\ bwd[i].sid = s}
            acks == {i \in 1..Len(fwd) : fwd[i].cmd = "SENDME" /\ fwd[i].sid = s}
        IN  estreams[s].pkg + Cardinality(data) + (StreamWindow - cstreams[s].del)
              + Increment * Cardinality(acks) = StreamWindow

\* The circuit SENDMEs in flight carry, in order, the digests at the front of
\* the exit's FIFO: the exit never refuses one.
SendmeAuthInSync ==
    \A i \in 1..Len(fwd) : fwd[i].cmd = "CIRC_SENDME" =>
      LET k == Cardinality({j \in 1..i : fwd[j].cmd = "CIRC_SENDME"})
      IN  k <= Len(sendme_auth_expected) /\ fwd[i].auth = sendme_auth_expected[k]

TargetOpen(s) == estreams[s].st = "connected"
TargetDone(s) == todo[s] = 0 \/ estreams[s].st = "none" \/ failures > 0

\* What a connected target has to send is read to the end, unless the stream
\* ends first or the application's socket has refused a payload.
TargetDrained == \A s \in Streams : TargetOpen(s) ~> TargetDone(s)

ClosedByClient(s) == cstreams[s].st = "closed"
ReleasedAtExit(s) == estreams[s].st = "none" \/ failures > 0

\* A stream that the client has closed is closed at the exit as well ("Client
\* disconnected -- send RELAY_END and free stream slot", socks5.c), unless the
\* application's socket has refused a payload: that path sends no RELAY_END.
ClosedStreamReleased == \A s \in Streams : ClosedByClient(s) ~> ReleasedAtExit(s)
=============================================================================
