----------------------------- MODULE StreamPump -----------------------------
(***************************************************************************)
(* The data path of one stream, from the application's socket through the  *)
(* client (socks5.c) and the exit (relay.c) to the target's socket.        *)
(*                                                                         *)
(* The client reads the application only while it is not paused.  What a   *)
(* window stops is kept in sendbuf and the client is paused.  Three        *)
(* callbacks end a pause: a SENDME (moor_socks5_resume_reads), an XON, and *)
(* write-readiness of the guard link (circuit_read_cb).  The exit answers  *)
(* a full target socket with XOFF.                                         *)
(*                                                                         *)
(* The application's data is the cells 1, 2, 3, ...; a read takes up to    *)
(* MaxRead of them (4096 bytes against 498 per cell).  OtherStream stands  *)
(* for a cell of another stream of the circuit.  The guard link's queue    *)
(* stands for the connection's outq plus the circuit queues.               *)
(***************************************************************************)
EXTENDS Integers, Sequences, FiniteSetsExt

CONSTANTS
    CircWindow, StreamWindow, Increment,  \* as in SendmeForward
    MaxRead,        \* cells one recv() of the application may yield
    PauseAbove,     \* MOOR_BACKPRESSURE_PAUSE
    ResumeBelow,    \* MOOR_BACKPRESSURE_RESUME
    MaxCells,       \* bound: cells the application writes
    MaxOther,       \* bound: cells of other streams
    MaxStalls,      \* bound: times the guard link stops taking bytes
    MaxFull         \* bound: times the target's socket is full

PumpAssumption ==
    /\ Increment \in Nat \ {0} /\ MaxRead \in Nat \ {0}
    /\ CircWindow \in Nat /\ Increment <= CircWindow
    /\ StreamWindow \in Nat /\ Increment <= StreamWindow
    /\ PauseAbove \in Nat /\ ResumeBelow \in Nat
    /\ MaxCells \in Nat /\ MaxOther \in Nat /\ MaxStalls \in Nat /\ MaxFull \in Nat
    \* One read is 4096 bytes, 9 cells, against 100 and 1000 in limits.h: what
    \* a read leaves over fits in the credit of one SENDME, and the stream's
    \* window is the one that stops a stream that has its circuit to itself.
    /\ MaxRead <= Increment /\ StreamWindow <= CircWindow

VARIABLES
    next,       \* client: the application's next cell to read
    sendbuf,    \* client: cells kept for a retry
    paused,     \* client: the application's socket is out of the event loop
    circ_package_window, package_window,   \* client: credit
    outq,       \* client: cells queued on the guard link
    stalled,    \* the guard link takes no bytes
    fwd, bwd,   \* cells in flight
    circ_deliver_window, deliver_window,   \* exit: windows
    xoff_sent,  \* exit: an XOFF is outstanding
    target,     \* cells written to the target, in order
    bounds      \* how often the bounded things have happened

client == <<next, sendbuf, paused, circ_package_window, package_window>>
link   == <<outq, stalled>>
exit   == <<circ_deliver_window, deliver_window, xoff_sent, target>>
vars   == <<client, link, fwd, bwd, exit, bounds>>

OtherStream == 0
Undisturbed == [other |-> 0, stalls |-> 0, full |-> 0]

Init ==
    /\ next = 1 /\ sendbuf = <<>> /\ paused = FALSE
    /\ circ_package_window = CircWindow /\ package_window = StreamWindow
    /\ outq = <<>> /\ stalled = FALSE
    /\ fwd = <<>> /\ bwd = <<>>
    /\ circ_deliver_window = CircWindow /\ deliver_window = StreamWindow
    /\ xoff_sent = FALSE /\ target = <<>>
    /\ bounds = Undisturbed

-----------------------------------------------------------------------------
(* The client and its guard link.                                          *)

\* Cells leave at once unless the link is stalled or others wait before them.
Enqueue(cells) ==
    IF stalled \/ outq # <<>>
    THEN outq' = outq \o cells /\ UNCHANGED fwd
    ELSE fwd' = fwd \o cells /\ UNCHANGED outq

\* Mutant: only the circuit window is looked at.
MutSendable(n, cw, sw) == Min({n, cw})

\* moor_circuit_send_data: how many of n cells both windows let through.
Sendable(n, cw, sw) == Min({n, cw, sw})

\* Mutant: the unsent rest is kept, the socket stays in the event loop.
MutClientRead(n) ==
    /\ ~paused
    /\ Len(outq) <= PauseAbove
    /\ next + n - 1 <= MaxCells
    /\ LET cells == [i \in 1..n |-> next + i - 1]
           sent  == Sendable(n, circ_package_window, package_window)
       IN  /\ Enqueue(SubSeq(cells, 1, sent))
           /\ circ_package_window' = circ_package_window - sent
           /\ package_window' = package_window - sent
           /\ sendbuf' = IF sent < n THEN SubSeq(cells, sent + 1, n) ELSE sendbuf
    /\ next' = next + n
    /\ UNCHANGED <<paused, stalled, bwd, exit, bounds>>

\* socks_client_read_cb, moor_socks5_handle_client and forward_to_circuit: the
\* unsent rest replaces the contents of sendbuf and the client is paused.
ClientRead(n) ==
    /\ ~paused
    /\ Len(outq) <= PauseAbove
    /\ next + n - 1 <= MaxCells
    /\ LET cells == [i \in 1..n |-> next + i - 1]
           sent  == Sendable(n, circ_package_window, package_window)
       IN  /\ Enqueue(SubSeq(cells, 1, sent))
           /\ circ_package_window' = circ_package_window - sent
           /\ package_window' = package_window - sent
           /\ sendbuf' = IF sent < n THEN SubSeq(cells, sent + 1, n) ELSE sendbuf
           /\ paused' = (sent < n)
    /\ next' = next + n
    /\ UNCHANGED <<stalled, bwd, exit, bounds>>

\* moor_socks5_handle_client over the high-water mark: paused before the recv.
ClientBackpressure ==
    /\ ~paused
    /\ Len(outq) > PauseAbove
    /\ next <= MaxCells
    /\ paused' = TRUE
    /\ UNCHANGED <<next, sendbuf, circ_package_window, package_window, link,
                   fwd, bwd, exit, bounds>>

\* Another stream of the circuit sends a cell.
OtherSends ==
    /\ bounds.other < MaxOther
    /\ circ_package_window > 0
    /\ Enqueue(<<OtherStream>>)
    /\ circ_package_window' = circ_package_window - 1
    /\ bounds' = [bounds EXCEPT !.other = @ + 1]
    /\ UNCHANGED <<next, sendbuf, paused, package_window, stalled, bwd, exit>>

LinkStalls ==
    /\ bounds.stalls < MaxStalls
    /\ ~stalled
    /\ stalled' = TRUE
    /\ bounds' = [bounds EXCEPT !.stalls = @ + 1]
    /\ UNCHANGED <<client, outq, fwd, bwd, exit>>

LinkRecovers ==
    /\ stalled
    /\ stalled' = FALSE
    /\ UNCHANGED <<client, outq, fwd, bwd, exit, bounds>>

\* circuit_read_cb on WRITE: n cells are flushed; below the low-water mark
\* every paused client of the link is unpaused, whatever it was paused for.
LinkWritable(n) ==
    /\ ~stalled
    /\ n <= Len(outq)
    /\ fwd' = fwd \o SubSeq(outq, 1, n)
    /\ outq' = SubSeq(outq, n + 1, Len(outq))
    /\ paused' = (paused /\ Len(outq') >= ResumeBelow)
    /\ UNCHANGED <<next, sendbuf, circ_package_window, package_window, stalled,
                   bwd, exit, bounds>>

-----------------------------------------------------------------------------
(* The exit's RELAY_DATA handler; see SendmeForward for its other branches. *)

\* sendme_check: SENDMEs for the windows that have fallen by Increment.
SendmeCheck(cw, sw, x) ==
    LET circ == cw <= CircWindow - Increment
        strm == sw <= StreamWindow - Increment
    IN  /\ circ_deliver_window' = IF circ THEN cw + Increment ELSE cw
        /\ deliver_window' = IF strm THEN sw + Increment ELSE sw
        /\ bwd' = bwd \o x \o (IF circ THEN <<"CIRC_SENDME">> ELSE <<>>)
                      \o (IF strm THEN <<"SENDME">> ELSE <<>>)

ExitTakes ==
    /\ fwd # <<>>
    /\ fwd' = Tail(fwd)
    /\ UNCHANGED <<client, link>>

ExitOther ==
    /\ ExitTakes
    /\ Head(fwd) = OtherStream
    /\ SendmeCheck(circ_deliver_window - 1, deliver_window, <<>>)
    /\ UNCHANGED <<xoff_sent, target, bounds>>

\* The target takes the payload; XON if an XOFF is outstanding.
ExitWrites ==
    /\ ExitTakes
    /\ Head(fwd) # OtherStream
    /\ target' = Append(target, Head(fwd))
    /\ xoff_sent' = FALSE
    /\ SendmeCheck(circ_deliver_window - 1, deliver_window - 1,
                   IF xoff_sent THEN <<"XON">> ELSE <<>>)
    /\ UNCHANGED bounds

\* The target's socket is full: XOFF, the cell is counted and not kept.
ExitTargetFull ==
    /\ bounds.full < MaxFull
    /\ ExitTakes
    /\ Head(fwd) # OtherStream
    /\ xoff_sent' = TRUE
    /\ SendmeCheck(circ_deliver_window - 1, deliver_window - 1,
                   IF xoff_sent THEN <<>> ELSE <<"XOFF">>)
    /\ bounds' = [bounds EXCEPT !.full = @ + 1]
    /\ UNCHANGED target

ExitCell == ExitOther \/ ExitWrites \/ ExitTargetFull

-----------------------------------------------------------------------------
(* The client on the cells coming back.                                    *)

ClientTakes(cmd) ==
    /\ bwd # <<>>
    /\ Head(bwd) = cmd
    /\ bwd' = Tail(bwd)
    /\ UNCHANGED <<next, stalled, exit, bounds>>

\* Mutant: the kept cells are forgotten.
MutDrain(cw, sw, sent, clear, unpause) ==
    /\ circ_package_window' = cw
    /\ package_window' = sw
    /\ sendbuf' = IF clear THEN <<>> ELSE sendbuf
    /\ paused' = (paused /\ ~unpause)
    /\ UNCHANGED <<outq, fwd>>

\* Mutant: a retry is not charged to the windows.
MutDrainFree(cw, sw, sent, clear, unpause) ==
    /\ Enqueue(SubSeq(sendbuf, 1, sent))
    /\ circ_package_window' = cw
    /\ package_window' = sw
    /\ sendbuf' = IF clear THEN <<>> ELSE sendbuf
    /\ paused' = (paused /\ ~unpause)

\* The first cells of sendbuf go out with the credit cw, sw; the buffer is
\* emptied if clear and the application is read again if unpause.
Drain(cw, sw, sent, clear, unpause) ==
    /\ Enqueue(SubSeq(sendbuf, 1, sent))
    /\ circ_package_window' = cw - sent
    /\ package_window' = sw - sent
    /\ sendbuf' = IF clear THEN <<>> ELSE sendbuf
    /\ paused' = (paused /\ ~unpause)

\* Mutant: sendbuf is not emptied by a retry.
MutResumeKeeps(cw, sw) ==
    LET sent == IF paused THEN Sendable(Len(sendbuf), cw, sw) ELSE 0
    IN  Drain(cw, sw, sent, FALSE, sendbuf # <<>> => sent > 0)

\* moor_socks5_resume_reads: a paused client retries its sendbuf and is
\* unpaused unless nothing at all could be sent.  A partial retry counts as a
\* complete one.
ResumeReads(cw, sw) ==
    LET sent == IF paused THEN Sendable(Len(sendbuf), cw, sw) ELSE 0
        ok   == paused /\ (sendbuf # <<>> => sent > 0)
    IN  Drain(cw, sw, sent, ok, ok)

\* Mutant: a circuit SENDME refills the window and resumes nobody.
MutClientCircSendme ==
    /\ ClientTakes("CIRC_SENDME")
    /\ circ_package_window' = circ_package_window + Increment
    /\ UNCHANGED <<sendbuf, paused, package_window, outq, fwd>>

ClientCircSendme ==
    /\ ClientTakes("CIRC_SENDME")
    /\ ResumeReads(circ_package_window + Increment, package_window)

ClientStreamSendme ==
    /\ ClientTakes("SENDME")
    /\ ResumeReads(circ_package_window, package_window + Increment)

\* RELAY_XOFF: paused like any other pause.
ClientXoff ==
    /\ ClientTakes("XOFF")
    /\ paused' = TRUE
    /\ UNCHANGED <<sendbuf, circ_package_window, package_window, outq, fwd>>

\* RELAY_XON: sendbuf is retried and the client unpaused, even if the retry
\* sent nothing.
ClientXon ==
    /\ ClientTakes("XON")
    /\ LET cw   == circ_package_window
           sw   == package_window
           sent == IF paused THEN Sendable(Len(sendbuf), cw, sw) ELSE 0
       IN  Drain(cw, sw, sent, sent > 0, TRUE)

ClientCell == ClientCircSendme \/ ClientStreamSendme \/ ClientXoff \/ ClientXon

-----------------------------------------------------------------------------
Read == \E n \in 1..MaxRead : ClientRead(n)
Writable == \E n \in 1..Len(outq) : LinkWritable(n)

Next ==
    \/ Read \/ ClientBackpressure \/ OtherSends
    \/ LinkStalls \/ LinkRecovers \/ Writable
    \/ ExitCell \/ ClientCell

\* A readable socket in the event loop is read, cells on the links are
\* handled, and a stalled link recovers.
Fairness ==
    /\ WF_vars(Read)
    /\ WF_vars(LinkRecovers) /\ WF_vars(Writable)
    /\ WF_vars(ExitCell) /\ WF_vars(ClientCell)

SafeSpec == Init /\ [][Next]_vars
Spec == SafeSpec /\ Fairness

-----------------------------------------------------------------------------
(* Properties.                                                             *)

\* Every variable has its type; the windows are never overdrawn.
TypeOK ==
    /\ next \in 1..MaxCells + 1
    /\ sendbuf \in Seq(1..MaxCells) /\ Len(sendbuf) <= MaxRead
    /\ paused \in BOOLEAN /\ stalled \in BOOLEAN /\ xoff_sent \in BOOLEAN
    /\ circ_package_window \in 0..CircWindow
    /\ package_window \in 0..StreamWindow
    /\ outq \in Seq(0..MaxCells) /\ fwd \in Seq(0..MaxCells)
    /\ bwd \in Seq({"CIRC_SENDME", "SENDME", "XOFF", "XON"})
    /\ circ_deliver_window \in 1..CircWindow /\ deliver_window \in 1..StreamWindow
    /\ target \in Seq(1..MaxCells)

\* How many cells of the queue are in C, and those of this stream.
Count(q, C) == Cardinality({i \in 1..Len(q) : q[i] \in C})
OwnCells == 1..MaxCells

\* Credit, cells on the way, cells counted and SENDMEs on the way make up each
\* window, through every pause, retry, stall and full target.
CreditConserved ==
    /\ package_window + Count(outq, OwnCells) + Count(fwd, OwnCells)
         + (StreamWindow - deliver_window) + Increment * Count(bwd, {"SENDME"}) = StreamWindow
    /\ circ_package_window + Len(outq) + Len(fwd)
         + (CircWindow - circ_deliver_window) + Increment * Count(bwd, {"CIRC_SENDME"}) = CircWindow

\* No cell reaches the target twice, through whatever sequence of retries.
NoCellTwice ==
    \A i, j \in 1..Len(target) : i # j => target[i] # target[j]

\* The target gets the application's data from the beginning, in order and
\* without a gap: no pause, retry or resume loses or reorders a cell.
DeliveredInOrder == \A i \in 1..Len(target) : target[i] = i

\* Until the guard link stalls, the target's socket fills or another stream
\* shares the circuit's credit, nothing is lost or reordered by the pauses and
\* retries of moor_socks5_handle_client and moor_socks5_resume_reads.
LosslessAlone == bounds = Undisturbed => DeliveredInOrder

\* Kept cells are never overtaken: while sendbuf holds something the
\* application is not read, as long as only windows have caused pauses.
KeptCellsGoFirst ==
    bounds.stalls = 0 /\ bounds.full = 0 => (sendbuf # <<>> => paused)

Delivered == Len(target) = MaxCells \/ bounds # Undisturbed

\* Everything the application writes reaches the target, unless the stream has
\* been disturbed.
AllDelivered == <>Delivered

PausedEarly == paused /\ next <= MaxCells
Resumed == ~paused \/ bounds.full > 0

\* A client with more to read is not paused for ever ("pause reads until
\* SENDME" in socks5.c), whether the windows or the guard link's queue paused
\* it; a full target may leave it waiting for an XON that is never sent.
PauseEnds == PausedEarly ~> Resumed
=============================================================================
