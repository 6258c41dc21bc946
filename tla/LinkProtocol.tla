---------------------------- MODULE LinkProtocol ----------------------------
(***************************************************************************)
(* One link between two processes (connection.c): the Noise_IK handshake,  *)
(* the KEM exchange on top of it, blocking or driven by the event loop,    *)
(* and then the encrypted record layer with its output queue, implicit     *)
(* rekeying, watchdog and close.                                           *)
(*                                                                         *)
(* Side "c" connects, side "s" accepts.  Keys are abstracted to what was   *)
(* mixed into them: 1 for the Noise secrets, 2 for Noise and KEM, and the  *)
(* epoch.  A record carries the key and nonce it was sealed with and opens *)
(* under the same pair only.  A record may leave in two pieces.            *)
(***************************************************************************)
EXTENDS Integers, Sequences, FiniteSets

CONSTANTS
    LnPkCells, LnCtCells,   \* cells a KEM public key and ciphertext take
    LnRekeyRecords,         \* MOOR_LINK_REKEY_RECORDS
    LnRekeyInterval,        \* MOOR_LINK_REKEY_INTERVAL_MS, in clock ticks
    LnSocketFills,          \* whether a socket may refuse bytes
    LnMaxCells, LnMaxTime   \* bounds: cells per side, the clock

\* A KEM key and a ciphertext take a whole number of cells.
ASSUME LnAssumption == LnPkCells \in Nat /\ LnCtCells \in Nat

VARIABLES
    conn_state,   \* of each side
    hs,           \* [mode, phase] of each side's handshake
    hs_timer,     \* the initiator's handshake timer is armed
    on_complete,  \* what its callback has been told, in order
    keymix,       \* per side: 0 no key, 1 Noise, 2 Noise and KEM
    sendst,       \* per side [nonce, epoch, records, start]
    recvst,       \* per side [nonce, epoch, records, start, prev]
    wire,         \* per side: the pieces it has put on its socket
    link_outq,    \* per side: pieces queued for the socket
    stuck_since,  \* per side: 0, or the time outq last moved
    eof,          \* per side: it has closed its socket
    peer_known,   \* the initiator has the responder's identity right
    lnNow,        \* the clock
    lnSent,       \* cells each side has sent on the open link
    lnFault,      \* per side: why it could not open a record
    lnTimed       \* per side: a send key went by the clock, not the count (history)

lnVars == <<conn_state, hs, hs_timer, on_complete, keymix, sendst, recvst,
            wire, link_outq, stuck_since, eof, peer_known, lnNow, lnSent,
            lnFault, lnTimed>>
lnHistory == <<lnFault, lnTimed>>

Side == {"c", "s"}
Peer(x) == IF x = "c" THEN "s" ELSE "c"

LnInit ==
    /\ conn_state = [x \in Side |-> IF x = "c" THEN "NONE" ELSE "HANDSHAKING"]
    /\ hs = [x \in Side |-> [mode |-> "none", phase |-> 0]]
    /\ hs_timer = FALSE
    /\ on_complete = <<>>
    /\ keymix = [x \in Side |-> 0]
    /\ sendst = [x \in Side |-> [nonce |-> 0, epoch |-> 0, records |-> 0,
                                 start |-> 0]]
    /\ recvst = [x \in Side |-> [nonce |-> 0, epoch |-> 0, records |-> 0,
                                 start |-> 0, prev |-> FALSE]]
    /\ wire = [x \in Side |-> <<>>]
    /\ link_outq = [x \in Side |-> <<>>]
    /\ stuck_since = [x \in Side |-> 0]
    /\ eof = [x \in Side |-> FALSE]
    /\ peer_known \in BOOLEAN
    /\ lnNow = 1
    /\ lnSent = [x \in Side |-> 0]
    /\ lnFault = [x \in Side |-> "none"]
    /\ lnTimed = [x \in Side |-> FALSE]

-----------------------------------------------------------------------------
(* Records.                                                                *)

Raw(cmd) == [cmd |-> cmd, mix |-> 0, epoch |-> 0, nonce |-> 0,
             part |-> "whole"]
Record(x, cmd, st) == [cmd |-> cmd, mix |-> keymix[x], epoch |-> st.epoch,
                       nonce |-> st.nonce, part |-> "whole"]

\* The first whole record on what y has sent: a head needs its own tail
\* next, and anything else in its place is garbage.
Readable(y) ==
    /\ wire[y] # <<>>
    /\ Head(wire[y]).part = "head" => Len(wire[y]) > 1
Framed(y) ==
    \/ Head(wire[y]).part = "whole"
    \/ /\ Head(wire[y]).part = "head"
       /\ wire[y][2] = [Head(wire[y]) EXCEPT !.part = "tail"]
AfterFirst(y) == IF Head(wire[y]).part = "head" THEN Tail(Tail(wire[y]))
                 ELSE Tail(wire[y])

\* aead_decrypt with the current key, then with the previous one.
Opens(x, r, st) ==
    /\ r.mix = keymix[x] /\ r.nonce = st.nonce
    /\ r.epoch \in IF st.prev THEN {st.epoch, st.epoch - 1} ELSE {st.epoch}

-----------------------------------------------------------------------------
(* The end of a link: the socket is closed and nothing is kept.            *)

CloseSide(x) ==
    /\ conn_state' = [conn_state EXCEPT ![x] = "CLOSED"]
    /\ eof' = [eof EXCEPT ![x] = TRUE]
    /\ link_outq' = [link_outq EXCEPT ![x] = <<>>]
    /\ stuck_since' = [stuck_since EXCEPT ![x] = 0]

\* hs_async_fail, the failing branches of the blocking calls and the reply
\* to their caller: the timer goes, the callback hears once.
HsAsyncFail(status) ==
    /\ CloseSide("c")
    /\ hs_timer' = FALSE
    /\ on_complete' = Append(on_complete, status)

Handshaking == {"TCP_CONNECTING", "HS_SENDING", "HS_RECEIVING", "PQ_SENDING",
                "PQ_RECEIVING"}

-----------------------------------------------------------------------------
(* Initiator driven by the event loop.                                     *)

\* moor_connection_connect_async: no handshake timer until TCP is up.
LnConnectAsync ==
    /\ conn_state["c"] = "NONE" /\ on_complete = <<>>
    /\ hs' = [hs EXCEPT !["c"] = [mode |-> "async", phase |-> 0]]
    /\ conn_state' = [conn_state EXCEPT !["c"] = "TCP_CONNECTING"]
    /\ UNCHANGED <<hs_timer, on_complete, keymix, sendst, recvst, wire,
                   link_outq, stuck_since, eof, peer_known, lnNow, lnSent,
                   lnHistory>>

\* handle_tcp_connect: refused or unreachable (-2), another error or no usable
\* identity (-1), or msg1 is built and the timer armed.
LnTcpConnected ==
    /\ conn_state["c"] = "TCP_CONNECTING" /\ hs["c"].mode = "async"
    /\ \/ /\ HsAsyncFail(-1) \/ HsAsyncFail(-2)
          /\ UNCHANGED hs
       \/ /\ hs_timer' = TRUE
          /\ conn_state' = [conn_state EXCEPT !["c"] = "HS_SENDING"]
          /\ UNCHANGED <<hs, on_complete, eof, link_outq, stuck_since>>
    /\ UNCHANGED <<keymix, sendst, recvst, wire, peer_known, lnNow, lnSent,
                   lnHistory>>

\* handle_hs_sending: msg1 is out.
LnHsSending ==
    /\ conn_state["c"] = "HS_SENDING"
    /\ \/ /\ eof["s"] /\ HsAsyncFail(-1) /\ UNCHANGED wire
       \/ /\ wire' = [wire EXCEPT !["c"] = Append(@, Raw("msg1"))]
          /\ conn_state' = [conn_state EXCEPT !["c"] = "HS_RECEIVING"]
          /\ UNCHANGED <<hs_timer, on_complete, eof, link_outq, stuck_since>>
    /\ UNCHANGED <<hs, keymix, sendst, recvst, peer_known, lnNow, lnSent,
                   lnHistory>>

\* handle_hs_receiving: msg2 opens, the keys are split, the nonces start at
\* 0, and the first cell of the KEM key is sealed.
LnHsReceiving ==
    /\ conn_state["c"] = "HS_RECEIVING" /\ hs["c"].mode = "async"
    /\ \/ /\ wire["s"] = <<>> /\ eof["s"]
          /\ HsAsyncFail(-1)
          /\ UNCHANGED <<hs, keymix, wire>>
       \/ /\ wire["s"] # <<>>
          /\ wire' = [wire EXCEPT !["s"] = Tail(@)]
          /\ keymix' = [keymix EXCEPT !["c"] = 1]
          /\ hs' = [hs EXCEPT !["c"].phase = 0]
          /\ conn_state' = [conn_state EXCEPT !["c"] = "PQ_SENDING"]
          /\ UNCHANGED <<hs_timer, on_complete, eof, link_outq, stuck_since>>
    /\ UNCHANGED <<sendst, recvst, peer_known, lnNow, lnSent, lnHistory>>

\* handle_pq_sending: one cell of the key, and after the last one READ.
LnPqSending ==
    /\ conn_state["c"] = "PQ_SENDING"
    /\ \/ /\ eof["s"] /\ HsAsyncFail(-1)
          /\ UNCHANGED <<hs, sendst, wire>>
       \/ /\ wire' = [wire EXCEPT !["c"] =
                        Append(@, Record("c", "KEM", sendst["c"]))]
          /\ sendst' = [sendst EXCEPT !["c"].nonce = @ + 1]
          /\ IF hs["c"].phase + 1 < LnPkCells
             THEN /\ hs' = [hs EXCEPT !["c"].phase = @ + 1]
                  /\ UNCHANGED conn_state
             ELSE /\ hs' = [hs EXCEPT !["c"].phase = 0]
                  /\ conn_state' = [conn_state EXCEPT !["c"] = "PQ_RECEIVING"]
          /\ UNCHANGED <<hs_timer, on_complete, eof, link_outq, stuck_since>>
    /\ UNCHANGED <<keymix, recvst, peer_known, lnNow, lnSent, lnHistory>>

\* moor_link_rekey_init, for one direction.
RekeyInit(st) == [st EXCEPT !.epoch = 0, !.records = 0, !.start = lnNow]

\* A cell of the ciphertext arrives at the initiator; the last one is mixed
\* into the keys, and the link is open (handle_pq_receiving and
\* hs_async_complete, or the same steps of link_handshake_client_pq).
LnPqReceiving ==
    /\ conn_state["c"] = "PQ_RECEIVING"
    /\ \/ /\ wire["s"] = <<>> /\ eof["s"]
          /\ HsAsyncFail(-1)
          /\ UNCHANGED <<hs, keymix, sendst, recvst, wire>>
       \/ /\ Readable("s")
          /\ wire' = [wire EXCEPT !["s"] = AfterFirst("s")]
          /\ LET r  == Head(wire["s"])
                 rs == [recvst EXCEPT !["c"].nonce = @ + 1] IN
             IF ~Framed("s") \/ ~Opens("c", r, recvst["c"]) \/ r.cmd # "KEM"
             THEN /\ HsAsyncFail(-1)
                  /\ UNCHANGED <<hs, keymix, sendst, recvst>>
             ELSE IF hs["c"].phase + 1 < LnCtCells
             THEN /\ hs' = [hs EXCEPT !["c"].phase = @ + 1]
                  /\ recvst' = rs
                  /\ UNCHANGED <<conn_state, hs_timer, on_complete, keymix,
                                 sendst, eof, link_outq, stuck_since>>
             ELSE /\ keymix' = [keymix EXCEPT !["c"] = 2]
                  /\ sendst' = [sendst EXCEPT !["c"] = RekeyInit(@)]
                  /\ recvst' = [rs EXCEPT !["c"] = RekeyInit(@)]
                  /\ conn_state' = [conn_state EXCEPT !["c"] = "OPEN"]
                  /\ hs_timer' = FALSE
                  /\ on_complete' = Append(on_complete, 0)
                  /\ UNCHANGED <<hs, eof, link_outq, stuck_since>>
    /\ UNCHANGED <<peer_known, lnNow, lnSent, lnHistory>>

\* hs_timeout_cb.
LnHsTimeout ==
    /\ hs_timer /\ conn_state["c"] \in Handshaking
    /\ HsAsyncFail(-1)
    /\ UNCHANGED <<hs, keymix, sendst, recvst, wire, peer_known, lnNow,
                   lnSent, lnHistory>>

-----------------------------------------------------------------------------
(* Blocking initiator: the socket's time-out takes the timer's place.      *)

\* moor_connection_connect and link_handshake_client up to msg1.
LnConnectBlocking ==
    /\ conn_state["c"] = "NONE" /\ on_complete = <<>>
    /\ hs' = [hs EXCEPT !["c"] = [mode |-> "blocking", phase |-> 0]]
    /\ \/ /\ HsAsyncFail(-1)
          /\ UNCHANGED wire
       \/ /\ wire' = [wire EXCEPT !["c"] = Append(@, Raw("msg1"))]
          /\ conn_state' = [conn_state EXCEPT !["c"] = "HS_RECEIVING"]
          /\ hs_timer' = TRUE
          /\ UNCHANGED <<on_complete, eof, link_outq, stuck_since>>
    /\ UNCHANGED <<keymix, sendst, recvst, peer_known, lnNow, lnSent, lnHistory>>

\* The cells that carry a KEM key or ciphertext, under the Noise keys.
KemCells(n) == [i \in 1..n |-> [cmd |-> "KEM", mix |-> 1, epoch |-> 0,
                                nonce |-> i - 1, part |-> "whole"]]

\* link_handshake_client from msg2 on, then the whole KEM key in
\* link_handshake_client_pq.
LnBlockingMsg2 ==
    /\ conn_state["c"] = "HS_RECEIVING" /\ hs["c"].mode = "blocking"
    /\ \/ /\ wire["s"] = <<>> /\ eof["s"]
          /\ HsAsyncFail(-1)
          /\ UNCHANGED <<keymix, sendst, wire>>
       \/ /\ wire["s"] # <<>>
          /\ keymix' = [keymix EXCEPT !["c"] = 1]
          /\ wire' = [wire EXCEPT !["s"] = Tail(@),
                        !["c"] = @ \o KemCells(LnPkCells)]
          /\ sendst' = [sendst EXCEPT !["c"].nonce = LnPkCells]
          /\ conn_state' = [conn_state EXCEPT !["c"] = "PQ_RECEIVING"]
          /\ UNCHANGED <<hs_timer, on_complete, eof, link_outq, stuck_since>>
    /\ UNCHANGED <<hs, recvst, peer_known, lnNow, lnSent, lnHistory>>

-----------------------------------------------------------------------------
(* Responder: moor_connection_accept_fd, blocking.                         *)

\* link_handshake_server: msg1 opens only if it was made for this relay.
LnServerMsg1 ==
    /\ conn_state["s"] = "HANDSHAKING"
    /\ \/ /\ wire["c"] # <<>> /\ peer_known
          /\ wire' = [wire EXCEPT !["c"] = Tail(@),
                                  !["s"] = Append(@, Raw("msg2"))]
          /\ keymix' = [keymix EXCEPT !["s"] = 1]
          /\ conn_state' = [conn_state EXCEPT !["s"] = "PQ_RECEIVING"]
          /\ UNCHANGED <<eof, link_outq, stuck_since>>
       \/ /\ IF wire["c"] = <<>> THEN eof["c"] ELSE ~peer_known
          /\ CloseSide("s")
          /\ UNCHANGED <<wire, keymix>>
    /\ UNCHANGED <<hs, hs_timer, on_complete, sendst, recvst, peer_known,
                   lnNow, lnSent, lnHistory>>

\* link_handshake_server_pq, the last cell of the key: the ciphertext goes
\* out under the Noise keys, then the KEM secret is mixed into them.
ServerKem ==
    /\ conn_state["s"] = "PQ_RECEIVING" /\ Readable("c")
    /\ Opens("s", Head(wire["c"]), recvst["s"])
    /\ hs["s"].phase + 1 = LnPkCells
    /\ wire' = [wire EXCEPT !["c"] = AfterFirst("c"),
                  !["s"] = @ \o KemCells(LnCtCells)]
    /\ keymix' = [keymix EXCEPT !["s"] = 2]
    /\ sendst' = [sendst EXCEPT !["s"] =
                     RekeyInit([@ EXCEPT !.nonce = LnCtCells])]
    /\ recvst' = [recvst EXCEPT !["s"] = RekeyInit([@ EXCEPT !.nonce = @ + 1])]
    /\ conn_state' = [conn_state EXCEPT !["s"] = "OPEN"]
    /\ UNCHANGED <<hs, eof, link_outq, stuck_since>>

\* A cell of the KEM key before the last one, or none any more.
LnServerPk ==
    /\ \/ ServerKem
       \/ /\ conn_state["s"] = "PQ_RECEIVING" /\ Readable("c")
          /\ Opens("s", Head(wire["c"]), recvst["s"])
          /\ hs["s"].phase + 1 < LnPkCells
          /\ hs' = [hs EXCEPT !["s"].phase = @ + 1]
          /\ wire' = [wire EXCEPT !["c"] = AfterFirst("c")]
          /\ recvst' = [recvst EXCEPT !["s"].nonce = @ + 1]
          /\ UNCHANGED <<conn_state, keymix, sendst, eof, link_outq,
                         stuck_since>>
       \/ /\ conn_state["s"] = "PQ_RECEIVING" /\ wire["c"] = <<>> /\ eof["c"]
          /\ CloseSide("s")
          /\ UNCHANGED <<hs, wire, keymix, sendst, recvst>>
    /\ UNCHANGED <<hs_timer, on_complete, peer_known, lnNow, lnSent, lnHistory>>

\* SO_RCVTIMEO of the accepted socket.
LnServerTimeout ==
    /\ conn_state["s"] \in {"HANDSHAKING", "PQ_RECEIVING"}
    /\ CloseSide("s")
    /\ UNCHANGED <<hs, hs_timer, on_complete, keymix, sendst, recvst, wire,
                   peer_known, lnNow, lnSent, lnHistory>>

-----------------------------------------------------------------------------
(* The record layer of an open link.                                       *)

LnClock ==
    /\ lnNow < LnMaxTime
    /\ lnNow' = lnNow + 1
    /\ UNCHANGED <<conn_state, hs, hs_timer, on_complete, keymix, sendst,
                   recvst, wire, link_outq, stuck_since, eof, peer_known,
                   lnSent, lnHistory>>

Due(st) == st.records >= LnRekeyRecords \/ lnNow - st.start >= LnRekeyInterval

\* link_rekey_send_maybe_rotate.
SendRotated(st) ==
    IF Due(st) THEN [st EXCEPT !.epoch = @ + 1, !.records = 0, !.start = lnNow]
    ELSE st

\* Mutant: the previous key is not kept.
MutRecvRotated(st) ==
    IF Due(st) THEN [st EXCEPT !.epoch = @ + 1, !.records = 0, !.start = lnNow]
    ELSE st

\* link_rekey_recv_maybe_rotate.
RecvRotated(st) ==
    IF Due(st) THEN [st EXCEPT !.epoch = @ + 1, !.records = 0, !.start = lnNow,
                               !.prev = TRUE]
    ELSE st

\* moor_connection_send_cell: rotate, seal, spend the nonce, and try the
\* socket first, whatever is queued; what it does not take is queued.  A hard
\* error, or a queue that takes no more, leaves the link dead.
LnSendCell(x) ==
    LET st == SendRotated(sendst[x])
        r  == Record(x, "CELL", st)
        headOut == wire' = [wire EXCEPT ![x] = Append(@, [r EXCEPT !.part = "head"])]
    IN /\ conn_state[x] = "OPEN" /\ lnSent[x] < LnMaxCells
       /\ lnSent' = [lnSent EXCEPT ![x] = @ + 1]
       /\ sendst' = [sendst EXCEPT ![x] = [st EXCEPT !.nonce = @ + 1,
                                                     !.records = @ + 1]]
       /\ lnTimed' = [lnTimed EXCEPT ![x] = @ \/ /\ Due(sendst[x])
                                                 /\ sendst[x].records < LnRekeyRecords]
       /\ \/ /\ wire' = [wire EXCEPT ![x] = Append(@, r)]
             /\ UNCHANGED <<conn_state, link_outq, stuck_since>>
          \/ /\ LnSocketFills
             /\ \/ /\ headOut
                   /\ link_outq' = [link_outq EXCEPT ![x] =
                                      Append(@, [r EXCEPT !.part = "tail"])]
                \/ /\ link_outq' = [link_outq EXCEPT ![x] = Append(@, r)]
                   /\ UNCHANGED wire
             /\ stuck_since' = [stuck_since EXCEPT ![x] =
                                  IF @ = 0 THEN lnNow ELSE @]
             /\ UNCHANGED conn_state
          \/ /\ headOut \/ UNCHANGED wire
             /\ conn_state' = [conn_state EXCEPT ![x] = "DEAD"]
             /\ UNCHANGED <<link_outq, stuck_since>>
       /\ UNCHANGED <<hs, hs_timer, on_complete, keymix, recvst, eof, peer_known,
                      lnNow, lnFault>>

\* relay_read_cb on a link that is not open any more, or the caller whose
\* cell was not sent.
LnDeadClosed(x) ==
    /\ conn_state[x] = "DEAD"
    /\ CloseSide(x)
    /\ UNCHANGED <<hs, hs_timer, on_complete, keymix, sendst, recvst, wire,
                   peer_known, lnNow, lnSent, lnHistory>>

\* A WRITE event: moor_queue_flush moves the oldest piece and stamps the
\* watchdog.
LnFlush(x) ==
    /\ conn_state[x] = "OPEN" /\ link_outq[x] # <<>>
    /\ wire' = [wire EXCEPT ![x] = Append(@, Head(link_outq[x]))]
    /\ link_outq' = [link_outq EXCEPT ![x] = Tail(@)]
    /\ stuck_since' = [stuck_since EXCEPT ![x] =
                         IF Len(link_outq[x]) = 1 THEN 0 ELSE lnNow]
    /\ UNCHANGED <<conn_state, hs, hs_timer, on_complete, keymix, sendst,
                   recvst, eof, peer_known, lnNow, lnSent, lnHistory>>

\* moor_connection_recv_cell: rotate before opening; a record that neither
\* key opens, or an end of file, ends the link.
LnRecvCell(x) ==
    LET y  == Peer(x)
        st == RecvRotated(recvst[x])
        r  == Head(wire[y])
    IN /\ conn_state[x] = "OPEN"
       /\ \/ /\ Readable(y) /\ Framed(y) /\ Opens(x, r, st)
             /\ wire' = [wire EXCEPT ![y] = AfterFirst(y)]
             /\ recvst' = [recvst EXCEPT ![x] = [st EXCEPT !.nonce = @ + 1,
                                                           !.records = @ + 1]]
             /\ UNCHANGED <<conn_state, eof, link_outq, stuck_since, lnFault>>
          \/ /\ Readable(y) /\ ~(Framed(y) /\ Opens(x, r, st))
             /\ lnFault' = [lnFault EXCEPT ![x] =
                  IF ~Framed(y) \/ r.nonce # st.nonce THEN "overtaken"
                  ELSE IF r.mix = keymix[x] /\ r.epoch = st.epoch + 1
                  THEN "ahead" ELSE "key"]
             /\ CloseSide(x)
             /\ UNCHANGED <<wire, recvst>>
          \/ /\ wire[y] = <<>> /\ eof[y]
             /\ CloseSide(x)
             /\ UNCHANGED <<wire, recvst, lnFault>>
       /\ UNCHANGED <<hs, hs_timer, on_complete, keymix, sendst, peer_known,
                      lnNow, lnSent, lnTimed>>

\* moor_connection_reap_stalled and, for a link without circuits,
\* moor_connection_reap_idle.
LnReap(x) ==
    /\ conn_state[x] = "OPEN"
    /\ \/ stuck_since[x] # 0 /\ lnNow > stuck_since[x]
       \/ lnNow = LnMaxTime /\ lnSent[x] = 0
    /\ CloseSide(x)
    /\ UNCHANGED <<hs, hs_timer, on_complete, keymix, sendst, recvst, wire,
                   peer_known, lnNow, lnSent, lnHistory>>

LnNext ==
    \/ LnConnectAsync \/ LnTcpConnected \/ LnHsSending \/ LnHsReceiving
    \/ LnPqSending \/ LnPqReceiving \/ LnHsTimeout
    \/ LnConnectBlocking \/ LnBlockingMsg2
    \/ LnServerMsg1 \/ LnServerPk \/ LnServerTimeout
    \/ LnClock
    \/ \E x \in Side : \/ LnSendCell(x) \/ LnFlush(x) \/ LnRecvCell(x)
                       \/ LnReap(x) \/ LnDeadClosed(x)

LnSpec == LnInit /\ [][LnNext]_lnVars

-----------------------------------------------------------------------------

LnTypeOK ==
    /\ conn_state \in [Side -> Handshaking \cup {"NONE", "HANDSHAKING", "OPEN",
                                                 "DEAD", "CLOSED"}]
    /\ keymix \in [Side -> 0..2]
    /\ lnFault \in [Side -> {"none", "overtaken", "ahead", "key"}]

\* Whoever waits for a link hears of it: the callback of a connect hears one
\* answer, 0 exactly when the link is open, its timer runs during the
\* handshake only, and the watchdog's stamp is set exactly while something is
\* queued (hs_async_fail, hs_async_complete, moor_queue_flush).
LinkAnswered ==
    /\ Len(on_complete) = (IF conn_state["c"] \in {"OPEN", "DEAD", "CLOSED"}
                           THEN 1 ELSE 0)
    /\ conn_state["c"] = "OPEN" => on_complete = <<0>>
    /\ hs_timer => conn_state["c"] \in Handshaking
    /\ \A x \in Side : (stuck_since[x] # 0) = (link_outq[x] # <<>>)

\* The two ends of an open link stay in step through handshake, KEM mixing
\* and rekeying: a record that arrives whole and in order opens, also with the
\* count of records driving the keys on both sides and with a receiver whose
\* clock ran ahead; only a sender that changed its key by the clock can be
\* under a key its receiver has yet to derive (link_rekey_send_maybe_rotate,
\* "Peer counts identically"); and LinkAnswered holds.
LinkInStep ==
    /\ LnTypeOK
    /\ \A x \in Side : /\ lnFault[x] # "key"
                       /\ lnFault[x] = "ahead" => lnTimed[Peer(x)]
    /\ LinkAnswered

\* connection.c:1384 "so a recv-side straggler cell (peer rotated slightly
\* before us) can still be decrypted with the previous key".
LinkStragglersOpen == \A x \in Side : lnFault[x] # "ahead"

\* scheduler.c:481 "Nonces stay sequential with any direct sends on this
\* conn": the records of a link arrive in the order they were sealed.
LinkInOrder == \A x \in Side : lnFault[x] # "overtaken"
=============================================================================
