----------------------------- MODULE Transports -----------------------------
(***************************************************************************)
(* The pluggable transports of a bridge link (transport*.c) under the link  *)
(* protocol that uses them (conn_send, conn_recv and the transport branches *)
(* of send_cell and recv_cell in connection.c).                             *)
(*                                                                         *)
(* A session has one kind, drawn from the registry, and one observed        *)
(* direction of data.  Each side runs the handshake function of its kind as *)
(* a script; both derive keys; then the sending side puts one cell into     *)
(* each record.  A record is two pieces on the wire, its header and its     *)
(* body, since every kind writes and reads them as two transfers and a      *)
(* transfer can be cut between them.  The kind "raw" is a link without      *)
(* transport: its queue of unwritten bytes is module LinkProtocol's         *)
(* subject, so here a raw record is written when there is room for it.      *)
(*                                                                         *)
(* Left out: padding, camouflage contents, key generation, and the          *)
(* plaintext that nether and shitstorm keep when the caller's buffer is     *)
(* short, which recv_cell's buffer never is, and the check of the client's *)
(* key against earlier handshakes.                                          *)
(***************************************************************************)
EXTENDS Integers, Sequences, SequencesExt

CONSTANTS TrRegistered, \* the transports main.c registers at start-up
          TrWire,       \* pieces that fit in the sockets' buffers
          TrBuf,        \* pieces that fit in a read-ahead buffer (4096 bytes)
          TrBatch,      \* cells one read event processes (64)
          TrRekey,      \* SS_REKEY_INTERVAL (65536)
          TrMaxCells,   \* bound: cells sent
          TrMaxFaults   \* bound: I/O failures and timeouts

VARIABLES trKind,   \* the session: transport, direction of data, and whether
                    \* the client has the bridge's identity key
          trHs,     \* per side: rest of its script, handshake messages
                    \* waiting for it, and how its handshake ended
          trKeys,   \* per side: the keys it derived
          trOut,    \* transport and link state of the sending side
          trIn,     \* transport and link state of the receiving side
          trNet,    \* pieces in flight, pieces in the receiver's kernel, EOF
          trBudget  \* cells and faults left

trVars == <<trKind, trHs, trKeys, trOut, trIn, trNet, trBudget>>

TrSides == {"client", "server"}
TrPeer(x) == IF x = "client" THEN "server" ELSE "client"

(* The transports there are; a registry holds some of them.                 *)
TrKinds == {"scramble", "shade", "mirage", "speakeasy", "nether", "shitstorm"}

(* A read-ahead buffer holds at least a whole record.                       *)
ASSUME TrAssumption ==
  /\ TrRegistered \in Seq(TrKinds)
  /\ TrWire \in Nat /\ TrBuf \in Nat /\ TrBuf >= 2
  /\ TrBatch \in Nat /\ TrRekey \in Nat \ {0}
  /\ TrMaxCells \in Nat /\ TrMaxFaults \in Nat

-----------------------------------------------------------------------------
(* The handshakes, one script per function.  "send" and "recv" move one     *)
(* message; "seal" and "open" move one that is encrypted under the derived  *)
(* keys and uses up a nonce; "know" is the check that the client's hello    *)
(* was made with the bridge's identity; "keys" derives.                     *)

TrScrambleClient == <<<<"send", "hello">>, <<"recv", "reply">>, <<"keys", "">>>>
TrScrambleServer == <<<<"recv", "hello">>, <<"know", "">>, <<"send", "reply">>, <<"keys", "">>>>

TrShadeClient == <<<<"send", "repr">>, <<"recv", "repr">>, <<"keys", "">>>>
TrShadeServer == <<<<"recv", "repr">>, <<"know", "">>, <<"send", "repr">>, <<"keys", "">>>>

(* What the server answers in the guise of TLS: its records of random       *)
(* filler are one message, for mirage ended by a zero-length marker record. *)
TrMirageFiller(verb) == <<verb, "filler">>
TrMirageClient == <<<<"send", "ClientHello">>, <<"recv", "ServerHello">>, <<"recv", "ChangeCipherSpec">>,
                    TrMirageFiller("recv"), <<"recv", "marker">>, <<"keys", "">>>>
TrMirageServer == <<<<"recv", "ClientHello">>, <<"know", "">>, <<"send", "ServerHello">>,
                    <<"send", "ChangeCipherSpec">>, TrMirageFiller("send"), <<"send", "marker">>,
                    <<"keys", "">>>>

TrSpeakeasyClient == <<<<"send", "version">>, <<"recv", "version">>, <<"send", "KEXINIT">>,
                       <<"recv", "KEXINIT">>, <<"send", "ECDH_INIT">>, <<"recv", "ECDH_REPLY">>,
                       <<"send", "NEWKEYS">>, <<"recv", "NEWKEYS">>, <<"keys", "">>>>
TrSpeakeasyServer == <<<<"recv", "version">>, <<"send", "version">>, <<"recv", "KEXINIT">>,
                       <<"send", "KEXINIT">>, <<"recv", "ECDH_INIT">>, <<"send", "ECDH_REPLY">>,
                       <<"send", "NEWKEYS">>, <<"recv", "NEWKEYS">>, <<"keys", "">>>>

(* A status ping (another program) is answered and closed: not a session.   *)
TrNetherClient == <<<<"send", "handshake">>, <<"send", "login start">>, <<"recv", "login success">>,
                    <<"recv", "login finished">>, <<"send", "plugin key">>, <<"recv", "plugin key">>,
                    <<"keys", "">>>>
TrNetherServer == <<<<"recv", "handshake">>, <<"recv", "login start">>, <<"send", "login success">>,
                    <<"send", "login finished">>, <<"recv", "plugin key">>, <<"send", "plugin key">>,
                    <<"keys", "">>>>

TrShitstormFiller(verb) == <<verb, "filler">>
TrShitstormFinish(verb) == <<verb, "Finished">>
TrShitstormTicket(verb) == <<verb, "ticket">>
TrShitstormClient == <<<<"send", "ClientHello">>, <<"recv", "ServerHello">>, <<"recv", "ChangeCipherSpec">>,
                       TrShitstormFiller("recv"), <<"keys", "">>, TrShitstormFinish("seal"),
                       TrShitstormTicket("open"), TrShitstormTicket("open")>>
(* Without the check passed, the connection is relayed to the decoy site    *)
(* until that ends, and then closed like any failed handshake.              *)
TrShitstormServer == <<<<"recv", "ClientHello">>, <<"know", "">>, <<"send", "ServerHello">>,
                       <<"send", "ChangeCipherSpec">>, TrShitstormFiller("send"), <<"keys", "">>,
                       TrShitstormFinish("open"), TrShitstormTicket("seal"), TrShitstormTicket("seal")>>

TrScript(kind, x) ==
  LET c == x = "client"
  IN CASE kind = "scramble"  -> IF c THEN TrScrambleClient  ELSE TrScrambleServer
       [] kind = "shade"     -> IF c THEN TrShadeClient     ELSE TrShadeServer
       [] kind = "mirage"    -> IF c THEN TrMirageClient    ELSE TrMirageServer
       [] kind = "speakeasy" -> IF c THEN TrSpeakeasyClient ELSE TrSpeakeasyServer
       [] kind = "nether"    -> IF c THEN TrNetherClient    ELSE TrNetherServer
       [] kind = "shitstorm" -> IF c THEN TrShitstormClient ELSE TrShitstormServer
       [] kind = "raw"       -> <<>>

-----------------------------------------------------------------------------
(* Key derivation: which sub-keys of the shared secret a side sends and     *)
(* receives under (payload, header), and whether the bridge's static key    *)
(* went into that secret.                                                   *)

TrPair(client, up, down, static) ==
  [send |-> <<IF client THEN up ELSE down, static>>,
   recv |-> <<IF client THEN down ELSE up, static>>]

TrScrambleKeys(client)  == TrPair(client, {"0", "2"}, {"1", "3"}, FALSE)
TrShadeKeys(client)     == TrPair(client, {"0", "2"}, {"1", "3"}, FALSE)
TrMirageKeys(client, static) == TrPair(client, {"km"}, {"km+32"}, static)
TrSpeakeasyKeys(client) == TrPair(client, {"C", "E"}, {"D", "F"}, FALSE)
TrNetherKeys(client)    == TrPair(client, {"c2s"}, {"s2c"}, FALSE)
TrShitstormKeys(client, static) == TrPair(client, {"km", "0", "2"}, {"km+32", "1", "3"}, static)

TrDerive(kind, x, static) ==
  LET c == x = "client"
  IN CASE kind = "scramble"  -> TrScrambleKeys(c)
       [] kind = "shade"     -> TrShadeKeys(c)
       [] kind = "mirage"    -> TrMirageKeys(c, static)
       [] kind = "speakeasy" -> TrSpeakeasyKeys(c)
       [] kind = "nether"    -> TrNetherKeys(c)
       [] kind = "shitstorm" -> TrShitstormKeys(c, static)
       [] kind = "raw"       -> TrPair(c, {"up"}, {"down"}, FALSE)

-----------------------------------------------------------------------------
(* The record layers.  A sender "waits" for room (poll, 30 s) or fails at   *)
(* once, and "early" says that the nonce is used up before the write.  A    *)
(* receiver reads "ahead" into a buffer it keeps, reads "exact" amounts     *)
(* into a buffer it keeps, or "blocks" until it has a record, giving up     *)
(* what it read when that times out.  "pending" is what has_pending says of *)
(* n buffered pieces.                                                       *)

TrScrambleSend  == [waits |-> TRUE,  early |-> TRUE]
TrShadeSend     == [waits |-> TRUE,  early |-> TRUE]
TrMirageSend    == [waits |-> FALSE, early |-> TRUE]
TrSpeakeasySend == [waits |-> FALSE, early |-> FALSE]
TrNetherSend    == [waits |-> FALSE, early |-> TRUE]
TrShitstormSend == [waits |-> FALSE, early |-> TRUE]

TrScrambleRecv(n)  == [reads |-> "ahead",  pending |-> n > 0]
TrShadeRecv(n)     == [reads |-> "blocks", pending |-> FALSE]
TrMirageRecv(n)    == [reads |-> "ahead",  pending |-> n >= 2]
TrSpeakeasyRecv(n) == [reads |-> "exact",  pending |-> n > 0]
TrNetherRecv(n)    == [reads |-> "blocks", pending |-> FALSE]
TrShitstormRecv(n) == [reads |-> "blocks", pending |-> FALSE]

TrSender(kind) ==
  CASE kind = "scramble"  -> TrScrambleSend
    [] kind = "shade"     -> TrShadeSend
    [] kind = "mirage"    -> TrMirageSend
    [] kind = "speakeasy" -> TrSpeakeasySend
    [] kind = "nether"    -> TrNetherSend
    [] kind = "shitstorm" -> TrShitstormSend
    [] kind = "raw"       -> [waits |-> TRUE, early |-> TRUE]

(* For "raw" the buffer is the connection's own recv_buf.                   *)
TrReceiver(kind, n) ==
  CASE kind = "scramble"  -> TrScrambleRecv(n)
    [] kind = "shade"     -> TrShadeRecv(n)
    [] kind = "mirage"    -> TrMirageRecv(n)
    [] kind = "speakeasy" -> TrSpeakeasyRecv(n)
    [] kind = "nether"    -> TrNetherRecv(n)
    [] kind = "shitstorm" -> TrShitstormRecv(n)
    [] kind = "raw"       -> [reads |-> "ahead", pending |-> n >= 2]

(* shitstorm ratchets its keys every TrRekey records, each side from its    *)
(* own count.                                                               *)
TrRekeySend(kind, out) ==
  IF kind = "shitstorm" /\ out.records > 0 /\ out.records % TrRekey = 0
  THEN [out EXCEPT !.epoch = @ + 1] ELSE out
MutTrRekeyRecv(kind, in) ==
  IF kind = "shitstorm" /\ in.records > 0 /\ (in.records + 1) % TrRekey = 0
  THEN [in EXCEPT !.epoch = @ + 1] ELSE in
TrRekeyRecv(kind, in) ==
  IF kind = "shitstorm" /\ in.records > 0 /\ in.records % TrRekey = 0
  THEN [in EXCEPT !.epoch = @ + 1] ELSE in

-----------------------------------------------------------------------------
(* moor_transport_register refuses a second transport of the same name.     *)
TrFind(name) == name \in Range(TrRegistered)

TrInit ==
  /\ IsInjective(TrRegistered)
  /\ trKind \in [kind : {k \in Range(TrRegistered) : TrFind(k)} \cup {"raw"},
                 dir : TrSides, knows : BOOLEAN]
  /\ trHs = [x \in TrSides |-> [todo |-> TrScript(trKind.kind, x), inbox |-> <<>>,
                                ended |-> IF trKind.kind = "raw" THEN "done" ELSE ""]]
  /\ trKeys = [x \in TrSides |-> TrDerive("raw", x, FALSE)]
  /\ trOut = [nonce |-> 0, epoch |-> 0, records |-> 0, open |-> TRUE]
  /\ trIn = [nonce |-> 0, epoch |-> 0, records |-> 0, open |-> TRUE, buf |-> <<>>,
             got |-> 0, failed |-> FALSE, timedOut |-> FALSE]
  /\ trNet = [flight |-> <<>>, kernel |-> <<>>, eof |-> FALSE]
  /\ trBudget = [cells |-> TrMaxCells, faults |-> TrMaxFaults]

TrRunning(x) == trHs[x].ended = "" /\ trHs[x].todo # <<>>

(* The side's next step is done; after the last one the handshake returns 0 *)
(* and the connection has its transport state.                              *)
TrAdvance(hs, x) ==
  LET rest == Tail(hs[x].todo)
  IN [hs EXCEPT ![x].todo = rest, ![x].ended = IF rest = <<>> THEN "done" ELSE ""]

(* The direction that data will take has its nonces counted.                *)
TrHsSend(x) ==
  /\ TrRunning(x)
  /\ Head(trHs[x].todo)[1] \in {"send", "seal"}
  /\ LET step == Head(trHs[x].todo)
         sealed == step[1] = "seal" /\ x = trKind.dir
     IN /\ trHs' = [TrAdvance(trHs, x) EXCEPT ![TrPeer(x)].inbox =
                      Append(@, [name |-> step[2], nonce |-> IF sealed THEN trOut.nonce ELSE 0])]
        /\ trOut' = [trOut EXCEPT !.nonce = IF sealed THEN @ + 1 ELSE @]
  /\ UNCHANGED <<trKind, trKeys, trIn, trNet, trBudget>>

(* A message that is not the expected one, or does not open, ends it.       *)
TrHsRecv(x) ==
  /\ TrRunning(x)
  /\ trHs[x].inbox # <<>>
  /\ Head(trHs[x].todo)[1] \in {"recv", "open"}
  /\ LET step == Head(trHs[x].todo)
         msg == Head(trHs[x].inbox)
         sealed == step[1] = "open" /\ x # trKind.dir
         good == /\ msg.name = step[2]
                 /\ step[1] = "open" => trKeys[x].recv = trKeys[TrPeer(x)].send
                 /\ sealed => msg.nonce = trIn.nonce
         taken == [trHs EXCEPT ![x].inbox = Tail(@)]
     IN /\ trHs' = IF good THEN TrAdvance(taken, x)
                   ELSE [taken EXCEPT ![x].ended = "failed"]
        /\ trIn' = [trIn EXCEPT !.nonce = IF sealed /\ good THEN @ + 1 ELSE @]
  /\ UNCHANGED <<trKind, trKeys, trOut, trNet, trBudget>>

(* The bridge tells its clients from other visitors by their first message. *)
TrHsKnow ==
  /\ TrRunning("server")
  /\ Head(trHs["server"].todo)[1] = "know"
  /\ trHs' = IF trKind.knows THEN TrAdvance(trHs, "server")
             ELSE [trHs EXCEPT !["server"].ended = "failed"]
  /\ UNCHANGED <<trKind, trKeys, trOut, trIn, trNet, trBudget>>

(* The client mixes in the bridge's static key when it has it; the bridge   *)
(* always has its own.                                                      *)
TrHsKeys(x) ==
  /\ TrRunning(x)
  /\ Head(trHs[x].todo)[1] = "keys"
  /\ trKeys' = [trKeys EXCEPT ![x] = TrDerive(trKind.kind, x, x = "client" => trKind.knows)]
  /\ trHs' = TrAdvance(trHs, x)
  /\ UNCHANGED <<trKind, trOut, trIn, trNet, trBudget>>

(* A transfer fails or times out, or the peer has closed: the handshake     *)
(* returns -1 and its caller closes the socket.                             *)
TrHsFail(x) ==
  /\ TrRunning(x)
  /\ LET hung == trHs[TrPeer(x)].ended = "failed" /\ trHs[x].inbox = <<>>
     IN /\ hung \/ trBudget.faults > 0
        /\ trBudget' = [trBudget EXCEPT !.faults = IF hung THEN @ ELSE @ - 1]
  /\ trHs' = [trHs EXCEPT ![x].ended = "failed"]
  /\ UNCHANGED <<trKind, trKeys, trOut, trIn, trNet>>

-----------------------------------------------------------------------------
TrPieces(n) == LET p == [cell |-> TrMaxCells - trBudget.cells + 1, nonce |-> trOut.nonce,
                         epoch |-> TrRekeySend(trKind.kind, trOut).epoch]
               IN SubSeq(<<[part |-> 1, rec |-> p], [part |-> 2, rec |-> p]>>, 1, n)

TrRoom == TrWire - Len(trNet.flight) - Len(trNet.kernel)

(* moor_connection_send_cell: the record goes out whole, or what fitted is  *)
(* left on the wire and the link is marked dead.  The client speaks first,  *)
(* so the bridge sends once the client's handshake is over.                 *)
TrSend ==
  /\ trHs[trKind.dir].ended = "done" /\ trOut.open /\ ~trNet.eof
  /\ trKind.dir = "server" => trHs["client"].ended = "done"
  /\ trBudget.cells > 0
  /\ LET how == TrSender(trKind.kind)
         whole == TrRoom >= 2
     IN /\ whole \/ ~how.waits \/ (trBudget.faults > 0 /\ trKind.kind # "raw")
        /\ trNet' = [trNet EXCEPT !.flight = @ \o TrPieces(IF whole THEN 2 ELSE TrRoom)]
        /\ trOut' = [TrRekeySend(trKind.kind, trOut) EXCEPT
                       !.nonce = IF whole \/ how.early THEN @ + 1 ELSE @,
                       !.records = IF whole THEN @ + 1 ELSE @,
                       !.open = whole]
        /\ trBudget' = [trBudget EXCEPT !.cells = @ - 1,
                          !.faults = IF ~whole /\ how.waits THEN @ - 1 ELSE @]
  /\ UNCHANGED <<trKind, trHs, trKeys, trIn>>

(* The network delivers the next piece. (external)                          *)
TrArrive ==
  /\ trNet.flight # <<>>
  /\ trNet' = [trNet EXCEPT !.flight = Tail(@), !.kernel = Append(@, Head(trNet.flight))]
  /\ UNCHANGED <<trKind, trHs, trKeys, trOut, trIn, trBudget>>

(* The sending side closes its socket: once its link is dead, or whenever   *)
(* the process ends.                                                        *)
TrClose ==
  /\ trHs[trKind.dir].ended = "done" /\ ~trNet.eof
  /\ ~trOut.open \/ trBudget.faults > 0
  /\ trOut' = [trOut EXCEPT !.open = FALSE]
  /\ trNet' = [trNet EXCEPT !.eof = TRUE]
  /\ trBudget' = [trBudget EXCEPT !.faults = IF trOut.open THEN @ - 1 ELSE @]
  /\ UNCHANGED <<trKind, trHs, trKeys, trIn>>

(* How many pieces a receive call takes from the kernel.                    *)
TrTake(reads, held, there) ==
  IF held >= 2 THEN 0
  ELSE LET most == IF reads = "ahead" THEN TrBuf - held ELSE 2 - held
       IN IF there < most THEN there ELSE most

(* The two pieces are one record, and it decrypts under the receiver's      *)
(* keys, nonce and epoch.                                                   *)
TrOpens(keys, in) ==
  LET h == in.buf[1]  b == in.buf[2]
  IN /\ h.part = 1 /\ b.part = 2 /\ h.rec = b.rec
     /\ keys[trKind.dir].send = keys[TrPeer(trKind.dir)].recv
     /\ h.rec.nonce = in.nonce /\ h.rec.epoch = in.epoch

(* moor_connection_recv_cell with the transport's receive function: ret 1   *)
(* is a cell, 0 no cell now, -1 a closed link, and "wait" a receive call    *)
(* that blocks for the rest of a record.  A receive call that fails without *)
(* end of file is taken for "no data yet".                                  *)
TrRecvCell(s) ==
  LET how == TrReceiver(trKind.kind, Len(s.in.buf))
      fresh == how.reads = "blocks" /\ s.in.buf = <<>>
      take == TrTake(how.reads, Len(s.in.buf), Len(s.kernel))
      in1 == IF fresh THEN TrRekeyRecv(trKind.kind, s.in) ELSE s.in
      in2 == [in1 EXCEPT !.buf = @ \o SubSeq(s.kernel, 1, take)]
      rest == SubSeq(s.kernel, take + 1, Len(s.kernel))
      closed == rest = <<>> /\ trNet.flight = <<>> /\ trNet.eof
  IN IF ~how.pending /\ s.kernel = <<>> /\ ~closed
     THEN [s EXCEPT !.ret = IF s.in.buf # <<>> /\ how.reads = "blocks" THEN "wait" ELSE "0"]
     ELSE IF Len(in2.buf) < 2
     THEN CASE closed /\ how.reads = "blocks" ->
                 [in |-> [in2 EXCEPT !.buf = <<>>], kernel |-> rest, ret |-> "0"]
            [] closed /\ how.reads # "blocks" ->
                 [in |-> [in2 EXCEPT !.open = FALSE], kernel |-> rest, ret |-> "-1"]
            [] ~closed -> [in |-> in2, kernel |-> rest,
                           ret |-> IF how.reads = "blocks" THEN "wait" ELSE "0"]
     ELSE IF TrOpens(trKeys, in2)
     THEN [in |-> [in2 EXCEPT !.buf = SubSeq(@, 3, Len(@)), !.nonce = @ + 1,
                              !.records = @ + 1, !.got = in2.buf[1].rec.cell],
           kernel |-> rest, ret |-> "1"]
     ELSE [in |-> [in2 EXCEPT !.failed = TRUE,
                              !.buf = IF how.reads = "blocks" THEN <<>> ELSE @],
           kernel |-> rest, ret |-> "0"]

TrReadable == trNet.kernel # <<>> \/ (trNet.eof /\ trNet.flight = <<>>)

(* The read callbacks: up to TrBatch cells per event.                       *)
TrReadLoop ==
  LET loop[i \in 0 .. TrBatch] ==
        IF i = 0 THEN [in |-> trIn, kernel |-> trNet.kernel, ret |-> "1"]
        ELSE IF loop[i - 1].ret = "1" THEN TrRecvCell(loop[i - 1]) ELSE loop[i - 1]
  IN loop[TrBatch]

TrRead ==
  /\ trHs[TrPeer(trKind.dir)].ended = "done" /\ trIn.open
  /\ TrReadable /\ trIn.epoch <= TrMaxCells \* bound: every read at EOF ratchets
  /\ trIn' = TrReadLoop.in
  /\ trNet' = [trNet EXCEPT !.kernel = TrReadLoop.kernel]
  /\ UNCHANGED <<trKind, trHs, trKeys, trOut, trBudget>>

(* A blocking receive call gives up: the pieces it read are gone.           *)
TrReadTimeout ==
  /\ trIn.open /\ trIn.buf # <<>> /\ trBudget.faults > 0
  /\ TrReceiver(trKind.kind, Len(trIn.buf)).reads = "blocks"
  /\ trIn' = [trIn EXCEPT !.buf = <<>>, !.timedOut = TRUE]
  /\ trBudget' = [trBudget EXCEPT !.faults = @ - 1]
  /\ UNCHANGED <<trKind, trHs, trKeys, trOut, trNet>>

TrNext ==
  \/ \E x \in TrSides : TrHsSend(x) \/ TrHsRecv(x) \/ TrHsKeys(x) \/ TrHsFail(x)
  \/ TrHsKnow \/ TrSend \/ TrArrive \/ TrClose \/ TrRead \/ TrReadTimeout

TrSpec == TrInit /\ [][TrNext]_trVars

-----------------------------------------------------------------------------
(* Both ends of a transport stay in step without a signal: the two scripts  *)
(* of every kind fit together, so a handshake with a client that knows the  *)
(* bridge ends only by a fault; the derived keys match across the           *)
(* directions; cells come out in the order they went in, none skipped; and  *)
(* a record fails to open only after a receive call timed out, whatever the *)
(* batching, the split of records on the wire, torn writes, the sealed      *)
(* handshake messages and the key ratchet.                                  *)
TrInStep ==
  /\ \A x \in TrSides :
       trHs[x].ended = "failed" => ~trKind.knows \/ trBudget.faults < TrMaxFaults
  /\ (\A x \in TrSides : trHs[x].ended = "done") =>
       \A x \in TrSides : trKeys[x].send = trKeys[TrPeer(x)].recv
  /\ trIn.got = trIn.records
  /\ trIn.failed => trIn.timedOut

(* Cells that a receive call has already taken from the kernel do not wait  *)
(* there for the next arrival: whenever a read event ends, either no whole  *)
(* record is buffered or the socket is still readable (the comment on       *)
(* transport_has_pending in recv_cell: poll only sees kernel buffers).      *)
TrNothingStranded == trIn.open /\ Len(trIn.buf) >= 2 => TrReadable

(* A link whose peer has closed is closed by the read event that finds the  *)
(* end of file.                                                             *)
TrEofNoticed ==
  [][TrRead /\ trNet.eof /\ trNet.flight = <<>> /\ TrReadLoop.ret # "1" => ~trIn'.open]_trVars
=============================================================================
