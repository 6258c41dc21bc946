------------------------ MODULE SendmeForwardProofs ------------------------
(***************************************************************************)
(* Proofs about SendmeForward, for every number of streams, every window   *)
(* size and every bound.                                                   *)
(*                                                                         *)
(* The history values in the cells form a chain: n grows by one at every   *)
(* DATA cell of fwd, and by Increment at every circuit SENDME of bwd.  The *)
(* inductive invariant says that the chain in fwd leads from what the exit *)
(* received to what the client sent, the chain in bwd from what the client *)
(* saw credited to what the exit credited, and ties the windows to these   *)
(* totals.                                                                 *)
(***************************************************************************)
EXTENDS SendmeForward, FiniteSetTheorems, WellFoundedInduction, TLAPS

\* The history values of the queue q lead from lo to hi, by w at every cell
\* with command cmd and by nothing at the others.
Weight(cell, cmd, w) == IF cell.cmd = cmd THEN w ELSE 0

Chain(q, cmd, w, lo, hi) ==
    /\ \A i \in 1..Len(q) :
         q[i].n = (IF i = 1 THEN lo ELSE q[i-1].n) + Weight(q[i], cmd, w)
    /\ hi = IF q = <<>> THEN lo ELSE q[Len(q)].n
    /\ \A i, j \in 1..Len(q) : i <= j => q[i].n <= q[j].n
    /\ lo <= hi

\* Appending a cell whose history value continues the chain extends it
\* (moor_circuit_queue_cell).
LEMMA ChainAppend ==
    ASSUME NEW S, NEW q \in Seq(S), NEW c \in S, NEW cmd,
           NEW w \in Nat, NEW lo \in Nat, NEW hi \in Nat,
           \A x \in S : x.n \in Nat,
           Chain(q, cmd, w, lo, hi),
           c.n = hi + Weight(c, cmd, w)
    PROVE  Chain(Append(q, c), cmd, w, lo, c.n)
<1> DEFINE r == Append(q, c)
<1> SUFFICES Chain(r, cmd, w, lo, c.n)
  OBVIOUS
<1>1. /\ r \in Seq(S)
      /\ Len(r) = Len(q) + 1
      /\ Len(q) \in Nat
      /\ \A i \in 1..Len(q) : r[i] = q[i]
      /\ r[Len(q) + 1] = c
  OBVIOUS
<1>2. Weight(c, cmd, w) \in Nat  BY DEF Weight
<1>3. \A i \in 1..Len(q) : q[i] \in S  OBVIOUS
<1>4. \A i \in 1..Len(r) :
         r[i].n = (IF i = 1 THEN lo ELSE r[i-1].n) + Weight(r[i], cmd, w)
  <2> TAKE i \in 1..Len(r)
  <2>1. CASE i \in 1..Len(q)
    <3>1. i # 1 => i - 1 \in 1..Len(q)  BY <1>1, <2>1
    <3> QED BY <1>1, <2>1, <3>1 DEF Chain
  <2>2. CASE i = Len(q) + 1
    <3>1. q # <<>> => Len(q) \in 1..Len(q) /\ i # 1 /\ i - 1 = Len(q)  BY <1>1, <2>2
    <3>2. q = <<>> => i = 1  BY <2>2
    <3> QED BY <1>1, <2>2, <3>1, <3>2 DEF Chain
  <2> QED BY <1>1, <2>1, <2>2
<1>5. \A i \in 1..Len(q) : q[i].n <= hi
  <2>1. q # <<>> => Len(q) \in 1..Len(q)  BY <1>1
  <2> QED BY <1>1, <2>1 DEF Chain
<1>6. \A i, j \in 1..Len(r) : i <= j => r[i].n <= r[j].n
  <2> SUFFICES ASSUME NEW i \in 1..Len(r), NEW j \in 1..Len(r), i <= j
               PROVE  r[i].n <= r[j].n
    OBVIOUS
  <2>1. CASE j \in 1..Len(q)
    BY <1>1, <2>1 DEF Chain
  <2>2. CASE j = Len(q) + 1 /\ i \in 1..Len(q)
    BY <1>1, <1>2, <1>3, <1>5, <2>2
  <2>3. CASE i = Len(q) + 1 /\ j = Len(q) + 1
    BY <1>1, <2>3
  <2> QED BY <1>1, <2>1, <2>2, <2>3
<1>7. lo <= c.n  BY <1>2 DEF Chain
<1>8. r # <<>> /\ r[Len(r)].n = c.n  BY <1>1
<1> QED BY <1>4, <1>6, <1>7, <1>8 DEF Chain

\* Consuming the head of a chain advances its lower end to the head's value.
LEMMA ChainTail ==
    ASSUME NEW S, NEW q \in Seq(S), NEW cmd,
           NEW w \in Nat, NEW lo \in Nat, NEW hi \in Nat,
           \A x \in S : x.n \in Nat,
           Chain(q, cmd, w, lo, hi),
           q # <<>>
    PROVE  /\ Head(q).n = lo + Weight(Head(q), cmd, w)
           /\ Head(q).n <= hi
           /\ Chain(Tail(q), cmd, w, Head(q).n, hi)
<1> DEFINE t == Tail(q)
<1>1. /\ Len(q) \in Nat \ {0}
      /\ t \in Seq(S)
      /\ Len(t) = Len(q) - 1
      /\ \A i \in 1..Len(t) : t[i] = q[i+1]
      /\ Head(q) = q[1]
      /\ 1 \in 1..Len(q)
      /\ Len(q) \in 1..Len(q)
  OBVIOUS
<1>2. Head(q).n = lo + Weight(Head(q), cmd, w)  BY <1>1 DEF Chain
<1>3. Head(q).n <= hi  BY <1>1 DEF Chain
<1>4. \A i \in 1..Len(t) :
         t[i].n = (IF i = 1 THEN Head(q).n ELSE t[i-1].n) + Weight(t[i], cmd, w)
  <2> TAKE i \in 1..Len(t)
  <2>1. i + 1 \in 1..Len(q) /\ (i + 1) - 1 = i /\ i + 1 # 1  BY <1>1
  <2>2. t[i].n = q[i].n + Weight(t[i], cmd, w)  BY <1>1, <2>1 DEF Chain
  <2>3. i # 1 => i - 1 \in 1..Len(t) /\ (i - 1) + 1 = i  BY <1>1
  <2> QED BY <1>1, <2>2, <2>3
<1>5. hi = IF t = <<>> THEN Head(q).n ELSE t[Len(t)].n
  <2>1. CASE t = <<>>
    <3> HIDE DEF t
    <3>0. Len(t) = 0  BY <2>1
    <3>1. Len(q) = 1  BY <1>1, <3>0
    <3> QED BY <1>1, <2>1, <3>1 DEF Chain
  <2>2. CASE t # <<>>
    <3>1. Len(t) \in 1..Len(t) /\ Len(t) + 1 = Len(q)  BY <1>1, <2>2
    <3> QED BY <1>1, <2>2, <3>1 DEF Chain
  <2> QED BY <2>1, <2>2
<1>6. \A i, j \in 1..Len(t) : i <= j => t[i].n <= t[j].n
  <2> TAKE i, j \in 1..Len(t)
  <2>1. i + 1 \in 1..Len(q) /\ j + 1 \in 1..Len(q) /\ (i <= j => i + 1 <= j + 1)  BY <1>1
  <2> QED BY <1>1, <2>1 DEF Chain
<1> QED BY <1>2, <1>3, <1>4, <1>5, <1>6 DEF Chain

-----------------------------------------------------------------------------
(* Type correctness.                                                       *)

\* Appending on a condition keeps a sequence over S.
LEMMA AppendIfType ==
    ASSUME NEW S, NEW q \in Seq(S), NEW cond, NEW c, cond => c \in S
    PROVE  AppendIf(q, cond, c) \in Seq(S)
BY DEF AppendIf

\* Whatever the exit answers is a backward cell.
LEMMA ReplyType ==
    ASSUME hist \in Hist, NEW s \in Streams,
           NEW cmd \in BwdCmds \ {"CIRC_SENDME"}
    PROVE  Reply(cmd, s) \in BwdCell
<1>1. hist.credited \in Nat  BY DEF Hist
<1> QED BY <1>1 DEF Reply, BwdCell, NoAuth

\* The history totals stay natural numbers under the updates the actions make.
LEMMA HistType ==
    ASSUME hist \in Hist, NEW a \in Nat, NEW b \in Nat
    PROVE  /\ hist.sent \in Nat /\ hist.rcvd \in Nat /\ hist.credited \in Nat
           /\ hist.seen \in Nat /\ hist.other \in Nat /\ hist.errors \in Nat
           /\ [hist EXCEPT !.rcvd = a, !.credited = b] \in Hist
           /\ [hist EXCEPT !.rcvd = a] \in Hist
           /\ [hist EXCEPT !.seen = a] \in Hist
           /\ [hist EXCEPT !.sent = @ + 1] \in Hist
           /\ [hist EXCEPT !.other = @ + 1] \in Hist
           /\ [hist EXCEPT !.rcvd = a, !.errors = @ + 1] \in Hist
<1>1. /\ hist.sent \in Nat /\ hist.rcvd \in Nat /\ hist.credited \in Nat
      /\ hist.seen \in Nat /\ hist.other \in Nat /\ hist.errors \in Nat
  BY DEF Hist
<1>2. /\ [hist EXCEPT !.rcvd = a, !.credited = b] \in Hist
      /\ [hist EXCEPT !.rcvd = a] \in Hist
      /\ [hist EXCEPT !.seen = a] \in Hist
  BY DEF Hist
<1>3. [hist EXCEPT !.sent = @ + 1] \in Hist  BY DEF Hist
<1>4. [hist EXCEPT !.other = @ + 1] \in Hist  BY DEF Hist
<1>5. [hist EXCEPT !.rcvd = a, !.errors = @ + 1] \in Hist
  <2>1. ASSUME NEW e \in Nat PROVE [hist EXCEPT !.rcvd = a, !.errors = e] \in Hist
    BY DEF Hist
  <2>2. hist.errors + 1 \in Nat  BY <1>1
  <2> QED BY <2>1, <2>2
<1> QED BY <1>1, <1>2, <1>3, <1>4, <1>5

\* The parts of the cell the exit takes from fwd.
LEMMA FwdHeadType ==
    ASSUME fwd \in Seq(FwdCell), fwd # <<>>
    PROVE  /\ Head(fwd) \in FwdCell /\ Tail(fwd) \in Seq(FwdCell)
           /\ Head(fwd).cmd # "OTHER" => Head(fwd).sid \in Streams
           /\ Head(fwd).n \in Nat
<1>1. Head(fwd) \in FwdCell /\ Tail(fwd) \in Seq(FwdCell)  OBVIOUS
<1>2. ASSUME NEW c \in FwdCell
      PROVE  (c.cmd # "OTHER" => c.sid \in Streams) /\ c.n \in Nat
  BY DEF FwdCell
<1> QED BY <1>1, <1>2

\* The parts of the cell the client takes from bwd.
LEMMA BwdHeadType ==
    ASSUME bwd \in Seq(BwdCell), bwd # <<>>
    PROVE  /\ Head(bwd) \in BwdCell /\ Tail(bwd) \in Seq(BwdCell)
           /\ Head(bwd).n \in Nat
<1>1. Head(bwd) \in BwdCell /\ Tail(bwd) \in Seq(BwdCell)  OBVIOUS
<1>2. ASSUME NEW c \in BwdCell PROVE c.n \in Nat
  BY DEF BwdCell
<1> QED BY <1>1, <1>2

\* sendme_check keeps the types of what it assigns.
LEMMA SendmeCheckType ==
    ASSUME TypeOK, NEW s \in Streams, NEW known \in BOOLEAN,
           NEW cw \in Int, NEW sw \in Int, NEW x \in {"none", "XOFF", "XON"},
           Head(fwd).n \in Nat,
           SendmeCheck(s, known, cw, sw, x)
    PROVE  /\ circ_deliver_window' \in Int
           /\ estreams' \in [Streams -> EStream]
           /\ bwd' \in Seq(BwdCell)
           /\ hist' \in Hist
<1> DEFINE circ == cw <= CircWindow - Increment
           strm == known /\ sw <= StreamWindow - Increment
           credit == IF circ THEN hist.credited + Increment ELSE hist.credited
           ack  == [cmd |-> "CIRC_SENDME", sid |-> NoStream, n |-> credit,
                    auth |-> relay_forward_digest + 1]
           sack == [cmd |-> "SENDME", sid |-> s, n |-> credit, auth |-> NoAuth]
           q1 == AppendIf(bwd, x # "none", Reply(x, s))
           q2 == AppendIf(q1, circ, ack)
           q3 == AppendIf(q2, strm, sack)
<1>0. hist \in Hist /\ bwd \in Seq(BwdCell) /\ relay_forward_digest \in Nat
      /\ estreams \in [Streams -> EStream]
  BY DEF TypeOK
<1>a. Increment \in Nat /\ CircWindow \in Nat  BY WindowAssumption
<1>1. credit \in Nat
  <2>1. hist.credited \in Nat  BY <1>0, HistType
  <2> QED BY <2>1, <1>a
<1>2. circ_deliver_window' \in Int
  <2>1. circ_deliver_window' = IF circ THEN cw + Increment ELSE cw  BY DEF SendmeCheck
  <2> QED BY <1>a, <2>1
<1>3. estreams' \in [Streams -> EStream]
  <2>1. PICK d \in Int :
          estreams' = IF known
             THEN [estreams EXCEPT ![s].del = d,
                     ![s].xoff_sent = (x = "XOFF") \/ (@ /\ x # "XON")]
             ELSE estreams
    <3>1. (IF strm THEN sw + Increment ELSE sw) \in Int  BY <1>a
    <3> QED BY <3>1 DEF SendmeCheck
  <2> QED BY <1>0, <2>1 DEF EStream
<1>4. bwd' = q3  BY DEF SendmeCheck
<1>5. x # "none" => Reply(x, s) \in BwdCell  BY <1>0, ReplyType DEF BwdCmds
<1>6. ack \in BwdCell /\ sack \in BwdCell
  <2> HIDE DEF credit
  <2> QED BY <1>0, <1>1 DEF BwdCell, BwdCmds, NoAuth
<1>7. q1 \in Seq(BwdCell)  BY <1>0, <1>5, AppendIfType
<1>8. q2 \in Seq(BwdCell)
  <2> HIDE DEF q1, ack, circ
  <2> QED BY <1>6, <1>7, AppendIfType
<1>9. q3 \in Seq(BwdCell)
  <2> HIDE DEF q1, q2, sack, strm
  <2> QED BY <1>6, <1>8, AppendIfType
<1>10. hist' \in Hist
  <2>1. hist' = [hist EXCEPT !.rcvd = Head(fwd).n, !.credited = credit]  BY DEF SendmeCheck
  <2> HIDE DEF credit
  <2> QED BY <1>0, <1>1, <2>1, HistType
<1> QED BY <1>2, <1>3, <1>4, <1>9, <1>10

\* The initial state is typed.
LEMMA TypeInit == Init => TypeOK
<1> SUFFICES ASSUME Init PROVE TypeOK
  OBVIOUS
<1>1. hist \in Hist  BY DEF Init, Hist
<1>2. cstreams \in [Streams -> CStream] /\ estreams \in [Streams -> EStream]
  BY DEF Init, CStream, EStream
<1>3. circ_package_window \in Nat /\ circ_deliver_window \in Int  BY WindowAssumption DEF Init
<1> QED BY <1>1, <1>2, <1>3 DEF Init, TypeOK

\* No step of either end leaves the types.
LEMMA TypeNext == TypeOK /\ [Next]_vars => TypeOK'
<1> SUFFICES ASSUME TypeOK, [Next]_vars PROVE TypeOK'
  OBVIOUS
<1>t. /\ fwd \in Seq(FwdCell) /\ bwd \in Seq(BwdCell)
      /\ hist \in Hist /\ relay_forward_digest \in Nat /\ forward_digest \in Nat
      /\ cstreams \in [Streams -> CStream] /\ estreams \in [Streams -> EStream]
      /\ circ_package_window \in Nat /\ inflight \in Nat
      /\ circ_deliver_window \in Int /\ sendme_auth_expected \in Seq(Nat)
  BY DEF TypeOK
<1>w. Increment \in Nat /\ CircWindow \in Nat /\ StreamWindow \in Nat  BY WindowAssumption
<1>c. ASSUME NEW cmd \in FwdCmds, NEW s, NEW n \in Nat,
             IF cmd = "OTHER" THEN s = NoStream ELSE s \in Streams,
             ForwardCell(cmd, s, n)
      PROVE  fwd' \in Seq(FwdCell) /\ forward_digest' \in Nat
  <2>1. [cmd |-> cmd, sid |-> s, n |-> n, dig |-> forward_digest + 1] \in FwdCell
    BY <1>c, <1>t DEF FwdCell
  <2> QED BY <1>c, <1>t, <2>1 DEF ForwardCell
<1>d. ASSUME NEW cmds, ClientTakes(cmds)
      PROVE  bwd' \in Seq(BwdCell) /\ hist' \in Hist
  BY <1>d, <1>t, BwdHeadType, HistType DEF ClientTakes
<1>e. ASSUME NEW cmd \in FwdCmds, ExitTakes(cmd)
      PROVE  /\ fwd # <<>> /\ fwd' \in Seq(FwdCell) /\ relay_forward_digest' \in Nat
             /\ cmd # "OTHER" => Head(fwd).sid \in Streams
             /\ Head(fwd).n \in Nat
             /\ [hist EXCEPT !.rcvd = Head(fwd).n] \in Hist
             /\ [hist EXCEPT !.rcvd = Head(fwd).n, !.errors = @ + 1] \in Hist
  <2>1. /\ fwd # <<>> /\ fwd' = Tail(fwd) /\ Head(fwd).cmd = cmd
        /\ relay_forward_digest' = relay_forward_digest + 1
    BY <1>e DEF ExitTakes
  <2>2. relay_forward_digest' \in Nat  BY <1>t, <2>1
  <2> QED BY <1>t, <2>1, <2>2, FwdHeadType, HistType
<1>y. ASSUME NEW c \in BwdCell PROVE Append(bwd, c) \in Seq(BwdCell)
  BY <1>t
<1>x. ASSUME NEW s \in Streams
      PROVE  ExitCloses(s) \in [Streams -> EStream]
  BY <1>t DEF ExitCloses, EStream
<1>1. ASSUME NEW s \in Streams, OpenStream(s) PROVE TypeOK'
  <2>1. fwd' \in Seq(FwdCell) /\ forward_digest' \in Nat
    BY <1>1, <1>c, <1>t, HistType DEF OpenStream, FwdCmds
  <2>2. cstreams' \in [Streams -> CStream]  BY <1>1, <1>t, <1>w DEF OpenStream, CStream
  <2> QED BY <1>1, <1>t, <2>1, <2>2 DEF OpenStream, TypeOK, evars
<1>2. ASSUME NEW s \in Streams, CloseStream(s) PROVE TypeOK'
  <2>1. fwd' \in Seq(FwdCell) /\ forward_digest' \in Nat
    BY <1>2, <1>c, <1>t, HistType DEF CloseStream, FwdCmds
  <2>2. cstreams' \in [Streams -> CStream]  BY <1>2, <1>t DEF CloseStream, CStream
  <2> QED BY <1>2, <1>t, <2>1, <2>2 DEF CloseStream, TypeOK, evars
<1>3. ASSUME NEW s \in Streams, SendData(s) PROVE TypeOK'
  <2>1. hist' \in Hist  BY <1>3, <1>t, HistType DEF SendData
  <2>0. hist.sent + 1 \in Nat
    <3>1. hist.sent \in Nat  BY <1>t, HistType
    <3> QED BY <3>1
  <2>2. fwd' \in Seq(FwdCell) /\ forward_digest' \in Nat
    BY <1>3, <1>c, <2>0 DEF SendData, FwdCmds
  <2>3. cstreams' \in [Streams -> CStream]
    <3>1. cstreams' = [cstreams EXCEPT ![s].pkg = @ - 1]  BY <1>3 DEF SendData
    <3>2. ASSUME NEW w \in Int
          PROVE  [cstreams EXCEPT ![s].pkg = w] \in [Streams -> CStream]
      BY <1>t DEF CStream
    <3>3. cstreams[s].pkg - 1 \in Int
      <4>1. cstreams[s].pkg \in Int  BY <1>t DEF CStream
      <4> QED BY <4>1
    <3> QED BY <3>1, <3>2, <3>3
  <2>4. sendme_auth_expected' \in Seq(Nat)
    <3>1. sendme_auth_expected' = RecordDigest(inflight + 1, forward_digest + 1)
      BY <1>3 DEF SendData
    <3>2. forward_digest + 1 \in Nat  BY <1>t
    <3> QED BY <1>t, <3>1, <3>2 DEF RecordDigest
  <2>5. circ_package_window' \in Nat /\ inflight' \in Nat
    <3>1. /\ circ_package_window > 0 /\ inflight' = inflight + 1
          /\ circ_package_window' = circ_package_window - 1
      BY <1>3 DEF SendData
    <3> QED BY <3>1, <1>t
  <2> QED BY <1>3, <1>t, <2>1, <2>2, <2>3, <2>4, <2>5 DEF SendData, TypeOK, evars
<1>4. ASSUME SendOther PROVE TypeOK'
  <2>1. hist' \in Hist  BY <1>4, <1>t, HistType DEF SendOther
  <2>2. fwd' \in Seq(FwdCell) /\ forward_digest' \in Nat
    BY <1>4, <1>c, <1>t, HistType DEF SendOther, FwdCmds
  <2> QED BY <1>4, <1>t, <2>1, <2>2 DEF SendOther, TypeOK, evars
<1>5. ASSUME NEW s \in Streams, ExitConnectComplete(s) PROVE TypeOK'
  <2>1. Reply("CONNECTED", s) \in BwdCell /\ Reply("END", s) \in BwdCell
    BY <1>t, ReplyType DEF BwdCmds
  <2>2. bwd' \in Seq(BwdCell)  BY <1>5, <1>y, <2>1 DEF ExitConnectComplete
  <2>3. estreams' \in [Streams -> EStream]
    <3>1. [estreams EXCEPT ![s].st = "connected"] \in [Streams -> EStream]  BY <1>t DEF EStream
    <3> QED BY <1>5, <1>x, <3>1 DEF ExitConnectComplete
  <2> QED BY <1>5, <1>t, <2>2, <2>3 DEF ExitConnectComplete, TypeOK, cvars
<1>6. ASSUME NEW s \in Streams, ExitTargetClosed(s) PROVE TypeOK'
  <2>1. Reply("END", s) \in BwdCell  BY <1>t, ReplyType DEF BwdCmds
  <2>2. bwd' \in Seq(BwdCell)  BY <1>6, <1>t, <2>1 DEF ExitTargetClosed
  <2>3. estreams' \in [Streams -> EStream]  BY <1>6, <1>x DEF ExitTargetClosed
  <2> QED BY <1>6, <1>t, <2>2, <2>3 DEF ExitTargetClosed, TypeOK, cvars
<1>7. ASSUME ExitBegin PROVE TypeOK'
  <2> DEFINE s == Head(fwd).sid
             slot(st, x) == [st |-> st, del |-> StreamWindow, xoff_sent |-> x]
  <2>1. ExitTakes("BEGIN") /\ hist' = [hist EXCEPT !.rcvd = Head(fwd).n]  BY <1>7 DEF ExitBegin
  <2>2. Reply("CONNECTED", s) \in BwdCell /\ Reply("END", s) \in BwdCell
    BY <2>1, <1>e, <1>t, ReplyType DEF BwdCmds, FwdCmds
  <2>3. /\ bwd' \in {bwd, Append(bwd, Reply("END", s)), Append(bwd, Reply("CONNECTED", s))}
        /\ \/ estreams' = estreams
           \/ \E st \in {"connected", "connecting"}, x \in BOOLEAN :
                estreams' = [estreams EXCEPT ![s] = slot(st, x)]
    <3>1. LeftOver \subseteq BOOLEAN  BY <1>t DEF LeftOver, EStream
    <3> QED BY <1>7, <3>1 DEF ExitBegin
  <2>4. bwd' \in Seq(BwdCell)
    <3> HIDE DEF s, slot
    <3> QED BY <1>t, <1>y, <2>2, <2>3
  <2>5. \A st \in {"connected", "connecting"}, x \in BOOLEAN : slot(st, x) \in EStream
    BY <1>w DEF EStream
  <2>6. estreams' \in [Streams -> EStream]
    <3> HIDE DEF s, slot
    <3> QED BY <1>t, <2>3, <2>5
  <2> QED BY <1>7, <1>t, <1>e, <2>1, <2>4, <2>6 DEF ExitBegin, TypeOK, cvars, FwdCmds
<1>8. ASSUME ExitDataUnknown PROVE TypeOK'
  <2> DEFINE s == Head(fwd).sid
             cw == circ_deliver_window - 1
  <2>1. ExitTakes("DATA") /\ SendmeCheck(s, FALSE, cw, 0, "none")  BY <1>8 DEF ExitDataUnknown
  <2>2. cw \in Int /\ 0 \in Int  BY <1>t
  <2>3. s \in Streams /\ Head(fwd).n \in Nat  BY <2>1, <1>e DEF FwdCmds
  <2>4. /\ circ_deliver_window' \in Int /\ estreams' \in [Streams -> EStream]
        /\ bwd' \in Seq(BwdCell) /\ hist' \in Hist
    <3> HIDE DEF s, cw
    <3> QED BY <2>1, <2>2, <2>3, SendmeCheckType
  <2> QED BY <1>8, <1>t, <1>e, <2>1, <2>4 DEF ExitDataUnknown, TypeOK, cvars, FwdCmds
<1>9. ASSUME ExitDataDropped PROVE TypeOK'
  <2> DEFINE s == Head(fwd).sid
             ex == /\ estreams[s].st = "connected"
                   /\ circ_deliver_window <= 0 \/ estreams[s].del <= 0
             cw == Decrement(circ_deliver_window, ex, CircWindow)
             sw == Decrement(estreams[s].del, ex, StreamWindow)
  <2>1. ExitTakes("DATA") /\ SendmeCheck(s, TRUE, cw, sw, "none")  BY <1>9 DEF ExitDataDropped
  <2>3. s \in Streams /\ Head(fwd).n \in Nat  BY <2>1, <1>e DEF FwdCmds
  <2>4. cw \in Int /\ sw \in Int
    <3>1. estreams[s].del \in Int  BY <2>3, <1>t DEF EStream
    <3> HIDE DEF s, ex
    <3> QED BY <3>1, <1>t DEF Decrement
  <2>5. /\ circ_deliver_window' \in Int /\ estreams' \in [Streams -> EStream]
        /\ bwd' \in Seq(BwdCell) /\ hist' \in Hist
    <3> HIDE DEF s, cw, sw
    <3> QED BY <2>1, <2>3, <2>4, SendmeCheckType
  <2> QED BY <1>9, <1>t, <1>e, <2>1, <2>5 DEF ExitDataDropped, TypeOK, cvars, FwdCmds
<1>10. ASSUME ExitDataDelivered PROVE TypeOK'
  <2> DEFINE s == Head(fwd).sid
             cw == circ_deliver_window - 1
             sw == estreams[s].del - 1
  <2>1. ExitTakes("DATA")  BY <1>10 DEF ExitDataDelivered
  <2>2. PICK x \in {"none", "XOFF", "XON"} : SendmeCheck(s, TRUE, cw, sw, x)
    BY <1>10 DEF ExitDataDelivered
  <2>3. s \in Streams /\ Head(fwd).n \in Nat  BY <2>1, <1>e DEF FwdCmds
  <2>5. cw \in Int /\ sw \in Int
    <3>1. estreams[s].del \in Int  BY <2>3, <1>t DEF EStream
    <3> HIDE DEF s
    <3> QED BY <3>1, <1>t
  <2>4. /\ circ_deliver_window' \in Int /\ estreams' \in [Streams -> EStream]
        /\ bwd' \in Seq(BwdCell) /\ hist' \in Hist
    <3> HIDE DEF s, cw, sw
    <3> QED BY <2>2, <2>3, <2>5, SendmeCheckType
  <2> QED BY <1>10, <1>t, <1>e, <2>1, <2>4 DEF ExitDataDelivered, TypeOK, cvars, FwdCmds
<1>11. ASSUME ExitDataError PROVE TypeOK'
  <2>1. /\ ExitTakes("DATA") /\ estreams' = ExitCloses(Head(fwd).sid)
        /\ bwd' = Append(bwd, Reply("END", Head(fwd).sid))
        /\ hist' = [hist EXCEPT !.rcvd = Head(fwd).n, !.errors = @ + 1]
    BY <1>11 DEF ExitDataError
  <2>2. Reply("END", Head(fwd).sid) \in BwdCell
    BY <2>1, <1>e, <1>t, ReplyType DEF BwdCmds, FwdCmds
  <2>3. bwd' \in Seq(BwdCell) /\ estreams' \in [Streams -> EStream]
    BY <1>t, <1>x, <1>e, <2>1, <2>2 DEF FwdCmds
  <2> QED BY <1>11, <1>t, <1>e, <2>1, <2>3 DEF ExitDataError, TypeOK, cvars, FwdCmds
<1>12. ASSUME ExitEnd PROVE TypeOK'
  BY <1>12, <1>t, <1>e, <1>x DEF ExitEnd, TypeOK, cvars, FwdCmds
<1>13. ASSUME ExitOther PROVE TypeOK'
  BY <1>13, <1>t, <1>e DEF ExitOther, TypeOK, cvars, FwdCmds
<1>14. ASSUME ClientCircSendme PROVE TypeOK'
  <2>1. bwd' \in Seq(BwdCell) /\ hist' \in Hist  BY <1>14, <1>d DEF ClientCircSendme
  <2>2. sendme_auth_expected' \in Seq(Nat)  BY <1>14, <1>t DEF ClientCircSendme, SendmeVerifies
  <2>3. inflight' \in Nat /\ circ_package_window' \in Nat
    BY <1>14, <1>t, <1>w DEF ClientCircSendme, Refill
  <2> QED BY <1>14, <1>t, <2>1, <2>2, <2>3 DEF ClientCircSendme, TypeOK, evars
<1>15. ASSUME ClientCircSendmeRejected PROVE TypeOK'
  BY <1>15, <1>t, <1>d DEF ClientCircSendmeRejected, TypeOK, cvars, evars
<1>16. ASSUME ClientStreamSendme PROVE TypeOK'
  <2>1. bwd' \in Seq(BwdCell) /\ hist' \in Hist  BY <1>16, <1>d DEF ClientStreamSendme
  <2> DEFINE s == Head(bwd).sid
  <2>2. cstreams' = IF cstreams[s].st = "open"
                    THEN [cstreams EXCEPT ![s].pkg = Refill(@, StreamWindow)]
                    ELSE cstreams
    BY <1>16 DEF ClientStreamSendme
  <2>4. ASSUME NEW w \in Int PROVE Refill(w, StreamWindow) \in Int
    BY <1>w DEF Refill
  <2>3. cstreams' \in [Streams -> CStream]
    <3> HIDE DEF s
    <3> QED BY <2>2, <2>4, <1>t DEF CStream
  <2> QED BY <1>16, <1>t, <2>1, <2>3 DEF ClientStreamSendme, TypeOK, evars
<1>17. ASSUME ClientEnd PROVE TypeOK'
  <2>1. bwd' \in Seq(BwdCell) /\ hist' \in Hist  BY <1>17, <1>d DEF ClientEnd
  <2>2. cstreams' \in [Streams -> CStream]
    <3>1. cstreams' = [cstreams EXCEPT ![Head(bwd).sid].st = "closed"]  BY <1>17 DEF ClientEnd
    <3> QED BY <1>t, <3>1 DEF CStream
  <2> QED BY <1>17, <1>t, <2>1, <2>2 DEF ClientEnd, TypeOK, evars
<1>18. ASSUME ClientPauseResume PROVE TypeOK'
  BY <1>18, <1>t, <1>d DEF ClientPauseResume, TypeOK, cvars, evars
<1>19. CASE UNCHANGED vars
  BY <1>19, <1>t DEF TypeOK, vars, cvars, evars
<1> QED
  BY <1>1, <1>2, <1>3, <1>4, <1>5, <1>6, <1>7, <1>8, <1>9, <1>10, <1>11,
     <1>12, <1>13, <1>14, <1>15, <1>16, <1>17, <1>18, <1>19
  DEF Next, ExitCell, ClientCell

\* Every variable keeps its type, and no package window goes below zero, in
\* every behaviour of the two ends (moor_circuit_send_data, sendme_check and
\* moor_circuit_handle_sendme).
THEOREM TypeCorrect == SafeSpec => []TypeOK
BY TypeInit, TypeNext, PTL DEF SafeSpec

-----------------------------------------------------------------------------
(* Window conservation.                                                    *)

\* The part of the inductive invariant that counts cells.
FwdChain == Chain(fwd, "DATA", 1, hist.rcvd, hist.sent)
BwdChain == Chain(bwd, "CIRC_SENDME", Increment, hist.seen, hist.credited)
Windows ==
    /\ inflight + circ_package_window = CircWindow
    /\ hist.sent - inflight <= hist.seen
    /\ hist.credited <= hist.rcvd - (CircWindow - circ_deliver_window)
    /\ CircWindow - Increment < circ_deliver_window
    /\ circ_deliver_window <= CircWindow
Totals == FwdChain /\ BwdChain /\ Windows

\* The three totals of the abstract credit window.
AbsStep == Credit!Next \/ UNCHANGED <<hist.sent, hist.rcvd, hist.sent - inflight>>

\* Fields after an update of the history record.
LEMMA HistFields ==
    ASSUME hist \in Hist, NEW a, NEW b
    PROVE  LET rc == [hist EXCEPT !.rcvd = a, !.credited = b]
               r  == [hist EXCEPT !.rcvd = a]
               e  == [hist EXCEPT !.rcvd = a, !.errors = b]
               k  == [hist EXCEPT !.seen = a]
               t  == [hist EXCEPT !.sent = a]
               o  == [hist EXCEPT !.other = a]
           IN  /\ rc.rcvd = a /\ rc.credited = b /\ rc.sent = hist.sent
               /\ rc.seen = hist.seen
               /\ r.rcvd = a /\ r.credited = hist.credited
               /\ r.sent = hist.sent /\ r.seen = hist.seen
               /\ e.rcvd = a /\ e.credited = hist.credited
               /\ e.sent = hist.sent /\ e.seen = hist.seen
               /\ k.rcvd = hist.rcvd /\ k.credited = hist.credited
               /\ k.sent = hist.sent /\ k.seen = a
               /\ t.rcvd = hist.rcvd /\ t.credited = hist.credited
               /\ t.sent = a /\ t.seen = hist.seen
               /\ o.rcvd = hist.rcvd /\ o.credited = hist.credited
               /\ o.sent = hist.sent /\ o.seen = hist.seen
BY DEF Hist

\* Cells have natural history values.
LEMMA CellN == (\A x \in FwdCell : x.n \in Nat) /\ (\A x \in BwdCell : x.n \in Nat)
BY DEF FwdCell, BwdCell

\* A cell the client sends extends the chain in fwd.
LEMMA ForwardCellChain ==
    ASSUME TypeOK, TypeOK', Totals, NEW cmd, NEW s, NEW n,
           ForwardCell(cmd, s, n),
           n = hist.sent + (IF cmd = "DATA" THEN 1 ELSE 0)
    PROVE  Chain(fwd', "DATA", 1, hist.rcvd, n)
<1> DEFINE c == [cmd |-> cmd, sid |-> s, n |-> n, dig |-> forward_digest + 1]
<1>1. fwd \in Seq(FwdCell) /\ fwd' \in Seq(FwdCell) /\ hist \in Hist  BY DEF TypeOK
<1>2. fwd' = Append(fwd, c)  BY DEF ForwardCell
<1>3. c \in FwdCell
  <2> HIDE DEF c
  <2>1. fwd'[Len(fwd')] = c /\ Len(fwd') \in 1..Len(fwd')  BY <1>1, <1>2
  <2> QED BY <1>1, <2>1
<1>4. hist.rcvd \in Nat /\ hist.sent \in Nat  BY <1>1, HistType
<1>5. c.n = n /\ c.n = hist.sent + Weight(c, "DATA", 1)  BY DEF Weight
<1>6. Chain(fwd, "DATA", 1, hist.rcvd, hist.sent)  BY DEF Totals, FwdChain
<1>7. Chain(Append(fwd, c), "DATA", 1, hist.rcvd, c.n)
  <2> HIDE DEF c
  <2> QED BY <1>1, <1>3, <1>4, <1>5, <1>6, ChainAppend, CellN
<1> QED BY <1>2, <1>5, <1>7

\* The cell the exit takes advances the lower end of the chain in fwd.
LEMMA ExitTakesChain ==
    ASSUME TypeOK, Totals, NEW cmd, ExitTakes(cmd)
    PROVE  /\ Chain(fwd', "DATA", 1, Head(fwd).n, hist.sent)
           /\ Head(fwd).n = hist.rcvd + (IF cmd = "DATA" THEN 1 ELSE 0)
           /\ Head(fwd).n <= hist.sent
<1>1. fwd \in Seq(FwdCell) /\ hist \in Hist  BY DEF TypeOK
<1>2. fwd # <<>> /\ fwd' = Tail(fwd) /\ Head(fwd).cmd = cmd  BY DEF ExitTakes
<1>4. hist.rcvd \in Nat /\ hist.sent \in Nat  BY <1>1, HistType
<1>6. Chain(fwd, "DATA", 1, hist.rcvd, hist.sent)  BY DEF Totals, FwdChain
<1>7. /\ Head(fwd).n = hist.rcvd + Weight(Head(fwd), "DATA", 1)
      /\ Head(fwd).n <= hist.sent
      /\ Chain(Tail(fwd), "DATA", 1, Head(fwd).n, hist.sent)
  BY <1>1, <1>2, <1>4, <1>6, ChainTail, CellN
<1> QED BY <1>2, <1>7 DEF Weight

\* An answer that is not a circuit SENDME credits nothing.
LEMMA ReplyChain ==
    ASSUME NEW q \in Seq(BwdCell), NEW cond, NEW c, cond => c \in BwdCell,
           NEW lo \in Nat, NEW hi \in Nat, Increment \in Nat,
           Chain(q, "CIRC_SENDME", Increment, lo, hi),
           c.cmd # "CIRC_SENDME", c.n = hi
    PROVE  Chain(AppendIf(q, cond, c), "CIRC_SENDME", Increment, lo, hi)
<1>1. CASE cond
  <2>1. c.n = hi + Weight(c, "CIRC_SENDME", Increment)  BY DEF Weight
  <2>2. Chain(Append(q, c), "CIRC_SENDME", Increment, lo, c.n)
    BY <1>1, <2>1, ChainAppend, CellN
  <2> QED BY <1>1, <2>2 DEF AppendIf
<1>2. CASE ~cond
  BY <1>2 DEF AppendIf
<1> QED BY <1>1, <1>2

\* sendme_check counts one more cell: it credits Increment cells exactly when
\* it refills the deliver window, so that the window bounds still hold.
LEMMA SendmeCheckTotals ==
    ASSUME TypeOK, Totals, NEW s \in Streams, NEW known \in BOOLEAN,
           NEW sw \in Int, NEW x \in {"none", "XOFF", "XON"},
           Head(fwd).n = hist.rcvd + 1,
           SendmeCheck(s, known, circ_deliver_window - 1, sw, x)
    PROVE  /\ Chain(bwd', "CIRC_SENDME", Increment, hist.seen, hist'.credited)
           /\ hist'.credited <= hist'.rcvd - (CircWindow - circ_deliver_window')
           /\ CircWindow - Increment < circ_deliver_window'
           /\ circ_deliver_window' <= CircWindow
           /\ hist'.rcvd = hist.rcvd + 1
           /\ hist'.sent = hist.sent /\ hist'.seen = hist.seen
<1> DEFINE cw == circ_deliver_window - 1
           circ == cw <= CircWindow - Increment
           strm == known /\ sw <= StreamWindow - Increment
           credit == IF circ THEN hist.credited + Increment ELSE hist.credited
           ack  == [cmd |-> "CIRC_SENDME", sid |-> NoStream, n |-> credit,
                    auth |-> relay_forward_digest + 1]
           sack == [cmd |-> "SENDME", sid |-> s, n |-> credit, auth |-> NoAuth]
           q1 == AppendIf(bwd, x # "none", Reply(x, s))
           q2 == AppendIf(q1, circ, ack)
           q3 == AppendIf(q2, strm, sack)
<1>0. /\ hist \in Hist /\ bwd \in Seq(BwdCell) /\ relay_forward_digest \in Nat
      /\ circ_deliver_window \in Int
  BY DEF TypeOK
<1>a. Increment \in Nat /\ Increment # 0 /\ CircWindow \in Nat  BY WindowAssumption
<1>b. hist.credited \in Nat /\ hist.seen \in Nat /\ hist.rcvd \in Nat  BY <1>0, HistType
<1>1. credit \in Nat  BY <1>a, <1>b, <1>0
<1>2. hist' = [hist EXCEPT !.rcvd = Head(fwd).n, !.credited = credit]  BY DEF SendmeCheck
<1>3. /\ hist'.rcvd = hist.rcvd + 1 /\ hist'.credited = credit
      /\ hist'.sent = hist.sent /\ hist'.seen = hist.seen
  <2> HIDE DEF credit
  <2> QED BY <1>0, <1>2, HistFields
<1>4. circ_deliver_window' = IF circ THEN cw + Increment ELSE cw  BY DEF SendmeCheck
<1>5. Windows  BY DEF Totals
<1>6. /\ credit <= hist'.rcvd - (CircWindow - circ_deliver_window')
      /\ CircWindow - Increment < circ_deliver_window'
      /\ circ_deliver_window' <= CircWindow
  <2>1. CASE circ
    BY <2>1, <1>0, <1>a, <1>b, <1>3, <1>4, <1>5 DEF Windows
  <2>2. CASE ~circ
    BY <2>2, <1>0, <1>a, <1>b, <1>3, <1>4, <1>5 DEF Windows
  <2> QED BY <2>1, <2>2
<1>7. bwd' = q3  BY DEF SendmeCheck
<1>8. Chain(bwd, "CIRC_SENDME", Increment, hist.seen, hist.credited)  BY DEF Totals, BwdChain
<1>9. /\ x # "none" => Reply(x, s) \in BwdCell
      /\ x # "none" => Reply(x, s).cmd # "CIRC_SENDME"
      /\ Reply(x, s).n = hist.credited
  <2>1. x # "none" => Reply(x, s) \in BwdCell  BY <1>0, ReplyType DEF BwdCmds
  <2> QED BY <2>1 DEF Reply
<1>10. q1 \in Seq(BwdCell) /\ Chain(q1, "CIRC_SENDME", Increment, hist.seen, hist.credited)
  <2>1. CASE x = "none"
    BY <2>1, <1>0, <1>8 DEF AppendIf
  <2>2. CASE x # "none"
    <3>1. q1 \in Seq(BwdCell)  BY <1>0, <1>9, AppendIfType
    <3> QED BY <2>2, <1>0, <1>a, <1>b, <1>8, <1>9, <3>1, ReplyChain
  <2> QED BY <2>1, <2>2
<1>11. ack \in BwdCell /\ sack \in BwdCell
  <2> HIDE DEF credit
  <2> QED BY <1>0, <1>1 DEF BwdCell, BwdCmds, NoAuth
<1>12. q2 \in Seq(BwdCell) /\ Chain(q2, "CIRC_SENDME", Increment, hist.seen, credit)
  <2>1. CASE circ
    <3>1. q2 = Append(q1, ack) /\ credit = hist.credited + Increment  BY <2>1 DEF AppendIf
    <3>2. ack.n = credit /\ Weight(ack, "CIRC_SENDME", Increment) = Increment  BY DEF Weight
    <3> HIDE DEF q1, q2, ack, credit
    <3>3. Chain(Append(q1, ack), "CIRC_SENDME", Increment, hist.seen, ack.n)
      BY <3>1, <3>2, <1>10, <1>11, <1>a, <1>b, ChainAppend, CellN
    <3> QED BY <3>1, <3>2, <3>3, <1>10, <1>11
  <2>2. CASE ~circ
    <3>1. q2 = q1 /\ credit = hist.credited  BY <2>2 DEF AppendIf
    <3> HIDE DEF q1, q2, credit
    <3> QED BY <3>1, <1>10
  <2> QED BY <2>1, <2>2
<1>13. Chain(q3, "CIRC_SENDME", Increment, hist.seen, credit)
  <2>1. sack.cmd # "CIRC_SENDME" /\ sack.n = credit  OBVIOUS
  <2> HIDE DEF q2, sack, credit, strm
  <2> QED BY <2>1, <1>1, <1>11, <1>12, <1>a, <1>b, ReplyChain
<1> QED BY <1>3, <1>6, <1>7, <1>13

\* The initial state counts nothing.
LEMMA TotalsInit == Init => Totals
<1> SUFFICES ASSUME Init PROVE Totals
  OBVIOUS
<1>1. hist.sent = 0 /\ hist.rcvd = 0 /\ hist.credited = 0 /\ hist.seen = 0  BY DEF Init
<1>2. FwdChain /\ BwdChain
  <2>1. fwd = <<>> /\ bwd = <<>>  BY DEF Init
  <2> QED BY <1>1, <2>1 DEF FwdChain, BwdChain, Chain
<1>3. Windows  BY <1>1, WindowAssumption DEF Init, Windows
<1> QED BY <1>2, <1>3 DEF Totals

\* Every step keeps the totals, and is a step of the credit window.
LEMMA TotalsNext ==
    ASSUME TypeOK, TypeOK', Totals, [Next]_vars
    PROVE  Totals' /\ AbsStep
<1>t. /\ hist \in Hist /\ bwd \in Seq(BwdCell) /\ fwd \in Seq(FwdCell)
      /\ circ_package_window \in Nat /\ inflight \in Nat
      /\ circ_deliver_window \in Int
  BY DEF TypeOK
<1>h. /\ hist.sent \in Nat /\ hist.rcvd \in Nat /\ hist.credited \in Nat
      /\ hist.seen \in Nat
  BY <1>t, HistType
<1>w. Increment \in Nat /\ Increment # 0 /\ CircWindow \in Nat  BY WindowAssumption
<1>i. FwdChain /\ BwdChain /\ Windows  BY DEF Totals
<1>s. hist.rcvd <= hist.sent /\ hist.seen <= hist.credited
  BY <1>i DEF FwdChain, BwdChain, Chain
\* Steps that move neither a window nor a total.
<1>q. ASSUME Chain(fwd', "DATA", 1, hist.rcvd, hist.sent),
             Chain(bwd', "CIRC_SENDME", Increment, hist'.seen, hist.credited),
             hist'.sent = hist.sent, hist'.rcvd = hist.rcvd,
             hist'.credited = hist.credited, hist'.seen >= hist.seen,
             hist'.seen \in Nat,
             inflight' = inflight, circ_package_window' = circ_package_window,
             circ_deliver_window' = circ_deliver_window
      PROVE  Totals' /\ AbsStep
  <2>1. FwdChain' /\ BwdChain'  BY <1>q DEF FwdChain, BwdChain
  <2>2. Windows'  BY <1>q, <1>i, <1>h, <1>t, <1>w DEF Windows
  <2>3. AbsStep  BY <1>q DEF AbsStep
  <2> QED BY <2>1, <2>2, <2>3 DEF Totals
<1>o. ASSUME NEW cmd, NEW s, cmd # "DATA", ForwardCell(cmd, s, hist.sent)
      PROVE  Chain(fwd', "DATA", 1, hist.rcvd, hist.sent)
  <2>1. hist.sent = hist.sent + (IF cmd = "DATA" THEN 1 ELSE 0)  BY <1>o, <1>h
  <2> QED BY <1>o, <2>1, ForwardCellChain
<1>r. ASSUME NEW s \in Streams, NEW cmd \in {"END", "CONNECTED"}
      PROVE  Chain(Append(bwd, Reply(cmd, s)), "CIRC_SENDME", Increment,
                   hist.seen, hist.credited)
  <2>1. Reply(cmd, s) \in BwdCell  BY <1>t, ReplyType DEF BwdCmds
  <2>2. /\ Reply(cmd, s).n = hist.credited
        /\ Weight(Reply(cmd, s), "CIRC_SENDME", Increment) = 0
    BY DEF Reply, Weight
  <2>3. Reply(cmd, s).n = hist.credited + Weight(Reply(cmd, s), "CIRC_SENDME", Increment)
    BY <2>2, <1>h
  <2>4. Chain(Append(bwd, Reply(cmd, s)), "CIRC_SENDME", Increment,
              hist.seen, Reply(cmd, s).n)
    BY <2>1, <2>3, <1>t, <1>h, <1>w, <1>i, ChainAppend, CellN DEF BwdChain
  <2> QED BY <2>2, <2>4
<1>1. ASSUME NEW s \in Streams, OpenStream(s) PROVE Totals' /\ AbsStep
  BY <1>1, <1>o, <1>q, <1>i, <1>h DEF OpenStream, evars, BwdChain
<1>2. ASSUME NEW s \in Streams, CloseStream(s) PROVE Totals' /\ AbsStep
  BY <1>2, <1>o, <1>q, <1>i, <1>h DEF CloseStream, evars, BwdChain
<1>3. ASSUME NEW s \in Streams, SendData(s) PROVE Totals' /\ AbsStep
  <2>1. /\ ForwardCell("DATA", s, hist.sent + 1)
        /\ circ_package_window > 0 /\ inflight' = inflight + 1
        /\ circ_package_window' = circ_package_window - 1
        /\ hist' = [hist EXCEPT !.sent = hist.sent + 1]
        /\ bwd' = bwd /\ circ_deliver_window' = circ_deliver_window
    BY <1>3 DEF SendData, evars
  <2>2. /\ hist'.sent = hist.sent + 1 /\ hist'.rcvd = hist.rcvd
        /\ hist'.credited = hist.credited /\ hist'.seen = hist.seen
    BY <2>1, <1>t, HistFields
  <2>3. Chain(fwd', "DATA", 1, hist.rcvd, hist.sent + 1)  BY <2>1, ForwardCellChain
  <2>4. FwdChain' /\ BwdChain'  BY <2>1, <2>2, <2>3, <1>i DEF FwdChain, BwdChain
  <2>a. /\ circ_package_window > 0 /\ inflight' = inflight + 1
        /\ circ_package_window' = circ_package_window - 1
        /\ circ_deliver_window' = circ_deliver_window
    BY <2>1
  <2>b. inflight + circ_package_window = CircWindow  BY <1>i DEF Windows
  <2>5. Windows'
    <3>1. inflight' + circ_package_window' = CircWindow  BY <2>a, <2>b, <1>t, <1>w
    <3>2. hist'.sent - inflight' <= hist'.seen
      <4>1. hist.sent - inflight <= hist.seen  BY <1>i DEF Windows
      <4> QED BY <4>1, <2>a, <2>2, <1>t, <1>h
    <3>3. /\ hist'.credited <= hist'.rcvd - (CircWindow - circ_deliver_window')
          /\ CircWindow - Increment < circ_deliver_window'
          /\ circ_deliver_window' <= CircWindow
      BY <2>a, <2>2, <1>i DEF Windows
    <3> QED BY <3>1, <3>2, <3>3 DEF Windows
  <2>6. Credit!Send
    <3>1. hist.sent - (hist.sent - inflight) < CircWindow  BY <2>a, <2>b, <1>h, <1>t, <1>w
    <3>2. hist'.sent - inflight' = hist.sent - inflight  BY <2>1, <2>2, <1>h, <1>t
    <3> QED BY <2>2, <3>1, <3>2 DEF Credit!Send
  <2> QED BY <2>4, <2>5, <2>6 DEF Totals, AbsStep, Credit!Next
<1>4. ASSUME SendOther PROVE Totals' /\ AbsStep
  <2>1. hist' = [hist EXCEPT !.other = hist.other + 1]  BY <1>4 DEF SendOther
  <2>2. /\ hist'.sent = hist.sent /\ hist'.rcvd = hist.rcvd
        /\ hist'.credited = hist.credited /\ hist'.seen = hist.seen
    BY <2>1, <1>t, HistFields
  <2> QED BY <1>4, <2>2, <1>o, <1>q, <1>i, <1>h DEF SendOther, evars, BwdChain
<1>5. ASSUME NEW s \in Streams, ExitConnectComplete(s) PROVE Totals' /\ AbsStep
  <2>1. Chain(bwd', "CIRC_SENDME", Increment, hist.seen, hist.credited)
    BY <1>5, <1>r DEF ExitConnectComplete
  <2> QED BY <1>5, <2>1, <1>q, <1>i, <1>h DEF ExitConnectComplete, cvars, FwdChain
<1>6. ASSUME NEW s \in Streams, ExitTargetClosed(s) PROVE Totals' /\ AbsStep
  <2>1. Chain(bwd', "CIRC_SENDME", Increment, hist.seen, hist.credited)
    BY <1>6, <1>r DEF ExitTargetClosed
  <2> QED BY <1>6, <2>1, <1>q, <1>i, <1>h DEF ExitTargetClosed, cvars, FwdChain
\* A cell that the exit takes without counting it: BEGIN, END and the others
\* leave the totals alone, a failed write counts as received only.
<1>u. ASSUME NEW cmd, ExitTakes(cmd), hist'.rcvd = Head(fwd).n,
             Chain(bwd', "CIRC_SENDME", Increment, hist.seen, hist.credited),
             hist'.sent = hist.sent, hist'.seen = hist.seen,
             hist'.credited = hist.credited, inflight' = inflight,
             circ_package_window' = circ_package_window,
             circ_deliver_window' = circ_deliver_window
      PROVE  Totals' /\ AbsStep
  <2>1. /\ Chain(fwd', "DATA", 1, Head(fwd).n, hist.sent)
        /\ Head(fwd).n = hist.rcvd + (IF cmd = "DATA" THEN 1 ELSE 0)
        /\ Head(fwd).n <= hist.sent
    BY <1>u, ExitTakesChain
  <2>2. FwdChain' /\ BwdChain'  BY <1>u, <2>1 DEF FwdChain, BwdChain
  <2>3. hist'.rcvd \in Nat /\ hist'.rcvd >= hist.rcvd  BY <1>u, <2>1, <1>h
  <2>4. Windows'  BY <1>u, <2>3, <1>i, <1>h, <1>t, <1>w DEF Windows
  <2>5. AbsStep
    <3>1. CASE cmd = "DATA"
      <4>1. hist'.rcvd = hist.rcvd + 1 /\ hist.rcvd < hist.sent  BY <3>1, <2>1, <1>u, <1>h
      <4> QED BY <4>1, <1>u DEF AbsStep, Credit!Next, Credit!Receive
    <3>2. CASE cmd # "DATA"
      <4>1. hist'.rcvd = hist.rcvd  BY <3>2, <2>1, <1>u, <1>h
      <4> QED BY <4>1, <1>u DEF AbsStep
    <3> QED BY <3>1, <3>2
  <2> QED BY <2>2, <2>4, <2>5 DEF Totals
\* A DATA cell that the exit counts.
<1>v. ASSUME NEW known \in BOOLEAN, NEW sw \in Int,
             NEW x \in {"none", "XOFF", "XON"},
             ExitTakes("DATA"), UNCHANGED cvars,
             SendmeCheck(Head(fwd).sid, known, circ_deliver_window - 1, sw, x)
      PROVE  Totals' /\ AbsStep
  <2>1. /\ Chain(fwd', "DATA", 1, Head(fwd).n, hist.sent)
        /\ Head(fwd).n = hist.rcvd + 1
        /\ Head(fwd).n <= hist.sent
    BY <1>v, ExitTakesChain
  <2>2. Head(fwd).sid \in Streams  BY <1>v, <1>t, FwdHeadType DEF ExitTakes
  <2>3. /\ Chain(bwd', "CIRC_SENDME", Increment, hist.seen, hist'.credited)
        /\ hist'.credited <= hist'.rcvd - (CircWindow - circ_deliver_window')
        /\ CircWindow - Increment < circ_deliver_window'
        /\ circ_deliver_window' <= CircWindow
        /\ hist'.rcvd = hist.rcvd + 1
        /\ hist'.sent = hist.sent /\ hist'.seen = hist.seen
    BY <1>v, <2>1, <2>2, SendmeCheckTotals
  <2>4. inflight' = inflight /\ circ_package_window' = circ_package_window  BY <1>v DEF cvars
  <2>5. FwdChain' /\ BwdChain'  BY <2>1, <2>3 DEF FwdChain, BwdChain
  <2>6. Windows'  BY <2>3, <2>4, <1>i DEF Windows
  <2>7. AbsStep
    <3>1. hist.rcvd < hist.sent  BY <2>1, <1>h
    <3> QED BY <3>1, <2>3, <2>4 DEF AbsStep, Credit!Next, Credit!Receive
  <2> QED BY <2>5, <2>6, <2>7 DEF Totals
<1>7. ASSUME ExitBegin PROVE Totals' /\ AbsStep
  <2> DEFINE s == Head(fwd).sid
  <2>1. ExitTakes("BEGIN") /\ hist' = [hist EXCEPT !.rcvd = Head(fwd).n]  BY <1>7 DEF ExitBegin
  <2>2. s \in Streams  BY <2>1, <1>t, FwdHeadType DEF ExitTakes
  <2>3. bwd' = Append(bwd, Reply("END", s)) \/ bwd' = Append(bwd, Reply("CONNECTED", s))
        \/ bwd' = bwd
    BY <1>7 DEF ExitBegin
  <2>4. Chain(bwd', "CIRC_SENDME", Increment, hist.seen, hist.credited)
    <3> HIDE DEF s
    <3> QED BY <2>2, <2>3, <1>r, <1>i DEF BwdChain
  <2>5. /\ hist'.rcvd = Head(fwd).n /\ hist'.sent = hist.sent
        /\ hist'.seen = hist.seen /\ hist'.credited = hist.credited
    BY <2>1, <1>t, HistFields
  <2> QED BY <1>7, <2>1, <2>4, <2>5, <1>u DEF ExitBegin, cvars
<1>8. ASSUME ExitDataUnknown PROVE Totals' /\ AbsStep
  <2>1. /\ ExitTakes("DATA") /\ UNCHANGED cvars
        /\ SendmeCheck(Head(fwd).sid, FALSE, circ_deliver_window - 1, 0, "none")
    BY <1>8 DEF ExitDataUnknown
  <2>2. FALSE \in BOOLEAN /\ 0 \in Int /\ "none" \in {"none", "XOFF", "XON"}  OBVIOUS
  <2> QED BY <2>1, <2>2, <1>v
<1>9. ASSUME ExitDataDropped PROVE Totals' /\ AbsStep
  <2> DEFINE s == Head(fwd).sid
             ex == /\ estreams[s].st = "connected"
                   /\ circ_deliver_window <= 0 \/ estreams[s].del <= 0
             sw == Decrement(estreams[s].del, ex, StreamWindow)
  <2>1. /\ ExitTakes("DATA") /\ UNCHANGED cvars
        /\ SendmeCheck(s, TRUE, Decrement(circ_deliver_window, ex, CircWindow),
                       sw, "none")
    BY <1>9 DEF ExitDataDropped
  <2>2. s \in Streams  BY <2>1, <1>t, FwdHeadType DEF ExitTakes
  <2>3. sw \in Int
    <3>1. estreams[s].del \in Int  BY <2>2 DEF TypeOK, EStream
    <3> HIDE DEF s, ex
    <3> QED BY <3>1 DEF Decrement
  <2>4. Decrement(circ_deliver_window, ex, CircWindow) = circ_deliver_window - 1
    <3>1. ~(circ_deliver_window <= -CircWindow)
      BY <1>i, <1>t, <1>w, WindowAssumption DEF Windows
    <3> HIDE DEF ex
    <3> QED BY <3>1 DEF Decrement
  <2> QED
    <3> HIDE DEF s, ex, sw
    <3>1. SendmeCheck(s, TRUE, circ_deliver_window - 1, sw, "none")  BY <2>1, <2>4
    <3>2. SendmeCheck(Head(fwd).sid, TRUE, circ_deliver_window - 1, sw, "none")  BY <3>1 DEF s
    <3>3. ExitTakes("DATA") /\ UNCHANGED cvars  BY <2>1
    <3> QED BY <3>2, <3>3, <2>3, <1>v
<1>10. ASSUME ExitDataDelivered PROVE Totals' /\ AbsStep
  <2> DEFINE s == Head(fwd).sid
             sw == estreams[s].del - 1
  <2>1. ExitTakes("DATA") /\ UNCHANGED cvars  BY <1>10 DEF ExitDataDelivered
  <2>2. PICK x \in {"none", "XOFF", "XON"} :
          SendmeCheck(s, TRUE, circ_deliver_window - 1, sw, x)
    BY <1>10 DEF ExitDataDelivered
  <2>3. sw \in Int
    <3>1. s \in Streams  BY <2>1, <1>t, FwdHeadType DEF ExitTakes
    <3>2. estreams[s].del \in Int  BY <3>1 DEF TypeOK, EStream
    <3> HIDE DEF s
    <3> QED BY <3>2
  <2> HIDE DEF sw
  <2> QED BY <2>1, <2>2, <2>3, <1>v
<1>11. ASSUME ExitDataError PROVE Totals' /\ AbsStep
  <2>1. /\ ExitTakes("DATA") /\ bwd' = Append(bwd, Reply("END", Head(fwd).sid))
        /\ hist' = [hist EXCEPT !.rcvd = Head(fwd).n, !.errors = hist.errors + 1]
    BY <1>11 DEF ExitDataError
  <2>2. Head(fwd).sid \in Streams  BY <2>1, <1>t, FwdHeadType DEF ExitTakes
  <2>3. Chain(bwd', "CIRC_SENDME", Increment, hist.seen, hist.credited)  BY <2>1, <2>2, <1>r
  <2>4. /\ hist'.rcvd = Head(fwd).n /\ hist'.sent = hist.sent
        /\ hist'.seen = hist.seen /\ hist'.credited = hist.credited
    BY <2>1, <1>t, HistFields
  <2> QED BY <1>11, <2>1, <2>3, <2>4, <1>u DEF ExitDataError, cvars
<1>12. ASSUME ExitEnd PROVE Totals' /\ AbsStep
  <2>1. ExitTakes("END") /\ hist' = [hist EXCEPT !.rcvd = Head(fwd).n] /\ bwd' = bwd
    BY <1>12 DEF ExitEnd
  <2>2. /\ hist'.rcvd = Head(fwd).n /\ hist'.sent = hist.sent
        /\ hist'.seen = hist.seen /\ hist'.credited = hist.credited
    BY <2>1, <1>t, HistFields
  <2> QED BY <1>12, <2>1, <2>2, <1>u, <1>i DEF ExitEnd, cvars, BwdChain
<1>13. ASSUME ExitOther PROVE Totals' /\ AbsStep
  <2>1. ExitTakes("OTHER") /\ hist' = [hist EXCEPT !.rcvd = Head(fwd).n] /\ bwd' = bwd
    BY <1>13 DEF ExitOther
  <2>2. /\ hist'.rcvd = Head(fwd).n /\ hist'.sent = hist.sent
        /\ hist'.seen = hist.seen /\ hist'.credited = hist.credited
    BY <2>1, <1>t, HistFields
  <2> QED BY <1>13, <2>1, <2>2, <1>u, <1>i DEF ExitOther, cvars, BwdChain
\* The cell the client takes advances the lower end of the chain in bwd.
<1>d. ASSUME NEW cmds, ClientTakes(cmds)
      PROVE  /\ Chain(bwd', "CIRC_SENDME", Increment, hist'.seen, hist.credited)
             /\ hist'.seen = hist.seen + Weight(Head(bwd), "CIRC_SENDME", Increment)
             /\ hist'.seen <= hist.credited /\ hist'.seen \in Nat
             /\ hist'.seen >= hist.seen
             /\ hist'.sent = hist.sent /\ hist'.rcvd = hist.rcvd
             /\ hist'.credited = hist.credited
             /\ Head(bwd).cmd \in cmds
  <2>1. /\ bwd # <<>> /\ bwd' = Tail(bwd) /\ Head(bwd).cmd \in cmds
        /\ hist' = [hist EXCEPT !.seen = Head(bwd).n]
    BY <1>d DEF ClientTakes
  <2>2. /\ hist'.seen = Head(bwd).n /\ hist'.sent = hist.sent
        /\ hist'.rcvd = hist.rcvd /\ hist'.credited = hist.credited
    BY <2>1, <1>t, HistFields
  <2>3. Chain(bwd, "CIRC_SENDME", Increment, hist.seen, hist.credited)  BY <1>i DEF BwdChain
  <2>4. /\ Head(bwd).n = hist.seen + Weight(Head(bwd), "CIRC_SENDME", Increment)
        /\ Head(bwd).n <= hist.credited
        /\ Chain(Tail(bwd), "CIRC_SENDME", Increment, Head(bwd).n, hist.credited)
    BY <2>1, <2>3, <1>t, <1>h, <1>w, ChainTail, CellN
  <2>5. Weight(Head(bwd), "CIRC_SENDME", Increment) \in Nat  BY <1>w DEF Weight
  <2>6. hist'.seen \in Nat /\ hist'.seen >= hist.seen  BY <2>2, <2>4, <2>5, <1>h
  <2> QED BY <2>1, <2>2, <2>4, <2>6
<1>14. ASSUME ClientCircSendme PROVE Totals' /\ AbsStep
  <2>1. /\ ClientTakes({"CIRC_SENDME"}) /\ UNCHANGED <<evars, fwd>>
        /\ inflight' = IF inflight >= Increment THEN inflight - Increment ELSE 0
        /\ circ_package_window' = Refill(circ_package_window, CircWindow)
    BY <1>14 DEF ClientCircSendme
  <2>2. circ_deliver_window' = circ_deliver_window /\ fwd' = fwd  BY <2>1 DEF evars
  <2>3. /\ Chain(bwd', "CIRC_SENDME", Increment, hist'.seen, hist.credited)
        /\ hist'.seen = hist.seen + Increment /\ hist'.seen <= hist.credited
        /\ hist'.sent = hist.sent /\ hist'.rcvd = hist.rcvd
        /\ hist'.credited = hist.credited
    BY <2>1, <1>d DEF Weight
  <2>4. inflight >= Increment  BY <2>3, <1>i, <1>s, <1>h, <1>t, <1>w DEF Windows
  <2>5. inflight' = inflight - Increment  BY <2>1, <2>4
  <2>6. circ_package_window' = circ_package_window + Increment
    <3>1. circ_package_window <= CircWindow  BY <1>i, <1>t, <1>w DEF Windows
    <3> QED BY <2>1, <3>1, <1>t, <1>w DEF Refill
  <2>7. FwdChain' /\ BwdChain'  BY <2>2, <2>3, <1>i DEF FwdChain, BwdChain
  <2>8. Windows'  BY <2>2, <2>3, <2>5, <2>6, <1>i, <1>h, <1>t, <1>w DEF Windows
  <2>9. Credit!Acknowledge
    <3>1. hist'.sent - inflight' = (hist.sent - inflight) + Increment
      BY <2>3, <2>5, <1>h, <1>t, <1>w
    <3>2. (hist.sent - inflight) + Increment <= hist.rcvd
      BY <2>3, <1>i, <1>h, <1>t, <1>w DEF Windows
    <3> QED BY <2>3, <3>1, <3>2 DEF Credit!Acknowledge
  <2> QED BY <2>7, <2>8, <2>9 DEF Totals, AbsStep, Credit!Next
<1>15. ASSUME ClientCircSendmeRejected PROVE Totals' /\ AbsStep
  BY <1>15, <1>d, <1>q, <1>i DEF ClientCircSendmeRejected, cvars, evars, FwdChain
<1>16. ASSUME ClientStreamSendme PROVE Totals' /\ AbsStep
  BY <1>16, <1>d, <1>q, <1>i DEF ClientStreamSendme, evars, FwdChain
<1>17. ASSUME ClientEnd PROVE Totals' /\ AbsStep
  BY <1>17, <1>d, <1>q, <1>i DEF ClientEnd, evars, FwdChain
<1>18. ASSUME ClientPauseResume PROVE Totals' /\ AbsStep
  BY <1>18, <1>d, <1>q, <1>i DEF ClientPauseResume, cvars, evars, FwdChain
<1>19. CASE UNCHANGED vars
  <2>1. /\ fwd' = fwd /\ bwd' = bwd /\ hist' = hist /\ inflight' = inflight
        /\ circ_package_window' = circ_package_window
        /\ circ_deliver_window' = circ_deliver_window
    BY <1>19 DEF vars, cvars, evars
  <2> QED BY <2>1, <1>q, <1>i, <1>h DEF FwdChain, BwdChain
<1> QED
  BY <1>1, <1>2, <1>3, <1>4, <1>5, <1>6, <1>7, <1>8, <1>9, <1>10, <1>11,
     <1>12, <1>13, <1>14, <1>15, <1>16, <1>17, <1>18, <1>19
  DEF Next, ExitCell, ClientCell

\* The totals give the property that TLC checks.
LEMMA TotalsImply == TypeOK /\ Totals => WindowConserved
<1> SUFFICES ASSUME TypeOK, Totals PROVE WindowConserved
  OBVIOUS
<1>1. /\ hist \in Hist /\ inflight \in Nat /\ circ_deliver_window \in Int  BY DEF TypeOK
<1>2. /\ hist.sent \in Nat /\ hist.rcvd \in Nat /\ hist.credited \in Nat
      /\ hist.seen \in Nat
  BY <1>1, HistType
<1>3. hist.rcvd <= hist.sent /\ hist.seen <= hist.credited
  BY DEF Totals, FwdChain, BwdChain, Chain
<1>4. CircWindow \in Nat  BY WindowAssumption
<1> QED BY <1>1, <1>2, <1>3, <1>4 DEF Totals, Windows, WindowConserved

\* In every behaviour, and although rejected SENDMEs, closed streams and
\* failed writes may cost credit, the client's window plus its cells in flight
\* is the circuit window, and no acknowledgement runs ahead of the exit.
THEOREM WindowConservation == SafeSpec => []WindowConserved
<1>1. Init => TypeOK /\ Totals  BY TypeInit, TotalsInit
<1>2. TypeOK /\ Totals /\ [Next]_vars => (TypeOK /\ Totals)'  BY TypeNext, TotalsNext
<1>3. TypeOK /\ Totals => WindowConserved  BY TotalsImply
<1> QED BY <1>1, <1>2, <1>3, PTL DEF SafeSpec

\* The windows of circuit.c and relay.c implement the abstract credit window:
\* never more than CircWindow cells unacknowledged, and a circuit SENDME is
\* accepted only for cells the exit has received.
THEOREM Refinement == SafeSpec => RefinesCreditWindow
<1>1. Init => TypeOK /\ Totals  BY TypeInit, TotalsInit
<1>2. TypeOK /\ Totals /\ [Next]_vars => (TypeOK /\ Totals)'  BY TypeNext, TotalsNext
<1>3. Init => Credit!Init
  <2> SUFFICES ASSUME Init PROVE Credit!Init
    OBVIOUS
  <2>1. hist.sent = 0 /\ hist.rcvd = 0 /\ inflight = 0  BY DEF Init
  <2> QED BY <2>1 DEF Credit!Init
<1>4. TypeOK /\ Totals /\ [Next]_vars
        => [Credit!Next]_<<hist.sent, hist.rcvd, hist.sent - inflight>>
  <2> SUFFICES ASSUME TypeOK, Totals, [Next]_vars
               PROVE  [Credit!Next]_<<hist.sent, hist.rcvd, hist.sent - inflight>>
    OBVIOUS
  <2>1. AbsStep  BY TypeNext, TotalsNext
  <2> QED BY <2>1 DEF AbsStep
<1> QED BY <1>1, <1>2, <1>3, <1>4, PTL DEF SafeSpec, RefinesCreditWindow, Credit!Spec

-----------------------------------------------------------------------------
(* The cells of a queue.                                                   *)

\* The cells of q, and how many of them are in C.
Cells(q) == {q[i] : i \in 1..Len(q)}
Places(q, C) == {i \in 1..Len(q) : q[i] \in C}
Count(q, C) == Cardinality(Places(q, C))

\* An empty queue.
LEMMA CellsEmpty ==
    ASSUME NEW C
    PROVE  Cells(<<>>) = {} /\ Count(<<>>, C) = 0
<1>1. Places(<<>>, C) = {}  BY DEF Places
<1> QED BY <1>1, FS_EmptySet DEF Cells, Count

\* Appending a cell.
LEMMA CellsAppend ==
    ASSUME NEW S, NEW q \in Seq(S), NEW c \in S, NEW C
    PROVE  /\ Cells(Append(q, c)) = Cells(q) \cup {c}
           /\ Count(q, C) \in Nat
           /\ Count(Append(q, c), C) = Count(q, C) + (IF c \in C THEN 1 ELSE 0)
<1>1. PICK r \in Seq(S) :
        /\ r = Append(q, c) /\ Len(r) = Len(q) + 1 /\ Len(q) \in Nat
        /\ \A i \in 1..Len(q) : r[i] = q[i]
        /\ r[Len(q) + 1] = c
  <2>1. /\ Append(q, c) \in Seq(S) /\ Len(Append(q, c)) = Len(q) + 1 /\ Len(q) \in Nat
        /\ \A i \in 1..Len(q) : Append(q, c)[i] = q[i]
        /\ Append(q, c)[Len(q) + 1] = c
    OBVIOUS
  <2> QED BY <2>1
<1>2. PICK n \in Nat : n = Len(q)  OBVIOUS
<1>3. 1..(n + 1) = (1..n) \cup {n + 1} /\ n + 1 \notin 1..n  OBVIOUS
<1>4. Cells(r) = Cells(q) \cup {c}  BY <1>1, <1>2, <1>3 DEF Cells
<1>5. Places(r, C) = Places(q, C) \cup (IF c \in C THEN {n + 1} ELSE {})
  BY <1>1, <1>2, <1>3 DEF Places
<1>6. n + 1 \notin Places(q, C)  BY <1>2, <1>3 DEF Places
<1>7. IsFiniteSet(Places(q, C)) /\ Cardinality(Places(q, C)) \in Nat
  <2>1. Places(q, C) \in SUBSET (1..n) /\ IsFiniteSet(1..n)  BY <1>2, FS_Interval DEF Places
  <2> QED BY <2>1, FS_Subset, FS_CardinalityType
<1>8. Cardinality(Places(r, C)) = Cardinality(Places(q, C)) + (IF c \in C THEN 1 ELSE 0)
  <2>1. CASE c \in C
    BY <1>5, <1>6, <1>7, <2>1, FS_AddElement
  <2>2. CASE c \notin C
    <3>1. Places(r, C) = Places(q, C)  BY <1>5, <2>2
    <3> QED BY <1>7, <2>2, <3>1
  <2> QED BY <2>1, <2>2
<1> QED BY <1>1, <1>4, <1>7, <1>8 DEF Count

\* Taking the first cell.
LEMMA CellsTail ==
    ASSUME NEW S, NEW q \in Seq(S), q # <<>>, NEW C
    PROVE  /\ Cells(q) = {Head(q)} \cup Cells(Tail(q))
           /\ Count(Tail(q), C) \in Nat
           /\ Count(q, C) = Count(Tail(q), C) + (IF Head(q) \in C THEN 1 ELSE 0)
<1>1. PICK r \in Seq(S) :
        /\ r = Tail(q) /\ Len(q) = Len(r) + 1 /\ Len(r) \in Nat
        /\ \A i \in 1..Len(r) : r[i] = q[i + 1]
        /\ Head(q) = q[1]
  <2>1. /\ Tail(q) \in Seq(S) /\ Len(q) = Len(Tail(q)) + 1 /\ Len(Tail(q)) \in Nat
        /\ \A i \in 1..Len(Tail(q)) : Tail(q)[i] = q[i + 1]
        /\ Head(q) = q[1]
    OBVIOUS
  <2> QED BY <2>1
<1>2. PICK n \in Nat : n = Len(r)  OBVIOUS
<1>3. /\ \A i \in 1..n : i + 1 \in 1..(n + 1) /\ i + 1 # 1
      /\ \A j \in 1..(n + 1) : j # 1 => j - 1 \in 1..n /\ (j - 1) + 1 = j
      /\ 1 \in 1..(n + 1)
  OBVIOUS
<1>4. Cells(q) = {Head(q)} \cup Cells(r)
  <2>1. \A i \in 1..n : r[i] = q[i + 1] /\ i + 1 \in 1..Len(q)  BY <1>1, <1>2, <1>3
  <2>2. \A j \in 1..Len(q) : j # 1 => j - 1 \in 1..n /\ r[j - 1] = q[j]  BY <1>1, <1>2, <1>3
  <2> QED BY <1>1, <1>2, <1>3, <2>1, <2>2 DEF Cells
<1>5. IsFiniteSet(Places(q, C)) /\ IsFiniteSet(Places(r, C))
  <2>1. Places(q, C) \in SUBSET (1..(n + 1)) /\ IsFiniteSet(1..(n + 1))
    BY <1>1, <1>2, FS_Interval DEF Places
  <2>2. Places(r, C) \in SUBSET (1..n) /\ IsFiniteSet(1..n)
    BY <1>1, <1>2, FS_Interval DEF Places
  <2> QED BY <2>1, <2>2, FS_Subset
<1>6. Cardinality(Places(r, C)) = Cardinality(Places(q, C) \ {1})
  <2> DEFINE f == [i \in Places(r, C) |-> i + 1]
  <2>1. \A i \in Places(r, C) : i \in 1..n /\ i + 1 \in Places(q, C) \ {1}
    BY <1>1, <1>2, <1>3 DEF Places
  <2>2. \A j \in Places(q, C) \ {1} : j - 1 \in Places(r, C) /\ (j - 1) + 1 = j
    <3> TAKE j \in Places(q, C) \ {1}
    <3>1. j \in 1..(n + 1) /\ j # 1 /\ q[j] \in C  BY <1>1, <1>2 DEF Places
    <3>2. j - 1 \in 1..n /\ (j - 1) + 1 = j  BY <1>3, <3>1
    <3>3. r[j - 1] = q[j]  BY <1>1, <1>2, <3>2
    <3> QED BY <1>2, <3>1, <3>2, <3>3 DEF Places
  <2>3. f \in Bijection(Places(r, C), Places(q, C) \ {1})
    <3>1. f \in [Places(r, C) -> Places(q, C) \ {1}]  BY <2>1
    <3>2. \A a, b \in Places(r, C) : f[a] = f[b] => a = b  BY <2>1
    <3>3. \A j \in Places(q, C) \ {1} : \E a \in Places(r, C) : f[a] = j  BY <2>2
    <3> HIDE DEF f
    <3> QED BY <3>1, <3>2, <3>3 DEF Bijection, Injection, Surjection, IsInjective
  <2>4. ExistsBijection(Places(r, C), Places(q, C) \ {1})  BY <2>3 DEF ExistsBijection
  <2> QED BY <1>5, <2>4, FS_Bijection
<1>7. Cardinality(Places(q, C) \ {1}) =
        IF Head(q) \in C THEN Cardinality(Places(q, C)) - 1 ELSE Cardinality(Places(q, C))
  <2>1. 1 \in Places(q, C) <=> Head(q) \in C  BY <1>1, <1>2, <1>3 DEF Places
  <2> QED BY <1>5, <2>1, FS_RemoveElement
<1>8. Cardinality(Places(q, C)) \in Nat /\ Cardinality(Places(r, C)) \in Nat
  BY <1>5, FS_CardinalityType
<1>9. Cardinality(Places(q, C)) = Cardinality(Places(r, C)) + (IF Head(q) \in C THEN 1 ELSE 0)
  BY <1>6, <1>7, <1>8
<1> QED BY <1>1, <1>4, <1>8, <1>9 DEF Count

\* Appending on a condition.
LEMMA CellsAppendIf ==
    ASSUME NEW S, NEW q \in Seq(S), NEW cond, NEW c, cond => c \in S, NEW C
    PROVE  /\ Cells(AppendIf(q, cond, c)) = Cells(q) \cup (IF cond THEN {c} ELSE {})
           /\ Count(q, C) \in Nat
           /\ Count(AppendIf(q, cond, c), C) =
                Count(q, C) + (IF cond /\ c \in C THEN 1 ELSE 0)
<1>0. Count(q, C) \in Nat
  <2>1. PICK n \in Nat : n = Len(q)  OBVIOUS
  <2>2. Places(q, C) \in SUBSET (1..n) /\ IsFiniteSet(1..n)  BY <2>1, FS_Interval DEF Places
  <2> QED BY <2>2, FS_Subset, FS_CardinalityType DEF Count
<1>1. CASE cond
  BY <1>1, CellsAppend DEF AppendIf
<1>2. CASE ~cond
  BY <1>0, <1>2 DEF AppendIf
<1> QED BY <1>0, <1>1, <1>2

-----------------------------------------------------------------------------
(* Stream windows.                                                         *)

\* The cells of stream s: all that the client sends, its BEGIN, its DATA, and
\* the stream SENDMEs of the exit.
FwdOf(s)   == {c \in FwdCell : c.cmd # "OTHER" /\ c.sid = s}
BeginOf(s) == {c \in FwdCell : c.cmd = "BEGIN" /\ c.sid = s}
DataOf(s)  == {c \in FwdCell : c.cmd = "DATA" /\ c.sid = s}
AcksOf(s)  == {c \in BwdCell : c.cmd = "SENDME" /\ c.sid = s}

\* The BEGIN of s is on its way, and comes before everything else of s.
Begun(s) == Cells(fwd) \cap BeginOf(s) # {}
Ordered(q, s) ==
    \A i, j \in 1..Len(q) : i < j /\ q[j] \in BeginOf(s) => q[i] \notin FwdOf(s)

\* One stream: before it is opened there is nothing of it, the exit has no
\* slot before it has the BEGIN, and the window is conserved from the BEGIN on.
StreamInv(s) ==
    /\ Ordered(fwd, s)
    /\ cstreams[s].st = "unused" =>
         /\ estreams[s].st = "none"
         /\ Cells(fwd) \cap FwdOf(s) = {}
         /\ Cells(bwd) \cap AcksOf(s) = {}
    /\ Begun(s) => estreams[s].st = "none" /\ Cells(bwd) \cap AcksOf(s) = {}
    /\ estreams[s].st # "none" => /\ StreamWindow - Increment < estreams[s].del
                                  /\ estreams[s].del <= StreamWindow
    /\ cstreams[s].st = "open" /\ Begun(s) =>
         cstreams[s].pkg + Count(fwd, DataOf(s)) = StreamWindow
    /\ cstreams[s].st = "open" /\ estreams[s].st # "none" =>
         cstreams[s].pkg + Count(fwd, DataOf(s)) + (StreamWindow - estreams[s].del)
           + Increment * Count(bwd, AcksOf(s)) = StreamWindow

StreamsInv == \A s \in Streams : StreamInv(s)

\* A queue without cells of C counts none.
LEMMA CountNone ==
    ASSUME NEW q, NEW C, Cells(q) \cap C = {}
    PROVE  Count(q, C) = 0
<1>1. Places(q, C) = {}  BY DEF Places, Cells
<1> QED BY <1>1, FS_EmptySet DEF Count

\* Counts are natural numbers.
LEMMA CountType ==
    ASSUME NEW S, NEW q \in Seq(S), NEW C
    PROVE  Count(q, C) \in Nat
BY CellsAppendIf

\* Steps that do not concern the window of s: other streams, its end at either
\* side, cells of it that find no slot.
LEMMA StreamKept ==
    ASSUME NEW s \in Streams, StreamInv(s), Ordered(fwd', s), Begun(s)' => Begun(s),
           cstreams'[s].st = cstreams[s].st \/ cstreams'[s].st = "closed",
           cstreams'[s].pkg = cstreams[s].pkg \/ cstreams'[s].st # "open",
           estreams'[s].st # "none" =>
              /\ estreams[s].st # "none" /\ estreams'[s].del = estreams[s].del,
           cstreams'[s].st = "unused" => Cells(fwd') \cap FwdOf(s) \subseteq Cells(fwd),
           Cells(bwd') \cap AcksOf(s) \subseteq Cells(bwd),
           \/ Count(fwd', DataOf(s)) = Count(fwd, DataOf(s))
           \/ cstreams'[s].st # "open"
           \/ estreams'[s].st = "none" /\ ~Begun(s)',
           Count(bwd', AcksOf(s)) = Count(bwd, AcksOf(s)) \/ cstreams'[s].st # "open"
    PROVE  StreamInv(s)'
<1>1. cstreams'[s].st = "unused" => cstreams[s].st = "unused" /\ estreams'[s].st = "none"
  BY DEF StreamInv
<1>2. Begun(s)' => estreams'[s].st = "none" /\ Cells(bwd') \cap AcksOf(s) = {}  BY DEF StreamInv
<1>3. cstreams'[s].st = "unused" =>
        Cells(fwd') \cap FwdOf(s) = {} /\ Cells(bwd') \cap AcksOf(s) = {}
  BY <1>1 DEF StreamInv
<1>4. estreams'[s].st # "none" => /\ StreamWindow - Increment < estreams'[s].del
                                  /\ estreams'[s].del <= StreamWindow
  BY DEF StreamInv
<1>5. cstreams'[s].st = "open" /\ Begun(s)' =>
         cstreams'[s].pkg + Count(fwd', DataOf(s)) = StreamWindow
  BY DEF StreamInv
<1>6. cstreams'[s].st = "open" /\ estreams'[s].st # "none" =>
         cstreams'[s].pkg + Count(fwd', DataOf(s)) + (StreamWindow - estreams'[s].del)
           + Increment * Count(bwd', AcksOf(s)) = StreamWindow
  BY DEF StreamInv
<1> QED BY <1>1, <1>2, <1>3, <1>4, <1>5, <1>6 DEF StreamInv

\* What the client sends on a stream.
LEMMA FwdAppends ==
    ASSUME fwd \in Seq(FwdCell), NEW c \in FwdCell, fwd' = Append(fwd, c), NEW r \in Streams,
           Ordered(fwd, r), c \in BeginOf(r) => Cells(fwd) \cap FwdOf(r) = {}
    PROVE  /\ Ordered(fwd', r) /\ Cells(fwd') = Cells(fwd) \cup {c}
           /\ Count(fwd, DataOf(r)) \in Nat
           /\ Count(fwd', DataOf(r)) = Count(fwd, DataOf(r)) + (IF c \in DataOf(r) THEN 1 ELSE 0)
           /\ Begun(r)' <=> Begun(r) \/ c \in BeginOf(r)
<1>1. PICK q \in Seq(FwdCell) : q = Append(fwd, c) /\ Len(q) = Len(fwd) + 1 /\ Len(fwd) \in Nat
        /\ (\A i \in 1..Len(fwd) : q[i] = fwd[i]) /\ q[Len(fwd) + 1] = c
  <2>1. /\ Append(fwd, c) \in Seq(FwdCell) /\ Len(Append(fwd, c)) = Len(fwd) + 1 /\ Len(fwd) \in Nat
        /\ \A i \in 1..Len(fwd) : Append(fwd, c)[i] = fwd[i]
        /\ Append(fwd, c)[Len(fwd) + 1] = c
    OBVIOUS
  <2> QED BY <2>1
<1>2. Ordered(q, r)
  <2> SUFFICES ASSUME NEW i \in 1..Len(q), NEW j \in 1..Len(q), i < j, q[j] \in BeginOf(r)
               PROVE  q[i] \notin FwdOf(r)
    BY DEF Ordered
  <2>1. i \in 1..Len(fwd) /\ q[i] = fwd[i]  BY <1>1
  <2>2. CASE j \in 1..Len(fwd)
    BY <1>1, <2>1, <2>2 DEF Ordered
  <2>3. CASE j = Len(fwd) + 1
    BY <1>1, <2>1, <2>3 DEF Cells
  <2> QED BY <1>1, <2>2, <2>3
<1>3. /\ Cells(fwd') = Cells(fwd) \cup {c}
      /\ Count(fwd, DataOf(r)) \in Nat
      /\ Count(fwd', DataOf(r)) = Count(fwd, DataOf(r)) + (IF c \in DataOf(r) THEN 1 ELSE 0)
  BY CellsAppend
<1>4. Begun(r)' <=> Begun(r) \/ c \in BeginOf(r)  BY <1>3 DEF Begun
<1> QED BY <1>1, <1>2, <1>3, <1>4

\* What the exit takes.
LEMMA FwdTakes ==
    ASSUME fwd \in Seq(FwdCell), NEW cmd, ExitTakes(cmd), NEW r \in Streams, Ordered(fwd, r)
    PROVE  /\ Head(fwd) \in FwdCell /\ Head(fwd).cmd = cmd
           /\ Ordered(fwd', r) /\ Cells(fwd') \subseteq Cells(fwd) /\ Head(fwd) \in Cells(fwd)
           /\ Count(fwd', DataOf(r)) \in Nat
           /\ Count(fwd, DataOf(r)) =
                Count(fwd', DataOf(r)) + (IF Head(fwd) \in DataOf(r) THEN 1 ELSE 0)
           /\ Begun(r) <=> Begun(r)' \/ Head(fwd) \in BeginOf(r)
           /\ Head(fwd) \in FwdOf(r) => ~Begun(r)'
<1>0. fwd # <<>> /\ Head(fwd).cmd = cmd /\ fwd' = Tail(fwd) /\ Head(fwd) \in FwdCell
  BY DEF ExitTakes
<1>1. PICK q \in Seq(FwdCell) : q = Tail(fwd) /\ Len(fwd) = Len(q) + 1 /\ Len(q) \in Nat
        /\ (\A i \in 1..Len(q) : q[i] = fwd[i + 1]) /\ Head(fwd) = fwd[1]
  <2>1. /\ Tail(fwd) \in Seq(FwdCell) /\ Len(fwd) = Len(Tail(fwd)) + 1 /\ Len(Tail(fwd)) \in Nat
        /\ \A i \in 1..Len(Tail(fwd)) : Tail(fwd)[i] = fwd[i + 1]
        /\ Head(fwd) = fwd[1]
    BY <1>0
  <2> QED BY <2>1
<1>2. Ordered(q, r)
  <2> SUFFICES ASSUME NEW i \in 1..Len(q), NEW j \in 1..Len(q), i < j, q[j] \in BeginOf(r)
               PROVE  q[i] \notin FwdOf(r)
    BY DEF Ordered
  <2>1. i + 1 \in 1..Len(fwd) /\ j + 1 \in 1..Len(fwd) /\ i + 1 < j + 1  BY <1>1
  <2> QED BY <1>1, <2>1 DEF Ordered
<1>3. /\ Cells(fwd) = {Head(fwd)} \cup Cells(fwd')
      /\ Count(fwd', DataOf(r)) \in Nat
      /\ Count(fwd, DataOf(r)) =
           Count(fwd', DataOf(r)) + (IF Head(fwd) \in DataOf(r) THEN 1 ELSE 0)
  BY <1>0, CellsTail
<1>4. Begun(r) <=> Begun(r)' \/ Head(fwd) \in BeginOf(r)  BY <1>3 DEF Begun
<1>5. ASSUME Head(fwd) \in FwdOf(r) PROVE ~Begun(r)'
  <2>1. \A j \in 1..Len(q) : q[j] \notin BeginOf(r)
    <3> TAKE j \in 1..Len(q)
    <3>1. 1 \in 1..Len(fwd) /\ j + 1 \in 1..Len(fwd) /\ 1 < j + 1 /\ q[j] = fwd[j + 1]  BY <1>1
    <3> QED BY <1>1, <1>5, <3>1 DEF Ordered
  <2> QED BY <1>0, <1>1, <2>1 DEF Begun, Cells
<1> QED BY <1>0, <1>1, <1>2, <1>3, <1>4, <1>5

\* An answer that is not a stream SENDME.
LEMMA ReplyNoAck ==
    ASSUME TypeOK, NEW s \in Streams, NEW cmd \in {"END", "CONNECTED"}, NEW r \in Streams,
           bwd' = Append(bwd, Reply(cmd, s))
    PROVE  /\ Cells(bwd') \cap AcksOf(r) \subseteq Cells(bwd)
           /\ Count(bwd', AcksOf(r)) = Count(bwd, AcksOf(r))
<1>1. Reply(cmd, s) \in BwdCell /\ bwd \in Seq(BwdCell)  BY ReplyType DEF BwdCmds, TypeOK
<1>2. Reply(cmd, s) \notin AcksOf(r)  BY DEF AcksOf, Reply
<1> QED BY <1>1, <1>2, CellsAppend

\* The client takes a cell.
LEMMA BwdTakes ==
    ASSUME TypeOK, NEW cmds, ClientTakes(cmds), NEW r \in Streams
    PROVE  /\ Head(bwd) \in BwdCell /\ Head(bwd).cmd \in cmds
           /\ Cells(bwd') \subseteq Cells(bwd) /\ Head(bwd) \in Cells(bwd)
           /\ Count(bwd', AcksOf(r)) \in Nat
           /\ Count(bwd, AcksOf(r)) =
                Count(bwd', AcksOf(r)) + (IF Head(bwd) \in AcksOf(r) THEN 1 ELSE 0)
<1>1. bwd \in Seq(BwdCell) /\ bwd # <<>> /\ bwd' = Tail(bwd) /\ Head(bwd).cmd \in cmds
  BY DEF TypeOK, ClientTakes
<1> QED BY <1>1, CellsTail, BwdHeadType

\* sendme_check sends at most one stream SENDME, for the stream of the cell.
LEMMA SendmeCheckStream ==
    ASSUME TypeOK, NEW s \in Streams, NEW known \in BOOLEAN,
           NEW cw \in Int, NEW sw \in Int, NEW x \in {"none", "XOFF", "XON"},
           Head(fwd).n \in Nat, NEW r \in Streams,
           SendmeCheck(s, known, cw, sw, x)
    PROVE  LET strm == known /\ sw <= StreamWindow - Increment
           IN  /\ Count(bwd, AcksOf(r)) \in Nat
               /\ Count(bwd', AcksOf(r)) =
                    Count(bwd, AcksOf(r)) + (IF strm /\ r = s THEN 1 ELSE 0)
               /\ ~(strm /\ r = s) => Cells(bwd') \cap AcksOf(r) \subseteq Cells(bwd)
               /\ estreams'[r].st = estreams[r].st
               /\ estreams'[r].del = IF known /\ r = s THEN (IF strm THEN sw + Increment ELSE sw)
                                     ELSE estreams[r].del
<1> DEFINE circ == cw <= CircWindow - Increment
           strm == known /\ sw <= StreamWindow - Increment
           credit == IF circ THEN hist.credited + Increment ELSE hist.credited
           ack  == [cmd |-> "CIRC_SENDME", sid |-> NoStream, n |-> credit,
                    auth |-> relay_forward_digest + 1]
           sack == [cmd |-> "SENDME", sid |-> s, n |-> credit, auth |-> NoAuth]
           q1 == AppendIf(bwd, x # "none", Reply(x, s))
           q2 == AppendIf(q1, circ, ack)
           q3 == AppendIf(q2, strm, sack)
<1>0. hist \in Hist /\ bwd \in Seq(BwdCell) /\ relay_forward_digest \in Nat
      /\ estreams \in [Streams -> EStream]
  BY DEF TypeOK
<1>a. Increment \in Nat /\ CircWindow \in Nat  BY WindowAssumption
<1>1. credit \in Nat
  <2>1. hist.credited \in Nat  BY <1>0, HistType
  <2> QED BY <2>1, <1>a
<1>2. bwd' = q3  BY DEF SendmeCheck
<1>3. x # "none" => Reply(x, s) \in BwdCell /\ Reply(x, s) \notin AcksOf(r)
  <2>1. x # "none" => Reply(x, s) \in BwdCell  BY <1>0, ReplyType DEF BwdCmds
  <2> QED BY <2>1 DEF AcksOf, Reply
<1>4. /\ ack \in BwdCell /\ ack \notin AcksOf(r)
      /\ sack \in BwdCell /\ (sack \in AcksOf(r) <=> r = s)
  <2>1. ack \in BwdCell /\ sack \in BwdCell
    <3> HIDE DEF credit
    <3> QED BY <1>0, <1>1 DEF BwdCell, BwdCmds, NoAuth
  <2>2. ack.cmd = "CIRC_SENDME" /\ sack.cmd = "SENDME" /\ sack.sid = s  OBVIOUS
  <2> HIDE DEF ack, sack
  <2> QED BY <2>1, <2>2 DEF AcksOf
<1> HIDE DEF ack, sack, circ, credit, strm
<1>5. /\ q1 \in Seq(BwdCell) /\ Count(bwd, AcksOf(r)) \in Nat
      /\ Count(q1, AcksOf(r)) = Count(bwd, AcksOf(r))
      /\ Cells(q1) \cap AcksOf(r) = Cells(bwd) \cap AcksOf(r)
  <2>1. q1 \in Seq(BwdCell)  BY <1>0, <1>3, AppendIfType
  <2>2. /\ Cells(q1) = Cells(bwd) \cup (IF x # "none" THEN {Reply(x, s)} ELSE {})
        /\ Count(bwd, AcksOf(r)) \in Nat
        /\ Count(q1, AcksOf(r)) = Count(bwd, AcksOf(r))
             + (IF x # "none" /\ Reply(x, s) \in AcksOf(r) THEN 1 ELSE 0)
    <3>1. CASE x = "none"
      BY <1>0, <3>1, CountType DEF AppendIf
    <3>2. CASE x # "none"
      <4>1. q1 = Append(bwd, Reply(x, s))  BY <3>2 DEF AppendIf
      <4> HIDE DEF q1
      <4> QED BY <1>0, <1>3, <3>2, <4>1, CellsAppend
    <3> QED BY <3>1, <3>2
  <2> QED BY <1>3, <2>1, <2>2
<1> HIDE DEF q1
<1>6. /\ q2 \in Seq(BwdCell) /\ Count(q2, AcksOf(r)) = Count(q1, AcksOf(r))
      /\ Cells(q2) \cap AcksOf(r) = Cells(q1) \cap AcksOf(r)
  <2>1. q2 \in Seq(BwdCell)  BY <1>4, <1>5, AppendIfType
  <2>2. /\ Cells(q2) = Cells(q1) \cup (IF circ THEN {ack} ELSE {})
        /\ Count(q1, AcksOf(r)) \in Nat
        /\ Count(q2, AcksOf(r)) = Count(q1, AcksOf(r))
             + (IF circ /\ ack \in AcksOf(r) THEN 1 ELSE 0)
    BY <1>4, <1>5, CellsAppendIf
  <2> QED BY <1>4, <2>1, <2>2
<1> HIDE DEF q2
<1>7. /\ Count(q3, AcksOf(r)) = Count(q2, AcksOf(r)) + (IF strm /\ r = s THEN 1 ELSE 0)
      /\ ~(strm /\ r = s) => Cells(q3) \cap AcksOf(r) = Cells(q2) \cap AcksOf(r)
  <2>1. /\ Cells(q3) = Cells(q2) \cup (IF strm THEN {sack} ELSE {})
        /\ Count(q3, AcksOf(r)) = Count(q2, AcksOf(r))
             + (IF strm /\ sack \in AcksOf(r) THEN 1 ELSE 0)
    BY <1>4, <1>6, CellsAppendIf
  <2> QED BY <1>4, <2>1
<1>8. /\ estreams'[r].st = estreams[r].st
      /\ estreams'[r].del = IF known /\ r = s THEN (IF strm THEN sw + Increment ELSE sw)
                            ELSE estreams[r].del
  <2>1. PICK d, b : /\ d = (IF strm THEN sw + Increment ELSE sw)
                    /\ estreams' = IF known
                         THEN [estreams EXCEPT ![s].del = d, ![s].xoff_sent = b] ELSE estreams
    BY DEF SendmeCheck, strm
  <2> QED BY <1>0, <2>1 DEF EStream
<1> QED BY <1>2, <1>5, <1>6, <1>7, <1>8 DEF strm

\* The initial state has no streams.
LEMMA StreamsInit == Init => StreamsInv
<1> SUFFICES ASSUME Init, NEW s \in Streams PROVE StreamInv(s)
  BY DEF StreamsInv
<1>1. cstreams[s].st = "unused" /\ estreams[s].st = "none" /\ fwd = <<>> /\ bwd = <<>>
  BY DEF Init
<1>2. Cells(fwd) = {} /\ Cells(bwd) = {} /\ Len(fwd) = 0  BY <1>1, CellsEmpty
<1>3. Ordered(fwd, s)  BY <1>2 DEF Ordered
<1> QED BY <1>1, <1>2, <1>3 DEF StreamInv, Begun

\* Multiples of the increment.
LEMMA IncrementTimes ==
    ASSUME NEW k \in Nat
    PROVE  /\ Increment * k \in Nat /\ Increment * (k + 1) = Increment * k + Increment
           /\ Increment * 0 = 0
BY WindowAssumption

\* The slots of the two ends.
LEMMA SlotTypes ==
    ASSUME TypeOK, NEW r \in Streams
    PROVE  cstreams[r].pkg \in Int /\ estreams[r].del \in Int
BY DEF TypeOK, CStream, EStream

\* The client opens, closes and writes to streams.
LEMMA StreamsClient ==
    ASSUME TypeOK, TypeOK', StreamsInv, NEW s \in Streams,
           OpenStream(s) \/ CloseStream(s) \/ SendData(s)
    PROVE  StreamsInv'
<1>t. /\ fwd \in Seq(FwdCell) /\ fwd' \in Seq(FwdCell) /\ cstreams \in [Streams -> CStream]
      /\ StreamWindow \in Nat /\ Increment \in Nat
  BY WindowAssumption DEF TypeOK
<1>1. PICK cmd, n :
        /\ cmd \in FwdCmds \ {"OTHER"}
        /\ ForwardCell(cmd, s, n)
        /\ \/ OpenStream(s) /\ cmd = "BEGIN"
           \/ SendData(s) /\ cmd = "DATA"
           \/ CloseStream(s) /\ cmd = "END"
  <2>1. CASE OpenStream(s)
    BY <2>1 DEF OpenStream, FwdCmds
  <2>2. CASE SendData(s)
    BY <2>2 DEF SendData, FwdCmds
  <2>3. CASE CloseStream(s)
    BY <2>3 DEF CloseStream, FwdCmds
  <2> QED BY <2>1, <2>2, <2>3
<1>2. PICK c \in FwdCell : c.cmd = cmd /\ c.sid = s /\ fwd' = Append(fwd, c)
  <2> DEFINE c == [cmd |-> cmd, sid |-> s, n |-> n, dig |-> forward_digest + 1]
  <2>1. fwd' = Append(fwd, c) /\ c.cmd = cmd /\ c.sid = s  BY <1>1 DEF ForwardCell
  <2> HIDE DEF c
  <2>2. fwd'[Len(fwd')] = c /\ Len(fwd') \in 1..Len(fwd')  BY <1>t, <2>1
  <2>3. c \in FwdCell  BY <1>t, <2>2
  <2> QED BY <2>1, <2>3
<1>3. estreams' = estreams /\ bwd' = bwd  BY DEF OpenStream, CloseStream, SendData, evars
<1> SUFFICES ASSUME NEW r \in Streams PROVE StreamInv(r)'
  BY DEF StreamsInv
<1>i. StreamInv(r)  BY DEF StreamsInv
<1>4. /\ c \in FwdOf(r) <=> r = s
      /\ c \in BeginOf(r) <=> r = s /\ cmd = "BEGIN"
      /\ c \in DataOf(r) <=> r = s /\ cmd = "DATA"
  BY <1>1, <1>2 DEF FwdOf, BeginOf, DataOf
<1>5. OpenStream(s) => cstreams[s].st = "unused"  BY DEF OpenStream
<1>6. c \in BeginOf(r) => Cells(fwd) \cap FwdOf(r) = {}
  <2>1. c \in BeginOf(r) => OpenStream(s) /\ r = s  BY <1>1, <1>4 DEF FwdCmds
  <2> QED BY <1>5, <1>i, <2>1 DEF StreamInv
<1>7. /\ Ordered(fwd', r) /\ Cells(fwd') = Cells(fwd) \cup {c}
      /\ Count(fwd, DataOf(r)) \in Nat
      /\ Count(fwd', DataOf(r)) = Count(fwd, DataOf(r)) + (IF c \in DataOf(r) THEN 1 ELSE 0)
      /\ Begun(r)' <=> Begun(r) \/ c \in BeginOf(r)
  BY <1>t, <1>2, <1>6, <1>i, FwdAppends DEF StreamInv
<1>8. CASE r # s
  <2>1. cstreams'[r] = cstreams[r]  BY <1>t, <1>8 DEF OpenStream, CloseStream, SendData
  <2> QED BY <1>3, <1>4, <1>7, <1>8, <1>i, <2>1, StreamKept
<1>9. CASE r = s /\ CloseStream(s) /\ cmd = "END"
  <2>1. cstreams'[r].st = "closed"  BY <1>t, <1>9 DEF CloseStream, CStream
  <2>2. cmd = "END"  BY <1>1, <1>9
  <2> QED BY <1>3, <1>4, <1>7, <1>9, <1>i, <2>1, <2>2, StreamKept
<1>10. CASE r = s /\ OpenStream(s) /\ cmd = "BEGIN"
  <2>1. cstreams'[r].st = "open" /\ cstreams'[r].pkg = StreamWindow /\ cmd = "BEGIN"
    BY <1>t, <1>1, <1>10 DEF OpenStream
  <2>2. /\ estreams[r].st = "none" /\ Cells(fwd) \cap FwdOf(r) = {}
        /\ Cells(bwd) \cap AcksOf(r) = {}
    BY <1>5, <1>10, <1>i DEF StreamInv
  <2>3. Count(fwd, DataOf(r)) = 0
    <3>1. DataOf(r) \subseteq FwdOf(r)  BY DEF DataOf, FwdOf
    <3> QED BY <2>2, <3>1, CountNone
  <2> QED BY <1>t, <1>3, <1>4, <1>7, <1>10, <2>1, <2>2, <2>3 DEF StreamInv
<1>11. CASE r = s /\ SendData(s) /\ cmd = "DATA"
  <2>1. /\ cstreams[r].st = "open" /\ cstreams'[r].st = "open" /\ cmd = "DATA"
        /\ cstreams'[r].pkg = cstreams[r].pkg - 1
    BY <1>t, <1>1, <1>11 DEF SendData, CStream
  <2>2. cstreams[r].pkg \in Int /\ estreams[r].del \in Int  BY SlotTypes
  <2>3. cstreams'[r].pkg + Count(fwd', DataOf(r)) = cstreams[r].pkg + Count(fwd, DataOf(r))
    BY <1>4, <1>7, <1>11, <2>1, <2>2
  <2>4. Begun(r)' <=> Begun(r)  BY <1>4, <1>7, <2>1
  <2> QED BY <1>3, <1>7, <1>i, <2>1, <2>3, <2>4 DEF StreamInv
<1> QED BY <1>1, <1>8, <1>9, <1>10, <1>11

\* A DATA cell that the exit has a slot for is counted in its window.
LEMMA StreamsData ==
    ASSUME TypeOK, StreamsInv, ExitTakes("DATA"), cstreams' = cstreams,
           NEW known \in BOOLEAN, NEW cw \in Int, NEW sw \in Int, NEW x \in {"none", "XOFF", "XON"},
           SendmeCheck(Head(fwd).sid, known, cw, sw, x),
           known <=> estreams[Head(fwd).sid].st # "none",
           known => sw = estreams[Head(fwd).sid].del - 1
    PROVE  StreamsInv'
<1>t. /\ fwd \in Seq(FwdCell) /\ StreamWindow \in Nat /\ Increment \in Nat \ {0}
      /\ bwd \in Seq(BwdCell) /\ Increment <= StreamWindow
  BY WindowAssumption DEF TypeOK
<1>1. PICK s \in Streams : s = Head(fwd).sid /\ Head(fwd).n \in Nat
  BY <1>t, FwdHeadType DEF ExitTakes
<1> SUFFICES ASSUME NEW r \in Streams PROVE StreamInv(r)'
  BY DEF StreamsInv
<1>i. StreamInv(r)  BY DEF StreamsInv
<1>2. /\ Head(fwd) \in FwdCell /\ Head(fwd).cmd = "DATA"
      /\ Ordered(fwd', r) /\ Cells(fwd') \subseteq Cells(fwd) /\ Head(fwd) \in Cells(fwd)
      /\ Count(fwd', DataOf(r)) \in Nat
      /\ Count(fwd, DataOf(r)) =
           Count(fwd', DataOf(r)) + (IF Head(fwd) \in DataOf(r) THEN 1 ELSE 0)
      /\ Begun(r) <=> Begun(r)' \/ Head(fwd) \in BeginOf(r)
      /\ Head(fwd) \in FwdOf(r) => ~Begun(r)'
  BY <1>t, <1>i, FwdTakes DEF StreamInv
<1>3. /\ Head(fwd) \in FwdOf(r) <=> r = s
      /\ Head(fwd) \notin BeginOf(r)
      /\ Head(fwd) \in DataOf(r) <=> r = s
  BY <1>1, <1>2 DEF FwdOf, BeginOf, DataOf
<1> DEFINE strm == known /\ sw <= StreamWindow - Increment
<1>4. /\ Count(bwd, AcksOf(r)) \in Nat
      /\ Count(bwd', AcksOf(r)) = Count(bwd, AcksOf(r)) + (IF strm /\ r = s THEN 1 ELSE 0)
      /\ ~(strm /\ r = s) => Cells(bwd') \cap AcksOf(r) \subseteq Cells(bwd)
      /\ estreams'[r].st = estreams[r].st
      /\ estreams'[r].del = IF known /\ r = s THEN (IF strm THEN sw + Increment ELSE sw)
                            ELSE estreams[r].del
  <2>1. SendmeCheck(s, known, cw, sw, x)  BY <1>1
  <2> QED BY <1>1, <2>1, SendmeCheckStream
<1>5. CASE r # s
  BY <1>2, <1>3, <1>4, <1>5, <1>i, StreamKept
<1>6. CASE r = s /\ ~known
  <2>1. estreams[r].st = "none"  BY <1>1, <1>6
  <2> QED BY <1>2, <1>3, <1>4, <1>6, <1>i, <2>1, StreamKept
<1>7. CASE r = s /\ known
  <2>1. estreams[r].st # "none" /\ sw = estreams[r].del - 1 /\ estreams[r].del \in Int
        /\ cstreams[r].pkg \in Int
    BY <1>1, <1>7, SlotTypes
  <2>2. StreamWindow - Increment < estreams[r].del /\ estreams[r].del <= StreamWindow
    BY <1>i, <2>1 DEF StreamInv
  <2>3. /\ StreamWindow - Increment < estreams'[r].del /\ estreams'[r].del <= StreamWindow
    BY <1>t, <1>4, <1>7, <2>1, <2>2
  <2>4. ~Begun(r)' /\ cstreams[r].st # "unused"  BY <1>2, <1>3, <1>7, <1>i, <2>1 DEF StreamInv
  <2>5. ASSUME cstreams[r].st = "open"
        PROVE  cstreams'[r].pkg + Count(fwd', DataOf(r)) + (StreamWindow - estreams'[r].del)
                 + Increment * Count(bwd', AcksOf(r)) = StreamWindow
    <3>1. cstreams[r].pkg + Count(fwd, DataOf(r)) + (StreamWindow - estreams[r].del)
            + Increment * Count(bwd, AcksOf(r)) = StreamWindow
      BY <1>i, <2>1, <2>5 DEF StreamInv
    <3>2. PICK m \in Nat, p \in Nat, d \in Nat :
            /\ m = Increment * Count(bwd, AcksOf(r)) /\ d = Count(fwd', DataOf(r))
            /\ p = Increment * Count(bwd', AcksOf(r))
            /\ p = IF strm THEN m + Increment ELSE m
      <4>1. PICK k \in Nat : k = Count(bwd, AcksOf(r))  BY <1>4
      <4>2. Increment * k \in Nat /\ Increment * (k + 1) = Increment * k + Increment
        BY IncrementTimes
      <4>3. Count(bwd', AcksOf(r)) = IF strm THEN k + 1 ELSE k  BY <1>4, <1>7, <4>1
      <4> HIDE DEF strm
      <4>4. Increment * Count(bwd', AcksOf(r)) = IF strm THEN Increment * k + Increment ELSE Increment * k
        BY <4>2, <4>3
      <4>5. Increment * Count(bwd', AcksOf(r)) \in Nat  BY <1>t, <4>2, <4>4
      <4> QED BY <1>2, <4>1, <4>2, <4>4, <4>5
    <3>3. Count(fwd, DataOf(r)) = d + 1  BY <1>2, <1>3, <1>7, <3>2
    <3>4. cstreams[r].pkg + (d + 1) + (StreamWindow - estreams[r].del) + m = StreamWindow
      BY <3>1, <3>2, <3>3
    <3>5. cstreams[r].pkg + d + (StreamWindow - estreams'[r].del) + p = StreamWindow
      <4>1. PICK y \in Int, e \in Int : y = cstreams[r].pkg /\ e = estreams[r].del  BY <2>1
      <4>2. estreams'[r].del = IF strm THEN (e - 1) + Increment ELSE e - 1
        BY <1>4, <1>7, <2>1, <4>1
      <4>3. y + (d + 1) + (StreamWindow - e) + m = StreamWindow  BY <3>4, <4>1
      <4> HIDE DEF strm
      <4>4. PICK f \in Int : f = estreams'[r].del /\ f = (IF strm THEN (e - 1) + Increment ELSE e - 1)
        BY <1>t, <4>1, <4>2
      <4>5. p = IF strm THEN m + Increment ELSE m  BY <3>2
      <4>6. Increment \in Nat /\ StreamWindow \in Nat /\ m \in Nat /\ p \in Nat /\ d \in Nat
        BY <1>t, <3>2
      <4>7. y + d + (StreamWindow - f) + p = StreamWindow
        <5>1. CASE strm
          BY <4>1, <4>3, <4>4, <4>5, <4>6, <5>1
        <5>2. CASE ~strm
          BY <4>1, <4>3, <4>4, <4>5, <4>6, <5>2
        <5> QED BY <5>1, <5>2
      <4> QED BY <4>1, <4>4, <4>7
    <3> QED BY <3>2, <3>5
  <2> QED BY <1>2, <1>4, <2>1, <2>3, <2>4, <2>5 DEF StreamInv
<1> QED BY <1>5, <1>6, <1>7

\* The exit takes any other cell, or a target socket closes or connects.
LEMMA StreamsExit ==
    ASSUME TypeOK, Totals, StreamsInv,
           \/ ExitBegin \/ ExitDataError \/ ExitEnd \/ ExitOther
           \/ ExitDataUnknown \/ ExitDataDropped \/ ExitDataDelivered
    PROVE  StreamsInv'
<1>t. /\ fwd \in Seq(FwdCell) /\ StreamWindow \in Nat /\ Increment \in Nat \ {0}
      /\ bwd \in Seq(BwdCell) /\ Increment <= StreamWindow /\ circ_deliver_window \in Int
      /\ CircWindow \in Nat /\ Increment <= CircWindow /\ estreams \in [Streams -> EStream]
  BY WindowAssumption DEF TypeOK
<1>w. circ_deliver_window > 0  BY <1>t DEF Totals, Windows
<1>d. ASSUME NEW s \in Streams, estreams[s].st # "none"
      PROVE  estreams[s].del > 0 /\ estreams[s].del \in Int
  <2>1. StreamWindow - Increment < estreams[s].del  BY <1>d DEF StreamsInv, StreamInv
  <2> QED BY <1>t, <2>1, SlotTypes
<1>h. ASSUME ExitTakes("DATA") PROVE Head(fwd).sid \in Streams
  BY <1>h, <1>t, FwdHeadType DEF ExitTakes
<1>1. CASE ExitDataUnknown
  <2>1. /\ ExitTakes("DATA") /\ cstreams' = cstreams
        /\ SendmeCheck(Head(fwd).sid, FALSE, circ_deliver_window - 1, 0, "none")
        /\ estreams[Head(fwd).sid].st = "none"
    BY <1>1 DEF ExitDataUnknown, cvars
  <2>2. PICK cw \in Int : cw = circ_deliver_window - 1  BY <1>t
  <2>3. PICK sw \in Int, x \in {"none", "XOFF", "XON"} :
          SendmeCheck(Head(fwd).sid, FALSE, cw, sw, x)
    <3>1. 0 \in Int /\ "none" \in {"none", "XOFF", "XON"}  OBVIOUS
    <3> QED BY <2>1, <2>2, <3>1
  <2> QED BY <2>1, <2>3, StreamsData
<1>2. CASE ExitDataDropped
  <2> DEFINE s == Head(fwd).sid
             ex == /\ estreams[s].st = "connected"
                   /\ circ_deliver_window <= 0 \/ estreams[s].del <= 0
  <2>1. /\ ExitTakes("DATA") /\ cstreams' = cstreams
        /\ SendmeCheck(s, TRUE, Decrement(circ_deliver_window, ex, CircWindow),
                       Decrement(estreams[s].del, ex, StreamWindow), "none")
        /\ estreams[s].st = "connecting" \/ ex
    BY <1>2 DEF ExitDataDropped, cvars
  <2>2. s \in Streams  BY <1>h, <2>1
  <2>3. ~ex /\ estreams[s].st # "none" /\ estreams[s].del \in Int
    BY <1>w, <1>d, <1>t, <2>1, <2>2
  <2>4. PICK cw \in Int, sw \in Int :
          /\ cw = Decrement(circ_deliver_window, ex, CircWindow)
          /\ sw = Decrement(estreams[s].del, ex, StreamWindow)
          /\ sw = estreams[s].del - 1
    <3> HIDE DEF s, ex
    <3> QED BY <1>t, <2>3 DEF Decrement
  <2>5. PICK known \in BOOLEAN, x \in {"none", "XOFF", "XON"} :
          known = TRUE /\ SendmeCheck(s, known, cw, sw, x)
    <3> HIDE DEF s, ex
    <3> QED BY <2>1, <2>4
  <2> HIDE DEF ex
  <2> QED BY <2>1, <2>3, <2>4, <2>5, StreamsData
<1>3. CASE ExitDataDelivered
  <2> DEFINE s == Head(fwd).sid
  <2>1. ExitTakes("DATA") /\ cstreams' = cstreams /\ estreams[s].st = "connected"
    BY <1>3 DEF ExitDataDelivered, ExitCanDeliver, cvars
  <2>2. PICK x \in {"none", "XOFF", "XON"} :
          SendmeCheck(s, TRUE, circ_deliver_window - 1, estreams[s].del - 1, x)
    BY <1>3 DEF ExitDataDelivered
  <2>3. PICK cw \in Int, sw \in Int : cw = circ_deliver_window - 1 /\ sw = estreams[s].del - 1
    <3>1. estreams[s].del \in Int  BY <1>h, <1>d, <2>1
    <3> QED BY <1>t, <3>1
  <2>4. PICK known \in BOOLEAN : known = TRUE /\ SendmeCheck(s, known, cw, sw, x)  BY <2>2, <2>3
  <2> QED BY <2>1, <2>3, <2>4, StreamsData
<1>4. CASE ExitDataError \/ ExitEnd \/ ExitOther
  <2>1. PICK cmd : ExitTakes(cmd)
          /\ \/ cmd = "OTHER" /\ ExitOther
             \/ cmd \in {"DATA", "END"} /\ estreams' = ExitCloses(Head(fwd).sid)
    BY <1>4 DEF ExitDataError, ExitEnd, ExitOther
  <2>2. cstreams' = cstreams /\ (bwd' = bwd \/ bwd' = Append(bwd, Reply("END", Head(fwd).sid)))
    BY <1>4 DEF ExitDataError, ExitEnd, ExitOther, cvars
  <2>3. bwd' # bwd => Head(fwd).sid \in Streams
    BY <1>4, <1>h DEF ExitDataError, ExitEnd, ExitOther
  <2> SUFFICES ASSUME NEW r \in Streams PROVE StreamInv(r)'
    BY DEF StreamsInv
  <2>i. StreamInv(r)  BY DEF StreamsInv
  <2>4. /\ Head(fwd) \in FwdCell /\ Head(fwd).cmd = cmd
        /\ Ordered(fwd', r) /\ Cells(fwd') \subseteq Cells(fwd) /\ Head(fwd) \in Cells(fwd)
        /\ Count(fwd', DataOf(r)) \in Nat
        /\ Count(fwd, DataOf(r)) =
             Count(fwd', DataOf(r)) + (IF Head(fwd) \in DataOf(r) THEN 1 ELSE 0)
        /\ Begun(r) <=> Begun(r)' \/ Head(fwd) \in BeginOf(r)
        /\ Head(fwd) \in FwdOf(r) => ~Begun(r)'
    BY <1>t, <2>1, <2>i, FwdTakes DEF StreamInv
  <2>5. /\ Cells(bwd') \cap AcksOf(r) \subseteq Cells(bwd)
        /\ Count(bwd', AcksOf(r)) = Count(bwd, AcksOf(r))
    <3>1. PICK e \in {"END", "CONNECTED"} : e = "END"  OBVIOUS
    <3> QED BY <2>2, <2>3, <3>1, ReplyNoAck
  <2>6. Head(fwd) \in DataOf(r) => Head(fwd) \in FwdOf(r) /\ cmd = "DATA" /\ Head(fwd).sid = r
    BY <2>4 DEF DataOf, FwdOf
  <2>7. estreams'[r].st # "none" => estreams'[r] = estreams[r] /\ estreams[r].st # "none"
    BY <1>t, <2>1 DEF ExitOther, ExitCloses, EStream
  <2>8. Head(fwd) \in DataOf(r) => estreams'[r].st = "none" /\ ~Begun(r)'
    BY <1>t, <2>1, <2>4, <2>6 DEF ExitCloses, EStream
  <2> QED BY <2>2, <2>4, <2>5, <2>7, <2>8, <2>i, StreamKept
<1>5. CASE ExitBegin
  <2>1. ExitTakes("BEGIN") /\ cstreams' = cstreams  BY <1>5 DEF ExitBegin, cvars
  <2>2. PICK s \in Streams : s = Head(fwd).sid  BY <1>t, <2>1, FwdHeadType DEF ExitTakes
  <2>3. /\ bwd' = bwd \/ \E e \in {"END", "CONNECTED"} : bwd' = Append(bwd, Reply(e, s))
        /\ \/ estreams' = estreams
           \/ \E st \in {"connected", "connecting"}, x \in LeftOver :
                estreams' = [estreams EXCEPT ![s] =
                               [st |-> st, del |-> StreamWindow, xoff_sent |-> x]]
    BY <1>5, <2>2 DEF ExitBegin
  <2> SUFFICES ASSUME NEW r \in Streams PROVE StreamInv(r)'
    BY DEF StreamsInv
  <2>i. StreamInv(r)  BY DEF StreamsInv
  <2>4. /\ Head(fwd) \in FwdCell /\ Head(fwd).cmd = "BEGIN"
        /\ Ordered(fwd', r) /\ Cells(fwd') \subseteq Cells(fwd) /\ Head(fwd) \in Cells(fwd)
        /\ Count(fwd', DataOf(r)) \in Nat
        /\ Count(fwd, DataOf(r)) =
             Count(fwd', DataOf(r)) + (IF Head(fwd) \in DataOf(r) THEN 1 ELSE 0)
        /\ Begun(r) <=> Begun(r)' \/ Head(fwd) \in BeginOf(r)
        /\ Head(fwd) \in FwdOf(r) => ~Begun(r)'
    BY <1>t, <2>1, <2>i, FwdTakes DEF StreamInv
  <2>5. /\ Cells(bwd') \cap AcksOf(r) \subseteq Cells(bwd)
        /\ Count(bwd', AcksOf(r)) = Count(bwd, AcksOf(r))
    BY <2>3, ReplyNoAck
  <2>6. /\ Head(fwd) \notin DataOf(r) /\ (Head(fwd) \in BeginOf(r) <=> r = s)
        /\ Head(fwd) \in FwdOf(r) <=> r = s
    BY <2>2, <2>4 DEF DataOf, FwdOf, BeginOf
  <2>7. CASE r # s
    <3>1. estreams'[r] = estreams[r]  BY <1>t, <2>3, <2>7
    <3> QED BY <2>1, <2>4, <2>5, <2>6, <2>7, <2>i, <3>1, StreamKept
  <2>8. CASE r = s
    <3>1. Begun(r) /\ ~Begun(r)' /\ Count(fwd', DataOf(r)) = Count(fwd, DataOf(r))
      BY <2>4, <2>6, <2>8
    <3>2. estreams[r].st = "none" /\ Cells(bwd) \cap AcksOf(r) = {} /\ cstreams[r].st # "unused"
      <4>1. Cells(fwd) \cap FwdOf(r) # {}  BY <2>4, <2>6, <2>8
      <4> QED BY <2>i, <3>1, <4>1 DEF StreamInv
    <3>3. CASE estreams' = estreams
      BY <2>1, <2>4, <2>5, <2>6, <2>8, <2>i, <3>1, <3>2, <3>3, StreamKept
    <3>4. CASE \E st \in {"connected", "connecting"}, x \in LeftOver :
                  estreams' = [estreams EXCEPT ![s] =
                                 [st |-> st, del |-> StreamWindow, xoff_sent |-> x]]
      <4>1. estreams'[r].st # "none" /\ estreams'[r].del = StreamWindow  BY <1>t, <2>8, <3>4
      <4>2. Count(bwd', AcksOf(r)) = 0  BY <2>5, <3>2, CountNone
      <4>3. StreamWindow - estreams'[r].del = 0 /\ Increment * Count(bwd', AcksOf(r)) = 0
        BY <1>t, <4>1, <4>2, IncrementTimes
      <4>4. ASSUME cstreams[r].st = "open"
            PROVE  cstreams'[r].pkg + Count(fwd', DataOf(r)) + (StreamWindow - estreams'[r].del)
                     + Increment * Count(bwd', AcksOf(r)) = StreamWindow
        <5>1. cstreams[r].pkg + Count(fwd, DataOf(r)) = StreamWindow
          BY <2>i, <3>1, <4>4 DEF StreamInv
        <5> QED BY <1>t, <2>1, <2>4, <3>1, <4>3, <5>1, SlotTypes
      <4>5. StreamWindow - Increment < estreams'[r].del /\ estreams'[r].del <= StreamWindow
        BY <1>t, <4>1
      <4> QED BY <2>1, <2>4, <3>1, <3>2, <4>1, <4>4, <4>5 DEF StreamInv
    <3> QED BY <2>3, <3>3, <3>4
  <2> QED BY <2>7, <2>8
<1> QED BY <1>1, <1>2, <1>3, <1>4, <1>5

\* A target socket connects or closes.
LEMMA StreamsTarget ==
    ASSUME TypeOK, StreamsInv, NEW s \in Streams, ExitConnectComplete(s) \/ ExitTargetClosed(s)
    PROVE  StreamsInv'
<1>1. /\ cstreams' = cstreams /\ fwd' = fwd
      /\ \E e \in {"END", "CONNECTED"} : bwd' = Append(bwd, Reply(e, s))
      /\ estreams[s].st # "none"
      /\ estreams' = ExitCloses(s) \/ estreams' = [estreams EXCEPT ![s].st = "connected"]
  BY DEF ExitConnectComplete, ExitTargetClosed, cvars
<1>2. estreams \in [Streams -> EStream]  BY DEF TypeOK
<1> SUFFICES ASSUME NEW r \in Streams PROVE StreamInv(r)'
  BY DEF StreamsInv
<1>i. StreamInv(r)  BY DEF StreamsInv
<1>3. /\ Cells(bwd') \cap AcksOf(r) \subseteq Cells(bwd)
      /\ Count(bwd', AcksOf(r)) = Count(bwd, AcksOf(r))
  BY <1>1, ReplyNoAck
<1>4. estreams'[r].st # "none" => estreams[r].st # "none" /\ estreams'[r].del = estreams[r].del
  <2>1. CASE r = s
    BY <1>1, <1>2, <2>1 DEF ExitCloses, EStream
  <2>2. CASE r # s
    BY <1>1, <1>2, <2>2 DEF ExitCloses, EStream
  <2> QED BY <2>1, <2>2
<1>5. Ordered(fwd', r) /\ (Begun(r)' <=> Begun(r))  BY <1>1, <1>i DEF StreamInv, Begun
<1> QED BY <1>1, <1>3, <1>4, <1>5, <1>i, StreamKept

\* The client takes a cell.
LEMMA StreamsTaken ==
    ASSUME TypeOK, StreamsInv, ClientCell
    PROVE  StreamsInv'
<1>t. /\ cstreams \in [Streams -> CStream] /\ StreamWindow \in Nat /\ Increment \in Nat \ {0}
  BY WindowAssumption DEF TypeOK
<1>1. PICK cmds : ClientTakes(cmds) /\ (ClientStreamSendme <=> "SENDME" \in cmds)
  BY DEF ClientCell, ClientCircSendme, ClientCircSendmeRejected, ClientStreamSendme, ClientEnd,
         ClientPauseResume
<1>2. estreams' = estreams /\ fwd' = fwd
  BY DEF ClientCell, ClientCircSendme, ClientCircSendmeRejected, ClientStreamSendme, ClientEnd,
         ClientPauseResume, evars
<1> SUFFICES ASSUME NEW r \in Streams PROVE StreamInv(r)'
  BY DEF StreamsInv
<1>i. StreamInv(r)  BY DEF StreamsInv
<1>3. /\ Head(bwd) \in BwdCell /\ Head(bwd).cmd \in cmds
      /\ Cells(bwd') \subseteq Cells(bwd) /\ Head(bwd) \in Cells(bwd)
      /\ Count(bwd', AcksOf(r)) \in Nat
      /\ Count(bwd, AcksOf(r)) =
           Count(bwd', AcksOf(r)) + (IF Head(bwd) \in AcksOf(r) THEN 1 ELSE 0)
  BY <1>1, BwdTakes
<1>4. Ordered(fwd', r) /\ (Begun(r)' <=> Begun(r))  BY <1>2, <1>i DEF StreamInv, Begun
<1>5. CASE Head(bwd) \notin AcksOf(r)
  <2>1. /\ cstreams'[r].st = cstreams[r].st \/ cstreams'[r].st = "closed"
        /\ cstreams'[r].pkg = cstreams[r].pkg
    <3>1. CASE ClientStreamSendme
      <4>1. Head(bwd).cmd = "SENDME" /\ Head(bwd).sid # r
        BY <1>3, <1>5, <3>1 DEF ClientStreamSendme, ClientTakes, AcksOf
      <4>2. PICK z, w : /\ z \in Streams
                        /\ \/ cstreams' = cstreams
                           \/ z # r /\ cstreams' = [cstreams EXCEPT ![z].pkg = w]
        <5>1. Head(bwd).sid \in Streams  BY <1>3, <4>1 DEF BwdCell
        <5> QED BY <3>1, <4>1, <5>1 DEF ClientStreamSendme
      <4> QED BY <1>t, <4>2 DEF CStream
    <3>2. CASE ClientEnd
      <4>1. PICK z : cstreams' = [cstreams EXCEPT ![z].st = "closed"]  BY <3>2 DEF ClientEnd
      <4> QED BY <1>t, <4>1 DEF CStream
    <3>3. CASE cstreams' = cstreams
      BY <3>3
    <3> QED BY <3>1, <3>2, <3>3 DEF ClientCell, ClientCircSendme, ClientCircSendmeRejected,
                                    ClientPauseResume, cvars
  <2> QED BY <1>2, <1>3, <1>4, <1>5, <1>i, <2>1, StreamKept
<1>6. CASE Head(bwd) \in AcksOf(r)
  <2>1. ClientStreamSendme /\ Head(bwd).sid = r  BY <1>1, <1>3, <1>6 DEF AcksOf
  <2>2. cstreams' = IF cstreams[r].st = "open"
                    THEN [cstreams EXCEPT ![r].pkg = Refill(@, StreamWindow)] ELSE cstreams
    BY <2>1 DEF ClientStreamSendme
  <2>3. CASE cstreams[r].st # "open"
    BY <1>2, <1>3, <1>4, <1>i, <2>2, <2>3, StreamKept
  <2>4. CASE cstreams[r].st = "open"
    <3>1. PICK p \in Int : p = cstreams[r].pkg  BY SlotTypes
    <3>2. cstreams'[r].st = "open" /\ cstreams'[r].pkg = Refill(p, StreamWindow)
      BY <1>t, <2>2, <2>4, <3>1 DEF CStream
    <3>3. ~Begun(r)  BY <1>3, <1>6, <1>i DEF StreamInv
    <3>4. ASSUME estreams[r].st # "none"
          PROVE  cstreams'[r].pkg + Count(fwd', DataOf(r)) + (StreamWindow - estreams'[r].del)
                   + Increment * Count(bwd', AcksOf(r)) = StreamWindow
      <4>1. PICK k \in Nat : k = Count(bwd', AcksOf(r)) /\ Count(bwd, AcksOf(r)) = k + 1
        BY <1>3, <1>6
      <4>2. PICK m \in Nat : m = Increment * k /\ Increment * (k + 1) = m + Increment
        BY IncrementTimes
      <4>3. PICK d \in Nat, e \in Int : d = Count(fwd, DataOf(r)) /\ e = estreams[r].del
        BY CountType, SlotTypes DEF TypeOK
      <4>4. p + d + (StreamWindow - e) + (m + Increment) = StreamWindow /\ e <= StreamWindow
        BY <1>i, <2>4, <3>1, <3>4, <4>1, <4>2, <4>3 DEF StreamInv
      <4>5. Refill(p, StreamWindow) = p + Increment  BY <1>t, <4>4 DEF Refill
      <4>6. (p + Increment) + d + (StreamWindow - e) + m = StreamWindow  BY <1>t, <4>4
      <4> QED BY <1>2, <3>2, <4>1, <4>2, <4>3, <4>5, <4>6
    <3> QED BY <1>2, <1>4, <1>i, <3>2, <3>3, <3>4 DEF StreamInv
  <2> QED BY <2>3, <2>4
<1> QED BY <1>5, <1>6

\* Every step keeps the stream invariant.
LEMMA StreamsNext ==
    ASSUME TypeOK, TypeOK', Totals, StreamsInv, [Next]_vars
    PROVE  StreamsInv'
<1>1. CASE SendOther
  <2>1. PICK c : fwd' = Append(fwd, c) /\ c.cmd = "OTHER" /\ cstreams' = cstreams
                 /\ estreams' = estreams /\ bwd' = bwd
    <3> DEFINE c == [cmd |-> "OTHER", sid |-> NoStream, n |-> hist.sent, dig |-> forward_digest + 1]
    <3>1. fwd' = Append(fwd, c) /\ c.cmd = "OTHER"  BY <1>1 DEF SendOther, ForwardCell
    <3> HIDE DEF c
    <3> QED BY <1>1, <3>1 DEF SendOther, evars
  <2>t. fwd \in Seq(FwdCell) /\ fwd' \in Seq(FwdCell)  BY DEF TypeOK
  <2>2. c \in FwdCell
    <3>1. fwd'[Len(fwd')] = c /\ Len(fwd') \in 1..Len(fwd')  BY <2>t, <2>1
    <3> QED BY <2>t, <3>1
  <2> SUFFICES ASSUME NEW r \in Streams PROVE StreamInv(r)'
    BY DEF StreamsInv
  <2>i. StreamInv(r)  BY DEF StreamsInv
  <2>3. c \notin BeginOf(r) /\ c \notin DataOf(r) /\ c \notin FwdOf(r)
    BY <2>1 DEF BeginOf, DataOf, FwdOf
  <2>4. /\ Ordered(fwd', r) /\ Cells(fwd') = Cells(fwd) \cup {c}
        /\ Count(fwd, DataOf(r)) \in Nat
        /\ Count(fwd', DataOf(r)) = Count(fwd, DataOf(r)) + (IF c \in DataOf(r) THEN 1 ELSE 0)
        /\ Begun(r)' <=> Begun(r) \/ c \in BeginOf(r)
    BY <2>t, <2>1, <2>2, <2>3, <2>i, FwdAppends DEF StreamInv
  <2> QED BY <2>1, <2>3, <2>4, <2>i, StreamKept
<1>2. CASE UNCHANGED vars
  <2>1. fwd' = fwd /\ bwd' = bwd /\ cstreams' = cstreams /\ estreams' = estreams
    BY <1>2 DEF vars, cvars, evars
  <2> QED BY <2>1 DEF StreamsInv, StreamInv, Begun
<1> QED BY <1>1, <1>2, StreamsClient, StreamsExit, StreamsTarget, StreamsTaken DEF Next, ExitCell

\* On every stream that both ends have open, the client's window, its cells in
\* flight, the cells the exit has counted and the stream SENDMEs in flight
\* make up the stream window (moor_circuit_send_data, sendme_check,
\* moor_circuit_handle_sendme).
THEOREM StreamWindowConservation == SafeSpec => []StreamWindowConserved
<1>1. Init => TypeOK /\ Totals /\ StreamsInv  BY TypeInit, TotalsInit, StreamsInit
<1>2. TypeOK /\ Totals /\ StreamsInv /\ [Next]_vars => (TypeOK /\ Totals /\ StreamsInv)'
  BY TypeNext, TotalsNext, StreamsNext
<1>3. TypeOK /\ StreamsInv => StreamWindowConserved
  <2> SUFFICES ASSUME TypeOK, StreamsInv, NEW s \in Streams,
                      cstreams[s].st = "open", estreams[s].st # "none"
               PROVE  cstreams[s].pkg
                        + Cardinality({i \in 1..Len(fwd) : fwd[i].cmd = "DATA" /\ fwd[i].sid = s})
                        + (StreamWindow - estreams[s].del)
                        + Increment * Cardinality({i \in 1..Len(bwd) :
                                         bwd[i].cmd = "SENDME" /\ bwd[i].sid = s})
                      = StreamWindow
    BY DEF StreamWindowConserved
  <2>1. /\ \A i \in 1..Len(fwd) : fwd[i] \in FwdCell
        /\ \A i \in 1..Len(bwd) : bwd[i] \in BwdCell
    BY DEF TypeOK
  <2>2. {i \in 1..Len(fwd) : fwd[i].cmd = "DATA" /\ fwd[i].sid = s} = Places(fwd, DataOf(s))
    BY <2>1 DEF Places, DataOf
  <2>3. {i \in 1..Len(bwd) : bwd[i].cmd = "SENDME" /\ bwd[i].sid = s} = Places(bwd, AcksOf(s))
    BY <2>1 DEF Places, AcksOf
  <2> QED BY <2>2, <2>3 DEF StreamsInv, StreamInv, Count
<1> QED BY <1>1, <1>2, <1>3, PTL DEF SafeSpec

-----------------------------------------------------------------------------
(* Authenticated circuit SENDMEs.                                          *)

\* k increments.
Times(k) == k * Increment

\* The digest that the exit will have after each cell in flight.
Digests ==
    /\ forward_digest = relay_forward_digest + Len(fwd)
    /\ \A i \in 1..Len(fwd) : fwd[i].dig = relay_forward_digest + i

\* As long as every DATA cell was counted: nothing is lost between the windows
\* of the two ends, the FIFO holds one digest for every full increment in
\* flight, and its k-th digest is that of the cell that completes the k-th
\* increment, while the cell is in flight and while its SENDME is.
InStep ==
    /\ inflight = hist.sent - hist.seen
    /\ hist.credited = hist.rcvd - (CircWindow - circ_deliver_window)
    /\ Times(Len(sendme_auth_expected)) <= inflight
    /\ inflight < Times(Len(sendme_auth_expected)) + Increment
    /\ \A c \in Cells(fwd), k \in 1..Len(sendme_auth_expected) :
         c.cmd = "DATA" /\ c.n = hist.seen + Times(k) => sendme_auth_expected[k] = c.dig
    /\ \A c \in Cells(bwd), k \in 1..Len(sendme_auth_expected) :
         c.cmd = "CIRC_SENDME" /\ c.n = hist.seen + Times(k) => sendme_auth_expected[k] = c.auth

AuthInv == Digests /\ (hist.errors = 0 => InStep)

\* Multiples of the increment, in order.
LEMMA TimesStep ==
    ASSUME NEW k \in Nat
    PROVE  /\ Times(k) \in Nat /\ Times(k + 1) = Times(k) + Increment
           /\ Times(0) = 0 /\ Times(1) = Increment
BY WindowAssumption DEF Times

\* A larger multiple is at least one increment larger.
LEMMA TimesOrder ==
    ASSUME NEW j \in Nat, NEW k \in Nat, j < k
    PROVE  Times(j) + Increment <= Times(k)
BY WindowAssumption DEF Times

\* The next multiple after Times(k) is one increment further.
LEMMA TimesNext ==
    ASSUME NEW k \in Nat, NEW a \in Nat, Times(k) < a, a <= Times(k) + Increment
    PROVE  a % Increment = 0 <=> a = Times(k) + Increment
<1>w. Increment \in Nat \ {0}  BY WindowAssumption
<1>1. ASSUME a % Increment = 0 PROVE a = Times(k) + Increment
  <2>1. PICK q \in Nat : a = Times(q)
    <3>1. /\ a = Increment * (a \div Increment) + (a % Increment)
          /\ a \div Increment \in Nat
      BY <1>w
    <3>2. PICK q \in Nat : q = a \div Increment  BY <3>1
    <3> QED BY <1>w, <1>1, <3>1, <3>2 DEF Times
  <2>2. Times(k) \in Nat /\ Times(q) \in Nat /\ Times(k + 1) = Times(k) + Increment /\ k + 1 \in Nat
    BY TimesStep
  <2>3. ~(q < k) /\ q # k  BY <1>w, <2>1, <2>2, TimesOrder
  <2>4. ~(k + 1 < q)  BY <1>w, <2>1, <2>2, TimesOrder
  <2>5. q = k + 1  BY <2>3, <2>4
  <2> QED BY <2>1, <2>2, <2>5
<1>2. ASSUME a = Times(k) + Increment PROVE a % Increment = 0
  <2>1. \A m \in Nat : (m * Increment) % Increment = 0
    <3> TAKE m \in Nat
    <3>1. PICK x \in Nat : x = m * Increment  BY <1>w
    <3>2. 0 \in 0..(Increment - 1) /\ x = m * Increment + 0  BY <1>w, <3>1
    <3> QED BY <1>w, <3>1, <3>2
  <2>2. a = (k + 1) * Increment /\ k + 1 \in Nat  BY <1>2, <1>w, TimesStep DEF Times
  <2> QED BY <2>1, <2>2
<1> QED BY <1>1, <1>2

\* No cell of a chain has a value beyond its end.
LEMMA ChainBound ==
    ASSUME NEW S, NEW q \in Seq(S), NEW cmd, NEW w, NEW lo, NEW hi, Chain(q, cmd, w, lo, hi),
           NEW c \in Cells(q)
    PROVE  c.n <= hi /\ c \in S
<1>1. PICK i \in 1..Len(q) : c = q[i]  BY DEF Cells
<1>2. q # <<>> /\ Len(q) \in 1..Len(q) /\ i <= Len(q) /\ q[i] \in S  BY <1>1
<1> QED BY <1>1, <1>2 DEF Chain

\* Updates of the history that do not count an error.
LEMMA HistErrors ==
    ASSUME hist \in Hist, NEW a, NEW b
    PROVE  /\ [hist EXCEPT !.rcvd = a, !.credited = b].errors = hist.errors
           /\ [hist EXCEPT !.rcvd = a].errors = hist.errors
           /\ [hist EXCEPT !.seen = a].errors = hist.errors
           /\ [hist EXCEPT !.sent = a].errors = hist.errors
           /\ [hist EXCEPT !.other = a].errors = hist.errors
           /\ [hist EXCEPT !.rcvd = a, !.errors = b].errors = b
BY DEF Hist

\* Sending a cell moves the client's digest, taking one the exit's.
LEMMA DigestsStep ==
    ASSUME TypeOK, TypeOK', Digests,
           \/ UNCHANGED <<forward_digest, relay_forward_digest, fwd>>
           \/ (\E cmd, s, n : ForwardCell(cmd, s, n)) /\ relay_forward_digest' = relay_forward_digest
           \/ (\E cmd : ExitTakes(cmd)) /\ forward_digest' = forward_digest
    PROVE  Digests'
<1>t. fwd \in Seq(FwdCell) /\ fwd' \in Seq(FwdCell) /\ forward_digest \in Nat
      /\ relay_forward_digest \in Nat
  BY DEF TypeOK
<1>1. CASE UNCHANGED <<forward_digest, relay_forward_digest, fwd>>
  BY <1>1 DEF Digests
<1>2. CASE (\E cmd, s, n : ForwardCell(cmd, s, n)) /\ relay_forward_digest' = relay_forward_digest
  <2>1. PICK c : /\ fwd' = Append(fwd, c) /\ c.dig = forward_digest + 1
                 /\ forward_digest' = forward_digest + 1
    <3>1. PICK cmd, s, n : ForwardCell(cmd, s, n)  BY <1>2
    <3> DEFINE c == [cmd |-> cmd, sid |-> s, n |-> n, dig |-> forward_digest + 1]
    <3>2. fwd' = Append(fwd, c) /\ c.dig = forward_digest + 1 /\ forward_digest' = forward_digest + 1
      BY <3>1 DEF ForwardCell
    <3> HIDE DEF c
    <3> QED BY <3>2
  <2>2. /\ Len(fwd') = Len(fwd) + 1 /\ Len(fwd) \in Nat
        /\ \A i \in 1..Len(fwd) : fwd'[i] = fwd[i]
        /\ fwd'[Len(fwd) + 1] = c
    BY <1>t, <2>1
  <2>3. PICK n \in Nat : n = Len(fwd)  BY <2>2
  <2>4. forward_digest = relay_forward_digest + n  BY <2>3 DEF Digests
  <2>5. ASSUME NEW i \in 1..(n + 1) PROVE fwd'[i].dig = relay_forward_digest + i
    <3>1. CASE i \in 1..n
      BY <2>2, <2>3, <3>1 DEF Digests
    <3>2. CASE i = n + 1
      BY <1>t, <2>1, <2>2, <2>3, <2>4, <3>2
    <3> QED BY <2>3, <3>1, <3>2
  <2>6. forward_digest' = relay_forward_digest + (n + 1)  BY <1>t, <2>1, <2>3, <2>4
  <2> QED BY <1>2, <2>2, <2>3, <2>5, <2>6 DEF Digests
<1>3. CASE (\E cmd : ExitTakes(cmd)) /\ forward_digest' = forward_digest
  <2>1. /\ fwd # <<>> /\ fwd' = Tail(fwd) /\ relay_forward_digest' = relay_forward_digest + 1
    BY <1>3 DEF ExitTakes
  <2>2. /\ Len(fwd) = Len(fwd') + 1 /\ Len(fwd') \in Nat
        /\ \A i \in 1..Len(fwd') : fwd'[i] = fwd[i + 1]
    BY <1>t, <2>1
  <2>3. PICK n \in Nat : n = Len(fwd')  BY <2>2
  <2>4. ASSUME NEW i \in 1..n PROVE fwd'[i].dig = (relay_forward_digest + 1) + i
    <3>1. i + 1 \in 1..Len(fwd) /\ fwd'[i] = fwd[i + 1]  BY <2>2, <2>3
    <3>2. fwd[i + 1].dig = relay_forward_digest + (i + 1)  BY <3>1 DEF Digests
    <3> QED BY <1>t, <2>3, <3>1, <3>2
  <2>5. forward_digest = (relay_forward_digest + 1) + n  BY <1>t, <2>2, <2>3 DEF Digests
  <2> QED BY <1>3, <2>1, <2>3, <2>4, <2>5 DEF Digests
<1> QED BY <1>1, <1>2, <1>3

\* Steps that neither send DATA nor touch a circuit SENDME.
LEMMA InStepKept ==
    ASSUME InStep, inflight' = inflight, sendme_auth_expected' = sendme_auth_expected,
           hist'.sent = hist.sent, hist'.seen = hist.seen,
           hist'.credited = hist'.rcvd - (CircWindow - circ_deliver_window'),
           \A c \in Cells(fwd') : c.cmd = "DATA" => c \in Cells(fwd),
           \A c \in Cells(bwd') : c.cmd = "CIRC_SENDME" =>
              \/ c \in Cells(bwd)
              \/ \E d \in Cells(fwd) : d.cmd = "DATA" /\ d.n = c.n /\ d.dig = c.auth
    PROVE  InStep'
BY DEF InStep


\* Nothing is recorded and nothing in flight at first.
LEMMA AuthInit == Init => AuthInv
<1> SUFFICES ASSUME Init PROVE AuthInv
  OBVIOUS
<1>1. /\ fwd = <<>> /\ bwd = <<>> /\ forward_digest = 0 /\ relay_forward_digest = 0
      /\ sendme_auth_expected = <<>> /\ inflight = 0 /\ circ_deliver_window = CircWindow
      /\ hist.sent = 0 /\ hist.seen = 0 /\ hist.rcvd = 0 /\ hist.credited = 0
  BY DEF Init
<1>2. Digests  BY <1>1 DEF Digests
<1>3. Cells(fwd) = {} /\ Cells(bwd) = {}  BY <1>1, CellsEmpty
<1>4. Len(sendme_auth_expected) = 0 /\ Times(0) = 0  BY <1>1, TimesStep
<1>5. InStep  BY <1>1, <1>3, <1>4, WindowAssumption DEF InStep
<1> QED BY <1>2, <1>5 DEF AuthInv

\* A DATA cell completes an increment in flight exactly when its digest is
\* recorded (moor_circuit_send_data); the FIFO has room for it.
LEMMA SendDataInStep ==
    ASSUME TypeOK, TypeOK', Totals, InStep, NEW s \in Streams, SendData(s)
    PROVE  InStep'
<1>t. /\ fwd \in Seq(FwdCell) /\ bwd \in Seq(BwdCell) /\ fwd' \in Seq(FwdCell)
      /\ hist \in Hist /\ forward_digest \in Nat /\ inflight \in Nat
      /\ circ_package_window \in Nat /\ sendme_auth_expected \in Seq(Nat)
      /\ circ_deliver_window \in Int
  BY DEF TypeOK
<1>w. /\ Increment \in Nat \ {0} /\ CircWindow \in Nat /\ AuthMax \in Nat
      /\ CircWindow <= Times(AuthMax)
  BY WindowAssumption DEF Times
<1>h. hist.sent \in Nat /\ hist.seen \in Nat /\ hist.rcvd \in Nat /\ hist.credited \in Nat
  BY <1>t, HistType
<1>1. /\ ForwardCell("DATA", s, hist.sent + 1) /\ circ_package_window > 0
      /\ inflight' = inflight + 1 /\ bwd' = bwd /\ circ_deliver_window' = circ_deliver_window
      /\ sendme_auth_expected' = RecordDigest(inflight + 1, forward_digest + 1)
      /\ hist' = [hist EXCEPT !.sent = hist.sent + 1]
  BY DEF SendData, evars
<1>n. inflight \in Nat /\ circ_package_window \in Nat /\ circ_deliver_window \in Int  BY <1>t
<1>q. /\ circ_package_window > 0 /\ inflight' = inflight + 1
      /\ circ_deliver_window' = circ_deliver_window
  BY <1>1
<1>2. /\ hist'.sent = hist.sent + 1 /\ hist'.seen = hist.seen
      /\ hist'.rcvd = hist.rcvd /\ hist'.credited = hist.credited
  BY <1>1, <1>t, HistFields
<1>3. PICK d : /\ fwd' = Append(fwd, d) /\ d.n = hist.sent + 1 /\ d.dig = forward_digest + 1
  <2> DEFINE c == [cmd |-> "DATA", sid |-> s, n |-> hist.sent + 1, dig |-> forward_digest + 1]
  <2>1. fwd' = Append(fwd, c) /\ c.n = hist.sent + 1 /\ c.dig = forward_digest + 1
    BY <1>1 DEF ForwardCell
  <2> HIDE DEF c
  <2> QED BY <2>1
<1>4. d \in FwdCell
  <2>1. fwd'[Len(fwd')] = d /\ Len(fwd') \in 1..Len(fwd')  BY <1>t, <1>3
  <2> QED BY <1>t, <2>1
<1>5. Cells(fwd') = Cells(fwd) \cup {d} /\ Cells(bwd') = Cells(bwd)
  BY <1>t, <1>1, <1>3, <1>4, CellsAppend
<1>6. /\ \A c \in Cells(fwd) : c.n \in Nat /\ c.n <= hist.sent
      /\ \A c \in Cells(bwd) : c.n \in Nat /\ c.n <= hist.credited
  BY <1>t, ChainBound, CellN DEF Totals, FwdChain, BwdChain
<1>7. /\ inflight + circ_package_window = CircWindow /\ hist.rcvd <= hist.sent
      /\ hist.credited <= hist.rcvd
  BY <1>t, <1>w, <1>h DEF Totals, Windows, FwdChain, Chain
<1>8. PICK L \in Nat : L = Len(sendme_auth_expected)  BY <1>t
<1>9. /\ inflight = hist.sent - hist.seen
      /\ hist.credited = hist.rcvd - (CircWindow - circ_deliver_window)
      /\ Times(L) <= inflight /\ inflight < Times(L) + Increment
  BY <1>8 DEF InStep
<1>10. Times(L) \in Nat /\ Times(L + 1) = Times(L) + Increment /\ L + 1 \in Nat  BY TimesStep
<1>11. (inflight + 1) % Increment = 0 <=> inflight + 1 = Times(L) + Increment
  <2>1. inflight + 1 \in Nat /\ Times(L) < inflight + 1 /\ inflight + 1 <= Times(L) + Increment
    BY <1>t, <1>w, <1>9, <1>10
  <2> QED BY <2>1, TimesNext
<1>12. \A k \in 1..L : Times(k) \in Nat /\ Times(k) <= Times(L)
  <2> TAKE k \in 1..L
  <2>1. k \in Nat /\ Times(k) \in Nat  BY TimesStep
  <2>2. CASE k = L
    BY <2>2, <1>10
  <2>3. CASE k < L
    <3>1. Times(k) + Increment <= Times(L)  BY <2>1, <2>3, TimesOrder
    <3> QED BY <2>1, <3>1, <1>10, <1>w
  <2> QED BY <2>1, <2>2, <2>3
\* The new cell is beyond every increment recorded so far.
<1>13. \A k \in 1..L : d.n # hist.seen + Times(k)
  <2> TAKE k \in 1..L
  <2>1. Times(k) \in Nat /\ Times(k) <= Times(L)  BY <1>12
  <2>2. d.n = hist.sent + 1  BY <1>3
  <2> QED BY <2>1, <2>2, <1>9, <1>10, <1>h, <1>n
<1>14. CASE inflight + 1 = Times(L) + Increment
  <2>1. L < AuthMax
    <3>1. Times(L + 1) <= Times(AuthMax) /\ Times(AuthMax) \in Nat
      <4>1. Times(AuthMax) \in Nat  BY <1>w, TimesStep
      <4>2. inflight + 1 <= CircWindow  BY <1>q, <1>7, <1>n, <1>w
      <4> QED BY <4>1, <4>2, <1>14, <1>10, <1>n, <1>w
    <3>2. ~(AuthMax < L + 1)  BY <3>1, <1>10, <1>w, TimesOrder
    <3> QED BY <3>2, <1>w
  <2>2. sendme_auth_expected' = Append(sendme_auth_expected, forward_digest + 1)
    BY <1>1, <1>8, <1>11, <1>14, <2>1 DEF RecordDigest
  <2>3. /\ Len(sendme_auth_expected') = L + 1
        /\ \A k \in 1..L : sendme_auth_expected'[k] = sendme_auth_expected[k]
        /\ sendme_auth_expected'[L + 1] = d.dig
    BY <1>t, <1>3, <1>8, <2>2
  <2>4. \A k \in 1..(L + 1) : k \in 1..L \/ k = L + 1  OBVIOUS
  <2>5. ASSUME NEW c \in Cells(fwd'), NEW k \in 1..(L + 1),
               c.cmd = "DATA", c.n = hist.seen + Times(k)
        PROVE  sendme_auth_expected'[k] = c.dig
    <3>1. CASE k \in 1..L
      <4>1. c \in Cells(fwd)  BY <1>5, <1>13, <2>5, <3>1
      <4> QED BY <4>1, <2>3, <2>5, <3>1, <1>8 DEF InStep
    <3>2. CASE k = L + 1
      <4>1. c.n = hist.sent + 1  BY <2>5, <3>2, <1>10, <1>14, <1>9, <1>h, <1>n
      <4>2. c = d  BY <4>1, <1>5, <1>6, <1>h
      <4> QED BY <4>2, <2>3, <3>2
    <3> QED BY <2>4, <3>1, <3>2
  <2>6. ASSUME NEW c \in Cells(bwd), NEW k \in 1..(L + 1),
               c.cmd = "CIRC_SENDME", c.n = hist.seen + Times(k)
        PROVE  sendme_auth_expected'[k] = c.auth
    <3>1. CASE k \in 1..L
      BY <2>3, <2>6, <3>1, <1>8 DEF InStep
    <3>2. CASE k = L + 1
      <4>1. c.n = hist.sent + 1  BY <2>6, <3>2, <1>10, <1>14, <1>9, <1>h, <1>n
      <4> QED BY <4>1, <1>6, <1>7, <1>h
    <3> QED BY <2>4, <3>1, <3>2
  <2>7. /\ inflight' = hist'.sent - hist'.seen
        /\ hist'.credited = hist'.rcvd - (CircWindow - circ_deliver_window')
        /\ Times(L + 1) <= inflight' /\ inflight' < Times(L + 1) + Increment
    BY <1>q, <1>2, <1>9, <1>10, <1>14, <1>w, <1>h, <1>n
  <2> QED BY <1>2, <1>5, <2>3, <2>5, <2>6, <2>7 DEF InStep
<1>15. CASE inflight + 1 # Times(L) + Increment
  <2>1. sendme_auth_expected' = sendme_auth_expected  BY <1>1, <1>11, <1>15 DEF RecordDigest
  <2>2. /\ inflight' = hist'.sent - hist'.seen
        /\ hist'.credited = hist'.rcvd - (CircWindow - circ_deliver_window')
        /\ Times(L) <= inflight' /\ inflight' < Times(L) + Increment
    BY <1>q, <1>2, <1>9, <1>10, <1>15, <1>w, <1>h, <1>n
  <2>3. ASSUME NEW c \in Cells(fwd'), NEW k \in 1..L,
               c.cmd = "DATA", c.n = hist.seen + Times(k)
        PROVE  sendme_auth_expected[k] = c.dig
    <3>1. c \in Cells(fwd)  BY <1>5, <1>13, <2>3
    <3> QED BY <3>1, <2>3, <1>8 DEF InStep
  <2>4. ASSUME NEW c \in Cells(bwd), NEW k \in 1..L,
               c.cmd = "CIRC_SENDME", c.n = hist.seen + Times(k)
        PROVE  sendme_auth_expected[k] = c.auth
    BY <2>4, <1>8 DEF InStep
  <2> QED BY <1>2, <1>5, <1>8, <2>1, <2>2, <2>3, <2>4 DEF InStep
<1> QED BY <1>14, <1>15

\* A cell that is not DATA adds no DATA cell to fwd.
LEMMA ForwardNoData ==
    ASSUME TypeOK, TypeOK', NEW cmd, NEW s, NEW n, ForwardCell(cmd, s, n), cmd # "DATA"
    PROVE  \A c \in Cells(fwd') : c.cmd = "DATA" => c \in Cells(fwd)
<1>t. fwd \in Seq(FwdCell) /\ fwd' \in Seq(FwdCell)  BY DEF TypeOK
<1>1. PICK d : fwd' = Append(fwd, d) /\ d.cmd # "DATA"
  <2> DEFINE c == [cmd |-> cmd, sid |-> s, n |-> n, dig |-> forward_digest + 1]
  <2>1. fwd' = Append(fwd, c) /\ c.cmd # "DATA"  BY DEF ForwardCell
  <2> HIDE DEF c
  <2> QED BY <2>1
<1>2. d \in FwdCell
  <2>1. fwd'[Len(fwd')] = d /\ Len(fwd') \in 1..Len(fwd')  BY <1>t, <1>1
  <2> QED BY <1>t, <2>1
<1>3. Cells(fwd') = Cells(fwd) \cup {d}  BY <1>t, <1>1, <1>2, CellsAppend
<1> QED BY <1>1, <1>3

\* An answer other than a circuit SENDME adds none to bwd.
LEMMA ReplyNoCircAck ==
    ASSUME TypeOK, NEW s \in Streams, NEW cmd \in {"END", "CONNECTED"},
           bwd' = Append(bwd, Reply(cmd, s))
    PROVE  \A c \in Cells(bwd') : c.cmd = "CIRC_SENDME" => c \in Cells(bwd)
<1>1. Reply(cmd, s) \in BwdCell /\ bwd \in Seq(BwdCell)  BY ReplyType DEF BwdCmds, TypeOK
<1>2. Reply(cmd, s).cmd # "CIRC_SENDME"  BY DEF Reply
<1> QED BY <1>1, <1>2, CellsAppend

\* Taking the head of fwd.
LEMMA ExitTakesCells ==
    ASSUME TypeOK, NEW cmd, ExitTakes(cmd)
    PROVE  /\ Cells(fwd') \subseteq Cells(fwd) /\ Head(fwd) \in Cells(fwd)
           /\ Head(fwd).cmd = cmd
<1>1. fwd \in Seq(FwdCell) /\ fwd # <<>> /\ fwd' = Tail(fwd) /\ Head(fwd).cmd = cmd
  BY DEF TypeOK, ExitTakes
<1> QED BY <1>1, CellsTail

\* The circuit SENDMEs in bwd after sendme_check: those before it, and when
\* the window was refilled one with the totals and the digest of the cell
\* just counted.
LEMMA SendmeCheckAck ==
    ASSUME TypeOK, NEW s \in Streams, NEW known \in BOOLEAN,
           NEW cw \in Int, NEW sw \in Int, NEW x \in {"none", "XOFF", "XON"},
           Head(fwd).n \in Nat,
           SendmeCheck(s, known, cw, sw, x)
    PROVE  LET circ == cw <= CircWindow - Increment
           IN  /\ \A c \in Cells(bwd') : c.cmd = "CIRC_SENDME" =>
                    \/ c \in Cells(bwd)
                    \/ circ /\ c.n = hist.credited + Increment /\ c.auth = relay_forward_digest + 1
               /\ hist'.credited = IF circ THEN hist.credited + Increment ELSE hist.credited
               /\ hist'.rcvd = Head(fwd).n /\ hist'.sent = hist.sent /\ hist'.seen = hist.seen
               /\ hist'.errors = hist.errors
               /\ circ_deliver_window' = IF circ THEN cw + Increment ELSE cw
<1> DEFINE circ == cw <= CircWindow - Increment
           strm == known /\ sw <= StreamWindow - Increment
           credit == IF circ THEN hist.credited + Increment ELSE hist.credited
           ack  == [cmd |-> "CIRC_SENDME", sid |-> NoStream, n |-> credit,
                    auth |-> relay_forward_digest + 1]
           sack == [cmd |-> "SENDME", sid |-> s, n |-> credit, auth |-> NoAuth]
           q1 == AppendIf(bwd, x # "none", Reply(x, s))
           q2 == AppendIf(q1, circ, ack)
           q3 == AppendIf(q2, strm, sack)
<1>0. hist \in Hist /\ bwd \in Seq(BwdCell) /\ relay_forward_digest \in Nat  BY DEF TypeOK
<1>a. Increment \in Nat /\ CircWindow \in Nat  BY WindowAssumption
<1>1. credit \in Nat
  <2>1. hist.credited \in Nat  BY <1>0, HistType
  <2> QED BY <2>1, <1>a
<1>2. hist' = [hist EXCEPT !.rcvd = Head(fwd).n, !.credited = credit]  BY DEF SendmeCheck
<1>3. /\ hist'.rcvd = Head(fwd).n /\ hist'.credited = credit
      /\ hist'.sent = hist.sent /\ hist'.seen = hist.seen /\ hist'.errors = hist.errors
  <2> HIDE DEF credit
  <2> QED BY <1>0, <1>2, HistFields, HistErrors
<1>4. circ_deliver_window' = IF circ THEN cw + Increment ELSE cw  BY DEF SendmeCheck
<1>5. bwd' = q3  BY DEF SendmeCheck
<1>6. /\ x # "none" => Reply(x, s) \in BwdCell
      /\ x # "none" => Reply(x, s).cmd # "CIRC_SENDME"
  <2>1. x # "none" => Reply(x, s) \in BwdCell  BY <1>0, ReplyType DEF BwdCmds
  <2> QED BY <2>1 DEF Reply
<1>7. ack \in BwdCell /\ sack \in BwdCell
  <2> HIDE DEF credit
  <2> QED BY <1>0, <1>1 DEF BwdCell, BwdCmds, NoAuth
<1>8. /\ ack.n = credit /\ ack.auth = relay_forward_digest + 1
      /\ sack.cmd # "CIRC_SENDME"
  OBVIOUS
<1>9. /\ q1 \in Seq(BwdCell)
      /\ \A c \in Cells(q1) : c.cmd = "CIRC_SENDME" => c \in Cells(bwd)
  <2>1. q1 \in Seq(BwdCell)  BY <1>0, <1>6, AppendIfType
  <2>2. Cells(q1) = Cells(bwd) \cup (IF x # "none" THEN {Reply(x, s)} ELSE {})
    <3>1. CASE x = "none"
      BY <3>1 DEF AppendIf
    <3>2. CASE x # "none"
      <4>1. q1 = Append(bwd, Reply(x, s))  BY <3>2 DEF AppendIf
      <4> HIDE DEF q1
      <4> QED BY <1>0, <1>6, <3>2, <4>1, CellsAppend
    <3> QED BY <3>1, <3>2
  <2> QED BY <2>1, <2>2, <1>6
<1>10. /\ q2 \in Seq(BwdCell)
       /\ \A c \in Cells(q2) : c \in Cells(q1) \/ (circ /\ c = ack)
  <2> HIDE DEF q1, ack, circ
  <2>1. q2 \in Seq(BwdCell)  BY <1>7, <1>9, AppendIfType
  <2>2. Cells(q2) = Cells(q1) \cup (IF circ THEN {ack} ELSE {})  BY <1>7, <1>9, CellsAppendIf
  <2> QED BY <2>1, <2>2
<1>11. \A c \in Cells(q3) : c \in Cells(q2) \/ c = sack
  <2> HIDE DEF q1, q2, sack, strm
  <2>2. Cells(q3) = Cells(q2) \cup (IF strm THEN {sack} ELSE {})  BY <1>7, <1>10, CellsAppendIf
  <2> QED BY <2>2
<1>12. \A c \in Cells(bwd') : c.cmd = "CIRC_SENDME" =>
         c \in Cells(bwd) \/ (circ /\ c.n = credit /\ c.auth = relay_forward_digest + 1)
  <2> HIDE DEF q1, q2, q3, ack, sack, credit, circ
  <2> QED BY <1>5, <1>8, <1>9, <1>10, <1>11
<1> QED BY <1>3, <1>4, <1>12

\* A DATA cell that the exit counts: the circuit SENDME is due at the cell
\* that completes an increment, and carries its digest.
LEMMA CountedInStep ==
    ASSUME TypeOK, TypeOK', Totals, Digests, InStep, NEW known \in BOOLEAN, NEW sw \in Int,
           NEW x \in {"none", "XOFF", "XON"},
           ExitTakes("DATA"), UNCHANGED cvars,
           SendmeCheck(Head(fwd).sid, known, circ_deliver_window - 1, sw, x)
    PROVE  InStep' /\ hist'.errors = hist.errors
<1>t. fwd \in Seq(FwdCell) /\ hist \in Hist /\ circ_deliver_window \in Int
      /\ relay_forward_digest \in Nat
  BY DEF TypeOK
<1>w. Increment \in Nat \ {0} /\ CircWindow \in Nat  BY WindowAssumption
<1>h. hist.sent \in Nat /\ hist.seen \in Nat /\ hist.rcvd \in Nat /\ hist.credited \in Nat
  BY <1>t, HistType
<1>1. fwd # <<>> /\ Head(fwd).sid \in Streams /\ Head(fwd).n \in Nat
  BY <1>t, FwdHeadType DEF ExitTakes
<1>2. Head(fwd).n = hist.rcvd + 1  BY ExitTakesChain
<1>3. Cells(fwd') \subseteq Cells(fwd) /\ Head(fwd) \in Cells(fwd) /\ Head(fwd).cmd = "DATA"
  BY ExitTakesCells
<1>4. Head(fwd).dig = relay_forward_digest + 1
  <2>1. 1 \in 1..Len(fwd) /\ Head(fwd) = fwd[1]  BY <1>t, <1>1
  <2> QED BY <2>1 DEF Digests
<1>5. PICK cw \in Int : cw = circ_deliver_window - 1  BY <1>t
<1>6. SendmeCheck(Head(fwd).sid, known, cw, sw, x)  BY <1>5
<1> DEFINE circ == cw <= CircWindow - Increment
<1>7. /\ \A c \in Cells(bwd') : c.cmd = "CIRC_SENDME" =>
           \/ c \in Cells(bwd)
           \/ circ /\ c.n = hist.credited + Increment /\ c.auth = relay_forward_digest + 1
      /\ hist'.credited = IF circ THEN hist.credited + Increment ELSE hist.credited
      /\ hist'.rcvd = Head(fwd).n /\ hist'.sent = hist.sent /\ hist'.seen = hist.seen
      /\ hist'.errors = hist.errors
      /\ circ_deliver_window' = IF circ THEN cw + Increment ELSE cw
  BY <1>1, <1>6, SendmeCheckAck
<1>8. /\ hist.credited = hist.rcvd - (CircWindow - circ_deliver_window)
      /\ CircWindow - Increment < circ_deliver_window
  BY DEF InStep, Totals, Windows
<1>9. hist'.credited = hist'.rcvd - (CircWindow - circ_deliver_window')
  <2>1. CASE circ
    BY <2>1, <1>2, <1>5, <1>7, <1>8, <1>w, <1>h, <1>t
  <2>2. CASE ~circ
    BY <2>2, <1>2, <1>5, <1>7, <1>8, <1>w, <1>h, <1>t
  <2> QED BY <2>1, <2>2
<1>10. circ => hist.credited + Increment = Head(fwd).n  BY <1>2, <1>5, <1>8, <1>w, <1>h, <1>t
<1>11. \A c \in Cells(bwd') : c.cmd = "CIRC_SENDME" =>
         \/ c \in Cells(bwd)
         \/ \E d \in Cells(fwd) : d.cmd = "DATA" /\ d.n = c.n /\ d.dig = c.auth
  <2> HIDE DEF circ
  <2> QED BY <1>3, <1>4, <1>7, <1>10
<1>12. inflight' = inflight /\ sendme_auth_expected' = sendme_auth_expected  BY DEF cvars
<1>13. InStep'  BY <1>3, <1>7, <1>9, <1>11, <1>12, InStepKept
<1> QED BY <1>7, <1>13

\* The circuit SENDME at the head of bwd carries the oldest digest.
LEMMA OldestVerifies ==
    ASSUME TypeOK, Totals, InStep, ClientTakes({"CIRC_SENDME"})
    PROVE  /\ SendmeVerifies(Head(bwd).auth)
           /\ Head(bwd).n = hist.seen + Increment
           /\ Increment <= inflight
<1>t. bwd \in Seq(BwdCell) /\ hist \in Hist /\ sendme_auth_expected \in Seq(Nat)  BY DEF TypeOK
<1>n. inflight \in Nat /\ circ_deliver_window \in Int  BY DEF TypeOK
<1>w. Increment \in Nat \ {0} /\ CircWindow \in Nat  BY WindowAssumption
<1>h. hist.sent \in Nat /\ hist.seen \in Nat /\ hist.rcvd \in Nat /\ hist.credited \in Nat
  BY <1>t, HistType
<1>1. bwd # <<>> /\ Head(bwd).cmd = "CIRC_SENDME"  BY DEF ClientTakes
<1>2. Head(bwd).n = hist.seen + Increment /\ Head(bwd).n <= hist.credited
  <2>1. Chain(bwd, "CIRC_SENDME", Increment, hist.seen, hist.credited)  BY DEF Totals, BwdChain
  <2>2. /\ Head(bwd).n = hist.seen + Weight(Head(bwd), "CIRC_SENDME", Increment)
        /\ Head(bwd).n <= hist.credited
    BY <1>t, <1>h, <1>w, <1>1, <2>1, ChainTail, CellN
  <2> QED BY <1>1, <2>2 DEF Weight
<1>3. hist.credited <= hist.rcvd /\ hist.rcvd <= hist.sent
  BY <1>n, <1>w, <1>h DEF Totals, Windows, FwdChain, Chain
<1>4. PICK L \in Nat : L = Len(sendme_auth_expected)  BY <1>t
<1>5. inflight = hist.sent - hist.seen /\ inflight < Times(L) + Increment  BY <1>4 DEF InStep
<1>6. Increment <= inflight  BY <1>2, <1>3, <1>5, <1>h, <1>w
<1>7. L # 0 /\ Times(1) = Increment  BY <1>5, <1>6, <1>n, <1>w, TimesStep
<1>8. Head(bwd) \in Cells(bwd)  BY <1>t, <1>1, CellsTail
<1>9. 1 \in 1..L  BY <1>7
<1>10. sendme_auth_expected[1] = Head(bwd).auth
  BY <1>1, <1>2, <1>4, <1>7, <1>8, <1>9 DEF InStep
<1>11. sendme_auth_expected # <<>> /\ Head(sendme_auth_expected) = sendme_auth_expected[1]
  BY <1>t, <1>4, <1>7
<1> QED BY <1>2, <1>6, <1>10, <1>11 DEF SendmeVerifies

\* Accepting it moves the FIFO on by one increment.
LEMMA CircSendmeInStep ==
    ASSUME TypeOK, TypeOK', Totals, InStep, ClientCircSendme
    PROVE  InStep'
<1>t. bwd \in Seq(BwdCell) /\ hist \in Hist /\ sendme_auth_expected \in Seq(Nat)  BY DEF TypeOK
<1>n. inflight \in Nat  BY DEF TypeOK
<1>w. Increment \in Nat \ {0} /\ CircWindow \in Nat  BY WindowAssumption
<1>h. hist.sent \in Nat /\ hist.seen \in Nat /\ hist.rcvd \in Nat /\ hist.credited \in Nat
  BY <1>t, HistType
<1>1. /\ ClientTakes({"CIRC_SENDME"}) /\ sendme_auth_expected' = Tail(sendme_auth_expected)
      /\ inflight' = IF inflight >= Increment THEN inflight - Increment ELSE 0
      /\ fwd' = fwd /\ circ_deliver_window' = circ_deliver_window
  BY DEF ClientCircSendme, evars
<1>2. Head(bwd).n = hist.seen + Increment /\ Increment <= inflight /\ sendme_auth_expected # <<>>
  BY <1>1, OldestVerifies DEF SendmeVerifies
<1>3. bwd # <<>> /\ bwd' = Tail(bwd) /\ hist' = [hist EXCEPT !.seen = Head(bwd).n]
  BY <1>1 DEF ClientTakes
<1>4. /\ hist'.seen = hist.seen + Increment /\ hist'.sent = hist.sent
      /\ hist'.rcvd = hist.rcvd /\ hist'.credited = hist.credited
  BY <1>2, <1>3, <1>t, HistFields
<1>5. Cells(bwd') \subseteq Cells(bwd)  BY <1>3, <1>t, CellsTail
<1>6. PICK m \in Nat : /\ m = Len(sendme_auth_expected') /\ Len(sendme_auth_expected) = m + 1
                       /\ \A k \in 1..m : sendme_auth_expected'[k] = sendme_auth_expected[k + 1]
  <2>1. /\ Len(Tail(sendme_auth_expected)) \in Nat
        /\ Len(sendme_auth_expected) = Len(Tail(sendme_auth_expected)) + 1
        /\ \A k \in 1..Len(Tail(sendme_auth_expected)) :
             Tail(sendme_auth_expected)[k] = sendme_auth_expected[k + 1]
    BY <1>t, <1>2
  <2> QED BY <1>1, <2>1
<1>7. /\ inflight = hist.sent - hist.seen
      /\ hist.credited = hist.rcvd - (CircWindow - circ_deliver_window)
      /\ Times(m + 1) <= inflight /\ inflight < Times(m + 1) + Increment
  BY <1>6 DEF InStep
<1>8. inflight' = inflight - Increment  BY <1>1, <1>2
<1>9. /\ inflight' = hist'.sent - hist'.seen
      /\ hist'.credited = hist'.rcvd - (CircWindow - circ_deliver_window')
      /\ Times(m) <= inflight' /\ inflight' < Times(m) + Increment
  <2>1. Times(m) \in Nat /\ Times(m + 1) = Times(m) + Increment  BY TimesStep
  <2>2. circ_deliver_window' = circ_deliver_window  BY <1>1
  <2> QED BY <2>1, <2>2, <1>4, <1>7, <1>8, <1>n, <1>w, <1>h
<1>10. \A k \in 1..m : /\ k + 1 \in 1..(m + 1)
                       /\ hist'.seen + Times(k) = hist.seen + Times(k + 1)
  <2> TAKE k \in 1..m
  <2>1. k \in Nat /\ k + 1 \in 1..(m + 1)  OBVIOUS
  <2>2. Times(k) \in Nat /\ Times(k + 1) = Times(k) + Increment  BY <2>1, TimesStep
  <2> QED BY <2>1, <2>2, <1>4, <1>h, <1>w
<1>11. ASSUME NEW c \in Cells(fwd), NEW k \in 1..m,
              c.cmd = "DATA", c.n = hist'.seen + Times(k)
       PROVE  sendme_auth_expected'[k] = c.dig
  BY <1>11, <1>6, <1>10 DEF InStep
<1>12. ASSUME NEW c \in Cells(bwd'), NEW k \in 1..m,
              c.cmd = "CIRC_SENDME", c.n = hist'.seen + Times(k)
       PROVE  sendme_auth_expected'[k] = c.auth
  BY <1>12, <1>5, <1>6, <1>10 DEF InStep
<1> QED BY <1>1, <1>6, <1>9, <1>11, <1>12 DEF InStep

\* Every step keeps the digests in step.
LEMMA AuthNext ==
    ASSUME TypeOK, TypeOK', Totals, AuthInv, [Next]_vars
    PROVE  AuthInv'
<1>t. /\ hist \in Hist /\ fwd \in Seq(FwdCell) /\ bwd \in Seq(BwdCell)
      /\ circ_deliver_window \in Int
  BY DEF TypeOK
<1>h. /\ hist.sent \in Nat /\ hist.seen \in Nat /\ hist.rcvd \in Nat /\ hist.credited \in Nat
      /\ hist.errors \in Nat
  BY <1>t, HistType
<1>w. Increment \in Nat \ {0} /\ CircWindow \in Nat  BY WindowAssumption
<1>i. Digests /\ (hist.errors = 0 => InStep)  BY DEF AuthInv
\* A step that leaves the totals alone and adds neither DATA nor circuit SENDMEs.
<1>q. ASSUME inflight' = inflight, sendme_auth_expected' = sendme_auth_expected,
             hist'.sent = hist.sent, hist'.seen = hist.seen, hist'.rcvd = hist.rcvd,
             hist'.credited = hist.credited, hist'.errors = hist.errors,
             circ_deliver_window' = circ_deliver_window,
             \A c \in Cells(fwd') : c.cmd = "DATA" => c \in Cells(fwd),
             \A c \in Cells(bwd') : c.cmd = "CIRC_SENDME" => c \in Cells(bwd),
             Digests'
      PROVE  AuthInv'
  <2>1. InStep => hist'.credited = hist'.rcvd - (CircWindow - circ_deliver_window')
    BY <1>q DEF InStep
  <2>2. InStep => InStep'  BY <1>q, <2>1, InStepKept
  <2> QED BY <1>i, <1>q, <2>2 DEF AuthInv
<1>1. ASSUME NEW s \in Streams, OpenStream(s) \/ CloseStream(s) PROVE AuthInv'
  <2>1. PICK cmd : ForwardCell(cmd, s, hist.sent) /\ cmd # "DATA"
    <3>1. CASE OpenStream(s)
      BY <3>1 DEF OpenStream
    <3>2. CASE CloseStream(s)
      BY <3>2 DEF CloseStream
    <3> QED BY <1>1, <3>1, <3>2
  <2>2. /\ inflight' = inflight /\ sendme_auth_expected' = sendme_auth_expected
        /\ hist' = hist /\ bwd' = bwd /\ circ_deliver_window' = circ_deliver_window
        /\ relay_forward_digest' = relay_forward_digest
    BY <1>1 DEF OpenStream, CloseStream, evars
  <2>3. Digests'  BY <1>i, <2>1, <2>2, DigestsStep
  <2>4. \A c \in Cells(fwd') : c.cmd = "DATA" => c \in Cells(fwd)  BY <2>1, ForwardNoData
  <2> QED BY <2>2, <2>3, <2>4, <1>q
<1>2. ASSUME NEW s \in Streams, SendData(s) PROVE AuthInv'
  <2>1. /\ ForwardCell("DATA", s, hist.sent + 1) /\ relay_forward_digest' = relay_forward_digest
        /\ hist' = [hist EXCEPT !.sent = hist.sent + 1]
    BY <1>2 DEF SendData, evars
  <2>2. Digests'  BY <1>i, <2>1, DigestsStep
  <2>3. hist'.errors = hist.errors  BY <1>t, <2>1, HistErrors
  <2> QED BY <1>2, <1>i, <2>2, <2>3, SendDataInStep DEF AuthInv
<1>3. ASSUME SendOther PROVE AuthInv'
  <2>1. /\ ForwardCell("OTHER", NoStream, hist.sent)
        /\ hist' = [hist EXCEPT !.other = hist.other + 1]
        /\ inflight' = inflight /\ sendme_auth_expected' = sendme_auth_expected
        /\ bwd' = bwd /\ circ_deliver_window' = circ_deliver_window
        /\ relay_forward_digest' = relay_forward_digest
    BY <1>3 DEF SendOther, evars
  <2>2. /\ hist'.sent = hist.sent /\ hist'.seen = hist.seen /\ hist'.rcvd = hist.rcvd
        /\ hist'.credited = hist.credited /\ hist'.errors = hist.errors
    BY <1>t, <2>1, HistFields, HistErrors
  <2>3. Digests'  BY <1>i, <2>1, DigestsStep
  <2>4. \A c \in Cells(fwd') : c.cmd = "DATA" => c \in Cells(fwd)  BY <2>1, ForwardNoData
  <2> QED BY <2>1, <2>2, <2>3, <2>4, <1>q
<1>4. ASSUME NEW s \in Streams, ExitConnectComplete(s) \/ ExitTargetClosed(s) PROVE AuthInv'
  <2>1. PICK cmd \in {"END", "CONNECTED"} : bwd' = Append(bwd, Reply(cmd, s))
    <3>1. CASE ExitConnectComplete(s)
      BY <3>1 DEF ExitConnectComplete
    <3>2. CASE ExitTargetClosed(s)
      BY <3>2 DEF ExitTargetClosed
    <3> QED BY <1>4, <3>1, <3>2
  <2>2. /\ inflight' = inflight /\ sendme_auth_expected' = sendme_auth_expected
        /\ hist' = hist /\ fwd' = fwd /\ circ_deliver_window' = circ_deliver_window
        /\ relay_forward_digest' = relay_forward_digest /\ forward_digest' = forward_digest
    BY <1>4 DEF ExitConnectComplete, ExitTargetClosed, cvars
  <2>3. Digests'  BY <1>i, <2>2, DigestsStep
  <2>4. \A c \in Cells(bwd') : c.cmd = "CIRC_SENDME" => c \in Cells(bwd)
    BY <2>1, ReplyNoCircAck
  <2> QED BY <2>2, <2>3, <2>4, <1>q
\* A cell that is not DATA is taken.
<1>u. ASSUME NEW cmd, cmd # "DATA", ExitTakes(cmd), UNCHANGED cvars,
             circ_deliver_window' = circ_deliver_window,
             hist' = [hist EXCEPT !.rcvd = Head(fwd).n],
             \A c \in Cells(bwd') : c.cmd = "CIRC_SENDME" => c \in Cells(bwd)
      PROVE  AuthInv'
  <2>1. Head(fwd).n = hist.rcvd  BY <1>u, <1>h, ExitTakesChain
  <2>2. /\ hist'.sent = hist.sent /\ hist'.seen = hist.seen /\ hist'.rcvd = hist.rcvd
        /\ hist'.credited = hist.credited /\ hist'.errors = hist.errors
    BY <1>t, <1>u, <2>1, HistFields, HistErrors
  <2>3. /\ inflight' = inflight /\ sendme_auth_expected' = sendme_auth_expected
        /\ forward_digest' = forward_digest
    BY <1>u DEF cvars
  <2>4. Digests'  BY <1>i, <1>u, <2>3, DigestsStep
  <2>5. Cells(fwd') \subseteq Cells(fwd)  BY <1>u, ExitTakesCells
  <2> QED BY <1>u, <2>2, <2>3, <2>4, <2>5, <1>q
<1>5. ASSUME ExitBegin PROVE AuthInv'
  <2>1. /\ ExitTakes("BEGIN") /\ hist' = [hist EXCEPT !.rcvd = Head(fwd).n]
        /\ UNCHANGED cvars /\ circ_deliver_window' = circ_deliver_window
    BY <1>5 DEF ExitBegin
  <2>2. Head(fwd).sid \in Streams  BY <2>1, <1>t, FwdHeadType DEF ExitTakes
  <2>3. \/ bwd' = bwd
        \/ \E cmd \in {"END", "CONNECTED"} : bwd' = Append(bwd, Reply(cmd, Head(fwd).sid))
    BY <1>5 DEF ExitBegin
  <2>4. \A c \in Cells(bwd') : c.cmd = "CIRC_SENDME" => c \in Cells(bwd)
    BY <2>2, <2>3, ReplyNoCircAck
  <2> QED BY <2>1, <2>4, <1>u
<1>6. ASSUME ExitEnd PROVE AuthInv'
  <2>1. /\ ExitTakes("END") /\ hist' = [hist EXCEPT !.rcvd = Head(fwd).n]
        /\ UNCHANGED cvars /\ circ_deliver_window' = circ_deliver_window /\ bwd' = bwd
    BY <1>6 DEF ExitEnd
  <2> QED BY <2>1, <1>u
<1>7. ASSUME ExitOther PROVE AuthInv'
  <2>1. /\ ExitTakes("OTHER") /\ hist' = [hist EXCEPT !.rcvd = Head(fwd).n]
        /\ UNCHANGED cvars /\ circ_deliver_window' = circ_deliver_window /\ bwd' = bwd
    BY <1>7 DEF ExitOther
  <2> QED BY <2>1, <1>u
\* A DATA cell is counted.
<1>v. ASSUME NEW known \in BOOLEAN, NEW sw \in Int, NEW x \in {"none", "XOFF", "XON"},
             ExitTakes("DATA"), UNCHANGED cvars,
             SendmeCheck(Head(fwd).sid, known, circ_deliver_window - 1, sw, x)
      PROVE  AuthInv'
  <2>1. forward_digest' = forward_digest  BY <1>v DEF cvars
  <2>2. Digests'  BY <1>i, <1>v, <2>1, DigestsStep
  <2>3. hist'.errors = hist.errors
    <3>1. Head(fwd).sid \in Streams /\ Head(fwd).n \in Nat
      BY <1>v, <1>t, FwdHeadType DEF ExitTakes
    <3>2. PICK cw \in Int : cw = circ_deliver_window - 1  BY <1>t
    <3>3. SendmeCheck(Head(fwd).sid, known, cw, sw, x)  BY <1>v, <3>2
    <3> QED BY <1>v, <3>1, <3>3, SendmeCheckAck
  <2>4. InStep => InStep'  BY <1>i, <1>v, CountedInStep
  <2> QED BY <1>i, <2>2, <2>3, <2>4 DEF AuthInv
<1>8. ASSUME ExitDataUnknown PROVE AuthInv'
  <2>1. /\ ExitTakes("DATA") /\ UNCHANGED cvars
        /\ SendmeCheck(Head(fwd).sid, FALSE, circ_deliver_window - 1, 0, "none")
    BY <1>8 DEF ExitDataUnknown
  <2>2. FALSE \in BOOLEAN /\ 0 \in Int /\ "none" \in {"none", "XOFF", "XON"}  OBVIOUS
  <2> QED BY <2>1, <2>2, <1>v
<1>9. ASSUME ExitDataDropped PROVE AuthInv'
  <2> DEFINE s == Head(fwd).sid
             ex == /\ estreams[s].st = "connected"
                   /\ circ_deliver_window <= 0 \/ estreams[s].del <= 0
             sw == Decrement(estreams[s].del, ex, StreamWindow)
  <2>1. /\ ExitTakes("DATA") /\ UNCHANGED cvars
        /\ SendmeCheck(s, TRUE, Decrement(circ_deliver_window, ex, CircWindow),
                       sw, "none")
    BY <1>9 DEF ExitDataDropped
  <2>2. s \in Streams  BY <2>1, <1>t, FwdHeadType DEF ExitTakes
  <2>3. sw \in Int
    <3>1. estreams[s].del \in Int  BY <2>2 DEF TypeOK, EStream
    <3> HIDE DEF s, ex
    <3> QED BY <3>1 DEF Decrement
  <2>4. Decrement(circ_deliver_window, ex, CircWindow) = circ_deliver_window - 1
    <3>1. ~(circ_deliver_window <= -CircWindow)
      BY <1>t, <1>w, WindowAssumption DEF Totals, Windows
    <3> HIDE DEF ex
    <3> QED BY <3>1 DEF Decrement
  <2> QED
    <3> HIDE DEF s, ex, sw
    <3>1. SendmeCheck(s, TRUE, circ_deliver_window - 1, sw, "none")  BY <2>1, <2>4
    <3>2. SendmeCheck(Head(fwd).sid, TRUE, circ_deliver_window - 1, sw, "none")  BY <3>1 DEF s
    <3>3. ExitTakes("DATA") /\ UNCHANGED cvars  BY <2>1
    <3> QED BY <3>2, <3>3, <2>3, <1>v
<1>10. ASSUME ExitDataDelivered PROVE AuthInv'
  <2> DEFINE s == Head(fwd).sid
             sw == estreams[s].del - 1
  <2>1. ExitTakes("DATA") /\ UNCHANGED cvars  BY <1>10 DEF ExitDataDelivered
  <2>2. PICK x \in {"none", "XOFF", "XON"} :
          SendmeCheck(s, TRUE, circ_deliver_window - 1, sw, x)
    BY <1>10 DEF ExitDataDelivered
  <2>3. sw \in Int
    <3>1. s \in Streams  BY <2>1, <1>t, FwdHeadType DEF ExitTakes
    <3>2. estreams[s].del \in Int  BY <3>1 DEF TypeOK, EStream
    <3> HIDE DEF s
    <3> QED BY <3>2
  <2> HIDE DEF sw
  <2> QED BY <2>1, <2>2, <2>3, <1>v
\* A failed write is the one step that is not counted.
<1>11. ASSUME ExitDataError PROVE AuthInv'
  <2>1. /\ ExitTakes("DATA") /\ UNCHANGED cvars
        /\ hist' = [hist EXCEPT !.rcvd = Head(fwd).n, !.errors = hist.errors + 1]
    BY <1>11 DEF ExitDataError
  <2>2. forward_digest' = forward_digest  BY <2>1 DEF cvars
  <2>3. Digests'  BY <1>i, <2>1, <2>2, DigestsStep
  <2>4. hist'.errors = hist.errors + 1  BY <1>t, <2>1, HistErrors
  <2> QED BY <1>h, <2>3, <2>4 DEF AuthInv
\* The client takes a cell: the totals change with a circuit SENDME only.
<1>d. ASSUME NEW cmds, ClientTakes(cmds)
      PROVE  /\ hist'.errors = hist.errors /\ Cells(bwd') \subseteq Cells(bwd)
             /\ "CIRC_SENDME" \notin cmds =>
                  /\ hist'.sent = hist.sent /\ hist'.seen = hist.seen
                  /\ hist'.rcvd = hist.rcvd /\ hist'.credited = hist.credited
  <2>1. /\ bwd # <<>> /\ bwd' = Tail(bwd) /\ Head(bwd).cmd \in cmds
        /\ hist' = [hist EXCEPT !.seen = Head(bwd).n]
    BY <1>d DEF ClientTakes
  <2>2. /\ hist'.seen = Head(bwd).n /\ hist'.sent = hist.sent /\ hist'.rcvd = hist.rcvd
        /\ hist'.credited = hist.credited /\ hist'.errors = hist.errors
    BY <1>t, <2>1, HistFields, HistErrors
  <2>3. Chain(bwd, "CIRC_SENDME", Increment, hist.seen, hist.credited)  BY DEF Totals, BwdChain
  <2>4. Head(bwd).n = hist.seen + Weight(Head(bwd), "CIRC_SENDME", Increment)
    BY <2>1, <2>3, <1>t, <1>h, <1>w, ChainTail, CellN
  <2>5. "CIRC_SENDME" \notin cmds => Head(bwd).n = hist.seen  BY <2>1, <2>4, <1>h DEF Weight
  <2>6. Cells(bwd') \subseteq Cells(bwd)  BY <1>t, <2>1, CellsTail
  <2> QED BY <2>2, <2>5, <2>6
<1>12. ASSUME ClientCircSendme PROVE AuthInv'
  <2>1. /\ ClientTakes({"CIRC_SENDME"}) /\ fwd' = fwd /\ forward_digest' = forward_digest
        /\ relay_forward_digest' = relay_forward_digest
    BY <1>12 DEF ClientCircSendme, evars
  <2>2. Digests'  BY <1>i, <2>1, DigestsStep
  <2>3. hist'.errors = hist.errors  BY <2>1, <1>d
  <2> QED BY <1>12, <1>i, <2>2, <2>3, CircSendmeInStep DEF AuthInv
<1>13. ASSUME ClientCircSendmeRejected PROVE AuthInv'
  <2>1. /\ ClientTakes({"CIRC_SENDME"}) /\ ~SendmeVerifies(Head(bwd).auth)
        /\ fwd' = fwd /\ forward_digest' = forward_digest
        /\ relay_forward_digest' = relay_forward_digest
    BY <1>13 DEF ClientCircSendmeRejected, cvars, evars
  <2>2. Digests'  BY <1>i, <2>1, DigestsStep
  <2>3. hist'.errors = hist.errors  BY <2>1, <1>d
  <2>4. ~InStep  BY <2>1, OldestVerifies
  <2> QED BY <1>i, <2>2, <2>3, <2>4 DEF AuthInv
<1>14. ASSUME ClientStreamSendme \/ ClientEnd \/ ClientPauseResume PROVE AuthInv'
  <2>1. PICK cmds : ClientTakes(cmds) /\ "CIRC_SENDME" \notin cmds
    <3>1. CASE ClientStreamSendme
      BY <3>1 DEF ClientStreamSendme
    <3>2. CASE ClientEnd
      BY <3>2 DEF ClientEnd
    <3>3. CASE ClientPauseResume
      BY <3>3 DEF ClientPauseResume
    <3> QED BY <1>14, <3>1, <3>2, <3>3
  <2>2. /\ inflight' = inflight /\ sendme_auth_expected' = sendme_auth_expected
        /\ fwd' = fwd /\ circ_deliver_window' = circ_deliver_window
        /\ relay_forward_digest' = relay_forward_digest /\ forward_digest' = forward_digest
    BY <1>14 DEF ClientStreamSendme, ClientEnd, ClientPauseResume, cvars, evars
  <2>3. Digests'  BY <1>i, <2>2, DigestsStep
  <2> QED BY <2>1, <2>2, <2>3, <1>d, <1>q
<1>15. CASE UNCHANGED vars
  <2>1. /\ inflight' = inflight /\ sendme_auth_expected' = sendme_auth_expected
        /\ fwd' = fwd /\ bwd' = bwd /\ hist' = hist /\ circ_deliver_window' = circ_deliver_window
        /\ relay_forward_digest' = relay_forward_digest /\ forward_digest' = forward_digest
    BY <1>15 DEF vars, cvars, evars
  <2>2. Digests'  BY <1>i, <2>1, DigestsStep
  <2> QED BY <2>1, <2>2, <1>q
<1> QED
  BY <1>1, <1>2, <1>3, <1>4, <1>5, <1>6, <1>7, <1>8, <1>9, <1>10, <1>11,
     <1>12, <1>13, <1>14, <1>15 DEF Next, ExitCell, ClientCell

\* A nonempty set of naturals has a least element.
LEMMA NatMin ==
    ASSUME NEW T \in SUBSET Nat, T # {}
    PROVE  \E x \in T : \A y \in T : x <= y
<1> DEFINE R == {ss \in Nat \X Nat : ss[1] < ss[2]}
<1>0. IsWellFoundedOn(R, Nat)  BY NatLessThanWellFounded, Zenon DEF OpToRel
<1> HIDE DEF R
<1>1. PICK x \in T : \A y \in T : ~(<<y, x>> \in R)  BY <1>0, WFMin
<1>2. \A y \in T : ~(y < x)  BY <1>1 DEF R
<1> QED BY <1>2

\* The circuit SENDMEs among the first i cells of a queue.
Acks(q, i) == {j \in 1..i : q[j].cmd = "CIRC_SENDME"}

\* In a chain the history value counts them.
LEMMA ChainCounts ==
    ASSUME NEW q \in Seq(BwdCell), NEW lo \in Nat, NEW hi \in Nat,
           Chain(q, "CIRC_SENDME", Increment, lo, hi), NEW i \in 1..Len(q)
    PROVE  Cardinality(Acks(q, i)) \in Nat /\ q[i].n = lo + Times(Cardinality(Acks(q, i)))
<1>w. Increment \in Nat  BY WindowAssumption
<1> DEFINE Good(m) == Cardinality(Acks(q, m)) \in Nat
                      /\ q[m].n = lo + Times(Cardinality(Acks(q, m)))
           T == {m \in 1..Len(q) : ~Good(m)}
<1>1. PICK n \in Nat : n = Len(q)  OBVIOUS
<1>2. \A m \in Nat : IsFiniteSet(Acks(q, m)) /\ Cardinality(Acks(q, m)) \in Nat
  <2> TAKE m \in Nat
  <2>1. Acks(q, m) \in SUBSET (1..m) /\ IsFiniteSet(1..m)  BY FS_Interval DEF Acks
  <2> QED BY <2>1, FS_Subset, FS_CardinalityType
<1>3. ASSUME NEW m \in 1..n, m = 1 \/ Good(m - 1) PROVE Good(m)
  <2>1. PICK p \in Nat : p = m - 1 /\ m = p + 1 /\ m \in Nat  OBVIOUS
  <2>2. Acks(q, m) = Acks(q, p) \cup (IF q[m].cmd = "CIRC_SENDME" THEN {m} ELSE {})
    <3>1. 1..m = (1..p) \cup {m}  BY <2>1
    <3> QED BY <3>1 DEF Acks
  <2>3. m \notin Acks(q, p)  BY <2>1 DEF Acks
  <2>4. PICK k \in Nat : k = Cardinality(Acks(q, p)) /\ IsFiniteSet(Acks(q, p))  BY <1>2, <2>1
  <2>5. (IF m = 1 THEN lo ELSE q[m-1].n) = lo + Times(k)
    <3>1. CASE m = 1
      <4>1. p = 0  BY <2>1, <3>1
      <4>2. Acks(q, p) = {}  BY <4>1 DEF Acks
      <4>3. k = 0 /\ Times(0) = 0  BY <2>4, <4>2, FS_EmptySet, TimesStep
      <4> QED BY <3>1, <4>3
    <3>2. CASE m # 1
      <4>1. Good(m - 1)  BY <1>3, <3>2
      <4> QED BY <2>1, <2>4, <3>2, <4>1
    <3> QED BY <3>1, <3>2
  <2>6. q[m].n = (lo + Times(k)) + Weight(q[m], "CIRC_SENDME", Increment)
    BY <1>1, <2>5 DEF Chain
  <2>7. Times(k) \in Nat /\ Times(k + 1) = Times(k) + Increment  BY TimesStep
  <2>8. CASE q[m].cmd = "CIRC_SENDME"
    <3>1. Cardinality(Acks(q, m)) = k + 1
      <4>1. Acks(q, m) = Acks(q, p) \cup {m}  BY <2>2, <2>8
      <4> QED BY <4>1, <2>3, <2>4, FS_AddElement
    <3>2. q[m].n = lo + Times(k + 1)  BY <1>w, <2>6, <2>7, <2>8 DEF Weight
    <3> QED BY <3>1, <3>2
  <2>9. CASE q[m].cmd # "CIRC_SENDME"
    <3>1. Acks(q, m) = Acks(q, p)  BY <2>2, <2>9
    <3>2. q[m].n = lo + Times(k)  BY <2>6, <2>7, <2>9 DEF Weight
    <3> QED BY <2>4, <3>1, <3>2
  <2> QED BY <2>8, <2>9
<1> HIDE DEF Good
<1>4. T = {}
  <2> SUFFICES ASSUME T # {} PROVE FALSE
    OBVIOUS
  <2>1. T \in SUBSET Nat  OBVIOUS
  <2>2. PICK m \in T : \A y \in T : m <= y  BY <2>1, NatMin
  <2>3. m \in 1..n /\ ~Good(m)  BY <1>1, <2>2
  <2>4. m # 1 => m - 1 \in 1..n /\ m - 1 \notin T  BY <2>2, <2>3
  <2>5. m = 1 \/ Good(m - 1)  BY <1>1, <2>4
  <2> QED BY <1>3, <2>3, <2>5
<1>5. Good(i)  BY <1>4
<1> QED BY <1>5 DEF Good

\* In step means that every circuit SENDME in flight will be accepted.
LEMMA InStepVerifies ==
    ASSUME TypeOK, Totals, InStep
    PROVE  SendmeAuthInSync
<1>t. bwd \in Seq(BwdCell) /\ hist \in Hist /\ sendme_auth_expected \in Seq(Nat)  BY DEF TypeOK
<1>n. inflight \in Nat /\ circ_deliver_window \in Int  BY DEF TypeOK
<1>w. Increment \in Nat \ {0} /\ CircWindow \in Nat  BY WindowAssumption
<1>h. hist.sent \in Nat /\ hist.seen \in Nat /\ hist.rcvd \in Nat /\ hist.credited \in Nat
  BY <1>t, HistType
<1>c. Chain(bwd, "CIRC_SENDME", Increment, hist.seen, hist.credited)  BY DEF Totals, BwdChain
<1>1. hist.credited <= hist.rcvd /\ hist.rcvd <= hist.sent
  BY <1>n, <1>w, <1>h DEF Totals, Windows, FwdChain, Chain
<1> SUFFICES ASSUME NEW i \in 1..Len(bwd), bwd[i].cmd = "CIRC_SENDME"
             PROVE  LET k == Cardinality(Acks(bwd, i))
                    IN  k <= Len(sendme_auth_expected) /\ bwd[i].auth = sendme_auth_expected[k]
  BY DEF SendmeAuthInSync, Acks
<1>2. PICK k \in Nat : k = Cardinality(Acks(bwd, i)) /\ bwd[i].n = hist.seen + Times(k)
  BY <1>t, <1>h, <1>c, ChainCounts
<1>3. k # 0
  <2>1. i \in Acks(bwd, i)  BY DEF Acks
  <2>2. Acks(bwd, i) \in SUBSET (1..i) /\ IsFiniteSet(1..i)  BY FS_Interval DEF Acks
  <2>3. IsFiniteSet(Acks(bwd, i))  BY <2>2, FS_Subset
  <2> QED BY <1>2, <2>1, <2>3, FS_EmptySet
<1>4. PICK L \in Nat : L = Len(sendme_auth_expected)  BY <1>t
<1>5. inflight = hist.sent - hist.seen /\ inflight < Times(L) + Increment  BY <1>4 DEF InStep
<1>6. bwd[i] \in Cells(bwd) /\ bwd[i].n <= hist.credited
  <2>1. bwd[i] \in Cells(bwd)  BY DEF Cells
  <2> QED BY <1>t, <1>c, <2>1, ChainBound
<1>7. Times(k) \in Nat /\ Times(L) \in Nat  BY TimesStep
<1>8. Times(k) <= inflight  BY <1>1, <1>2, <1>5, <1>6, <1>7, <1>h
<1>9. ~(L < k)
  <2> SUFFICES ASSUME L < k PROVE FALSE
    OBVIOUS
  <2>1. Times(L) + Increment <= Times(k)  BY TimesOrder
  <2> QED BY <2>1, <1>5, <1>7, <1>8, <1>n, <1>w
<1>10. k \in 1..L  BY <1>3, <1>9
<1>11. sendme_auth_expected[k] = bwd[i].auth  BY <1>2, <1>4, <1>6, <1>10 DEF InStep
<1> QED BY <1>2, <1>4, <1>10, <1>11

\* What a client sends within its windows is not dropped at the exit for want
\* of window, and until a write to a target fails every circuit SENDME carries
\* the digest the client expects (the exit's DATA handler, sendme_check and
\* moor_circuit_handle_sendme).
THEOREM NothingIsRefused == SafeSpec => []NothingRefused
<1> DEFINE Inv == TypeOK /\ Totals /\ StreamsInv /\ AuthInv
<1>1. Init => Inv  BY TypeInit, TotalsInit, StreamsInit, AuthInit
<1>2. Inv /\ [Next]_vars => Inv'  BY TypeNext, TotalsNext, StreamsNext, AuthNext
<1>3. Inv => NothingRefused
  <2> SUFFICES ASSUME TypeOK, Totals, StreamsInv, AuthInv PROVE NothingRefused
    OBVIOUS
  <2>1. circ_deliver_window > CircWindow - Increment
    <3>1. circ_deliver_window \in Int /\ CircWindow \in Nat /\ Increment \in Nat
      BY WindowAssumption DEF TypeOK
    <3> QED BY <3>1 DEF Totals, Windows
  <2>2. ASSUME NEW s \in Streams, estreams[s].st # "none" PROVE estreams[s].del > 0
    <3>1. estreams[s].del \in Int /\ StreamWindow - Increment < estreams[s].del
      BY <2>2, SlotTypes DEF StreamsInv, StreamInv
    <3>2. StreamWindow \in Nat /\ Increment \in Nat /\ Increment <= StreamWindow
      BY WindowAssumption
    <3> QED BY <3>1, <3>2
  <2>3. InSyncUntilError  BY InStepVerifies DEF InSyncUntilError, AuthInv
  <2> QED BY <2>1, <2>2, <2>3 DEF NothingRefused, NoWindowDrop
<1> QED BY <1>1, <1>2, <1>3, PTL DEF SafeSpec
=============================================================================
