----------------------------- MODULE FlowProofs -----------------------------
(***************************************************************************)
(* Proofs about the flow from exit to client (SendmeBackward) and from     *)
(* application to target (StreamPump), as MCFlow runs them, for every      *)
(* number of streams, every window size and every bound.                   *)
(*                                                                         *)
(* Exit to client.                                                         *)
(* A SENDME is right if the digest it carries is the one the exit recorded *)
(* for the same cell, and the exit recorded it when the cell was sent: the *)
(* inductive invariant says, for every DATA cell still in flight, which    *)
(* entry of the FIFO is its digest.  It finds the entry by counting: the   *)
(* circuit SENDMEs in flight, the cells the client has counted since the   *)
(* last of them, and the DATA cells before this one.                       *)
(*                                                                         *)
(* Application to target.  A retry empties sendbuf after a partial send    *)
(* too, and nothing in the code says that a partial send cannot happen.    *)
(* For a stream alone on its circuit it cannot: the two windows fall       *)
(* together, their SENDMEs come in pairs, the circuit's first, and what is *)
(* kept waits for the stream's, which pays for one whole read.  The        *)
(* inductive invariant says so, beside what is conserved in any case:      *)
(* credit, and the one place each cell can be in.                          *)
(***************************************************************************)
EXTENDS MCFlow, FiniteSetTheorems, SequenceTheorems, TLAPS

-----------------------------------------------------------------------------
(* Counting the cells of a queue.                                          *)

\* How many of the first i cells of q are in C, and how many of all.
Rank(q, C, i) == Cardinality({j \in 1..i : q[j] \in C})
Count(q, C) == Rank(q, C, Len(q))

\* Ranks are natural numbers, at least 1 at a cell of C, and do not fall.
LEMMA RankType ==
    ASSUME NEW q, NEW C, NEW i \in Nat
    PROVE  /\ Rank(q, C, i) \in Nat
           /\ i \in 1..i /\ q[i] \in C => Rank(q, C, i) >= 1
           /\ \A h \in 0..i : Rank(q, C, h) \in Nat /\ Rank(q, C, h) <= Rank(q, C, i)
<1> DEFINE S(k) == {j \in 1..k : q[j] \in C}
<1>1. \A k \in Nat : IsFiniteSet(S(k))
  <2> TAKE k \in Nat
  <2>1. S(k) \in SUBSET (1..k) /\ IsFiniteSet(1..k)  BY FS_Interval
  <2> QED BY <2>1, FS_Subset
<1>2. \A k \in Nat : Cardinality(S(k)) \in Nat  BY <1>1, FS_CardinalityType
<1>3. ASSUME i \in 1..i, q[i] \in C PROVE Cardinality(S(i)) >= 1
  <2>1. i \in S(i)  BY <1>3
  <2>2. S(i) # {}  BY <2>1
  <2>3. Cardinality(S(i)) # 0  BY <1>1, <2>2, FS_EmptySet
  <2> QED BY <1>2, <2>3
<1>4. \A h \in 0..i : Cardinality(S(h)) <= Cardinality(S(i))
  <2> TAKE h \in 0..i
  <2>1. h \in Nat /\ \A j \in 1..h : j \in 1..i  OBVIOUS
  <2>2. S(h) \in SUBSET S(i)  BY <2>1
  <2> QED BY <1>1, <2>2, FS_Subset
<1> HIDE DEF S
<1>5. \A h \in 0..i : h \in Nat  OBVIOUS
<1> QED BY <1>2, <1>3, <1>4, <1>5 DEF Rank, S

\* Appending a cell.
LEMMA RankAppend ==
    ASSUME NEW S, NEW q \in Seq(S), NEW c \in S, NEW C
    PROVE  /\ Count(q, C) \in Nat
           /\ \A i \in 0..Len(q) : Rank(Append(q, c), C, i) = Rank(q, C, i)
           /\ Count(Append(q, c), C) = Count(q, C) + (IF c \in C THEN 1 ELSE 0)
<1>1. PICK r \in Seq(S) :
        /\ r = Append(q, c) /\ Len(r) = Len(q) + 1 /\ Len(q) \in Nat
        /\ \A i \in 1..Len(q) : r[i] = q[i]
        /\ r[Len(q) + 1] = c
  <2>1. /\ Append(q, c) \in Seq(S) /\ Len(Append(q, c)) = Len(q) + 1 /\ Len(q) \in Nat
        /\ \A i \in 1..Len(q) : Append(q, c)[i] = q[i]
        /\ Append(q, c)[Len(q) + 1] = c
    OBVIOUS
  <2> QED BY <2>1
<1>2. PICK n \in Nat : n = Len(q)  OBVIOUS
<1>3. 1..(n + 1) = (1..n) \cup {n + 1} /\ n + 1 \notin 1..n  OBVIOUS
<1>4. \A i \in 0..n : Rank(r, C, i) = Rank(q, C, i)
  <2> TAKE i \in 0..n
  <2>1. \A j \in 1..i : j \in 1..n  OBVIOUS
  <2>2. {j \in 1..i : r[j] \in C} = {j \in 1..i : q[j] \in C}  BY <1>1, <1>2, <2>1
  <2> QED BY <2>2 DEF Rank
<1> DEFINE P == {j \in 1..n : q[j] \in C}
<1>5. {j \in 1..(n + 1) : r[j] \in C} = P \cup (IF c \in C THEN {n + 1} ELSE {})
  BY <1>1, <1>2, <1>3
<1>6. n + 1 \notin P  BY <1>3
<1>7. IsFiniteSet(P) /\ Cardinality(P) \in Nat
  <2>1. P \in SUBSET (1..n) /\ IsFiniteSet(1..n)  BY FS_Interval
  <2> QED BY <2>1, FS_Subset, FS_CardinalityType
<1>8. Rank(r, C, n + 1) = Cardinality(P) + (IF c \in C THEN 1 ELSE 0)
  <2> HIDE DEF P
  <2>1. CASE c \in C
    BY <1>5, <1>6, <1>7, <2>1, FS_AddElement DEF Rank
  <2>2. CASE c \notin C
    <3>1. {j \in 1..(n + 1) : r[j] \in C} = P  BY <1>5, <2>2
    <3>2. Rank(r, C, n + 1) = Cardinality(P)  BY <3>1 DEF Rank
    <3> QED BY <1>7, <2>2, <3>2
  <2> QED BY <2>1, <2>2
<1>9. Count(q, C) = Cardinality(P)  BY <1>2 DEF Count, Rank
<1>10. Count(r, C) = Rank(r, C, n + 1)  BY <1>1, <1>2 DEF Count
<1> HIDE DEF P
<1> QED BY <1>1, <1>2, <1>4, <1>7, <1>8, <1>9, <1>10

\* Taking the first cell.
LEMMA RankTail ==
    ASSUME NEW S, NEW q \in Seq(S), q # <<>>, NEW C
    PROVE  /\ Len(Tail(q)) \in Nat /\ Len(q) = Len(Tail(q)) + 1
           /\ \A i \in 0..Len(Tail(q)) :
                /\ Rank(Tail(q), C, i) \in Nat
                /\ Rank(q, C, i + 1) = Rank(Tail(q), C, i) + (IF Head(q) \in C THEN 1 ELSE 0)
           /\ Count(Tail(q), C) \in Nat
           /\ Count(q, C) = Count(Tail(q), C) + (IF Head(q) \in C THEN 1 ELSE 0)
<1>1. PICK r \in Seq(S) :
        /\ r = Tail(q) /\ Len(q) = Len(r) + 1 /\ Len(r) \in Nat
        /\ \A i \in 1..Len(r) : r[i] = q[i + 1]
        /\ Head(q) = q[1]
  <2>1. /\ Tail(q) \in Seq(S) /\ Len(q) = Len(Tail(q)) + 1 /\ Len(Tail(q)) \in Nat
        /\ \A i \in 1..Len(Tail(q)) : Tail(q)[i] = q[i + 1]
        /\ Head(q) = q[1]
    OBVIOUS
  <2> QED BY <2>1
<1>2. ASSUME NEW n \in Nat, n <= Len(r)
      PROVE  /\ Rank(r, C, n) \in Nat
             /\ Rank(q, C, n + 1) = Rank(r, C, n) + (IF Head(q) \in C THEN 1 ELSE 0)
  <2> DEFINE P == {j \in 1..n : r[j] \in C}
             Q == {j \in 1..(n + 1) : q[j] \in C}
             f == [i \in P |-> i + 1]
  <2>1. /\ \A i \in 1..n : i + 1 \in 1..(n + 1) /\ i + 1 # 1 /\ i \in 1..Len(r)
        /\ \A j \in 1..(n + 1) : j # 1 => j - 1 \in 1..n /\ (j - 1) + 1 = j
        /\ 1 \in 1..(n + 1)
    BY <1>1, <1>2
  <2>2. IsFiniteSet(P) /\ IsFiniteSet(Q)
    <3>1. P \in SUBSET (1..n) /\ IsFiniteSet(1..n)  BY FS_Interval
    <3>2. Q \in SUBSET (1..(n + 1)) /\ IsFiniteSet(1..(n + 1))  BY FS_Interval
    <3> QED BY <3>1, <3>2, FS_Subset
  <2>3. \A i \in P : i \in 1..n /\ i + 1 \in Q \ {1}  BY <1>1, <2>1
  <2>4. \A j \in Q \ {1} : j - 1 \in P /\ (j - 1) + 1 = j
    <3> TAKE j \in Q \ {1}
    <3>1. j \in 1..(n + 1) /\ j # 1 /\ q[j] \in C  OBVIOUS
    <3>2. j - 1 \in 1..n /\ (j - 1) + 1 = j  BY <2>1, <3>1
    <3>3. r[j - 1] = q[j]  BY <1>1, <2>1, <3>2
    <3> QED BY <3>1, <3>2, <3>3
  <2>5. f \in Bijection(P, Q \ {1})
    <3> HIDE DEF P, Q
    <3>1. f \in [P -> Q \ {1}]  BY <2>3
    <3>2. \A a, b \in P : f[a] = f[b] => a = b  BY <2>3
    <3>3. \A j \in Q \ {1} : \E a \in P : f[a] = j  BY <2>4
    <3> HIDE DEF f
    <3> QED BY <3>1, <3>2, <3>3 DEF Bijection, Injection, Surjection, IsInjective
  <2>6. 1 \in Q <=> Head(q) \in C  BY <1>1, <2>1
  <2>7. Rank(r, C, n) = Cardinality(P) /\ Rank(q, C, n + 1) = Cardinality(Q)  BY DEF Rank
  <2> HIDE DEF P, Q, f
  <2>8. Cardinality(P) = Cardinality(Q \ {1})
    <3>1. ExistsBijection(P, Q \ {1})  BY <2>5 DEF ExistsBijection
    <3> QED BY <2>2, <3>1, FS_Bijection
  <2>9. Cardinality(Q \ {1}) = IF 1 \in Q THEN Cardinality(Q) - 1 ELSE Cardinality(Q)
    BY <2>2, FS_RemoveElement
  <2>10. Cardinality(P) \in Nat /\ Cardinality(Q) \in Nat  BY <2>2, FS_CardinalityType
  <2> QED BY <2>6, <2>7, <2>8, <2>9, <2>10
<1>3. \A i \in 0..Len(r) : i \in Nat /\ i <= Len(r)  BY <1>1
<1>4. \A i \in 0..Len(r) : /\ Rank(r, C, i) \in Nat
                           /\ Rank(q, C, i + 1) = Rank(r, C, i) + (IF Head(q) \in C THEN 1 ELSE 0)
  BY <1>2, <1>3
<1>5. Count(r, C) = Rank(r, C, Len(r)) /\ Count(q, C) = Rank(q, C, Len(r) + 1)
  BY <1>1 DEF Count
<1>6. /\ Count(r, C) \in Nat
      /\ Count(q, C) = Count(r, C) + (IF Head(q) \in C THEN 1 ELSE 0)
  BY <1>1, <1>2, <1>5
<1> QED BY <1>1, <1>4, <1>6

-----------------------------------------------------------------------------
(* The inductive invariant.                                                *)

\* k increments.
Times(k) == k * Increment

DataCells  == {c \in BwdCell : c.cmd = "DATA"}
CircAcks   == {c \in FwdCell : c.cmd = "CIRC_SENDME"}
DataOf(s)  == {c \in BwdCell : c.cmd = "DATA" /\ c.sid = s}
BeginOf(s) == {c \in FwdCell : c.cmd = "BEGIN" /\ c.sid = s}
AcksOf(s)  == {c \in FwdCell : c.cmd = "SENDME" /\ c.sid = s}

\* What the client has counted since its last circuit SENDME.
Counted == CircWindow - circ_deliver_window

\* The windows of the circuit and what is in flight make up the window, and
\* the FIFO has an entry for every increment that the exit has used.
CircCredit ==
    /\ Counted \in 0..Increment - 1
    /\ circ_package_window + Count(bwd, DataCells) + Counted
         + Times(Count(fwd, CircAcks)) = CircWindow
    /\ circ_package_window + sendme_auth_cells_sent + Times(Len(sendme_auth_expected))
         = CircWindow

\* The exit is ahead of the client by the cells in flight.
Digests == relay_backward_digest = backward_digest + Len(bwd)

\* The circuit SENDMEs in flight carry the first digests of the FIFO.
AcksMatch ==
    \A i \in 1..Len(fwd) : fwd[i] \in CircAcks =>
      LET k == Rank(fwd, CircAcks, i)
      IN  k <= Len(sendme_auth_expected) /\ fwd[i].auth = sendme_auth_expected[k]

\* The k-th entry is the digest of the DATA cell that completes the increment.
DataMatch ==
    \A i \in 1..Len(bwd), k \in 1..Len(sendme_auth_expected) :
      bwd[i] \in DataCells
        /\ Times(k) = Times(Count(fwd, CircAcks)) + Counted + Rank(bwd, DataCells, i)
      => sendme_auth_expected[k] = backward_digest + i

CircInv == CircCredit /\ Digests /\ AcksMatch /\ DataMatch

\* One stream: its state and window at the client (cst, del) and at the exit
\* (est, pkg), and its BEGINs, SENDMEs and DATA cells in flight.
Slot(cst, del, est, pkg, b, a, d) ==
    /\ b \in Nat /\ a \in Nat /\ d \in Nat
    /\ cst = "unused" => est = "none" /\ b = 0 /\ a = 0 /\ d = 0
    /\ b # 0 => /\ b = 1 /\ est = "none" /\ a = 0 /\ d = 0
                /\ cst = "open" => del = StreamWindow
    /\ cst = "open" => StreamWindow - Increment < del /\ del <= StreamWindow
    /\ cst = "open" /\ est # "none" =>
         pkg + d + (StreamWindow - del) + Times(a) = StreamWindow

StreamInv(s) ==
    Slot(cstreams[s].st, cstreams[s].del, estreams[s].st, estreams[s].pkg,
         Count(fwd, BeginOf(s)), Count(fwd, AcksOf(s)), Count(bwd, DataOf(s)))

StreamsInv == \A s \in Streams : StreamInv(s)

\* Only connected targets are in the event loop, and one that is not lacks
\* credit.
ReadingInv ==
    /\ \A s \in Streams : estreams[s].reading => estreams[s].st = "connected"
    /\ NoLostWakeup

BInv == TypeOK /\ CircInv /\ StreamsInv /\ ReadingInv

\* Multiples of the increment, in order.
LEMMA TimesStep ==
    ASSUME NEW k \in Nat
    PROVE  /\ Times(k) \in Nat /\ Times(k + 1) = Times(k) + Increment
           /\ Times(0) = 0 /\ Times(1) = Increment
BY WindowAssumption DEF Times

\* A larger multiple is at least one increment larger.
LEMMA TimesOrder ==
    ASSUME NEW j \in Nat, NEW k \in Nat, j < k
    PROVE  Times(j) + Increment <= Times(k)
BY WindowAssumption DEF Times

\* The first cell of a queue, and what is left.
LEMMA QueueHead ==
    ASSUME NEW S, NEW q \in Seq(S), q # <<>>
    PROVE  Head(q) \in S /\ Tail(q) \in Seq(S) /\ Head(q) = q[1] /\ 1 \in 1..Len(q)
OBVIOUS

\* The cells that are left when the first one is taken.
LEMMA TailCells ==
    ASSUME NEW S, NEW q \in Seq(S), q # <<>>
    PROVE  /\ Len(Tail(q)) \in Nat /\ Len(q) = Len(Tail(q)) + 1
           /\ \A i \in 1..Len(Tail(q)) : Tail(q)[i] = q[i + 1] /\ i + 1 \in 1..Len(q)
<1>1. /\ Len(Tail(q)) \in Nat /\ Len(q) = Len(Tail(q)) + 1
      /\ \A i \in 1..Len(Tail(q)) : Tail(q)[i] = q[i + 1]
  OBVIOUS
<1>2. PICK n \in Nat : n = Len(Tail(q))  BY <1>1
<1>3. \A i \in 1..n : i + 1 \in 1..(n + 1)  OBVIOUS
<1> QED BY <1>1, <1>2, <1>3

-----------------------------------------------------------------------------
(* Types.                                                                  *)

\* What ClientCounts does, with the queue built by appending.
LEMMA CountsEffect ==
    ASSUME TypeOK, NEW s \in Streams, NEW open \in BOOLEAN, ClientCounts(s, open)
    PROVE  \E strm \in BOOLEAN, circ \in BOOLEAN, mid \in Seq(FwdCell) :
             /\ strm <=> open /\ cstreams[s].del > 0
                           /\ cstreams[s].del - 1 <= StreamWindow - Increment
             /\ circ <=> circ_deliver_window > 0
                           /\ circ_deliver_window - 1 <= CircWindow - Increment
             /\ mid = IF strm THEN Append(fwd, ToExit("SENDME", s, NoAuth)) ELSE fwd
             /\ fwd' = IF circ THEN Append(mid, ToExit("CIRC_SENDME", NoStream, backward_digest + 1))
                       ELSE mid
             /\ ToExit("SENDME", s, NoAuth) \in AcksOf(s)
             /\ ToExit("CIRC_SENDME", NoStream, backward_digest + 1) \in CircAcks
             /\ circ_deliver_window' = IF circ_deliver_window <= 0 THEN circ_deliver_window
                  ELSE IF circ THEN circ_deliver_window - 1 + Increment
                  ELSE circ_deliver_window - 1
             /\ cstreams' = IF ~open THEN [cstreams EXCEPT ![s].st = "closed"]
                  ELSE IF cstreams[s].del <= 0 THEN cstreams
                  ELSE [cstreams EXCEPT ![s].del =
                          IF strm THEN cstreams[s].del - 1 + Increment ELSE cstreams[s].del - 1]
<1>t. /\ fwd \in Seq(FwdCell) /\ backward_digest \in Nat /\ circ_deliver_window \in Int
      /\ cstreams[s].del \in Int /\ StreamWindow \in Nat /\ CircWindow \in Nat /\ Increment \in Nat
  BY WindowAssumption DEF TypeOK, CStream
<1>c. /\ ToExit("SENDME", s, NoAuth) \in FwdCell
      /\ ToExit("SENDME", s, NoAuth) \in AcksOf(s)
      /\ ToExit("CIRC_SENDME", NoStream, backward_digest + 1) \in FwdCell
      /\ ToExit("CIRC_SENDME", NoStream, backward_digest + 1) \in CircAcks
  <2>1. backward_digest + 1 \in Nat /\ NoAuth \in Nat  BY <1>t DEF NoAuth
  <2> QED BY <2>1 DEF ToExit, FwdCell, AcksOf, CircAcks
<1>1. PICK strm \in BOOLEAN, circ \in BOOLEAN :
             /\ strm <=> open /\ cstreams[s].del > 0
                           /\ cstreams[s].del - 1 <= StreamWindow - Increment
             /\ circ <=> circ_deliver_window > 0
                           /\ circ_deliver_window - 1 <= CircWindow - Increment
  <2> DEFINE a == open /\ cstreams[s].del > 0 /\ cstreams[s].del - 1 <= StreamWindow - Increment
             b == circ_deliver_window > 0 /\ circ_deliver_window - 1 <= CircWindow - Increment
  <2>1. a \in BOOLEAN /\ b \in BOOLEAN  OBVIOUS
  <2> QED BY <2>1
<1> DEFINE x == ToExit("SENDME", s, NoAuth)
           y == ToExit("CIRC_SENDME", NoStream, backward_digest + 1)
           mid == IF strm THEN Append(fwd, x) ELSE fwd
<1>2. fwd' = (fwd \o (IF strm THEN <<x>> ELSE <<>>)) \o (IF circ THEN <<y>> ELSE <<>>)
  BY <1>1 DEF ClientCounts
<1> HIDE DEF x, y
<1>3. fwd \o (IF strm THEN <<x>> ELSE <<>>) = mid /\ mid \in Seq(FwdCell)
  <2>1. CASE strm
    BY <1>t, <1>c, <2>1 DEF x
  <2>2. CASE ~strm
    BY <1>t, <2>2
  <2> QED BY <2>1, <2>2
<1> HIDE DEF mid
<1>4. fwd' = IF circ THEN Append(mid, y) ELSE mid
  <2>1. CASE circ
    <3>1. fwd' = mid \o <<y>>  BY <1>2, <1>3, <2>1
    <3>2. mid \o <<y>> = Append(mid, y)  BY <1>3, <1>c DEF y
    <3> QED BY <2>1, <3>1, <3>2
  <2>2. CASE ~circ
    <3>1. fwd' = mid \o <<>>  BY <1>2, <1>3, <2>2
    <3>2. mid \o <<>> = mid  BY <1>3
    <3> QED BY <2>2, <3>1, <3>2
  <2> QED BY <2>1, <2>2
<1>5. circ_deliver_window' = IF circ_deliver_window <= 0 THEN circ_deliver_window
                  ELSE IF circ THEN circ_deliver_window - 1 + Increment
                  ELSE circ_deliver_window - 1
  BY <1>1 DEF ClientCounts
<1>6. cstreams' = IF ~open THEN [cstreams EXCEPT ![s].st = "closed"]
                  ELSE IF cstreams[s].del <= 0 THEN cstreams
                  ELSE [cstreams EXCEPT ![s].del =
                          IF strm THEN cstreams[s].del - 1 + Increment ELSE cstreams[s].del - 1]
  <2>1. CASE ~open
    BY <2>1 DEF ClientCounts
  <2>2. CASE open
    BY <1>1, <2>2 DEF ClientCounts
  <2> QED BY <2>1, <2>2
<1> QED BY <1>1, <1>3, <1>4, <1>5, <1>6, <1>c DEF mid, x, y

\* The first cell of each queue.
LEMMA FwdHead ==
    ASSUME TypeOK, fwd # <<>>
    PROVE  /\ Head(fwd) \in FwdCell /\ Tail(fwd) \in Seq(FwdCell)
           /\ Head(fwd).cmd # "CIRC_SENDME" => Head(fwd).sid \in Streams
           /\ Head(fwd).auth \in Nat
<1>1. Head(fwd) \in FwdCell /\ Tail(fwd) \in Seq(FwdCell)  BY QueueHead DEF TypeOK
<1> QED BY <1>1 DEF FwdCell

\* The first cell on its way to the client.
LEMMA BwdHead ==
    ASSUME TypeOK, bwd # <<>>
    PROVE  /\ Head(bwd) \in BwdCell /\ Tail(bwd) \in Seq(BwdCell)
           /\ Head(bwd).sid \in Streams
<1>1. Head(bwd) \in BwdCell /\ Tail(bwd) \in Seq(BwdCell)  BY QueueHead DEF TypeOK
<1> QED BY <1>1 DEF BwdCell

\* A cell the exit sends.
LEMMA ExitSendsType ==
    ASSUME TypeOK, NEW cmd \in {"CONNECTED", "DATA", "END"}, NEW s \in Streams, ExitSends(cmd, s)
    PROVE  /\ relay_backward_digest' \in Nat
           /\ bwd' \in Seq(BwdCell)
           /\ [cmd |-> cmd, sid |-> s] \in BwdCell
<1>1. bwd \in Seq(BwdCell) /\ relay_backward_digest \in Nat  BY DEF TypeOK
<1>2. [cmd |-> cmd, sid |-> s] \in BwdCell  BY DEF BwdCell
<1> QED BY <1>1, <1>2 DEF ExitSends

\* Putting targets back into the event loop changes nothing else.
LEMMA ResumedType ==
    ASSUME estreams \in [Streams -> EStream], NEW ss
    PROVE  /\ Resumed(ss) \in [Streams -> EStream]
           /\ \A s \in Streams :
                /\ Resumed(ss)[s].st = estreams[s].st /\ Resumed(ss)[s].pkg = estreams[s].pkg
                /\ Resumed(ss)[s].reading <=>
                     estreams[s].reading \/ (s \in ss /\ estreams[s].st = "connected")
<1>1. ASSUME NEW s \in Streams
      PROVE  /\ Resumed(ss)[s] \in EStream
             /\ Resumed(ss)[s].st = estreams[s].st /\ Resumed(ss)[s].pkg = estreams[s].pkg
             /\ Resumed(ss)[s].reading <=>
                  estreams[s].reading \/ (s \in ss /\ estreams[s].st = "connected")
  <2>1. estreams[s] \in EStream  OBVIOUS
  <2>2. Resumed(ss)[s] = IF s \in ss /\ estreams[s].st = "connected"
                         THEN [estreams[s] EXCEPT !.reading = TRUE] ELSE estreams[s]
    BY DEF Resumed
  <2>3. CASE s \in ss /\ estreams[s].st = "connected"
    BY <2>1, <2>2, <2>3 DEF EStream
  <2>4. CASE ~(s \in ss /\ estreams[s].st = "connected")
    BY <2>1, <2>2, <2>4 DEF EStream
  <2> QED BY <2>3, <2>4
<1>2. Resumed(ss) = [s \in Streams |-> Resumed(ss)[s]]  BY DEF Resumed
<1> QED BY <1>1, <1>2

\* The FIFO and the count of cells.
LEMMA RecordType ==
    ASSUME TypeOK, NEW dig \in Nat, RecordDigest(sendme_auth_cells_sent + 1, dig)
    PROVE  /\ sendme_auth_cells_sent' \in 0..Increment - 1
           /\ sendme_auth_expected' \in Seq(Nat)
<1>1. /\ sendme_auth_cells_sent \in 0..Increment - 1 /\ Increment \in Nat \ {0}
      /\ sendme_auth_expected \in Seq(Nat)
  BY WindowAssumption DEF TypeOK
<1>2. Append(sendme_auth_expected, dig) \in Seq(Nat)  BY <1>1
<1> QED BY <1>1, <1>2 DEF RecordDigest

\* The initial state has its types.
LEMMA TypeInit == Init => TypeOK
<1> SUFFICES ASSUME Init PROVE TypeOK
  OBVIOUS
<1>1. \A x \in 0..MaxData : x \in Nat  BY WindowAssumption
<1>2. todo \in [Streams -> Nat]  BY <1>1 DEF Init
<1> QED BY <1>2, WindowAssumption DEF Init, TypeOK, EStream, CStream

\* The exit's callbacks on its targets.
LEMMA TypeTargets ==
    ASSUME TypeOK, NEW s \in Streams,
           ExitConnectComplete(s) \/ ExitRead(s) \/ ExitTargetClosed(s)
    PROVE  TypeOK'
<1>t. /\ estreams \in [Streams -> EStream] /\ \A r \in Streams : estreams[r].pkg >= 0
      /\ circ_package_window \in Nat /\ todo \in [Streams -> Nat] /\ relay_backward_digest \in Nat
  BY DEF TypeOK
<1>1. CASE ExitConnectComplete(s)
  <2>1. relay_backward_digest' \in Nat /\ bwd' \in Seq(BwdCell)
    BY <1>1, ExitSendsType DEF ExitConnectComplete
  <2>2. /\ estreams' \in [Streams -> EStream] /\ \A r \in Streams : estreams'[r].pkg >= 0
    BY <1>t, <1>1 DEF ExitConnectComplete, EStream
  <2> QED BY <1>1, <2>1, <2>2 DEF ExitConnectComplete, TypeOK, cvars
<1>2. CASE ExitReadPaused(s)
  <2>1. /\ estreams' \in [Streams -> EStream] /\ \A r \in Streams : estreams'[r].pkg >= 0
    BY <1>t, <1>2 DEF ExitReadPaused, EStream
  <2> QED BY <1>2, <2>1 DEF ExitReadPaused, TypeOK, cvars
<1>3. CASE ExitReadData(s)
  <2>1. relay_backward_digest' \in Nat /\ bwd' \in Seq(BwdCell)
    BY <1>3, ExitSendsType DEF ExitReadData
  <2>2. circ_package_window' \in Nat /\ estreams[s].pkg - 1 \in Int /\ estreams[s].pkg - 1 >= 0
    BY <1>t, <1>3 DEF ExitReadData, HasCredit, EStream
  <2>3. PICK rd \in BOOLEAN : rd <=> (estreams[s].pkg - 1 > 0 /\ circ_package_window' > 0)
    OBVIOUS
  <2>4. estreams' = [estreams EXCEPT ![s].pkg = estreams[s].pkg - 1, ![s].reading = rd]
    BY <1>3, <2>3 DEF ExitReadData
  <2>5. PICK p \in Int : p = estreams[s].pkg - 1 /\ p >= 0  BY <2>2
  <2>6. /\ estreams' \in [Streams -> EStream] /\ \A r \in Streams : estreams'[r].pkg >= 0
    BY <1>t, <2>4, <2>5 DEF EStream
  <2>7. todo' \in [Streams -> Nat]  BY <1>t, <1>3 DEF ExitReadData
  <2>8. relay_backward_digest + 1 \in Nat  BY <1>t
  <2>9. sendme_auth_cells_sent' \in 0..Increment - 1 /\ sendme_auth_expected' \in Seq(Nat)
    BY <1>3, <2>8, RecordType DEF ExitReadData
  <2> QED BY <1>3, <2>1, <2>2, <2>6, <2>7, <2>9 DEF ExitReadData, TypeOK, cvars
<1>4. CASE ExitTargetClosed(s)
  <2>1. relay_backward_digest' \in Nat /\ bwd' \in Seq(BwdCell)
    BY <1>4, ExitSendsType DEF ExitTargetClosed
  <2>2. /\ estreams' \in [Streams -> EStream] /\ \A r \in Streams : estreams'[r].pkg >= 0
    BY <1>t, <1>4 DEF ExitTargetClosed, EStream
  <2> QED BY <1>4, <2>1, <2>2 DEF ExitTargetClosed, TypeOK, cvars
<1> QED BY <1>1, <1>2, <1>3, <1>4 DEF ExitRead

\* The exit's handlers.
LEMMA TypeExit ==
    ASSUME TypeOK, ExitCell
    PROVE  TypeOK'
<1>t. /\ estreams \in [Streams -> EStream] /\ \A r \in Streams : estreams[r].pkg >= 0
      /\ circ_package_window \in Nat /\ relay_backward_digest \in Nat
      /\ sendme_auth_expected \in Seq(Nat)
      /\ Increment \in Nat /\ StreamWindow \in Nat
  BY WindowAssumption DEF TypeOK
<1>h. /\ Head(fwd) \in FwdCell /\ fwd' \in Seq(FwdCell)
      /\ Head(fwd).cmd # "CIRC_SENDME" => Head(fwd).sid \in Streams
  BY FwdHead DEF ExitCell, ExitBegin, ExitEnd, ExitCircSendme, ExitStreamSendme, ExitTakes
<1>1. CASE ExitBegin
  <2>1. PICK s \in Streams : s = Head(fwd).sid  BY <1>h, <1>1 DEF ExitBegin, ExitTakes
  <2>2. ExitSends("END", s) \/ ExitSends("CONNECTED", s)
          \/ (relay_backward_digest' = relay_backward_digest /\ bwd' = bwd)
    BY <1>1, <2>1 DEF ExitBegin
  <2>3. relay_backward_digest' \in Nat /\ bwd' \in Seq(BwdCell)
    BY <2>2, ExitSendsType DEF TypeOK
  <2>4. PICK st \in {"connected", "connecting"}, rd \in BOOLEAN :
          \/ estreams' = estreams
          \/ estreams' = [estreams EXCEPT ![s] = [st |-> st, pkg |-> StreamWindow, reading |-> rd]]
    <3>1. ("connected" = "connected") = TRUE /\ ("connecting" = "connected") = FALSE  OBVIOUS
    <3> QED BY <1>1, <2>1, <3>1 DEF ExitBegin
  <2>5. estreams' \in [Streams -> EStream] /\ \A r \in Streams : estreams'[r].pkg >= 0
    <3>1. PICK slot \in EStream : /\ slot = [st |-> st, pkg |-> StreamWindow, reading |-> rd]
                                  /\ slot.pkg >= 0
      <4>1. st \in {"none", "connecting", "connected"} /\ StreamWindow \in Int /\ StreamWindow >= 0
        BY <1>t, <2>4
      <4>2. [st |-> st, pkg |-> StreamWindow, reading |-> rd] \in EStream
        BY <4>1, <2>4 DEF EStream
      <4>3. [st |-> st, pkg |-> StreamWindow, reading |-> rd].pkg = StreamWindow  OBVIOUS
      <4> QED BY <4>1, <4>2, <4>3
    <3>2. estreams' = estreams \/ estreams' = [estreams EXCEPT ![s] = slot]  BY <2>4, <3>1
    <3> QED BY <1>t, <3>1, <3>2
  <2> QED BY <1>1, <1>h, <2>3, <2>5 DEF ExitBegin, ExitTakes, TypeOK, cvars
<1>2. CASE ExitEnd
  <2>1. estreams' \in [Streams -> EStream] /\ \A r \in Streams : estreams'[r].pkg >= 0
    BY <1>t, <1>2 DEF ExitEnd, EStream
  <2> QED BY <1>2, <1>h, <2>1 DEF ExitEnd, ExitTakes, TypeOK, cvars
<1>3. CASE ExitCircSendme
  <2>1. estreams' = estreams \/ estreams' = Resumed(Streams)  BY <1>3 DEF ExitCircSendme
  <2>2. estreams' \in [Streams -> EStream] /\ \A r \in Streams : estreams'[r].pkg >= 0
    BY <1>t, <2>1, ResumedType
  <2>3. circ_package_window' \in Nat  BY <1>t, <1>3 DEF ExitCircSendme
  <2>4. Popped(sendme_auth_expected) \in Seq(Nat)  BY <1>t DEF Popped
  <2>5. sendme_auth_expected' \in Seq(Nat)  BY <1>t, <1>3, <2>4 DEF ExitCircSendme
  <2> QED BY <1>3, <1>h, <2>2, <2>3, <2>5 DEF ExitCircSendme, ExitTakes, TypeOK, cvars
<1>4. CASE ExitStreamSendme
  <2>1. PICK s \in Streams : s = Head(fwd).sid  BY <1>h, <1>4 DEF ExitStreamSendme, ExitTakes
  <2>2. estreams' = estreams
          \/ estreams' = [Resumed({s}) EXCEPT ![s].pkg = Resumed({s})[s].pkg + Increment]
    BY <1>4, <2>1 DEF ExitStreamSendme
  <2>3. PICK f \in [Streams -> EStream] : /\ f = Resumed({s})
                                          /\ \A r \in Streams : f[r].pkg >= 0
    BY <1>t, ResumedType
  <2>4. estreams' \in [Streams -> EStream] /\ \A r \in Streams : estreams'[r].pkg >= 0
    <3>1. PICK p \in Int : p = f[s].pkg + Increment /\ p >= 0
      <4>1. f[s].pkg \in Int /\ f[s].pkg >= 0  BY <2>3 DEF EStream
      <4> QED BY <1>t, <4>1
    <3>2. estreams' = estreams \/ estreams' = [f EXCEPT ![s].pkg = p]  BY <2>2, <2>3, <3>1
    <3>3. CASE estreams' = [f EXCEPT ![s].pkg = p]
      <4>1. estreams' \in [Streams -> EStream]  BY <2>3, <3>1, <3>3 DEF EStream
      <4>2. ASSUME NEW r \in Streams PROVE estreams'[r].pkg >= 0
        <5>1. CASE r = s
          <6>1. estreams'[s].pkg = p  BY <2>3, <3>3 DEF EStream
          <6> QED BY <3>1, <5>1, <6>1
        <5>2. CASE r # s
          <6>1. estreams'[r] = f[r]  BY <2>3, <3>3, <5>2
          <6> QED BY <2>3, <6>1
        <5> QED BY <5>1, <5>2
      <4> QED BY <4>1, <4>2
    <3> QED BY <1>t, <3>2, <3>3
  <2> QED BY <1>4, <1>h, <2>4 DEF ExitStreamSendme, ExitTakes, TypeOK, cvars
<1> QED BY <1>1, <1>2, <1>3, <1>4 DEF ExitCell

\* The client.
LEMMA TypeClient ==
    ASSUME TypeOK, ClientCell \/ \E s \in Streams : OpenStream(s) \/ CloseStream(s)
    PROVE  TypeOK'
<1>t. /\ cstreams \in [Streams -> CStream] /\ fwd \in Seq(FwdCell)
      /\ backward_digest \in Nat /\ circ_deliver_window \in Int
      /\ Increment \in Nat /\ StreamWindow \in Nat /\ failures \in Nat
  BY WindowAssumption DEF TypeOK
<1>1. ASSUME NEW s \in Streams, OpenStream(s) \/ CloseStream(s) PROVE TypeOK'
  <2>1. ToExit("BEGIN", s, NoAuth) \in FwdCell /\ ToExit("END", s, NoAuth) \in FwdCell
    BY DEF ToExit, FwdCell, NoAuth
  <2>2. fwd' \in Seq(FwdCell)
    <3>1. \E c \in FwdCell : fwd' = Append(fwd, c)  BY <1>1, <2>1 DEF OpenStream, CloseStream
    <3> QED BY <1>t, <3>1
  <2>3. cstreams' \in [Streams -> CStream]
    <3>1. CASE OpenStream(s)
      <4>1. [st |-> "open", del |-> StreamWindow] \in CStream  BY <1>t DEF CStream
      <4> QED BY <1>t, <3>1, <4>1 DEF OpenStream
    <3>2. CASE CloseStream(s)
      BY <1>t, <3>2 DEF CloseStream, CStream
    <3> QED BY <1>1, <3>1, <3>2
  <2> QED BY <1>1, <2>2, <2>3 DEF OpenStream, CloseStream, TypeOK, evars
<1>2. ASSUME ClientCell PROVE TypeOK'
  <2>h. /\ bwd' \in Seq(BwdCell) /\ Head(bwd).sid \in Streams /\ backward_digest' \in Nat
        /\ UNCHANGED <<evars, todo>>
    <3>1. PICK cmd : ClientTakes(cmd)
      BY <1>2 DEF ClientCell, ClientConnected, ClientEnd, ClientData, ClientDataRefused
    <3>2. bwd # <<>> /\ bwd' = Tail(bwd) /\ backward_digest' = backward_digest + 1
      BY <3>1 DEF ClientTakes
    <3> QED BY <1>t, <3>1, <3>2, BwdHead DEF ClientTakes
  <2>1. CASE ClientConnected
    BY <2>1, <2>h DEF ClientConnected, TypeOK, evars
  <2>2. CASE ClientEnd
    <3>1. cstreams' \in [Streams -> CStream]  BY <1>t, <2>2 DEF ClientEnd, CStream
    <3> QED BY <2>2, <2>h, <3>1 DEF ClientEnd, TypeOK, evars
  <2>3. ASSUME NEW open \in BOOLEAN, ClientCounts(Head(bwd).sid, open), failures' \in Nat
        PROVE  TypeOK'
    <3>1. PICK s \in Streams : s = Head(bwd).sid  BY <2>h
    <3>2. PICK strm \in BOOLEAN, circ \in BOOLEAN, mid \in Seq(FwdCell) :
             /\ fwd' = IF circ THEN Append(mid, ToExit("CIRC_SENDME", NoStream, backward_digest + 1))
                       ELSE mid
             /\ ToExit("CIRC_SENDME", NoStream, backward_digest + 1) \in CircAcks
             /\ circ_deliver_window' = IF circ_deliver_window <= 0 THEN circ_deliver_window
                  ELSE IF circ THEN circ_deliver_window - 1 + Increment
                  ELSE circ_deliver_window - 1
             /\ cstreams' = IF ~open THEN [cstreams EXCEPT ![s].st = "closed"]
                  ELSE IF cstreams[s].del <= 0 THEN cstreams
                  ELSE [cstreams EXCEPT ![s].del =
                          IF strm THEN cstreams[s].del - 1 + Increment ELSE cstreams[s].del - 1]
      <4>1. ClientCounts(s, open)  BY <2>3, <3>1
      <4> QED BY <4>1, CountsEffect
    <3>3. fwd' \in Seq(FwdCell)  BY <3>2 DEF CircAcks
    <3>4. circ_deliver_window' \in Int  BY <1>t, <3>2
    <3>5. cstreams' \in [Streams -> CStream]
      <4>1. PICK d \in Int : d = IF strm THEN cstreams[s].del - 1 + Increment ELSE cstreams[s].del - 1
        BY <1>t DEF CStream
      <4>2. \/ cstreams' = [cstreams EXCEPT ![s].st = "closed"] \/ cstreams' = cstreams
            \/ cstreams' = [cstreams EXCEPT ![s].del = d]
        BY <3>2, <4>1
      <4> QED BY <1>t, <4>1, <4>2 DEF CStream
    <3> QED BY <2>3, <2>h, <3>3, <3>4, <3>5 DEF TypeOK, evars
  <2>4. CASE ClientData
    <3>1. PICK open \in BOOLEAN : open <=> (cstreams[Head(bwd).sid].st = "open")  OBVIOUS
    <3>2. open = (cstreams[Head(bwd).sid].st = "open")  BY <3>1
    <3>3. ClientCounts(Head(bwd).sid, open) /\ failures' \in Nat
      BY <1>t, <2>4, <3>2 DEF ClientData
    <3> QED BY <2>3, <3>3
  <2>5. CASE ClientDataRefused
    <3>0. failures' \in Nat  BY <1>t, <2>5 DEF ClientDataRefused
    <3>1. ClientCounts(Head(bwd).sid, FALSE)  BY <2>5, Zenon DEF ClientDataRefused
    <3> QED BY <2>3, <3>0, <3>1
  <2> QED BY <1>2, <2>1, <2>2, <2>4, <2>5 DEF ClientCell
<1> QED BY <1>1, <1>2

\* Every step keeps the types.
LEMMA TypeNext ==
    ASSUME TypeOK, [Next]_vars
    PROVE  TypeOK'
<1>1. CASE UNCHANGED vars
  BY <1>1 DEF TypeOK, vars, evars, cvars
<1> QED BY <1>1, TypeTargets, TypeExit, TypeClient DEF Next

-----------------------------------------------------------------------------
(* The circuit.                                                            *)

\* Adding or taking a cell that is not in C changes no rank of cells of C.
LEMMA AcksKept ==
    ASSUME TypeOK, AcksMatch, sendme_auth_expected' = sendme_auth_expected,
           \/ fwd' = fwd
           \/ \E c \in FwdCell \ CircAcks : fwd' = Append(fwd, c)
           \/ fwd # <<>> /\ Head(fwd) \notin CircAcks /\ fwd' = Tail(fwd)
    PROVE  AcksMatch' /\ Count(fwd', CircAcks) = Count(fwd, CircAcks)
<1>t. fwd \in Seq(FwdCell)  BY DEF TypeOK
<1>1. CASE fwd' = fwd
  <2>1. \A q : q = fwd => Count(q, CircAcks) = Count(fwd, CircAcks)  OBVIOUS
  <2> QED BY <1>1, <2>1 DEF AcksMatch
<1>2. CASE \E c \in FwdCell \ CircAcks : fwd' = Append(fwd, c)
  <2>1. PICK c \in FwdCell \ CircAcks : fwd' = Append(fwd, c)  BY <1>2
  <2>2. /\ \A i \in 0..Len(fwd) : Rank(fwd', CircAcks, i) = Rank(fwd, CircAcks, i)
        /\ Count(fwd', CircAcks) = Count(fwd, CircAcks) + 0 /\ Count(fwd, CircAcks) \in Nat
    BY <1>t, <2>1, RankAppend
  <2>3. /\ Len(fwd) \in Nat /\ Len(fwd') = Len(fwd) + 1
        /\ \A i \in 1..Len(fwd) : fwd'[i] = fwd[i]
        /\ fwd'[Len(fwd) + 1] = c
    BY <1>t, <2>1
  <2>4. ASSUME NEW i \in 1..Len(fwd'), fwd'[i] \in CircAcks
        PROVE  /\ Rank(fwd', CircAcks, i) <= Len(sendme_auth_expected)
               /\ fwd'[i].auth = sendme_auth_expected[Rank(fwd', CircAcks, i)]
    <3>1. i \in 1..Len(fwd)  BY <2>1, <2>3, <2>4
    <3>2. fwd'[i] = fwd[i] /\ Rank(fwd', CircAcks, i) = Rank(fwd, CircAcks, i)
      BY <2>2, <2>3, <3>1
    <3> QED BY <2>4, <3>1, <3>2 DEF AcksMatch
  <2> QED BY <2>2, <2>4 DEF AcksMatch
<1>3. CASE fwd # <<>> /\ Head(fwd) \notin CircAcks /\ fwd' = Tail(fwd)
  <2>1. /\ Len(fwd') \in Nat /\ Len(fwd) = Len(fwd') + 1
        /\ \A i \in 0..Len(fwd') :
             /\ Rank(fwd', CircAcks, i) \in Nat
             /\ Rank(fwd, CircAcks, i + 1) = Rank(fwd', CircAcks, i) + 0
        /\ Count(fwd', CircAcks) \in Nat
        /\ Count(fwd, CircAcks) = Count(fwd', CircAcks) + 0
    BY <1>t, <1>3, RankTail
  <2>2. \A i \in 1..Len(fwd') : fwd'[i] = fwd[i + 1] /\ i + 1 \in 1..Len(fwd)
    BY <1>t, <1>3, TailCells
  <2>3. ASSUME NEW i \in 1..Len(fwd'), fwd'[i] \in CircAcks
        PROVE  /\ Rank(fwd', CircAcks, i) <= Len(sendme_auth_expected)
               /\ fwd'[i].auth = sendme_auth_expected[Rank(fwd', CircAcks, i)]
    <3>1. i \in 0..Len(fwd')  BY <2>1
    <3>2. Rank(fwd', CircAcks, i) = Rank(fwd, CircAcks, i + 1)  BY <2>1, <3>1
    <3> QED BY <2>2, <2>3, <3>2 DEF AcksMatch
  <2> QED BY <2>1, <2>3 DEF AcksMatch
<1> QED BY <1>1, <1>2, <1>3

\* The same for the cells to the client, whose digests go on.
LEMMA DataKept ==
    ASSUME TypeOK, Digests, DataMatch, sendme_auth_expected' = sendme_auth_expected,
           circ_deliver_window' = circ_deliver_window,
           Count(fwd', CircAcks) = Count(fwd, CircAcks),
           \/ /\ bwd' = bwd /\ relay_backward_digest' = relay_backward_digest
              /\ backward_digest' = backward_digest
           \/ /\ \E c \in BwdCell \ DataCells : bwd' = Append(bwd, c)
              /\ relay_backward_digest' = relay_backward_digest + 1
              /\ backward_digest' = backward_digest
           \/ /\ bwd # <<>> /\ Head(bwd) \notin DataCells /\ bwd' = Tail(bwd)
              /\ relay_backward_digest' = relay_backward_digest
              /\ backward_digest' = backward_digest + 1
    PROVE  /\ Digests' /\ DataMatch' /\ Count(bwd', DataCells) = Count(bwd, DataCells)
<1>t. bwd \in Seq(BwdCell) /\ backward_digest \in Nat /\ relay_backward_digest \in Nat
  BY DEF TypeOK
<1>c. Counted' = Counted  BY DEF Counted
<1>1. CASE /\ bwd' = bwd /\ relay_backward_digest' = relay_backward_digest
           /\ backward_digest' = backward_digest
  <2>1. \A q : q = bwd => Count(q, DataCells) = Count(bwd, DataCells)  OBVIOUS
  <2> QED BY <1>1, <1>c, <2>1 DEF DataMatch, Digests
<1>2. CASE /\ \E c \in BwdCell \ DataCells : bwd' = Append(bwd, c)
           /\ relay_backward_digest' = relay_backward_digest + 1
           /\ backward_digest' = backward_digest
  <2>1. PICK c \in BwdCell \ DataCells : bwd' = Append(bwd, c)  BY <1>2
  <2>2. /\ \A i \in 0..Len(bwd) : Rank(bwd', DataCells, i) = Rank(bwd, DataCells, i)
        /\ Count(bwd', DataCells) = Count(bwd, DataCells) + 0 /\ Count(bwd, DataCells) \in Nat
    BY <1>t, <2>1, RankAppend
  <2>3. /\ Len(bwd) \in Nat /\ Len(bwd') = Len(bwd) + 1
        /\ \A i \in 1..Len(bwd) : bwd'[i] = bwd[i]
        /\ bwd'[Len(bwd) + 1] = c
    BY <1>t, <2>1
  <2>4. ASSUME NEW i \in 1..Len(bwd'), NEW k \in 1..Len(sendme_auth_expected), bwd'[i] \in DataCells,
               Times(k) = Times(Count(fwd, CircAcks)) + Counted + Rank(bwd', DataCells, i)
        PROVE  sendme_auth_expected[k] = backward_digest + i
    <3>1. i \in 1..Len(bwd)  BY <2>1, <2>3, <2>4
    <3>2. bwd'[i] = bwd[i] /\ Rank(bwd', DataCells, i) = Rank(bwd, DataCells, i)
      BY <2>2, <2>3, <3>1
    <3> QED BY <2>4, <3>1, <3>2 DEF DataMatch
  <2>5. DataMatch'  BY <1>2, <1>c, <2>4 DEF DataMatch
  <2>6. Digests'  BY <1>t, <1>2, <2>3 DEF Digests
  <2> QED BY <2>2, <2>5, <2>6
<1>3. CASE /\ bwd # <<>> /\ Head(bwd) \notin DataCells /\ bwd' = Tail(bwd)
           /\ relay_backward_digest' = relay_backward_digest
           /\ backward_digest' = backward_digest + 1
  <2>1. /\ Len(bwd') \in Nat /\ Len(bwd) = Len(bwd') + 1
        /\ \A i \in 0..Len(bwd') :
             /\ Rank(bwd', DataCells, i) \in Nat
             /\ Rank(bwd, DataCells, i + 1) = Rank(bwd', DataCells, i) + 0
        /\ Count(bwd', DataCells) \in Nat
        /\ Count(bwd, DataCells) = Count(bwd', DataCells) + 0
    BY <1>t, <1>3, RankTail
  <2>2. \A i \in 1..Len(bwd') : bwd'[i] = bwd[i + 1] /\ i + 1 \in 1..Len(bwd)
    BY <1>t, <1>3, TailCells
  <2>3. ASSUME NEW i \in 1..Len(bwd'), NEW k \in 1..Len(sendme_auth_expected), bwd'[i] \in DataCells,
               Times(k) = Times(Count(fwd, CircAcks)) + Counted + Rank(bwd', DataCells, i)
        PROVE  sendme_auth_expected[k] = backward_digest' + i
    <3>1. i \in 0..Len(bwd') /\ i \in Nat  BY <2>1
    <3>2. Rank(bwd', DataCells, i) = Rank(bwd, DataCells, i + 1)  BY <2>1, <3>1
    <3>3. sendme_auth_expected[k] = backward_digest + (i + 1)  BY <2>2, <2>3, <3>2 DEF DataMatch
    <3> QED BY <1>t, <1>3, <3>1, <3>3
  <2>4. DataMatch'  BY <1>c, <2>3 DEF DataMatch
  <2>5. Digests'
    <3>1. PICK m \in Nat, x \in Nat : m = Len(bwd') /\ x = backward_digest  BY <1>t, <2>1
    <3>2. relay_backward_digest = x + (m + 1) /\ backward_digest' = x + 1
      BY <1>3, <2>1, <3>1 DEF Digests
    <3> QED BY <1>3, <3>1, <3>2 DEF Digests
  <2> QED BY <2>1, <2>4, <2>5
<1> QED BY <1>1, <1>2, <1>3

\* A step that moves neither DATA cells nor circuit SENDMEs.
LEMMA CircKept ==
    ASSUME TypeOK, CircInv,
           sendme_auth_expected' = sendme_auth_expected,
           sendme_auth_cells_sent' = sendme_auth_cells_sent,
           circ_package_window' = circ_package_window,
           circ_deliver_window' = circ_deliver_window,
           \/ fwd' = fwd
           \/ \E c \in FwdCell \ CircAcks : fwd' = Append(fwd, c)
           \/ fwd # <<>> /\ Head(fwd) \notin CircAcks /\ fwd' = Tail(fwd),
           \/ /\ bwd' = bwd /\ relay_backward_digest' = relay_backward_digest
              /\ backward_digest' = backward_digest
           \/ /\ \E c \in BwdCell \ DataCells : bwd' = Append(bwd, c)
              /\ relay_backward_digest' = relay_backward_digest + 1
              /\ backward_digest' = backward_digest
           \/ /\ bwd # <<>> /\ Head(bwd) \notin DataCells /\ bwd' = Tail(bwd)
              /\ relay_backward_digest' = relay_backward_digest
              /\ backward_digest' = backward_digest + 1
    PROVE  CircInv'
<1>1. AcksMatch' /\ Count(fwd', CircAcks) = Count(fwd, CircAcks)  BY AcksKept DEF CircInv
<1>2. Digests' /\ DataMatch' /\ Count(bwd', DataCells) = Count(bwd, DataCells)
  BY <1>1, DataKept DEF CircInv
<1>3. CircCredit'  BY <1>1, <1>2 DEF CircInv, CircCredit, Counted
<1> QED BY <1>1, <1>2, <1>3 DEF CircInv

\* The numbers of the circuit's part of the invariant.
LEMMA CircNumbers ==
    ASSUME TypeOK, CircInv
    PROVE  /\ circ_package_window \in Nat /\ sendme_auth_cells_sent \in 0..Increment - 1
           /\ Count(bwd, DataCells) \in Nat /\ Count(fwd, CircAcks) \in Nat
           /\ Len(bwd) \in Nat /\ Len(fwd) \in Nat /\ Len(sendme_auth_expected) \in Nat
           /\ Counted \in 0..Increment - 1 /\ circ_deliver_window = CircWindow - Counted
           /\ Increment \in Nat \ {0} /\ CircWindow \in Nat /\ Increment <= CircWindow
           /\ backward_digest \in Nat /\ relay_backward_digest \in Nat
           /\ Times(Count(fwd, CircAcks)) \in Nat /\ Times(Len(sendme_auth_expected)) \in Nat
<1>1. /\ circ_package_window \in Nat /\ sendme_auth_cells_sent \in 0..Increment - 1
      /\ Len(bwd) \in Nat /\ Len(fwd) \in Nat /\ Len(sendme_auth_expected) \in Nat
      /\ Increment \in Nat \ {0} /\ CircWindow \in Nat /\ Increment <= CircWindow
      /\ backward_digest \in Nat /\ relay_backward_digest \in Nat
      /\ circ_deliver_window \in Int
  BY WindowAssumption DEF TypeOK
<1>2. Count(bwd, DataCells) \in Nat /\ Count(fwd, CircAcks) \in Nat  BY <1>1, RankType DEF Count
<1>3. Counted \in 0..Increment - 1 /\ circ_deliver_window = CircWindow - Counted
  BY <1>1 DEF CircInv, CircCredit, Counted
<1>4. Times(Count(fwd, CircAcks)) \in Nat /\ Times(Len(sendme_auth_expected)) \in Nat
  BY <1>1, <1>2, TimesStep
<1> QED BY <1>1, <1>2, <1>3, <1>4

\* A DATA cell is sent.
LEMMA CircData ==
    ASSUME TypeOK, CircInv, NEW s \in Streams, ExitReadData(s)
    PROVE  CircInv'
<1>n. PICK w \in Nat, x \in Nat, D \in Nat, A \in Nat, L \in Nat, n \in Nat, g \in Nat, bd \in Nat :
        /\ w = circ_package_window /\ x = sendme_auth_cells_sent /\ D = Count(bwd, DataCells)
        /\ A = Count(fwd, CircAcks) /\ L = Len(sendme_auth_expected) /\ n = Len(bwd)
        /\ g = Counted /\ bd = backward_digest
        /\ x < Increment /\ g < Increment
  <2>1. \A y \in 0..Increment - 1 : y \in Nat /\ y < Increment  BY WindowAssumption
  <2> QED BY CircNumbers, <2>1
<1>w. Increment \in Nat \ {0} /\ CircWindow \in Nat /\ AuthMax \in Nat /\ CircWindow <= Times(AuthMax)
  BY WindowAssumption DEF Times
<1>T. /\ Times(A) \in Nat /\ Times(L) \in Nat /\ Times(L + 1) = Times(L) + Increment
      /\ Times(AuthMax) \in Nat
  BY <1>w, TimesStep
<1>c. w + D + g + Times(A) = CircWindow /\ w + x + Times(L) = CircWindow /\ w > 0
  BY <1>n DEF CircInv, CircCredit, ExitReadData, HasCredit
<1>b. PICK TA \in Nat, TL \in Nat :
        /\ TA = Times(A) /\ TL = Times(L) /\ x < Increment /\ Increment \in Nat
        /\ D + g + TA = x + TL /\ w > 0 /\ w + x + TL = CircWindow
        /\ CircWindow <= Times(AuthMax)
  <2>1. PICK TA \in Nat, TL \in Nat : TA = Times(A) /\ TL = Times(L)  BY <1>T
  <2>2. w + D + g + TA = CircWindow /\ w + x + TL = CircWindow  BY <1>c, <2>1
  <2>3. D + g + TA = x + TL  BY <2>2, <1>w
  <2> QED BY <1>c, <1>n, <1>w, <2>1, <2>2, <2>3
<1>d. relay_backward_digest = bd + n  BY <1>n DEF CircInv, Digests
<1>1. /\ fwd' = fwd /\ backward_digest' = backward_digest
      /\ Count(fwd', CircAcks) = A /\ Counted' = g
      /\ circ_package_window' = w - 1 /\ relay_backward_digest' = bd + n + 1
  BY <1>n, <1>d DEF ExitReadData, ExitSends, Counted, cvars
<1>2. PICK c \in DataCells : c \in BwdCell /\ bwd' = Append(bwd, c)
  <2>1. [cmd |-> "DATA", sid |-> s] \in DataCells /\ [cmd |-> "DATA", sid |-> s] \in BwdCell
    BY DEF DataCells, BwdCell
  <2>2. bwd' = Append(bwd, [cmd |-> "DATA", sid |-> s])  BY DEF ExitReadData, ExitSends
  <2> QED BY <2>1, <2>2
<1>3. /\ \A i \in 0..n : Rank(bwd', DataCells, i) = Rank(bwd, DataCells, i)
      /\ Count(bwd', DataCells) = D + 1
  <2>1. bwd \in Seq(BwdCell)  BY DEF TypeOK
  <2> QED BY <1>n, <1>2, <2>1, RankAppend
<1>4. /\ Len(bwd') = n + 1 /\ \A i \in 1..n : bwd'[i] = bwd[i]
  <2>1. bwd \in Seq(BwdCell)  BY DEF TypeOK
  <2>2. Len(Append(bwd, c)) = Len(bwd) + 1 /\ \A i \in 1..Len(bwd) : Append(bwd, c)[i] = bwd[i]
    BY <1>2, <2>1
  <2> QED BY <1>n, <1>2, <2>2
<1>5. PICK M \in {L, L + 1} :
        /\ M = Len(sendme_auth_expected')
        /\ \A k \in 1..L : sendme_auth_expected'[k] = sendme_auth_expected[k]
        /\ M = L + 1 => sendme_auth_expected'[L + 1] = bd + n + 1
        /\ sendme_auth_cells_sent' \in Nat
        /\ sendme_auth_cells_sent' + Times(M) = x + 1 + Times(L)
  <2>e. sendme_auth_expected \in Seq(Nat) /\ bd + n + 1 \in Nat  BY <1>n DEF TypeOK
  <2>r. RecordDigest(x + 1, bd + n + 1)  BY <1>n, <1>d DEF ExitReadData
  <2>1. CASE x + 1 >= Increment
    <3>1. x + 1 = Increment  BY <1>n, <1>w, <2>1
    <3>2. L < AuthMax
      <4>1. Times(L) + Increment <= Times(AuthMax)
        <5>1. PICK y \in Nat : y = Times(AuthMax)  BY <1>T
        <5>2. TL + Increment <= y  BY <1>b, <3>1, <5>1
        <5> QED BY <1>b, <5>1, <5>2
      <4>2. ~(AuthMax < L) /\ AuthMax # L  BY <1>T, <1>w, <4>1, TimesOrder
      <4> QED BY <1>w, <4>2
    <3>3. sendme_auth_expected' = Append(sendme_auth_expected, bd + n + 1) /\ sendme_auth_cells_sent' = 0
      BY <1>n, <2>1, <2>r, <3>2 DEF RecordDigest
    <3>4. /\ Len(Append(sendme_auth_expected, bd + n + 1)) = Len(sendme_auth_expected) + 1
          /\ Append(sendme_auth_expected, bd + n + 1)[Len(sendme_auth_expected) + 1] = bd + n + 1
          /\ \A k \in 1..Len(sendme_auth_expected) :
               Append(sendme_auth_expected, bd + n + 1)[k] = sendme_auth_expected[k]
      BY <2>e
    <3>5. 0 + Times(L + 1) = x + 1 + Times(L)  BY <1>T, <3>1
    <3>6. /\ L + 1 = Len(sendme_auth_expected')
          /\ \A k \in 1..L : sendme_auth_expected'[k] = sendme_auth_expected[k]
          /\ sendme_auth_expected'[L + 1] = bd + n + 1
      BY <1>n, <3>3, <3>4
    <3> QED BY <3>3, <3>5, <3>6
  <2>2. CASE ~(x + 1 >= Increment)
    <3>1. sendme_auth_expected' = sendme_auth_expected /\ sendme_auth_cells_sent' = x + 1
      BY <2>2, <2>r DEF RecordDigest
    <3>2. L # L + 1  OBVIOUS
    <3> QED BY <1>n, <3>1, <3>2
  <2> QED BY <2>1, <2>2
<1>6. CircCredit'
  <2>1. Counted' \in 0..Increment - 1  BY <1>n, <1>1, <1>w
  <2>2. w - 1 + (D + 1) + g + Times(A) = CircWindow  BY <1>c, <1>T
  <2>3. w - 1 + sendme_auth_cells_sent' + Times(M) = CircWindow
    <3>1. PICK y \in Nat, z \in Nat : y = Times(M) /\ z = sendme_auth_cells_sent'
      BY <1>5, TimesStep
    <3>2. z + y = x + 1 + TL  BY <1>5, <1>b, <3>1
    <3>3. w - 1 + z + y = CircWindow  BY <1>b, <3>2
    <3> QED BY <3>1, <3>3
  <2> QED BY <1>1, <1>3, <1>5, <2>1, <2>2, <2>3 DEF CircCredit
<1>7. Digests'  BY <1>n, <1>1, <1>4 DEF Digests
<1>8. AcksMatch'
  <2> SUFFICES ASSUME NEW i \in 1..Len(fwd), fwd[i] \in CircAcks
               PROVE  /\ Rank(fwd, CircAcks, i) <= M
                      /\ fwd[i].auth = sendme_auth_expected'[Rank(fwd, CircAcks, i)]
    BY <1>1, <1>5 DEF AcksMatch
  <2>1. /\ Rank(fwd, CircAcks, i) <= L
        /\ fwd[i].auth = sendme_auth_expected[Rank(fwd, CircAcks, i)]
    BY <1>n DEF CircInv, AcksMatch
  <2>2. Rank(fwd, CircAcks, i) \in 1..L
    <3>1. i \in Nat /\ i \in 1..i  OBVIOUS
    <3>2. Rank(fwd, CircAcks, i) \in Nat /\ Rank(fwd, CircAcks, i) >= 1  BY <3>1, RankType
    <3> QED BY <2>1, <3>2
  <2> QED BY <1>5, <2>1, <2>2
<1>9. DataMatch'
  <2> SUFFICES ASSUME NEW i \in 1..(n + 1), NEW k \in 1..M, bwd'[i] \in DataCells,
                      Times(k) = Times(A) + g + Rank(bwd', DataCells, i)
               PROVE  sendme_auth_expected'[k] = bd + i
    BY <1>n, <1>1, <1>4, <1>5 DEF DataMatch
  <2>k. k \in Nat /\ Times(k) \in Nat /\ k <= L + 1 /\ k >= 1  BY <1>5, TimesStep
  <2>1. CASE i \in 1..n
    <3>1. bwd'[i] = bwd[i] /\ Rank(bwd', DataCells, i) = Rank(bwd, DataCells, i)
      BY <1>3, <1>4, <2>1
    <3>2. Rank(bwd, DataCells, i) \in Nat /\ Rank(bwd, DataCells, i) <= D
      <4>1. i \in 0..n  BY <2>1
      <4> QED BY <1>n, <4>1, RankType DEF Count
    <3>3. Times(k) < Times(L) + Increment
      <4>1. PICK y \in Nat, z \in Nat : y = Times(k) /\ z = Rank(bwd, DataCells, i)
        BY <2>k, <3>2
      <4>2. y = TA + g + z /\ z <= D  BY <1>b, <3>1, <3>2, <4>1
      <4>3. y < TL + Increment  BY <1>b, <4>2
      <4> QED BY <1>b, <4>1, <4>3
    <3>4. k # L + 1  BY <1>T, <2>k, <3>3
    <3>5. k \in 1..L  BY <2>k, <3>4
    <3>6. sendme_auth_expected[k] = bd + i  BY <1>n, <2>1, <3>1, <3>5 DEF CircInv, DataMatch
    <3> QED BY <1>5, <3>5, <3>6
  <2>2. CASE i = n + 1
    <3>1. Rank(bwd', DataCells, i) = D + 1  BY <1>3, <1>4, <2>2 DEF Count
    <3>2. Times(k) > Times(L)
      <4>1. PICK y \in Nat : y = Times(k)  BY <2>k
      <4>2. y = TA + g + (D + 1)  BY <1>b, <3>1, <4>1
      <4>3. y > TL  BY <1>b, <4>2
      <4> QED BY <1>b, <4>1, <4>3
    <3>3. k # L /\ ~(k < L)  BY <1>w, <1>T, <2>k, <3>2, TimesOrder
    <3>4. k = L + 1 /\ M = L + 1  BY <1>5, <2>k, <3>3
    <3> QED BY <1>5, <2>2, <3>4
  <2> QED BY <2>1, <2>2
<1> QED BY <1>6, <1>7, <1>8, <1>9 DEF CircInv

\* The exit takes a circuit SENDME: its digest is the one recorded first, and
\* the window has room for an increment.
LEMMA CircAckTaken ==
    ASSUME TypeOK, CircInv, ExitCircSendme
    PROVE  /\ CircInv'
           /\ circ_package_window' = circ_package_window + Increment
           /\ estreams' = Resumed(Streams)
<1>n. PICK w \in Nat, x \in Nat, D \in Nat, A \in Nat, L \in Nat, g \in Nat :
        /\ w = circ_package_window /\ x = sendme_auth_cells_sent /\ D = Count(bwd, DataCells)
        /\ A = Count(fwd, CircAcks) /\ L = Len(sendme_auth_expected)
        /\ g = Counted
        /\ x < Increment /\ g < Increment
  <2>1. \A y \in 0..Increment - 1 : y \in Nat /\ y < Increment  BY WindowAssumption
  <2> QED BY CircNumbers, <2>1
<1>w. Increment \in Nat \ {0} /\ CircWindow \in Nat  BY WindowAssumption
<1>t. /\ fwd \in Seq(FwdCell) /\ fwd # <<>> /\ fwd' = Tail(fwd) /\ sendme_auth_expected \in Seq(Nat)
      /\ Head(fwd).cmd = "CIRC_SENDME"
  BY DEF TypeOK, ExitCircSendme, ExitTakes
<1>h. Head(fwd) \in CircAcks /\ Head(fwd) = fwd[1] /\ 1 \in 1..Len(fwd)
  <2>1. Head(fwd) \in FwdCell /\ Head(fwd) = fwd[1] /\ 1 \in 1..Len(fwd)  BY <1>t, QueueHead
  <2> QED BY <1>t, <2>1 DEF CircAcks
<1>1. PICK m \in Nat, B \in Nat :
        /\ m = Len(fwd') /\ Len(fwd) = m + 1 /\ B = Count(fwd', CircAcks) /\ A = B + 1
        /\ \A i \in 0..m : /\ Rank(fwd', CircAcks, i) \in Nat
                           /\ Rank(fwd, CircAcks, i + 1) = Rank(fwd', CircAcks, i) + 1
        /\ \A i \in 1..m : fwd'[i] = fwd[i + 1] /\ i + 1 \in 1..Len(fwd)
  <2>1. /\ Len(fwd') \in Nat /\ Len(fwd) = Len(fwd') + 1
        /\ \A i \in 0..Len(fwd') :
             /\ Rank(fwd', CircAcks, i) \in Nat
             /\ Rank(fwd, CircAcks, i + 1) = Rank(fwd', CircAcks, i) + 1
        /\ Count(fwd', CircAcks) \in Nat
        /\ Count(fwd, CircAcks) = Count(fwd', CircAcks) + 1
    BY <1>t, <1>h, RankTail
  <2>2. \A i \in 1..Len(fwd') : fwd'[i] = fwd[i + 1] /\ i + 1 \in 1..Len(fwd)
    BY <1>t, TailCells
  <2> QED BY <1>n, <2>1, <2>2
<1>2. Rank(fwd, CircAcks, 1) = 1
  <2>1. {j \in 1..0 : fwd'[j] \in CircAcks} = {}  OBVIOUS
  <2>2. Rank(fwd', CircAcks, 0) = 0  BY <2>1, FS_EmptySet DEF Rank
  <2>3. 0 \in 0..m /\ 0 + 1 = 1  BY <1>1
  <2>4. Rank(fwd, CircAcks, 0 + 1) = Rank(fwd', CircAcks, 0) + 1  BY <1>1, <2>3
  <2> QED BY <2>2, <2>4
<1>3. 1 <= L /\ Head(fwd).auth = sendme_auth_expected[1]
  BY <1>n, <1>h, <1>2 DEF CircInv, AcksMatch
<1>4. PICK K \in Nat : /\ L = K + 1 /\ sendme_auth_expected # <<>>
                       /\ Len(Tail(sendme_auth_expected)) = K
                       /\ \A k \in 1..K : Tail(sendme_auth_expected)[k] = sendme_auth_expected[k + 1]
                       /\ Head(sendme_auth_expected) = sendme_auth_expected[1]
  <2>1. sendme_auth_expected # <<>>  BY <1>n, <1>t, <1>3
  <2>2. /\ Len(Tail(sendme_auth_expected)) \in Nat
        /\ Len(sendme_auth_expected) = Len(Tail(sendme_auth_expected)) + 1
        /\ \A k \in 1..Len(Tail(sendme_auth_expected)) :
             Tail(sendme_auth_expected)[k] = sendme_auth_expected[k + 1]
    BY <1>t, <2>1, TailCells
  <2>3. Head(sendme_auth_expected) = sendme_auth_expected[1]  BY <1>t, <2>1, QueueHead
  <2> QED BY <1>n, <2>1, <2>2, <2>3
<1>T. PICK TB \in Nat, TK \in Nat : /\ TB = Times(B) /\ TK = Times(K)
                                    /\ Times(A) = TB + Increment /\ Times(L) = TK + Increment
  BY <1>1, <1>4, TimesStep
<1>c. w + D + g + TB + Increment = CircWindow /\ w + x + TK + Increment = CircWindow
  <2>1. w + D + g + Times(A) = CircWindow /\ w + x + Times(L) = CircWindow
    BY <1>n DEF CircInv, CircCredit
  <2> QED BY <1>T, <1>w, <2>1
<1>5. w <= CircWindow  BY <1>c, <1>w
<1>6. /\ sendme_auth_expected' = Tail(sendme_auth_expected)
      /\ circ_package_window' = w + Increment /\ estreams' = Resumed(Streams)
  <2>1. SendmeVerifies(Head(fwd).auth)  BY <1>3, <1>4 DEF SendmeVerifies
  <2>2. Popped(sendme_auth_expected) = Tail(sendme_auth_expected)  BY <1>4 DEF Popped
  <2> QED BY <1>n, <1>5, <2>1, <2>2 DEF ExitCircSendme
<1>7. /\ bwd' = bwd /\ backward_digest' = backward_digest /\ sendme_auth_cells_sent' = x
      /\ relay_backward_digest' = relay_backward_digest /\ Counted' = g
  BY <1>n DEF ExitCircSendme, ExitTakes, Counted, cvars
<1>8. Len(sendme_auth_expected') = K
      /\ \A k \in 1..K : sendme_auth_expected'[k] = sendme_auth_expected[k + 1]
  BY <1>4, <1>6
<1>9. CircCredit'
  <2>1. Counted' \in 0..Increment - 1  BY <1>n, <1>7, <1>w
  <2>2. /\ (w + Increment) + D + g + Times(B) = CircWindow
        /\ (w + Increment) + x + Times(K) = CircWindow
    BY <1>T, <1>c, <1>w
  <2>3. Count(bwd', DataCells) = D  BY <1>n, <1>7
  <2> QED BY <1>1, <1>6, <1>7, <1>8, <2>1, <2>2, <2>3 DEF CircCredit
<1>10. Digests'  BY <1>7 DEF CircInv, Digests
<1>11. AcksMatch'
  <2> SUFFICES ASSUME NEW i \in 1..m, fwd'[i] \in CircAcks
               PROVE  /\ Rank(fwd', CircAcks, i) <= K
                      /\ fwd'[i].auth = sendme_auth_expected'[Rank(fwd', CircAcks, i)]
    BY <1>1, <1>8 DEF AcksMatch
  <2>1. i \in Nat /\ i \in 1..i /\ i \in 0..m  OBVIOUS
  <2>2. PICK r \in Nat : r = Rank(fwd', CircAcks, i) /\ Rank(fwd, CircAcks, i + 1) = r + 1
    BY <1>1, <2>1
  <2>3. r >= 1  BY <2>1, <2>2, RankType
  <2>4. r + 1 <= L /\ fwd[i + 1].auth = sendme_auth_expected[r + 1]
    BY <1>n, <1>1, <2>2 DEF CircInv, AcksMatch
  <2>5. r \in 1..K  BY <1>4, <2>3, <2>4
  <2> QED BY <1>1, <1>8, <2>2, <2>4, <2>5
<1>12. DataMatch'
  <2> SUFFICES ASSUME NEW i \in 1..Len(bwd), NEW k \in 1..K, bwd[i] \in DataCells,
                      Times(k) = Times(B) + g + Rank(bwd, DataCells, i)
               PROVE  sendme_auth_expected'[k] = backward_digest + i
    BY <1>1, <1>7, <1>8 DEF DataMatch
  <2>1. k \in Nat /\ Times(k) \in Nat /\ Times(k + 1) = Times(k) + Increment /\ k + 1 \in 1..L
    BY <1>4, TimesStep
  <2>2. Times(k + 1) = Times(A) + g + Rank(bwd, DataCells, i)
    <3>1. PICK y \in Nat, z \in Nat : y = Times(k) /\ z = Rank(bwd, DataCells, i)
      <4>1. i \in Nat  OBVIOUS
      <4> QED BY <2>1, <4>1, RankType
    <3>2. y = TB + g + z  BY <1>T, <3>1
    <3>3. y + Increment = (TB + Increment) + g + z  BY <1>w, <3>2
    <3> QED BY <1>T, <2>1, <3>1, <3>3
  <2>3. sendme_auth_expected[k + 1] = backward_digest + i
    BY <1>n, <2>1, <2>2 DEF CircInv, DataMatch
  <2> QED BY <1>8, <2>3
<1> QED BY <1>n, <1>6, <1>9, <1>10, <1>11, <1>12 DEF CircInv

\* The client counts a DATA cell, and may acknowledge an increment with the
\* digest it now has.
LEMMA CircCounted ==
    ASSUME TypeOK, CircInv, NEW s \in Streams, NEW open \in BOOLEAN, ClientTakes("DATA"),
           ClientCounts(s, open)
    PROVE  CircInv'
<1>n. PICK w \in Nat, x \in Nat, D \in Nat, A \in Nat, L \in Nat, g \in Nat, bd \in Nat :
        /\ w = circ_package_window /\ x = sendme_auth_cells_sent /\ D = Count(bwd, DataCells)
        /\ A = Count(fwd, CircAcks) /\ L = Len(sendme_auth_expected)
        /\ g = Counted /\ bd = backward_digest
        /\ x < Increment /\ g < Increment /\ circ_deliver_window = CircWindow - g
  <2>1. \A y \in 0..Increment - 1 : y \in Nat /\ y < Increment  BY WindowAssumption
  <2> QED BY CircNumbers, <2>1
<1>w. Increment \in Nat \ {0} /\ CircWindow \in Nat /\ Increment <= CircWindow
  BY WindowAssumption
<1>t. /\ fwd \in Seq(FwdCell) /\ bwd \in Seq(BwdCell) /\ bwd # <<>> /\ bwd' = Tail(bwd)
      /\ Head(bwd).cmd = "DATA" /\ backward_digest' = bd + 1
      /\ sendme_auth_expected' = sendme_auth_expected /\ circ_package_window' = w
      /\ sendme_auth_cells_sent' = x /\ relay_backward_digest' = relay_backward_digest
  BY <1>n DEF TypeOK, ClientTakes, evars
<1>h. Head(bwd) \in DataCells /\ Head(bwd) = bwd[1] /\ 1 \in 1..Len(bwd)
  <2>1. Head(bwd) \in BwdCell /\ Head(bwd) = bwd[1] /\ 1 \in 1..Len(bwd)  BY <1>t, QueueHead
  <2> QED BY <1>t, <2>1 DEF DataCells
<1>1. PICK m \in Nat, E \in Nat :
        /\ m = Len(bwd') /\ Len(bwd) = m + 1 /\ E = Count(bwd', DataCells) /\ D = E + 1
        /\ \A i \in 0..m : /\ Rank(bwd', DataCells, i) \in Nat
                           /\ Rank(bwd, DataCells, i + 1) = Rank(bwd', DataCells, i) + 1
        /\ \A i \in 1..m : bwd'[i] = bwd[i + 1] /\ i + 1 \in 1..Len(bwd)
  <2>1. /\ Len(bwd') \in Nat /\ Len(bwd) = Len(bwd') + 1
        /\ \A i \in 0..Len(bwd') :
             /\ Rank(bwd', DataCells, i) \in Nat
             /\ Rank(bwd, DataCells, i + 1) = Rank(bwd', DataCells, i) + 1
        /\ Count(bwd', DataCells) \in Nat
        /\ Count(bwd, DataCells) = Count(bwd', DataCells) + 1
    BY <1>t, <1>h, RankTail
  <2>2. \A i \in 1..Len(bwd') : bwd'[i] = bwd[i + 1] /\ i + 1 \in 1..Len(bwd)
    BY <1>t, TailCells
  <2> QED BY <1>n, <2>1, <2>2
<1>2. Rank(bwd, DataCells, 1) = 1
  <2>1. {j \in 1..0 : bwd'[j] \in DataCells} = {}  OBVIOUS
  <2>2. Rank(bwd', DataCells, 0) = 0  BY <2>1, FS_EmptySet DEF Rank
  <2>3. 0 \in 0..m /\ 0 + 1 = 1  BY <1>1
  <2>4. Rank(bwd, DataCells, 0 + 1) = Rank(bwd', DataCells, 0) + 1  BY <1>1, <2>3
  <2> QED BY <2>2, <2>4
<1>T. PICK TA \in Nat, TL \in Nat :
        /\ TA = Times(A) /\ TL = Times(L) /\ Times(A + 1) = TA + Increment
  BY TimesStep
<1>c. w + D + g + TA = CircWindow /\ w + x + TL = CircWindow
  BY <1>n, <1>T DEF CircInv, CircCredit
<1>b. /\ D = E + 1 /\ D + g + TA = x + TL /\ x < Increment /\ Increment \in Nat \ {0}
      /\ w + (E + 1) + g + TA = CircWindow
  <2>1. D = E + 1 /\ x < Increment  BY <1>n, <1>1
  <2> QED BY <1>c, <1>w, <2>1
<1>3. PICK strm \in BOOLEAN, circ \in BOOLEAN, mid \in Seq(FwdCell) :
        /\ circ <=> circ_deliver_window > 0 /\ circ_deliver_window - 1 <= CircWindow - Increment
        /\ mid = IF strm THEN Append(fwd, ToExit("SENDME", s, NoAuth)) ELSE fwd
        /\ fwd' = IF circ THEN Append(mid, ToExit("CIRC_SENDME", NoStream, backward_digest + 1))
                  ELSE mid
        /\ ToExit("SENDME", s, NoAuth) \in AcksOf(s)
        /\ ToExit("CIRC_SENDME", NoStream, backward_digest + 1) \in CircAcks
        /\ circ_deliver_window' = IF circ_deliver_window <= 0 THEN circ_deliver_window
             ELSE IF circ THEN circ_deliver_window - 1 + Increment
             ELSE circ_deliver_window - 1
  BY CountsEffect
<1>4. /\ circ <=> g + 1 = Increment
      /\ Counted' = IF circ THEN 0 ELSE g + 1
  <2>1. PICK v \in Int : v = circ_deliver_window /\ v = CircWindow - g  BY <1>n, <1>w
  <2>2. v > 0 /\ (v - 1 <= CircWindow - Increment <=> g + 1 = Increment)  BY <1>n, <1>w, <2>1
  <2>3. circ <=> g + 1 = Increment  BY <1>3, <2>1, <2>2
  <2>4. circ_deliver_window' = IF circ THEN v - 1 + Increment ELSE v - 1  BY <1>3, <2>1, <2>2
  <2>5. CASE circ
    <3>1. circ_deliver_window' = v - 1 + Increment /\ g + 1 = Increment  BY <2>3, <2>4, <2>5
    <3>2. CircWindow - (v - 1 + Increment) = 0  BY <1>w, <2>1, <3>1
    <3> QED BY <2>3, <2>5, <3>1, <3>2 DEF Counted
  <2>6. CASE ~circ
    <3>1. circ_deliver_window' = v - 1  BY <2>4, <2>6
    <3>2. CircWindow - (v - 1) = g + 1  BY <1>w, <2>1
    <3> QED BY <2>3, <2>6, <3>1, <3>2 DEF Counted
  <2> QED BY <2>5, <2>6
\* The stream's SENDME is none of the circuit's.
<1>5. /\ Len(mid) \in Nat /\ Count(mid, CircAcks) = A
      /\ \A i \in 1..Len(mid) : mid[i] \in CircAcks =>
           Rank(mid, CircAcks, i) <= L /\ mid[i].auth = sendme_auth_expected[Rank(mid, CircAcks, i)]
  <2>0. AcksMatch  BY DEF CircInv
  <2>1. CASE ~strm
    <3>1. mid = fwd  BY <1>3, <2>1
    <3> QED BY <1>n, <1>t, <2>0, <3>1 DEF AcksMatch
  <2>2. CASE strm
    <3>1. PICK c \in FwdCell : c \notin CircAcks /\ mid = Append(fwd, c)
      BY <1>3, <2>2 DEF AcksOf, CircAcks
    <3>2. /\ \A i \in 0..Len(fwd) : Rank(mid, CircAcks, i) = Rank(fwd, CircAcks, i)
          /\ Count(mid, CircAcks) = Count(fwd, CircAcks) + 0
      BY <1>t, <3>1, RankAppend
    <3>3. /\ Len(fwd) \in Nat /\ Len(mid) = Len(fwd) + 1
          /\ \A i \in 1..Len(fwd) : mid[i] = fwd[i]
          /\ mid[Len(fwd) + 1] = c
      BY <1>t, <3>1
    <3>4. ASSUME NEW i \in 1..Len(mid), mid[i] \in CircAcks
          PROVE  Rank(mid, CircAcks, i) <= L /\ mid[i].auth = sendme_auth_expected[Rank(mid, CircAcks, i)]
      <4>1. i \in 1..Len(fwd)  BY <3>1, <3>3, <3>4
      <4>2. mid[i] = fwd[i] /\ Rank(mid, CircAcks, i) = Rank(fwd, CircAcks, i)
        BY <3>2, <3>3, <4>1
      <4> QED BY <1>n, <2>0, <3>4, <4>1, <4>2 DEF AcksMatch
    <3> QED BY <1>n, <3>2, <3>3, <3>4
  <2> QED BY <2>1, <2>2
\* If the circuit's SENDME is due, the head of the queue completes the
\* increment, and its digest was recorded.
<1>6. ASSUME circ PROVE A + 1 \in 1..L /\ sendme_auth_expected[A + 1] = bd + 1
  <2>1. g + 1 = Increment  BY <1>4, <1>6
  <2>2. TA < TL  BY <1>b, <2>1
  <2>3. A # L /\ ~(L < A)
    <3>1. ASSUME L < A PROVE FALSE
      <4>1. Times(L) + Increment <= Times(A)  BY <3>1, TimesOrder
      <4> QED BY <1>T, <1>w, <2>2, <4>1
    <3> QED BY <1>T, <2>2, <3>1
  <2>4. A + 1 \in 1..L  BY <2>3
  <2>5. Times(A + 1) = Times(A) + Counted + Rank(bwd, DataCells, 1)
    <3>1. TA + Increment = TA + g + 1  BY <2>1
    <3> QED BY <1>n, <1>2, <1>T, <3>1
  <2>6. sendme_auth_expected[A + 1] = backward_digest + 1
    BY <1>n, <1>h, <2>4, <2>5 DEF CircInv, DataMatch
  <2> QED BY <1>n, <2>4, <2>6
<1>7. /\ Count(fwd', CircAcks) = IF circ THEN A + 1 ELSE A
      /\ AcksMatch'
  <2>1. CASE ~circ
    <3>1. fwd' = mid  BY <1>3, <2>1
    <3>2. AcksMatch'  BY <1>n, <1>t, <1>5, <3>1 DEF AcksMatch
    <3> QED BY <1>5, <2>1, <3>1, <3>2
  <2>2. CASE circ
    <3>1. PICK c \in FwdCell : c \in CircAcks /\ fwd' = Append(mid, c) /\ c.auth = bd + 1
      <4>1. ToExit("CIRC_SENDME", NoStream, backward_digest + 1).auth = backward_digest + 1
        BY DEF ToExit
      <4> QED BY <1>n, <1>3, <2>2, <4>1 DEF CircAcks
    <3>2. /\ \A i \in 0..Len(mid) : Rank(fwd', CircAcks, i) = Rank(mid, CircAcks, i)
          /\ Count(fwd', CircAcks) = A + 1
      <4>1. /\ Count(mid, CircAcks) \in Nat
            /\ \A i \in 0..Len(mid) : Rank(Append(mid, c), CircAcks, i) = Rank(mid, CircAcks, i)
            /\ Count(Append(mid, c), CircAcks) = Count(mid, CircAcks) + 1
        BY <3>1, RankAppend
      <4> QED BY <1>5, <3>1, <4>1
    <3>3. /\ Len(fwd') = Len(mid) + 1
          /\ \A i \in 1..Len(mid) : fwd'[i] = mid[i]
          /\ fwd'[Len(mid) + 1] = c
      BY <1>3, <3>1
    <3>4. ASSUME NEW i \in 1..Len(fwd'), fwd'[i] \in CircAcks
          PROVE  /\ Rank(fwd', CircAcks, i) <= L
                 /\ fwd'[i].auth = sendme_auth_expected[Rank(fwd', CircAcks, i)]
      <4>1. CASE i \in 1..Len(mid)
        <5>1. fwd'[i] = mid[i] /\ Rank(fwd', CircAcks, i) = Rank(mid, CircAcks, i)
          BY <1>5, <3>2, <3>3, <4>1
        <5> QED BY <1>5, <3>4, <4>1, <5>1
      <4>2. CASE i = Len(mid) + 1
        <5>1. Rank(fwd', CircAcks, i) = A + 1  BY <3>2, <3>3, <4>2 DEF Count
        <5>2. A + 1 <= L /\ sendme_auth_expected[A + 1] = bd + 1  BY <1>6, <2>2
        <5> QED BY <3>1, <3>3, <4>2, <5>1, <5>2
      <4> QED BY <1>5, <3>3, <4>1, <4>2
    <3>5. AcksMatch'  BY <1>n, <1>t, <3>4 DEF AcksMatch
    <3> QED BY <2>2, <3>2, <3>5
  <2> QED BY <2>1, <2>2
\* One more is counted, in one way or the other.
<1>8. PICK h \in Nat, TB \in Nat :
        /\ h = Counted' /\ TB = Times(Count(fwd', CircAcks)) /\ h < Increment /\ TB + h = TA + g + 1
  <2>1. CASE circ
    <3>1. Counted' = 0 /\ Count(fwd', CircAcks) = A + 1 /\ g + 1 = Increment
      BY <1>4, <1>7, <2>1
    <3>2. TA + Increment \in Nat /\ (TA + Increment) + 0 = TA + g + 1 /\ 0 < Increment
      BY <1>b, <3>1
    <3>3. Times(Count(fwd', CircAcks)) = TA + Increment  BY <1>T, <3>1
    <3> QED BY <3>1, <3>2, <3>3
  <2>2. CASE ~circ
    <3>1. g + 1 < Increment  BY <1>4, <1>n, <1>w, <2>2
    <3> QED BY <1>4, <1>7, <1>T, <2>2, <3>1
  <2> QED BY <2>1, <2>2
<1>9. CircCredit'
  <2>1. Counted' \in 0..Increment - 1  BY <1>8, <1>w
  <2>2. w + E + h + TB = CircWindow
    <3>1. TB + h = TA + g + 1  BY <1>8
    <3> QED BY <1>b, <3>1
  <2>3. w + x + Times(L) = CircWindow  BY <1>T, <1>c
  <2> QED BY <1>n, <1>t, <1>1, <1>8, <2>1, <2>2, <2>3 DEF CircCredit
<1>10. Digests'
  <2>1. relay_backward_digest = bd + (m + 1)  BY <1>n, <1>1 DEF CircInv, Digests
  <2>2. relay_backward_digest = (bd + 1) + m  BY <2>1
  <2> QED BY <1>t, <1>1, <2>2 DEF Digests
<1>11. DataMatch'
  <2> SUFFICES ASSUME NEW i \in 1..m, NEW k \in 1..L, bwd'[i] \in DataCells,
                      Times(k) = TB + h + Rank(bwd', DataCells, i)
               PROVE  sendme_auth_expected[k] = bd + 1 + i
    BY <1>n, <1>t, <1>1, <1>8 DEF DataMatch
  <2>1. i \in 0..m /\ i \in Nat  OBVIOUS
  <2>2. PICK r \in Nat : r = Rank(bwd', DataCells, i) /\ Rank(bwd, DataCells, i + 1) = r + 1
    BY <1>1, <2>1
  <2>3. TB + h + r = TA + g + (r + 1)  BY <1>8
  <2>4. Times(k) = Times(A) + g + Rank(bwd, DataCells, i + 1)  BY <1>T, <2>2, <2>3
  <2>5. sendme_auth_expected[k] = bd + (i + 1)  BY <1>n, <1>1, <2>4 DEF CircInv, DataMatch
  <2> QED BY <2>1, <2>5
<1> QED BY <1>7, <1>9, <1>10, <1>11 DEF CircInv

\* Every step keeps the circuit's part.
LEMMA CircNext ==
    ASSUME TypeOK, CircInv, [Next]_vars
    PROVE  CircInv'
<1>b. \A r \in Streams : /\ [cmd |-> "CONNECTED", sid |-> r] \in BwdCell \ DataCells
                         /\ [cmd |-> "END", sid |-> r] \in BwdCell \ DataCells
  BY DEF BwdCell, DataCells
<1>f. \A r \in Streams : /\ ToExit("BEGIN", r, NoAuth) \in FwdCell \ CircAcks
                         /\ ToExit("END", r, NoAuth) \in FwdCell \ CircAcks
  BY DEF FwdCell, CircAcks, ToExit, NoAuth
<1>1. ASSUME NEW s \in Streams, ExitConnectComplete(s) \/ ExitTargetClosed(s) PROVE CircInv'
  <2>1. PICK c \in BwdCell \ DataCells : bwd' = Append(bwd, c)
    BY <1>1, <1>b DEF ExitConnectComplete, ExitTargetClosed, ExitSends
  <2>2. /\ sendme_auth_expected' = sendme_auth_expected
        /\ sendme_auth_cells_sent' = sendme_auth_cells_sent
        /\ circ_package_window' = circ_package_window /\ circ_deliver_window' = circ_deliver_window
        /\ fwd' = fwd /\ relay_backward_digest' = relay_backward_digest + 1
        /\ backward_digest' = backward_digest
    BY <1>1 DEF ExitConnectComplete, ExitTargetClosed, ExitSends, cvars
  <2> QED BY <2>1, <2>2, CircKept
<1>2. ASSUME NEW s \in Streams, OpenStream(s) \/ CloseStream(s) PROVE CircInv'
  <2>1. PICK c \in FwdCell \ CircAcks : fwd' = Append(fwd, c)
    BY <1>2, <1>f DEF OpenStream, CloseStream
  <2>2. /\ sendme_auth_expected' = sendme_auth_expected
        /\ sendme_auth_cells_sent' = sendme_auth_cells_sent
        /\ circ_package_window' = circ_package_window /\ circ_deliver_window' = circ_deliver_window
        /\ bwd' = bwd /\ relay_backward_digest' = relay_backward_digest
        /\ backward_digest' = backward_digest
    BY <1>2 DEF OpenStream, CloseStream, evars
  <2> QED BY <2>1, <2>2, CircKept
<1>3. ASSUME NEW s \in Streams, ExitRead(s) PROVE CircInv'
  <2>1. CASE ExitReadPaused(s)
    <3>1. /\ sendme_auth_expected' = sendme_auth_expected
          /\ sendme_auth_cells_sent' = sendme_auth_cells_sent
          /\ circ_package_window' = circ_package_window /\ circ_deliver_window' = circ_deliver_window
          /\ fwd' = fwd /\ bwd' = bwd /\ relay_backward_digest' = relay_backward_digest
          /\ backward_digest' = backward_digest
      BY <2>1 DEF ExitReadPaused, cvars
    <3> QED BY <3>1, CircKept
  <2>2. CASE ExitReadData(s)
    BY <2>2, CircData
  <2> QED BY <1>3, <2>1, <2>2 DEF ExitRead
<1>4. CASE ExitBegin \/ ExitEnd \/ ExitStreamSendme
  <2>1. fwd # <<>> /\ fwd' = Tail(fwd) /\ Head(fwd).cmd \in {"BEGIN", "END", "SENDME"}
    BY <1>4 DEF ExitBegin, ExitEnd, ExitStreamSendme, ExitTakes
  <2>2. Head(fwd) \notin CircAcks  BY <2>1 DEF CircAcks
  <2>3. /\ sendme_auth_expected' = sendme_auth_expected
        /\ sendme_auth_cells_sent' = sendme_auth_cells_sent
        /\ circ_package_window' = circ_package_window /\ circ_deliver_window' = circ_deliver_window
        /\ backward_digest' = backward_digest
    BY <1>4 DEF ExitBegin, ExitEnd, ExitStreamSendme, ExitTakes, cvars
  <2>4. \/ bwd' = bwd /\ relay_backward_digest' = relay_backward_digest
        \/ /\ \E c \in BwdCell \ DataCells : bwd' = Append(bwd, c)
           /\ relay_backward_digest' = relay_backward_digest + 1
    <3>1. CASE ExitBegin
      <4>1. Head(fwd).sid \in Streams  BY <3>1, <2>1, FwdHead DEF ExitBegin, ExitTakes
      <4> QED BY <3>1, <4>1, <1>b DEF ExitBegin, ExitSends
    <3>2. CASE ExitEnd \/ ExitStreamSendme
      BY <3>2 DEF ExitEnd, ExitStreamSendme
    <3> QED BY <1>4, <3>1, <3>2
  <2> QED BY <2>1, <2>2, <2>3, <2>4, CircKept
<1>5. CASE ClientConnected \/ ClientEnd
  <2>1. bwd # <<>> /\ bwd' = Tail(bwd) /\ Head(bwd).cmd \in {"CONNECTED", "END"}
    BY <1>5 DEF ClientConnected, ClientEnd, ClientTakes
  <2>2. Head(bwd) \notin DataCells  BY <2>1 DEF DataCells
  <2>3. /\ sendme_auth_expected' = sendme_auth_expected
        /\ sendme_auth_cells_sent' = sendme_auth_cells_sent
        /\ circ_package_window' = circ_package_window /\ circ_deliver_window' = circ_deliver_window
        /\ relay_backward_digest' = relay_backward_digest
        /\ backward_digest' = backward_digest + 1 /\ fwd' = fwd
    BY <1>5 DEF ClientConnected, ClientEnd, ClientTakes, evars
  <2> QED BY <2>1, <2>2, <2>3, CircKept
<1>6. CASE ClientData \/ ClientDataRefused
  <2>1. ClientTakes("DATA")  BY <1>6 DEF ClientData, ClientDataRefused
  <2>2. PICK s \in Streams : s = Head(bwd).sid  BY <2>1, BwdHead DEF ClientTakes
  <2>3. \E open \in BOOLEAN : ClientCounts(s, open)
    <3>1. CASE ClientData
      <4>1. PICK open \in BOOLEAN : open = (cstreams[s].st = "open")  OBVIOUS
      <4>2. ClientCounts(s, open)  BY <2>2, <3>1, <4>1 DEF ClientData
      <4> QED BY <4>2
    <3>2. CASE ClientDataRefused
      <4>1. ClientCounts(s, FALSE)  BY <2>2, <3>2, Zenon DEF ClientDataRefused
      <4> QED BY <4>1
    <3> QED BY <1>6, <3>1, <3>2
  <2> QED BY <2>1, <2>3, CircCounted
<1>7. CASE UNCHANGED vars
  <2>1. /\ sendme_auth_expected' = sendme_auth_expected
        /\ sendme_auth_cells_sent' = sendme_auth_cells_sent
        /\ circ_package_window' = circ_package_window /\ circ_deliver_window' = circ_deliver_window
        /\ fwd' = fwd /\ bwd' = bwd /\ relay_backward_digest' = relay_backward_digest
        /\ backward_digest' = backward_digest
    BY <1>7 DEF vars, evars, cvars
  <2> QED BY <2>1, CircKept
<1> QED BY <1>1, <1>2, <1>3, <1>4, <1>5, <1>6, <1>7, CircAckTaken DEF Next, ExitCell, ClientCell

-----------------------------------------------------------------------------
(* The streams.                                                            *)

\* What the steps do to one stream: the client opens it, closes it, or has
\* closed it when DATA comes.
LEMMA SlotClient ==
    ASSUME NEW cst, NEW del, NEW est, NEW pkg, NEW b, NEW a, NEW d,
           Slot(cst, del, est, pkg, b, a, d)
    PROVE  /\ cst = "unused" => Slot("open", StreamWindow, est, pkg, b + 1, a, d)
           /\ Slot("closed", del, est, pkg, b, a, d)
           /\ \A e \in Nat : d = e + 1 => Slot("closed", del, est, pkg, b, a, e)
BY WindowAssumption DEF Slot

\* The exit's slot: it is freed, connected, read from, or made by a BEGIN.
LEMMA SlotExit ==
    ASSUME NEW cst, NEW del \in Int, NEW est, NEW pkg \in Int, NEW b, NEW a, NEW d,
           Slot(cst, del, est, pkg, b, a, d)
    PROVE  /\ Slot(cst, del, "none", pkg, b, a, d)
           /\ est # "none" => Slot(cst, del, "connected", pkg, b, a, d)
           /\ est # "none" => Slot(cst, del, est, pkg - 1, b, a, d + 1)
           /\ \A c \in Nat : \A st : b = c + 1 =>
                /\ Slot(cst, del, st, StreamWindow, c, a, d)
                /\ Slot(cst, del, est, pkg, c, a, d)
<1>w. StreamWindow \in Nat /\ Increment \in Nat \ {0}  BY WindowAssumption
<1>1. a \in Nat /\ Times(a) \in Nat /\ Times(0) = 0  BY TimesStep DEF Slot
<1>2. Slot(cst, del, "none", pkg, b, a, d) /\ (est # "none" => Slot(cst, del, "connected", pkg, b, a, d))
  BY DEF Slot
<1>3. est # "none" => Slot(cst, del, est, pkg - 1, b, a, d + 1)  BY <1>w, <1>1 DEF Slot
<1>4. ASSUME NEW c \in Nat, NEW st, b = c + 1
      PROVE  /\ Slot(cst, del, st, StreamWindow, c, a, d)
             /\ Slot(cst, del, est, pkg, c, a, d)
  <2>1. c = 0 /\ a = 0 /\ d = 0 /\ cst # "unused" /\ est = "none" /\ (cst = "open" => del = StreamWindow)
    BY <1>4 DEF Slot
  <2>2. StreamWindow + 0 + (StreamWindow - StreamWindow) + Times(0) = StreamWindow
    BY <1>w, <1>1
  <2> QED BY <1>w, <2>1, <2>2 DEF Slot
<1> QED BY <1>2, <1>3, <1>4

\* A stream SENDME arrives: if the window is above its size, the client has
\* closed the stream or the exit has freed it.
LEMMA SlotAcked ==
    ASSUME NEW cst, NEW del \in Int, NEW est, NEW pkg \in Int, NEW b, NEW a, NEW d, NEW e \in Nat,
           Slot(cst, del, est, pkg, b, a, d), a = e + 1, pkg >= 0
    PROVE  /\ est = "none" \/ pkg > StreamWindow => Slot(cst, del, est, pkg, b, e, d)
           /\ Slot(cst, del, est, pkg + Increment, b, e, d)
<1>w. StreamWindow \in Nat /\ Increment \in Nat \ {0}  BY WindowAssumption
<1>1. Times(e) \in Nat /\ Times(a) = Times(e) + Increment  BY TimesStep
<1>2. b = 0 /\ cst # "unused" /\ d \in Nat /\ b \in Nat  BY DEF Slot
<1>3. ASSUME cst = "open", est # "none"
      PROVE  pkg + Increment + d + (StreamWindow - del) + Times(e) = StreamWindow
             /\ pkg <= StreamWindow
  <2>1. pkg + d + (StreamWindow - del) + Times(a) = StreamWindow /\ del <= StreamWindow
    BY <1>3 DEF Slot
  <2>2. PICK y \in Nat : y = Times(e)  BY <1>1
  <2>3. pkg + d + (StreamWindow - del) + (y + Increment) = StreamWindow  BY <1>1, <2>1, <2>2
  <2>4. pkg + Increment + d + (StreamWindow - del) + y = StreamWindow /\ pkg <= StreamWindow
    BY <1>w, <1>2, <2>1, <2>3
  <2> QED BY <2>2, <2>4
<1>4. cst = "open" => StreamWindow - Increment < del /\ del <= StreamWindow  BY DEF Slot
<1> QED BY <1>w, <1>2, <1>3, <1>4 DEF Slot

\* DATA arrives at an open stream.
LEMMA SlotCounted ==
    ASSUME NEW del \in Int, NEW est, NEW pkg \in Int, NEW b, NEW a, NEW d, NEW e \in Nat,
           Slot("open", del, est, pkg, b, a, d), d = e + 1
    PROVE  /\ del > 0
           /\ del - 1 <= StreamWindow - Increment =>
                Slot("open", del - 1 + Increment, est, pkg, b, a + 1, e)
           /\ ~(del - 1 <= StreamWindow - Increment) => Slot("open", del - 1, est, pkg, b, a, e)
<1>w. StreamWindow \in Nat /\ Increment \in Nat \ {0} /\ Increment <= StreamWindow
  BY WindowAssumption
<1>1. b = 0 /\ a \in Nat /\ b \in Nat /\ StreamWindow - Increment < del /\ del <= StreamWindow
  BY DEF Slot
<1>2. PICK y \in Nat : y = Times(a) /\ Times(a + 1) = y + Increment  BY <1>1, TimesStep
<1>3. ASSUME est # "none"
      PROVE  /\ pkg + e + (StreamWindow - (del - 1 + Increment)) + (y + Increment) = StreamWindow
             /\ pkg + e + (StreamWindow - (del - 1)) + y = StreamWindow
  <2>1. pkg + (e + 1) + (StreamWindow - del) + y = StreamWindow  BY <1>2, <1>3 DEF Slot
  <2> QED BY <1>w, <1>1, <2>1
<1>4. del > 0 /\ del - 1 + Increment \in Int /\ del - 1 \in Int /\ a + 1 \in Nat  BY <1>w, <1>1
<1>5. ASSUME del - 1 <= StreamWindow - Increment
      PROVE  Slot("open", del - 1 + Increment, est, pkg, b, a + 1, e)
  <2>1. StreamWindow - Increment < del - 1 + Increment /\ del - 1 + Increment <= StreamWindow
    BY <1>w, <1>1, <1>5
  <2> QED BY <1>1, <1>2, <1>3, <1>4, <2>1 DEF Slot
<1>6. ASSUME ~(del - 1 <= StreamWindow - Increment)
      PROVE  Slot("open", del - 1, est, pkg, b, a, e)
  <2>1. StreamWindow - Increment < del - 1 /\ del - 1 <= StreamWindow  BY <1>w, <1>1, <1>6
  <2> QED BY <1>1, <1>2, <1>3, <1>4, <2>1 DEF Slot
<1> QED BY <1>4, <1>5, <1>6

\* The cells of one stream in the queues, when the last or the first changes.
LEMMA FwdCounts ==
    ASSUME TypeOK, NEW r \in Streams
    PROVE  /\ Count(fwd, BeginOf(r)) \in Nat /\ Count(fwd, AcksOf(r)) \in Nat
           /\ \A c \in FwdCell :
                /\ Count(Append(fwd, c), BeginOf(r)) =
                     Count(fwd, BeginOf(r)) + (IF c \in BeginOf(r) THEN 1 ELSE 0)
                /\ Count(Append(fwd, c), AcksOf(r)) =
                     Count(fwd, AcksOf(r)) + (IF c \in AcksOf(r) THEN 1 ELSE 0)
           /\ fwd # <<>> =>
                /\ Count(Tail(fwd), BeginOf(r)) \in Nat
                /\ Count(fwd, BeginOf(r)) =
                     Count(Tail(fwd), BeginOf(r)) + (IF Head(fwd) \in BeginOf(r) THEN 1 ELSE 0)
                /\ Count(Tail(fwd), AcksOf(r)) \in Nat
                /\ Count(fwd, AcksOf(r)) =
                     Count(Tail(fwd), AcksOf(r)) + (IF Head(fwd) \in AcksOf(r) THEN 1 ELSE 0)
<1>t. fwd \in Seq(FwdCell) /\ Len(fwd) \in Nat  BY DEF TypeOK
<1>1. Count(fwd, BeginOf(r)) \in Nat /\ Count(fwd, AcksOf(r)) \in Nat
  BY <1>t, RankType DEF Count
<1>2. \A c \in FwdCell :
        /\ Count(Append(fwd, c), BeginOf(r)) =
             Count(fwd, BeginOf(r)) + (IF c \in BeginOf(r) THEN 1 ELSE 0)
        /\ Count(Append(fwd, c), AcksOf(r)) =
             Count(fwd, AcksOf(r)) + (IF c \in AcksOf(r) THEN 1 ELSE 0)
  BY <1>t, RankAppend
<1>3. ASSUME fwd # <<>>
      PROVE  /\ Count(Tail(fwd), BeginOf(r)) \in Nat
             /\ Count(fwd, BeginOf(r)) =
                  Count(Tail(fwd), BeginOf(r)) + (IF Head(fwd) \in BeginOf(r) THEN 1 ELSE 0)
             /\ Count(Tail(fwd), AcksOf(r)) \in Nat
             /\ Count(fwd, AcksOf(r)) =
                  Count(Tail(fwd), AcksOf(r)) + (IF Head(fwd) \in AcksOf(r) THEN 1 ELSE 0)
  BY <1>t, <1>3, RankTail
<1> QED BY <1>1, <1>2, <1>3

\* How many cells of a stream are on their way to the client.
LEMMA BwdCounts ==
    ASSUME TypeOK, NEW r \in Streams
    PROVE  /\ Count(bwd, DataOf(r)) \in Nat
           /\ \A c \in BwdCell :
                Count(Append(bwd, c), DataOf(r)) =
                  Count(bwd, DataOf(r)) + (IF c \in DataOf(r) THEN 1 ELSE 0)
           /\ bwd # <<>> =>
                /\ Count(Tail(bwd), DataOf(r)) \in Nat
                /\ Count(bwd, DataOf(r)) =
                     Count(Tail(bwd), DataOf(r)) + (IF Head(bwd) \in DataOf(r) THEN 1 ELSE 0)
<1>t. bwd \in Seq(BwdCell) /\ Len(bwd) \in Nat  BY DEF TypeOK
<1>1. Count(bwd, DataOf(r)) \in Nat  BY <1>t, RankType DEF Count
<1>2. \A c \in BwdCell : Count(Append(bwd, c), DataOf(r)) =
                           Count(bwd, DataOf(r)) + (IF c \in DataOf(r) THEN 1 ELSE 0)
  BY <1>t, RankAppend
<1>3. ASSUME bwd # <<>>
      PROVE  /\ Count(Tail(bwd), DataOf(r)) \in Nat
             /\ Count(bwd, DataOf(r)) =
                  Count(Tail(bwd), DataOf(r)) + (IF Head(bwd) \in DataOf(r) THEN 1 ELSE 0)
  BY <1>t, <1>3, RankTail
<1> QED BY <1>1, <1>2, <1>3

\* The client's own steps: BEGIN when it opens a stream, END when it closes it.
LEMMA StreamOpened ==
    ASSUME TypeOK, NEW r \in Streams, StreamInv(r), NEW s \in Streams,
           OpenStream(s) \/ CloseStream(s)
    PROVE  StreamInv(r)'
<1>t. cstreams \in [Streams -> CStream] /\ estreams' = estreams /\ bwd' = bwd
  BY DEF TypeOK, OpenStream, CloseStream, evars
<1>n. PICK b \in Nat, a \in Nat, d \in Nat :
        /\ b = Count(fwd, BeginOf(r)) /\ a = Count(fwd, AcksOf(r)) /\ d = Count(bwd, DataOf(r))
  BY FwdCounts, BwdCounts
<1>i. Slot(cstreams[r].st, cstreams[r].del, estreams[r].st, estreams[r].pkg, b, a, d)
  BY <1>n DEF StreamInv
<1>1. CASE OpenStream(s)
  <2>1. PICK c \in FwdCell : /\ fwd' = Append(fwd, c) /\ c \notin AcksOf(r)
                             /\ c \in BeginOf(r) <=> s = r
    <3>1. /\ ToExit("BEGIN", s, NoAuth) \in FwdCell /\ ToExit("BEGIN", s, NoAuth).cmd = "BEGIN"
          /\ ToExit("BEGIN", s, NoAuth).sid = s
      BY DEF ToExit, FwdCell, NoAuth
    <3>2. fwd' = Append(fwd, ToExit("BEGIN", s, NoAuth))  BY <1>1 DEF OpenStream
    <3> QED BY <3>1, <3>2 DEF BeginOf, AcksOf
  <2>2. /\ Count(fwd', BeginOf(r)) = IF s = r THEN b + 1 ELSE b
        /\ Count(fwd', AcksOf(r)) = a
    BY <1>n, <2>1, FwdCounts
  <2>3. CASE s = r
    <3>1. cstreams'[r] = [st |-> "open", del |-> StreamWindow] /\ cstreams[r].st = "unused"
      BY <1>t, <1>1, <2>3 DEF OpenStream
    <3>2. Slot("open", StreamWindow, estreams[r].st, estreams[r].pkg, b + 1, a, d)
      BY <1>i, <3>1, SlotClient
    <3> QED BY <1>n, <1>t, <2>2, <2>3, <3>1, <3>2 DEF StreamInv
  <2>4. CASE s # r
    <3>1. cstreams'[r] = cstreams[r]  BY <1>t, <1>1, <2>4 DEF OpenStream
    <3> QED BY <1>i, <1>n, <1>t, <2>2, <2>4, <3>1 DEF StreamInv
  <2> QED BY <2>3, <2>4
<1>2. CASE CloseStream(s)
  <2>1. PICK c \in FwdCell : fwd' = Append(fwd, c) /\ c \notin AcksOf(r) /\ c \notin BeginOf(r)
    <3>1. ToExit("END", s, NoAuth) \in FwdCell /\ ToExit("END", s, NoAuth).cmd = "END"
      BY DEF ToExit, FwdCell, NoAuth
    <3>2. fwd' = Append(fwd, ToExit("END", s, NoAuth))  BY <1>2 DEF CloseStream
    <3> QED BY <3>1, <3>2 DEF BeginOf, AcksOf
  <2>2. Count(fwd', BeginOf(r)) = b /\ Count(fwd', AcksOf(r)) = a  BY <1>n, <2>1, FwdCounts
  <2>3. cstreams'[r] = cstreams[r] \/ (cstreams'[r].st = "closed" /\ cstreams'[r].del = cstreams[r].del)
    BY <1>t, <1>2 DEF CloseStream, CStream
  <2>4. Slot("closed", cstreams[r].del, estreams[r].st, estreams[r].pkg, b, a, d)
    BY <1>i, SlotClient
  <2> QED BY <1>i, <1>n, <1>t, <2>2, <2>3, <2>4 DEF StreamInv
<1> QED BY <1>1, <1>2

\* The exit's callbacks on its targets.
LEMMA StreamTargets ==
    ASSUME TypeOK, ReadingInv, NEW r \in Streams, StreamInv(r), NEW s \in Streams,
           ExitConnectComplete(s) \/ ExitRead(s) \/ ExitTargetClosed(s)
    PROVE  StreamInv(r)'
<1>t. /\ estreams \in [Streams -> EStream] /\ cstreams' = cstreams /\ fwd' = fwd
      /\ cstreams[r].del \in Int /\ estreams[r].pkg \in Int
  BY DEF TypeOK, ExitConnectComplete, ExitRead, ExitReadPaused, ExitReadData, ExitTargetClosed, cvars,
         CStream, EStream
<1>n. PICK b, a, d \in Nat :
        /\ b = Count(fwd, BeginOf(r)) /\ a = Count(fwd, AcksOf(r)) /\ d = Count(bwd, DataOf(r))
  <2>1. Count(bwd, DataOf(r)) \in Nat /\ Count(fwd, BeginOf(r)) \in Nat /\ Count(fwd, AcksOf(r)) \in Nat
    BY BwdCounts, FwdCounts
  <2> QED BY <2>1
<1>i. Slot(cstreams[r].st, cstreams[r].del, estreams[r].st, estreams[r].pkg, b, a, d)
  BY <1>n DEF StreamInv
<1>s. /\ Slot(cstreams[r].st, cstreams[r].del, "none", estreams[r].pkg, b, a, d)
      /\ estreams[r].st # "none" =>
           Slot(cstreams[r].st, cstreams[r].del, "connected", estreams[r].pkg, b, a, d)
      /\ estreams[r].st # "none" =>
           Slot(cstreams[r].st, cstreams[r].del, estreams[r].st, estreams[r].pkg - 1, b, a, d + 1)
  BY <1>t, <1>i, SlotExit
<1>1. CASE ExitConnectComplete(s) \/ ExitTargetClosed(s)
  <2>1. \E c \in BwdCell : bwd' = Append(bwd, c) /\ c \notin DataOf(r)
    <3>1. /\ [cmd |-> "CONNECTED", sid |-> s] \in BwdCell \ DataOf(r)
          /\ [cmd |-> "END", sid |-> s] \in BwdCell \ DataOf(r)
      BY DEF BwdCell, DataOf
    <3> QED BY <1>1, <3>1 DEF ExitConnectComplete, ExitTargetClosed, ExitSends
  <2>2. Count(bwd', DataOf(r)) = d  BY <1>n, <2>1, BwdCounts
  <2>3. /\ estreams'[r].pkg = estreams[r].pkg
        /\ \/ estreams'[r].st = estreams[r].st
           \/ estreams'[r].st = "none"
           \/ estreams'[r].st = "connected" /\ estreams[r].st # "none"
    <3>1. CASE ExitConnectComplete(s)
      BY <1>t, <3>1 DEF ExitConnectComplete, EStream
    <3>2. CASE ExitTargetClosed(s)
      BY <1>t, <3>2 DEF ExitTargetClosed, EStream
    <3> QED BY <1>1, <3>1, <3>2
  <2> QED BY <1>i, <1>n, <1>s, <1>t, <2>2, <2>3 DEF StreamInv
<1>2. CASE ExitReadPaused(s)
  <2>1. bwd' = bwd /\ estreams'[r].pkg = estreams[r].pkg /\ estreams'[r].st = estreams[r].st
    BY <1>t, <1>2 DEF ExitReadPaused, EStream
  <2> QED BY <1>i, <1>n, <1>t, <2>1 DEF StreamInv
<1>3. CASE ExitReadData(s)
  <2>1. estreams[s].st # "none"  BY <1>3 DEF ExitReadData, ReadingInv
  <2>2. PICK c \in BwdCell : bwd' = Append(bwd, c) /\ (c \in DataOf(r) <=> s = r)
    <3>1. [cmd |-> "DATA", sid |-> s] \in BwdCell /\ ([cmd |-> "DATA", sid |-> s] \in DataOf(r) <=> s = r)
      BY DEF BwdCell, DataOf
    <3> QED BY <1>3, <3>1 DEF ExitReadData, ExitSends
  <2>3. Count(bwd', DataOf(r)) = IF s = r THEN d + 1 ELSE d  BY <1>n, <2>2, BwdCounts
  <2>4. PICK rd \in BOOLEAN : rd <=> (estreams[s].pkg - 1 > 0 /\ circ_package_window' > 0)
    OBVIOUS
  <2>5. PICK p : p = estreams[s].pkg - 1  OBVIOUS
  <2>6. estreams' = [estreams EXCEPT ![s].pkg = p, ![s].reading = rd]
    BY <1>3, <2>4, <2>5 DEF ExitReadData
  <2>7. CASE s = r
    <3>1. estreams'[r].pkg = p /\ estreams'[r].st = estreams[r].st
      BY <1>t, <2>6, <2>7 DEF EStream
    <3> QED BY <1>n, <1>s, <1>t, <2>1, <2>3, <2>5, <2>7, <3>1 DEF StreamInv
  <2>8. CASE s # r
    <3>1. estreams'[r] = estreams[r]  BY <1>t, <2>6, <2>8
    <3> QED BY <1>i, <1>n, <1>t, <2>3, <2>8, <3>1 DEF StreamInv
  <2> QED BY <2>7, <2>8
<1> QED BY <1>1, <1>2, <1>3 DEF ExitRead

\* The exit's handlers.
LEMMA StreamExit ==
    ASSUME TypeOK, CircInv, NEW r \in Streams, StreamInv(r), ExitCell
    PROVE  StreamInv(r)'
<1>h. /\ fwd # <<>> /\ fwd' = Tail(fwd) /\ cstreams' = cstreams
      /\ Head(fwd) \in FwdCell
      /\ Head(fwd).cmd # "CIRC_SENDME" => Head(fwd).sid \in Streams
  <2>1. fwd # <<>> /\ fwd' = Tail(fwd) /\ cstreams' = cstreams
    BY DEF ExitCell, ExitBegin, ExitEnd, ExitCircSendme, ExitStreamSendme, ExitTakes, cvars
  <2> QED BY <2>1, FwdHead
<1>t. /\ estreams \in [Streams -> EStream] /\ cstreams[r].del \in Int /\ estreams[r].pkg \in Int
      /\ estreams[r].pkg >= 0 /\ bwd \in Seq(BwdCell) /\ Increment \in Nat /\ StreamWindow \in Nat
  BY WindowAssumption DEF TypeOK, CStream, EStream
<1>n. PICK b \in Nat, a \in Nat, d \in Nat, b1 \in Nat, a1 \in Nat :
        /\ b = Count(fwd, BeginOf(r)) /\ a = Count(fwd, AcksOf(r)) /\ d = Count(bwd, DataOf(r))
        /\ b1 = Count(fwd', BeginOf(r)) /\ a1 = Count(fwd', AcksOf(r))
        /\ b = b1 + (IF Head(fwd) \in BeginOf(r) THEN 1 ELSE 0)
        /\ a = a1 + (IF Head(fwd) \in AcksOf(r) THEN 1 ELSE 0)
  <2>1. Count(bwd, DataOf(r)) \in Nat  BY BwdCounts
  <2> QED BY <1>h, <2>1, FwdCounts
<1>i. Slot(cstreams[r].st, cstreams[r].del, estreams[r].st, estreams[r].pkg, b, a, d)
  BY <1>n DEF StreamInv
<1>s. /\ Slot(cstreams[r].st, cstreams[r].del, "none", estreams[r].pkg, b, a, d)
      /\ \A c \in Nat : \A st : b = c + 1 =>
           /\ Slot(cstreams[r].st, cstreams[r].del, st, StreamWindow, c, a, d)
           /\ Slot(cstreams[r].st, cstreams[r].del, estreams[r].st, estreams[r].pkg, c, a, d)
  BY <1>t, <1>i, SlotExit
<1>1. CASE ExitBegin
  <2>1. PICK s \in Streams : s = Head(fwd).sid  BY <1>h, <1>1 DEF ExitBegin, ExitTakes
  <2>2. a = a1 /\ b = IF s = r THEN b1 + 1 ELSE b1
    <3>1. Head(fwd).cmd = "BEGIN"  BY <1>1 DEF ExitBegin, ExitTakes
    <3>2. Head(fwd) \notin AcksOf(r) /\ (Head(fwd) \in BeginOf(r) <=> s = r)
      BY <1>h, <2>1, <3>1 DEF BeginOf, AcksOf
    <3> QED BY <1>n, <3>2
  <2>3. Count(bwd', DataOf(r)) = d
    <3>1. bwd' = bwd \/ \E c \in BwdCell : bwd' = Append(bwd, c) /\ c \notin DataOf(r)
      <4>1. /\ [cmd |-> "CONNECTED", sid |-> s] \in BwdCell \ DataOf(r)
            /\ [cmd |-> "END", sid |-> s] \in BwdCell \ DataOf(r)
        BY DEF BwdCell, DataOf
      <4> QED BY <1>1, <2>1, <4>1 DEF ExitBegin, ExitSends
    <3>2. CASE bwd' = bwd
      <4>1. \A q : q = bwd => Count(q, DataOf(r)) = Count(bwd, DataOf(r))  OBVIOUS
      <4> QED BY <1>n, <3>2, <4>1
    <3>3. CASE \E c \in BwdCell : bwd' = Append(bwd, c) /\ c \notin DataOf(r)
      BY <1>n, <3>3, BwdCounts
    <3> QED BY <3>1, <3>2, <3>3
  <2>4. PICK st, rd :
          \/ estreams' = estreams
          \/ estreams' = [estreams EXCEPT ![s] = [st |-> st, pkg |-> StreamWindow, reading |-> rd]]
    <3>1. ("connected" = "connected") = TRUE /\ ("connecting" = "connected") = FALSE  OBVIOUS
    <3> QED BY <1>1, <2>1, <3>1 DEF ExitBegin
  <2>5. CASE s = r
    <3>1. \/ estreams'[r] = estreams[r]
          \/ estreams'[r].st = st /\ estreams'[r].pkg = StreamWindow
      BY <1>t, <2>4, <2>5
    <3>2. /\ Slot(cstreams[r].st, cstreams[r].del, st, StreamWindow, b1, a, d)
          /\ Slot(cstreams[r].st, cstreams[r].del, estreams[r].st, estreams[r].pkg, b1, a, d)
      BY <1>n, <1>s, <2>2, <2>5
    <3> QED BY <1>h, <1>n, <2>2, <2>3, <3>1, <3>2 DEF StreamInv
  <2>6. CASE s # r
    <3>1. estreams'[r] = estreams[r]  BY <1>t, <2>4, <2>6
    <3> QED BY <1>h, <1>i, <1>n, <2>2, <2>3, <2>6, <3>1 DEF StreamInv
  <2> QED BY <2>5, <2>6
<1>2. CASE ExitEnd
  <2>1. a = a1 /\ b = b1
    <3>1. Head(fwd).cmd = "END"  BY <1>2 DEF ExitEnd, ExitTakes
    <3>2. Head(fwd) \notin AcksOf(r) /\ Head(fwd) \notin BeginOf(r)  BY <3>1 DEF BeginOf, AcksOf
    <3> QED BY <1>n, <3>2
  <2>2. /\ bwd' = bwd /\ estreams'[r].pkg = estreams[r].pkg
        /\ estreams'[r].st = estreams[r].st \/ estreams'[r].st = "none"
    BY <1>t, <1>2 DEF ExitEnd, EStream
  <2> QED BY <1>h, <1>i, <1>n, <1>s, <2>1, <2>2 DEF StreamInv
<1>3. CASE ExitCircSendme
  <2>1. a = a1 /\ b = b1
    <3>1. Head(fwd).cmd = "CIRC_SENDME"  BY <1>3 DEF ExitCircSendme, ExitTakes
    <3>2. Head(fwd) \notin AcksOf(r) /\ Head(fwd) \notin BeginOf(r)  BY <3>1 DEF BeginOf, AcksOf
    <3> QED BY <1>n, <3>2
  <2>2. bwd' = bwd /\ estreams' = Resumed(Streams)  BY <1>3, CircAckTaken DEF ExitCircSendme
  <2>3. estreams'[r].pkg = estreams[r].pkg /\ estreams'[r].st = estreams[r].st
    BY <1>t, <2>2, ResumedType
  <2> QED BY <1>h, <1>i, <1>n, <2>1, <2>2, <2>3 DEF StreamInv
<1>4. CASE ExitStreamSendme
  <2>1. PICK s \in Streams : s = Head(fwd).sid  BY <1>h, <1>4 DEF ExitStreamSendme, ExitTakes
  <2>2. b = b1 /\ a = IF s = r THEN a1 + 1 ELSE a1
    <3>1. Head(fwd).cmd = "SENDME"  BY <1>4 DEF ExitStreamSendme, ExitTakes
    <3>2. Head(fwd) \notin BeginOf(r) /\ (Head(fwd) \in AcksOf(r) <=> s = r)
      BY <1>h, <2>1, <3>1 DEF BeginOf, AcksOf
    <3> QED BY <1>n, <3>2
  <2>3. bwd' = bwd /\ estreams' = IF estreams[s].st = "none" \/ estreams[s].pkg > StreamWindow
                                  THEN estreams
                                  ELSE [Resumed({s}) EXCEPT ![s].pkg = Resumed({s})[s].pkg + Increment]
    BY <1>4, <2>1 DEF ExitStreamSendme
  <2>4. PICK f \in [Streams -> EStream] :
          /\ f = Resumed({s})
          /\ \A q \in Streams : f[q].st = estreams[q].st /\ f[q].pkg = estreams[q].pkg
    BY <1>t, ResumedType
  <2>5. CASE s = r
    <3>1. /\ estreams[r].st = "none" \/ estreams[r].pkg > StreamWindow =>
               Slot(cstreams[r].st, cstreams[r].del, estreams[r].st, estreams[r].pkg, b, a1, d)
          /\ Slot(cstreams[r].st, cstreams[r].del, estreams[r].st, estreams[r].pkg + Increment, b, a1, d)
      BY <1>t, <1>i, <2>2, <2>5, SlotAcked
    <3>2. CASE estreams[r].st = "none" \/ estreams[r].pkg > StreamWindow
      <4>1. estreams' = estreams  BY <2>3, <2>5, <3>2
      <4> QED BY <1>h, <1>n, <2>2, <2>3, <3>1, <3>2, <4>1 DEF StreamInv
    <3>3. CASE ~(estreams[r].st = "none" \/ estreams[r].pkg > StreamWindow)
      <4>1. PICK p : p = estreams[r].pkg + Increment  OBVIOUS
      <4>2. estreams' = [f EXCEPT ![r].pkg = p]  BY <2>3, <2>4, <2>5, <3>3, <4>1
      <4>3. estreams'[r].pkg = p /\ estreams'[r].st = estreams[r].st  BY <2>4, <4>2 DEF EStream
      <4> QED BY <1>h, <1>n, <2>2, <2>3, <3>1, <4>1, <4>3 DEF StreamInv
    <3> QED BY <3>2, <3>3
  <2>6. CASE s # r
    <3>1. estreams'[r].pkg = estreams[r].pkg /\ estreams'[r].st = estreams[r].st
      BY <1>t, <2>3, <2>4, <2>6
    <3> QED BY <1>h, <1>i, <1>n, <2>2, <2>3, <2>6, <3>1 DEF StreamInv
  <2> QED BY <2>5, <2>6
<1> QED BY <1>1, <1>2, <1>3, <1>4 DEF ExitCell

\* The client's handlers.
LEMMA StreamClient ==
    ASSUME TypeOK, NEW r \in Streams, StreamInv(r), ClientCell
    PROVE  StreamInv(r)'
<1>h. /\ bwd # <<>> /\ bwd' = Tail(bwd) /\ estreams' = estreams
      /\ Head(bwd) \in BwdCell /\ Head(bwd).sid \in Streams
  <2>1. bwd # <<>> /\ bwd' = Tail(bwd) /\ estreams' = estreams
    BY DEF ClientCell, ClientConnected, ClientEnd, ClientData, ClientDataRefused, ClientTakes, evars
  <2> QED BY <2>1, BwdHead
<1>t. /\ cstreams \in [Streams -> CStream] /\ cstreams[r].del \in Int /\ estreams[r].pkg \in Int
      /\ Increment \in Nat /\ StreamWindow \in Nat
  BY WindowAssumption DEF TypeOK, CStream, EStream
<1>n. PICK b \in Nat, a \in Nat, d \in Nat, e \in Nat :
        /\ b = Count(fwd, BeginOf(r)) /\ a = Count(fwd, AcksOf(r)) /\ d = Count(bwd, DataOf(r))
        /\ e = Count(bwd', DataOf(r))
        /\ d = e + (IF Head(bwd) \in DataOf(r) THEN 1 ELSE 0)
  <2>1. Count(fwd, BeginOf(r)) \in Nat /\ Count(fwd, AcksOf(r)) \in Nat  BY FwdCounts
  <2> QED BY <1>h, <2>1, BwdCounts
<1>i. Slot(cstreams[r].st, cstreams[r].del, estreams[r].st, estreams[r].pkg, b, a, d)
  BY <1>n DEF StreamInv
<1>s. /\ Slot("closed", cstreams[r].del, estreams[r].st, estreams[r].pkg, b, a, d)
      /\ d = e + 1 => Slot("closed", cstreams[r].del, estreams[r].st, estreams[r].pkg, b, a, e)
  BY <1>i, <1>n, SlotClient
<1>1. CASE ClientConnected \/ ClientEnd
  <2>1. d = e
    <3>1. Head(bwd).cmd \in {"CONNECTED", "END"}
      BY <1>1 DEF ClientConnected, ClientEnd, ClientTakes
    <3>2. Head(bwd) \notin DataOf(r)  BY <3>1 DEF DataOf
    <3> QED BY <1>n, <3>2
  <2>2. /\ fwd' = fwd
        /\ \/ cstreams'[r] = cstreams[r]
           \/ cstreams'[r].st = "closed" /\ cstreams'[r].del = cstreams[r].del
    <3>1. CASE ClientConnected
      BY <3>1 DEF ClientConnected
    <3>2. CASE ClientEnd
      BY <1>t, <3>2 DEF ClientEnd, CStream
    <3> QED BY <1>1, <3>1, <3>2
  <2> QED BY <1>h, <1>i, <1>n, <1>s, <2>1, <2>2 DEF StreamInv
<1>2. ASSUME NEW s \in Streams, s = Head(bwd).sid, Head(bwd).cmd = "DATA", NEW open \in BOOLEAN,
             open => cstreams[s].st = "open", ClientCounts(s, open)
      PROVE  StreamInv(r)'
  <2>1. PICK strm \in BOOLEAN, circ \in BOOLEAN, mid \in Seq(FwdCell) :
          /\ strm <=> open /\ cstreams[s].del > 0
                        /\ cstreams[s].del - 1 <= StreamWindow - Increment
          /\ mid = IF strm THEN Append(fwd, ToExit("SENDME", s, NoAuth)) ELSE fwd
          /\ fwd' = IF circ THEN Append(mid, ToExit("CIRC_SENDME", NoStream, backward_digest + 1))
                    ELSE mid
          /\ ToExit("SENDME", s, NoAuth) \in AcksOf(s)
          /\ ToExit("CIRC_SENDME", NoStream, backward_digest + 1) \in CircAcks
          /\ cstreams' = IF ~open THEN [cstreams EXCEPT ![s].st = "closed"]
                  ELSE IF cstreams[s].del <= 0 THEN cstreams
                  ELSE [cstreams EXCEPT ![s].del =
                          IF strm THEN cstreams[s].del - 1 + Increment ELSE cstreams[s].del - 1]
    BY <1>2, CountsEffect
  <2>2. d = IF s = r THEN e + 1 ELSE e
    <3>1. Head(bwd) \in DataOf(r) <=> s = r  BY <1>2, <1>h DEF DataOf
    <3> QED BY <1>n, <3>1
  <2>3. Count(mid, BeginOf(r)) = b /\ Count(mid, AcksOf(r)) = IF strm /\ s = r THEN a + 1 ELSE a
    <3>1. CASE strm
      <4>1. PICK c \in FwdCell : mid = Append(fwd, c) /\ c \notin BeginOf(r) /\ (c \in AcksOf(r) <=> s = r)
        BY <2>1, <3>1 DEF BeginOf, AcksOf
      <4> QED BY <1>n, <3>1, <4>1, FwdCounts
    <3>2. CASE ~strm
      <4>1. \A q : q = fwd => Count(q, BeginOf(r)) = b /\ Count(q, AcksOf(r)) = a  BY <1>n
      <4> QED BY <2>1, <3>2, <4>1
    <3> QED BY <3>1, <3>2
  <2>4. Count(fwd', BeginOf(r)) = b /\ Count(fwd', AcksOf(r)) = IF strm /\ s = r THEN a + 1 ELSE a
    <3>1. CASE circ
      <4>1. PICK c \in FwdCell : fwd' = Append(mid, c) /\ c \notin BeginOf(r) /\ c \notin AcksOf(r)
        BY <2>1, <3>1 DEF BeginOf, AcksOf, CircAcks
      <4>2. mid \in Seq(FwdCell) /\ c \in FwdCell /\ c \notin BeginOf(r) /\ c \notin AcksOf(r)
        BY <2>1, <4>1
      <4>3. /\ Count(Append(mid, c), BeginOf(r)) = Count(mid, BeginOf(r)) + (IF c \in BeginOf(r) THEN 1 ELSE 0)
            /\ Count(Append(mid, c), AcksOf(r)) = Count(mid, AcksOf(r)) + (IF c \in AcksOf(r) THEN 1 ELSE 0)
        BY <4>2, RankAppend
      <4> QED BY <1>n, <2>3, <4>1, <4>3
    <3>2. CASE ~circ
      <4>1. fwd' = mid  BY <2>1, <3>2
      <4> QED BY <2>3, <4>1
    <3> QED BY <3>1, <3>2
  <2>5. CASE s # r
    <3>1. cstreams'[r] = cstreams[r]  BY <1>t, <2>1, <2>5
    <3> QED BY <1>h, <1>i, <1>n, <2>2, <2>4, <2>5, <3>1 DEF StreamInv
  <2>6. CASE s = r /\ ~open
    <3>1. cstreams'[r].st = "closed" /\ cstreams'[r].del = cstreams[r].del
      BY <1>t, <2>1, <2>6 DEF CStream
    <3>2. ~strm  BY <2>1, <2>6
    <3> QED BY <1>h, <1>n, <1>s, <2>2, <2>4, <2>6, <3>1, <3>2 DEF StreamInv
  <2>7. CASE s = r /\ open
    <3>1. PICK del \in Int : del = cstreams[r].del  BY <1>t
    <3>2. cstreams[r].st = "open" /\ Slot("open", del, estreams[r].st, estreams[r].pkg, b, a, e + 1)
      BY <1>2, <1>i, <2>2, <2>7, <3>1
    <3>3. /\ del > 0
          /\ del - 1 <= StreamWindow - Increment =>
               Slot("open", del - 1 + Increment, estreams[r].st, estreams[r].pkg, b, a + 1, e)
          /\ ~(del - 1 <= StreamWindow - Increment) =>
               Slot("open", del - 1, estreams[r].st, estreams[r].pkg, b, a, e)
      BY <1>t, <3>2, SlotCounted
    <3>4. strm <=> del - 1 <= StreamWindow - Increment  BY <2>1, <2>7, <3>1, <3>3
    <3>5. PICK v : v = (IF strm THEN del - 1 + Increment ELSE del - 1)  OBVIOUS
    <3>6. cstreams' = [cstreams EXCEPT ![r].del = v]
      <4>1. ~(del <= 0)  BY <3>3
      <4> QED BY <2>1, <2>7, <3>1, <3>5, <4>1
    <3>7. cstreams'[r].st = "open" /\ cstreams'[r].del = v  BY <1>t, <3>2, <3>6 DEF CStream
    <3>8. Slot("open", v, estreams[r].st, estreams[r].pkg, b, IF strm THEN a + 1 ELSE a, e)
      BY <3>3, <3>4, <3>5
    <3> QED BY <1>h, <1>n, <2>4, <2>7, <3>7, <3>8 DEF StreamInv
  <2> QED BY <2>5, <2>6, <2>7
<1>3. CASE ClientData
  <2>1. Head(bwd).cmd = "DATA"  BY <1>3 DEF ClientData, ClientTakes
  <2>2. PICK s \in Streams : s = Head(bwd).sid  BY <1>h
  <2>3. PICK open \in BOOLEAN : open = (cstreams[s].st = "open")  OBVIOUS
  <2>4. ClientCounts(s, open)  BY <1>3, <2>2, <2>3 DEF ClientData
  <2> QED BY <1>2, <2>1, <2>2, <2>3, <2>4
<1>4. CASE ClientDataRefused
  <2>1. Head(bwd).cmd = "DATA"  BY <1>4 DEF ClientDataRefused, ClientTakes
  <2>2. PICK s \in Streams : s = Head(bwd).sid  BY <1>h
  <2>3. ClientCounts(s, FALSE)  BY <1>4, <2>2, Zenon DEF ClientDataRefused
  <2>4. PICK open \in BOOLEAN : ~open /\ ClientCounts(s, open)  BY <2>3
  <2> QED BY <1>2, <2>1, <2>2, <2>4
<1> QED BY <1>1, <1>3, <1>4 DEF ClientCell

\* Every step keeps each stream's credit.
LEMMA StreamsNext ==
    ASSUME BInv, [Next]_vars
    PROVE  StreamsInv'
<1>1. ASSUME NEW r \in Streams PROVE StreamInv(r)'
  <2>1. StreamInv(r) /\ TypeOK /\ CircInv /\ ReadingInv  BY DEF BInv, StreamsInv
  <2>2. CASE UNCHANGED vars
    BY <2>1, <2>2 DEF StreamInv, vars, evars, cvars
  <2>3. CASE Next
    BY <2>1, <2>3, StreamOpened, StreamTargets, StreamExit, StreamClient DEF Next
  <2> QED BY <2>2, <2>3
<1> QED BY <1>1 DEF StreamsInv

-----------------------------------------------------------------------------
(* The event loop.                                                         *)

\* Every step keeps the targets that have credit in the event loop.
LEMMA ReadingNext ==
    ASSUME BInv, [Next]_vars
    PROVE  ReadingInv'
<1>t. /\ estreams \in [Streams -> EStream] /\ circ_package_window \in Nat
      /\ TypeOK /\ CircInv /\ ReadingInv /\ Increment \in Nat /\ StreamWindow \in Nat
      /\ \A r \in Streams : estreams[r].pkg \in Int /\ estreams[r].reading \in BOOLEAN
  BY WindowAssumption DEF BInv, TypeOK, EStream
<1> SUFFICES ASSUME NEW r \in Streams
             PROVE  /\ estreams'[r].reading => estreams'[r].st = "connected"
                    /\ estreams'[r].st = "connected" /\ ~estreams'[r].reading =>
                         ~(estreams'[r].pkg > 0 /\ circ_package_window' > 0)
  BY DEF ReadingInv, NoLostWakeup, HasCredit
<1>r. /\ estreams[r].reading => estreams[r].st = "connected"
      /\ estreams[r].st = "connected" /\ ~estreams[r].reading =>
           ~(estreams[r].pkg > 0 /\ circ_package_window > 0)
  BY <1>t DEF ReadingInv, NoLostWakeup, HasCredit
<1>1. ASSUME NEW s \in Streams, ExitConnectComplete(s) \/ ExitTargetClosed(s)
      PROVE  /\ circ_package_window' = circ_package_window
             /\ \/ estreams'[r] = estreams[r]
                \/ estreams'[r].st = "connected" /\ estreams'[r].reading
                \/ estreams'[r].st = "none" /\ ~estreams'[r].reading
  <2>1. CASE ExitConnectComplete(s)
    <3>1. ~estreams[s].reading  BY <1>t, <2>1 DEF ExitConnectComplete, ReadingInv
    <3> QED BY <1>t, <2>1, <3>1 DEF ExitConnectComplete, EStream
  <2>2. CASE ExitTargetClosed(s)
    BY <1>t, <2>2 DEF ExitTargetClosed, EStream
  <2> QED BY <1>1, <2>1, <2>2
<1>2. ASSUME NEW s \in Streams, ExitReadPaused(s)
      PROVE  /\ circ_package_window' = circ_package_window
             /\ \/ estreams'[r] = estreams[r]
                \/ /\ ~estreams'[r].reading
                   /\ ~(estreams'[r].pkg > 0 /\ circ_package_window > 0)
  BY <1>t, <1>2 DEF ExitReadPaused, HasCredit, EStream
<1>3. ASSUME NEW s \in Streams, ExitReadData(s)
      PROVE  /\ circ_package_window' = circ_package_window - 1
             /\ \/ estreams'[r] = estreams[r]
                \/ /\ estreams'[r].st = "connected"
                   /\ estreams'[r].reading <=> estreams'[r].pkg > 0 /\ circ_package_window' > 0
  <2>1. estreams[s].st = "connected"  BY <1>t, <1>3 DEF ExitReadData, ReadingInv
  <2>2. PICK rd \in BOOLEAN : rd <=> (estreams[s].pkg - 1 > 0 /\ circ_package_window' > 0)
    OBVIOUS
  <2>3. PICK p : p = estreams[s].pkg - 1  OBVIOUS
  <2>4. estreams' = [estreams EXCEPT ![s].pkg = p, ![s].reading = rd]
    BY <1>3, <2>2, <2>3 DEF ExitReadData
  <2>5. circ_package_window' = circ_package_window - 1  BY <1>3 DEF ExitReadData
  <2>6. CASE s = r
    <3>1. estreams'[r].pkg = p /\ estreams'[r].st = "connected" /\ estreams'[r].reading = rd
      BY <1>t, <2>1, <2>4, <2>6 DEF EStream
    <3> QED BY <2>2, <2>3, <2>5, <2>6, <3>1
  <2>7. CASE s # r
    BY <1>t, <2>4, <2>5, <2>7
  <2> QED BY <2>6, <2>7
<1>4. ASSUME ExitBegin
      PROVE  /\ circ_package_window' = circ_package_window
             /\ \/ estreams'[r] = estreams[r]
                \/ estreams'[r].st = "connected" /\ estreams'[r].reading
                \/ estreams'[r].st = "connecting" /\ ~estreams'[r].reading
  <2>1. \/ estreams' = estreams
        \/ \E s \in Streams : estreams' = [estreams EXCEPT ![s] =
             [st |-> "connected", pkg |-> StreamWindow, reading |-> TRUE]]
        \/ \E s \in Streams : estreams' = [estreams EXCEPT ![s] =
             [st |-> "connecting", pkg |-> StreamWindow, reading |-> FALSE]]
    <3>1. ("connected" = "connected") = TRUE /\ ("connecting" = "connected") = FALSE  OBVIOUS
    <3>2. Head(fwd).sid \in Streams  BY <1>t, <1>4, FwdHead DEF ExitBegin, ExitTakes
    <3> QED BY <1>4, <3>1, <3>2 DEF ExitBegin
  <2> QED BY <1>t, <1>4, <2>1 DEF ExitBegin
<1>5. ASSUME ExitEnd
      PROVE  /\ circ_package_window' = circ_package_window
             /\ \/ estreams'[r] = estreams[r]
                \/ estreams'[r].st = "none" /\ ~estreams'[r].reading
  BY <1>t, <1>5 DEF ExitEnd, EStream
<1>6. ASSUME ExitCircSendme
      PROVE  estreams'[r].st = "connected" <=> estreams'[r].reading
  <2>1. estreams' = Resumed(Streams)  BY <1>t, <1>6, CircAckTaken
  <2>2. /\ estreams'[r].st = estreams[r].st
        /\ estreams'[r].reading <=> estreams[r].reading \/ estreams[r].st = "connected"
    BY <1>t, <2>1, ResumedType
  <2> QED BY <1>r, <2>2
<1>7. ASSUME ExitStreamSendme
      PROVE  /\ circ_package_window' = circ_package_window
             /\ \/ estreams'[r] = estreams[r]
                \/ estreams'[r].st = "connected" <=> estreams'[r].reading
  <2>1. PICK s \in Streams : s = Head(fwd).sid
    BY <1>t, <1>7, FwdHead DEF ExitStreamSendme, ExitTakes
  <2>2. /\ circ_package_window' = circ_package_window
        /\ \/ estreams' = estreams
           \/ estreams' = [Resumed({s}) EXCEPT ![s].pkg = Resumed({s})[s].pkg + Increment]
    BY <1>7, <2>1 DEF ExitStreamSendme
  <2>3. PICK f \in [Streams -> EStream] :
          /\ f = Resumed({s})
          /\ \A q \in Streams :
               /\ f[q].st = estreams[q].st
               /\ f[q].reading <=> estreams[q].reading \/ (q = s /\ estreams[q].st = "connected")
    BY <1>t, ResumedType
  <2>4. Resumed({s})[r] = estreams[r] \/ r = s  BY DEF Resumed
  <2>5. PICK p : p = f[s].pkg + Increment  OBVIOUS
  <2>6. CASE estreams' = [f EXCEPT ![s].pkg = p]
    <3>1. CASE r = s
      <4>1. estreams'[r].st = f[r].st /\ estreams'[r].reading = f[r].reading
        BY <2>3, <2>6, <3>1 DEF EStream
      <4> QED BY <1>r, <2>2, <2>3, <3>1, <4>1
    <3>2. CASE r # s
      BY <2>2, <2>3, <2>4, <2>6, <3>2
    <3> QED BY <3>1, <3>2
  <2> QED BY <2>2, <2>3, <2>5, <2>6
<1>8. CASE \/ ClientCell \/ UNCHANGED vars
           \/ \E s \in Streams : OpenStream(s) \/ CloseStream(s)
  <2>1. circ_package_window' = circ_package_window /\ estreams' = estreams
    BY <1>8 DEF ClientCell, ClientConnected, ClientEnd, ClientData, ClientDataRefused, ClientTakes,
               OpenStream, CloseStream, vars, evars
  <2> QED BY <1>r, <2>1
<1>9. \A s \in Streams : ExitConnectComplete(s) \/ ExitTargetClosed(s) \/ ExitRead(s) =>
        /\ estreams'[r].reading => estreams'[r].st = "connected"
        /\ estreams'[r].st = "connected" /\ ~estreams'[r].reading =>
             ~(estreams'[r].pkg > 0 /\ circ_package_window' > 0)
  <2> SUFFICES ASSUME NEW s \in Streams, ExitConnectComplete(s) \/ ExitTargetClosed(s) \/ ExitRead(s)
               PROVE  /\ estreams'[r].reading => estreams'[r].st = "connected"
                      /\ estreams'[r].st = "connected" /\ ~estreams'[r].reading =>
                           ~(estreams'[r].pkg > 0 /\ circ_package_window' > 0)
    OBVIOUS
  <2>1. CASE ExitConnectComplete(s) \/ ExitTargetClosed(s)
    BY <1>1, <1>r, <2>1
  <2>2. CASE ExitReadPaused(s)
    BY <1>2, <1>r, <2>2
  <2>3. CASE ExitReadData(s)
    BY <1>3, <1>r, <1>t, <2>3
  <2> QED BY <2>1, <2>2, <2>3 DEF ExitRead
<1>10. CASE ExitCell
  BY <1>4, <1>5, <1>6, <1>7, <1>r, <1>10 DEF ExitCell
<1> QED BY <1>8, <1>9, <1>10 DEF Next

-----------------------------------------------------------------------------
(* The theorem.                                                            *)

\* The inductive invariant holds at the start.
LEMMA BInit == Init => BInv
<1> SUFFICES ASSUME Init PROVE BInv
  OBVIOUS
<1>1. TypeOK  BY TypeInit
<1>2. Len(fwd) = 0 /\ Len(bwd) = 0 /\ Len(sendme_auth_expected) = 0  BY DEF Init
<1>3. \A C : Count(fwd, C) = 0 /\ Count(bwd, C) = 0
  <2> TAKE C
  <2>1. {j \in 1..0 : fwd[j] \in C} = {} /\ {j \in 1..0 : bwd[j] \in C} = {}  OBVIOUS
  <2>2. Cardinality({}) = 0  BY FS_EmptySet
  <2> QED BY <1>2, <2>1, <2>2 DEF Count, Rank
<1>4. CircCredit
  <2>1. Counted = 0 /\ Times(0) = 0 /\ Increment \in Nat \ {0} /\ CircWindow \in Nat
    BY WindowAssumption, TimesStep DEF Counted, Init
  <2> QED BY <1>2, <1>3, <2>1 DEF CircCredit, Init
<1>5. Digests /\ AcksMatch /\ DataMatch  BY <1>2 DEF Digests, AcksMatch, DataMatch, Init
<1>6. StreamsInv
  <2>1. ASSUME NEW s \in Streams PROVE StreamInv(s)
    <3>1. Slot("unused", 0, "none", 0, 0, 0, 0)  BY DEF Slot
    <3>2. /\ cstreams[s].st = "unused" /\ cstreams[s].del = 0
          /\ estreams[s].st = "none" /\ estreams[s].pkg = 0
      BY DEF Init
    <3> QED BY <1>3, <3>1, <3>2 DEF StreamInv
  <2> QED BY <2>1 DEF StreamsInv
<1>7. ReadingInv  BY DEF ReadingInv, NoLostWakeup, Init
<1> QED BY <1>1, <1>4, <1>5, <1>6, <1>7 DEF BInv, CircInv

\* Every step keeps the inductive invariant.
LEMMA BNext == BInv /\ [Next]_vars => BInv'
<1> SUFFICES ASSUME BInv, [Next]_vars PROVE BInv'
  OBVIOUS
<1>1. TypeOK' /\ CircInv'  BY TypeNext, CircNext DEF BInv
<1> QED BY <1>1, StreamsNext, ReadingNext DEF BInv

\* What the invariant says of the queues, as the properties state it.
LEMMA BSound ==
    ASSUME BInv
    PROVE  /\ TypeOK /\ NoLostWakeup /\ SendmeAuthInSync
           /\ CircuitCreditConserved /\ StreamCreditConserved
<1>t. /\ fwd \in Seq(FwdCell) /\ bwd \in Seq(BwdCell) /\ Len(fwd) \in Nat /\ Len(bwd) \in Nat
      /\ Increment \in Nat /\ StreamWindow \in Nat
      /\ \A i \in 1..Len(fwd) : fwd[i] \in FwdCell
      /\ \A i \in 1..Len(bwd) : bwd[i] \in BwdCell
  BY WindowAssumption DEF BInv, TypeOK
<1>1. TypeOK /\ NoLostWakeup  BY DEF BInv, ReadingInv
<1>2. SendmeAuthInSync
  <2> SUFFICES ASSUME NEW i \in 1..Len(fwd), fwd[i].cmd = "CIRC_SENDME"
               PROVE  LET k == Cardinality({j \in 1..i : fwd[j].cmd = "CIRC_SENDME"})
                      IN  k <= Len(sendme_auth_expected) /\ fwd[i].auth = sendme_auth_expected[k]
    BY DEF SendmeAuthInSync
  <2>1. \A j \in 1..i : j \in 1..Len(fwd)  BY <1>t
  <2>2. {j \in 1..i : fwd[j].cmd = "CIRC_SENDME"} = {j \in 1..i : fwd[j] \in CircAcks}
    BY <1>t, <2>1 DEF CircAcks
  <2>3. Rank(fwd, CircAcks, i) = Cardinality({j \in 1..i : fwd[j].cmd = "CIRC_SENDME"})
    BY <2>2 DEF Rank
  <2>4. fwd[i] \in CircAcks  BY <1>t DEF CircAcks
  <2> QED BY <2>3, <2>4 DEF BInv, CircInv, AcksMatch
<1>3. CircuitCreditConserved
  <2>1. {i \in 1..Len(bwd) : bwd[i].cmd = "DATA"} = {i \in 1..Len(bwd) : bwd[i] \in DataCells}
    BY <1>t DEF DataCells
  <2>2. {i \in 1..Len(fwd) : fwd[i].cmd = "CIRC_SENDME"} = {i \in 1..Len(fwd) : fwd[i] \in CircAcks}
    BY <1>t DEF CircAcks
  <2>3. PICK D, A \in Nat :
          /\ D = Cardinality({i \in 1..Len(bwd) : bwd[i].cmd = "DATA"})
          /\ A = Cardinality({i \in 1..Len(fwd) : fwd[i].cmd = "CIRC_SENDME"})
          /\ D = Count(bwd, DataCells) /\ A = Count(fwd, CircAcks)
    <3>1. Count(bwd, DataCells) \in Nat /\ Count(fwd, CircAcks) \in Nat
      BY <1>t, RankType DEF Count
    <3>2. /\ Count(bwd, DataCells) = Cardinality({i \in 1..Len(bwd) : bwd[i].cmd = "DATA"})
          /\ Count(fwd, CircAcks) = Cardinality({i \in 1..Len(fwd) : fwd[i].cmd = "CIRC_SENDME"})
      BY <2>1, <2>2 DEF Count, Rank
    <3> QED BY <3>1, <3>2
  <2>4. circ_package_window + D + (CircWindow - circ_deliver_window) + Times(A) = CircWindow
    BY <2>3 DEF BInv, CircInv, CircCredit, Counted
  <2>5. Times(A) = Increment * A  BY <1>t, <2>3 DEF Times
  <2>6. circ_package_window + D + (CircWindow - circ_deliver_window) + Increment * A = CircWindow
    BY <2>4, <2>5
  <2> QED BY <2>3, <2>6 DEF CircuitCreditConserved
<1>4. StreamCreditConserved
  <2> SUFFICES ASSUME NEW s \in Streams, cstreams[s].st = "open", estreams[s].st # "none"
               PROVE  LET data == {i \in 1..Len(bwd) : bwd[i].cmd = "DATA" /\ bwd[i].sid = s}
                          acks == {i \in 1..Len(fwd) : fwd[i].cmd = "SENDME" /\ fwd[i].sid = s}
                      IN  estreams[s].pkg + Cardinality(data) + (StreamWindow - cstreams[s].del)
                            + Increment * Cardinality(acks) = StreamWindow
    BY DEF StreamCreditConserved
  <2>1. {i \in 1..Len(bwd) : bwd[i].cmd = "DATA" /\ bwd[i].sid = s}
          = {i \in 1..Len(bwd) : bwd[i] \in DataOf(s)}
    BY <1>t DEF DataOf
  <2>2. {i \in 1..Len(fwd) : fwd[i].cmd = "SENDME" /\ fwd[i].sid = s}
          = {i \in 1..Len(fwd) : fwd[i] \in AcksOf(s)}
    BY <1>t DEF AcksOf
  <2>3. PICK D, A \in Nat :
          /\ D = Cardinality({i \in 1..Len(bwd) : bwd[i].cmd = "DATA" /\ bwd[i].sid = s})
          /\ A = Cardinality({i \in 1..Len(fwd) : fwd[i].cmd = "SENDME" /\ fwd[i].sid = s})
          /\ D = Count(bwd, DataOf(s)) /\ A = Count(fwd, AcksOf(s))
    <3>1. Count(bwd, DataOf(s)) \in Nat /\ Count(fwd, AcksOf(s)) \in Nat
      BY <1>t, RankType DEF Count
    <3>2. /\ Count(bwd, DataOf(s)) = Cardinality({i \in 1..Len(bwd) : bwd[i].cmd = "DATA" /\ bwd[i].sid = s})
          /\ Count(fwd, AcksOf(s)) = Cardinality({i \in 1..Len(fwd) : fwd[i].cmd = "SENDME" /\ fwd[i].sid = s})
      BY <2>1, <2>2 DEF Count, Rank
    <3> QED BY <3>1, <3>2
  <2>4. estreams[s].pkg + D + (StreamWindow - cstreams[s].del) + Times(A) = StreamWindow
    BY <2>3 DEF BInv, StreamsInv, StreamInv, Slot
  <2>5. Times(A) = Increment * A  BY <1>t, <2>3 DEF Times
  <2>6. estreams[s].pkg + D + (StreamWindow - cstreams[s].del) + Increment * A = StreamWindow
    BY <2>4, <2>5
  <2> QED BY <2>3, <2>6
<1> QED BY <1>1, <1>2, <1>3, <1>4

\* While the exit sends to the client, credit is neither lost nor made on the
\* circuit or on an open stream, no connected target sleeps while it has
\* credit, and every circuit SENDME in flight carries the digest that the exit
\* expects next (relay.c's exit_target_read_cb and RELAY_SENDME handler,
\* circuit.c's moor_circuit_maybe_send_sendme), whatever the windows.
THEOREM BackwardFlowSound == FlowSpec => []BackwardSound
<1> DEFINE Inv == component = "backward" => BInv
<1>1. FlowInit => Inv
  <2>1. ASSUME FlowInit, component = "backward" PROVE Init
    BY <2>1 DEF FlowInit
  <2> QED BY <2>1, BInit
<1>2. Inv /\ [FlowNext]_all => Inv'
  <2> SUFFICES ASSUME Inv, [FlowNext]_all, component' = "backward" PROVE BInv'
    OBVIOUS
  <2>1. component = "backward" /\ [Next]_vars
    <3>1. CASE FlowNext
      <4>1. component = "backward"  BY <3>1 DEF FlowNext
      <4>2. Next  BY <3>1, <4>1 DEF FlowNext
      <4> QED BY <4>1, <4>2
    <3>2. CASE UNCHANGED all
      <4>1. component = "backward" /\ UNCHANGED vars
        BY <3>2 DEF all, forwardOnly, backwardOnly, streamSlots, shared, vars, evars, cvars
      <4> QED BY <4>1
    <3> QED BY <3>1, <3>2
  <2>2. BInv  BY <2>1
  <2> QED BY <2>1, <2>2, BNext
<1>3. Inv => BackwardSound  BY BSound DEF BackwardSound
<1> QED BY <1>1, <1>2, <1>3, PTL DEF FlowSpec

-----------------------------------------------------------------------------
(* The stream's data path (StreamPump).  A queue is two queues laid end to  *)
(* end, so every count of the one is the sum of the counts of the others.   *)

Joins(s, q, r) ==
    /\ Len(s) = Len(q) + Len(r)
    /\ \A i \in 1..Len(q) : s[i] = q[i]
    /\ \A i \in 1..Len(r) : s[Len(q) + i] = r[i]

\* A count is a number, at most the queue's length.
LEMMA CountType ==
    ASSUME NEW S, NEW q \in Seq(S), NEW C
    PROVE  Count(q, C) \in Nat /\ (S \subseteq C => Count(q, C) = Len(q))
           /\ Count(q, C) <= Len(q)
<1>1. PICK n \in Nat : n = Len(q)  OBVIOUS
<1>2. \A i \in 1..n : q[i] \in S  BY <1>1
<1>3. IsFiniteSet(1..n) /\ Cardinality(1..n) = n
  <2>1. IsFiniteSet(1..n) /\ Cardinality(1..n) = IF 1 > n THEN 0 ELSE n - 1 + 1  BY FS_Interval
  <2> QED BY <2>1
<1>4. {j \in 1..n : q[j] \in C} \in SUBSET (1..n)  OBVIOUS
<1>5. /\ Cardinality({j \in 1..n : q[j] \in C}) \in Nat
      /\ Cardinality({j \in 1..n : q[j] \in C}) <= n
  BY <1>3, <1>4, FS_Subset, FS_CardinalityType
<1>6. S \subseteq C => {j \in 1..n : q[j] \in C} = 1..n  BY <1>2
<1> QED BY <1>1, <1>3, <1>5, <1>6 DEF Count, Rank

\* Counts add up over two queues laid end to end.
LEMMA CountJoin ==
    ASSUME NEW S, NEW s \in Seq(S), NEW q \in Seq(S), NEW r \in Seq(S), Joins(s, q, r), NEW C
    PROVE  /\ Count(q, C) \in Nat /\ Count(r, C) \in Nat
           /\ Count(s, C) = Count(q, C) + Count(r, C)
<1>1. PICK n \in Nat, m \in Nat : n = Len(q) /\ m = Len(r)  OBVIOUS
<1>2. /\ Len(s) = n + m
      /\ \A i \in 1..n : s[i] = q[i]
      /\ \A i \in 1..m : s[n + i] = r[i]
  BY <1>1 DEF Joins
<1> DEFINE A == {j \in 1..n : q[j] \in C}
           B == {j \in 1..m : r[j] \in C}
           D == {j \in (n + 1)..(n + m) : s[j] \in C}
           f == [i \in B |-> n + i]
<1>3. {j \in 1..(n + m) : s[j] \in C} = A \cup D /\ A \cap D = {}  BY <1>2
<1>4. IsFiniteSet(A) /\ IsFiniteSet(B) /\ IsFiniteSet(D)
  <2>1. A \in SUBSET (1..n) /\ B \in SUBSET (1..m) /\ D \in SUBSET ((n + 1)..(n + m))  OBVIOUS
  <2>2. IsFiniteSet(1..n) /\ IsFiniteSet(1..m) /\ IsFiniteSet((n + 1)..(n + m))  BY FS_Interval
  <2> QED BY <2>1, <2>2, FS_Subset
<1>5. \A i \in B : i \in 1..m /\ n + i \in D  BY <1>2
<1>6. \A j \in D : j - n \in B /\ n + (j - n) = j
  <2> TAKE j \in D
  <2>1. j - n \in 1..m /\ n + (j - n) = j  OBVIOUS
  <2> QED BY <1>2, <2>1
<1>7. f \in Bijection(B, D)
  <2> HIDE DEF B, D
  <2>1. f \in [B -> D]  BY <1>5
  <2>2. \A a, b \in B : f[a] = f[b] => a = b  BY <1>5
  <2>3. \A j \in D : \E a \in B : f[a] = j  BY <1>6
  <2> HIDE DEF f
  <2> QED BY <2>1, <2>2, <2>3 DEF Bijection, Injection, Surjection, IsInjective
<1>8. Count(q, C) = Cardinality(A) /\ Count(r, C) = Cardinality(B)  BY <1>1 DEF Count, Rank
<1>9. Count(s, C) = Cardinality(A \cup D)  BY <1>2, <1>3 DEF Count, Rank
<1> HIDE DEF A, B, D, f
<1>10. Cardinality(B) = Cardinality(D)
  <2>1. ExistsBijection(B, D)  BY <1>7 DEF ExistsBijection
  <2> QED BY <1>4, <2>1, FS_Bijection
<1>11. Cardinality(A) \in Nat /\ Cardinality(B) \in Nat  BY <1>4, FS_CardinalityType
<1>12. Cardinality(A \cup D) = Cardinality(A) + Cardinality(D) - Cardinality(A \cap D)
  BY <1>4, FS_Union
<1>13. Cardinality(A \cap D) = 0  BY <1>3, FS_EmptySet
<1> QED BY <1>8, <1>9, <1>10, <1>11, <1>12, <1>13

\* Concatenation lays two queues end to end.
LEMMA JoinConcat ==
    ASSUME NEW S, NEW q \in Seq(S), NEW r \in Seq(S)
    PROVE  q \o r \in Seq(S) /\ Joins(q \o r, q, r)
BY DEF Joins

\* A queue is its first n cells and the rest.
LEMMA JoinSubSeq ==
    ASSUME NEW S, NEW q \in Seq(S), NEW n \in 0..Len(q)
    PROVE  /\ SubSeq(q, 1, n) \in Seq(S) /\ SubSeq(q, n + 1, Len(q)) \in Seq(S)
           /\ Len(SubSeq(q, 1, n)) = n /\ Len(SubSeq(q, n + 1, Len(q))) = Len(q) - n
           /\ Joins(q, SubSeq(q, 1, n), SubSeq(q, n + 1, Len(q)))
<1>1. PICK m \in Nat : m = Len(q)  OBVIOUS
<1>2. /\ SubSeq(q, 1, n) \in Seq(S) /\ Len(SubSeq(q, 1, n)) = n
      /\ \A i \in 1..n : SubSeq(q, 1, n)[i] = q[i]
  BY <1>1, SubSeqProperties
<1>3. /\ SubSeq(q, n + 1, m) \in Seq(S) /\ Len(SubSeq(q, n + 1, m)) = m - n
      /\ \A i \in 1..(m - n) : SubSeq(q, n + 1, m)[i] = q[n + i]
  <2>1. n + 1 \in 1..(m + 1) /\ m \in n..m  BY <1>1
  <2>2. SubSeq(q, n + 1, m) \in Seq(S) /\ Len(SubSeq(q, n + 1, m)) = m - n  BY <1>1, <2>1
  <2>3. \A i \in 1..(m - n) : SubSeq(q, n + 1, m)[i] = q[n + i]  BY <1>1, <2>1
  <2> QED BY <2>2, <2>3
<1>4. PICK a \in Seq(S), b \in Seq(S) : a = SubSeq(q, 1, n) /\ b = SubSeq(q, n + 1, m)
  BY <1>2, <1>3
<1>5. /\ Len(a) = n /\ Len(b) = m - n
      /\ \A i \in 1..n : q[i] = a[i]
      /\ \A i \in 1..(m - n) : q[n + i] = b[i]
  BY <1>2, <1>3, <1>4
<1>6. Joins(q, a, b)  BY <1>1, <1>5 DEF Joins
<1> QED BY <1>1, <1>4, <1>5, <1>6

\* The same cell in two places counts twice.
LEMMA CountTwo ==
    ASSUME NEW S, NEW q \in Seq(S), NEW i \in 1..Len(q), NEW j \in 1..Len(q), i # j, q[i] = q[j]
    PROVE  Count(q, {q[i]}) >= 2
<1> DEFINE A == {k \in 1..Len(q) : q[k] \in {q[i]}}
<1>1. {i, j} \in SUBSET A  OBVIOUS
<1>2. IsFiniteSet(A)
  <2>1. A \in SUBSET (1..Len(q)) /\ IsFiniteSet(1..Len(q))  BY FS_Interval
  <2> QED BY <2>1, FS_Subset
<1>3. Cardinality({i, j}) = 2
  <2>1. IsFiniteSet({i}) /\ Cardinality({i}) = 1  BY FS_Singleton
  <2>2. Cardinality({i} \cup {j}) = Cardinality({i}) + 1  BY <2>1, FS_AddElement
  <2>3. {i} \cup {j} = {i, j}  OBVIOUS
  <2> QED BY <2>1, <2>2, <2>3
<1> HIDE DEF A
<1>4. Cardinality({i, j}) <= Cardinality(A)  BY <1>1, <1>2, FS_Subset
<1>5. Cardinality(A) \in Nat  BY <1>2, FS_CardinalityType
<1>6. Count(q, {q[i]}) = Cardinality(A)  BY DEF Count, Rank, A
<1> QED BY <1>3, <1>4, <1>5, <1>6

\* Nothing is counted in an empty queue.
LEMMA CountEmpty ==
    ASSUME NEW q, Len(q) = 0, NEW C
    PROVE  Count(q, C) = 0
<1>1. {j \in 1..0 : q[j] \in C} = {}  OBVIOUS
<1> QED BY <1>1, FS_EmptySet DEF Count, Rank

\* Cells in a row, as one read yields them, hold a number once or not at all.
LEMMA CountRow ==
    ASSUME NEW S, NEW q \in Seq(S), NEW a \in Nat, NEW v \in Nat,
           \A i \in 1..Len(q) : q[i] = a + i - 1
    PROVE  /\ Count(q, {v}) \in Nat /\ Count(q, {v}) <= 1
           /\ ~(a <= v /\ v < a + Len(q)) => Count(q, {v}) = 0
<1>1. PICK n \in Nat : n = Len(q)  OBVIOUS
<1>2. {j \in 1..n : q[j] \in {v}} \in SUBSET {v - a + 1}  BY <1>1
<1>3. ~(a <= v /\ v < a + n) => {j \in 1..n : q[j] \in {v}} = {}  BY <1>1
<1>4. IsFiniteSet({v - a + 1}) /\ Cardinality({v - a + 1}) = 1  BY FS_Singleton
<1>5. /\ Cardinality({j \in 1..n : q[j] \in {v}}) \in Nat
      /\ Cardinality({j \in 1..n : q[j] \in {v}}) <= 1
  BY <1>2, <1>4, FS_Subset, FS_CardinalityType
<1> QED BY <1>1, <1>3, <1>5, FS_EmptySet DEF Count, Rank

\* Increments of the pump's windows.
PuTimes(n) == PuIncrement * n

\* Cells of C on their way to the exit, and where a cell of the stream can be.
InPipe(C) == Count(outq, C) + Count(fwd, C)
PlacesOf(v) == Count(target, {v}) + InPipe({v}) + Count(sendbuf, {v})

PuCommands == {"CIRC_SENDME", "SENDME", "XOFF", "XON"}

PuTyped ==
    /\ next \in 1..(PuCells + 1)
    /\ sendbuf \in Seq(1..PuCells) /\ Len(sendbuf) <= PuRead
    /\ paused \in BOOLEAN /\ stalled \in BOOLEAN /\ xoff_sent \in BOOLEAN
    /\ circ_package_window \in Nat /\ package_window \in Nat
    /\ outq \in Seq(0..PuCells) /\ fwd \in Seq(0..PuCells)
    /\ bwd \in Seq(PuCommands)
    /\ circ_deliver_window \in (PuCirc - PuIncrement + 1)..PuCirc
    /\ deliver_window \in (PuStream - PuIncrement + 1)..PuStream
    /\ target \in Seq(1..PuCells)
    /\ bounds \in [other : Nat, stalls : Nat, full : Nat]

PuCredit ==
    /\ package_window + InPipe(1..PuCells)
         + (PuStream - deliver_window) + PuTimes(Count(bwd, {"SENDME"})) = PuStream
    /\ circ_package_window + InPipe(0..PuCells)
         + (PuCirc - circ_deliver_window) + PuTimes(Count(bwd, {"CIRC_SENDME"})) = PuCirc

\* A cell that was read is in at most one place, and no other is anywhere.
PuOnce ==
    \A v \in 1..PuCells : IF v < next THEN PlacesOf(v) <= 1 ELSE PlacesOf(v) = 0

\* Until the link stalls or the target fills, nothing waits at the link, the
\* exit has sent no XOFF, and what was kept holds the application back.
PuKept ==
    bounds.stalls = 0 /\ bounds.full = 0 =>
        /\ Len(outq) = 0 /\ ~stalled /\ ~xoff_sent
        /\ \A i \in 1..Len(bwd) : bwd[i] \in {"CIRC_SENDME", "SENDME"}
        /\ Len(sendbuf) > 0 => paused

\* A circuit SENDME is followed by its stream's, and begins a new pair.
PuPairs ==
    \A i \in 1..Len(bwd) :
        /\ bwd[i] = "CIRC_SENDME" => i < Len(bwd)
        /\ i < Len(bwd) => (bwd[i + 1] = "SENDME" <=> bwd[i] = "CIRC_SENDME")

PuAcks ==
    /\ PuPairs
    /\ Count(bwd, {"SENDME"}) = Count(bwd, {"CIRC_SENDME"})
                                 + (IF Len(bwd) > 0 /\ bwd[1] = "SENDME" THEN 1 ELSE 0)

\* The cells of the queues t, f, s are in a row, up to n.
Row(t, f, s, n) ==
    /\ \A i \in 1..Len(t) : t[i] = i
    /\ \A i \in 1..Len(f) : f[i] = Len(t) + i
    /\ \A i \in 1..Len(s) : s[i] = Len(t) + Len(f) + i
    /\ n = Len(t) + Len(f) + Len(s) + 1

\* A stream that has the circuit to itself: the cells are in a row from the
\* target to the buffer, the windows fall together, and what is kept waits
\* for the stream's SENDME, which comes after the circuit's.
PuAlone == bounds.stalls = 0 /\ bounds.full = 0 /\ bounds.other = 0
PuOrder ==
    PuAlone =>
        /\ Row(target, fwd, sendbuf, next)
        /\ Len(sendbuf) > 0 => package_window = 0
        /\ PuCirc - circ_deliver_window = PuStream - deliver_window
        /\ PuAcks

PuCore == PuTyped /\ PuCredit /\ PuOnce
PuInv == PuCore /\ PuKept /\ PuOrder

\* What PumpAssumption says of the constants.
LEMMA PuConstants ==
    /\ PuIncrement \in Nat \ {0} /\ PuRead \in Nat \ {0}
    /\ PuCirc \in Nat /\ PuIncrement <= PuCirc /\ PuStream \in Nat /\ PuIncrement <= PuStream
    /\ PuCells \in Nat /\ PuRead <= PuIncrement /\ PuStream <= PuCirc
BY BoundsAssumption DEF Pump!PumpAssumption

\* One SENDME more is one increment more.
LEMMA PuTimesStep ==
    /\ PuTimes(0) = 0
    /\ \A n \in Nat : PuTimes(n) \in Nat /\ PuTimes(n + 1) = PuTimes(n) + PuIncrement
BY PuConstants DEF PuTimes

\* Sendable is the least of the cells and the two windows.
LEMMA PuSendable ==
    ASSUME NEW n \in Nat, NEW cw \in Nat, NEW sw \in Nat
    PROVE  LET k == Pump!Sendable(n, cw, sw)
           IN  /\ k \in Nat /\ k <= n /\ k <= cw /\ k <= sw
               /\ k = n \/ k = cw \/ k = sw
<1>1. \E x \in {n, cw, sw} : \A y \in {n, cw, sw} : x <= y  OBVIOUS
<1>2. PICK k : k = Pump!Min({n, cw, sw})  OBVIOUS
<1>3. k \in {n, cw, sw} /\ \A y \in {n, cw, sw} : k <= y  BY <1>1, <1>2 DEF Pump!Min
<1> QED BY <1>2, <1>3 DEF Pump!Sendable

\* The counts of the pump's queues are numbers.
LEMMA PuPipeType ==
    ASSUME PuTyped, NEW C
    PROVE  /\ Count(outq, C) \in Nat /\ Count(fwd, C) \in Nat /\ InPipe(C) \in Nat
           /\ Count(target, C) \in Nat /\ Count(sendbuf, C) \in Nat /\ Count(bwd, C) \in Nat
BY CountType DEF PuTyped, InPipe

\* Cells put on the guard link, on whichever of its queues.
LEMMA PuEnqueue ==
    ASSUME PuTyped, NEW cells \in Seq(0..PuCells), Pump!Enqueue(cells)
    PROVE  /\ outq' \in Seq(0..PuCells) /\ fwd' \in Seq(0..PuCells)
           /\ \A C : Count(cells, C) \in Nat /\ InPipe(C)' = InPipe(C) + Count(cells, C)
           /\ Len(outq) = 0 /\ ~stalled => outq' = outq /\ fwd' = fwd \o cells
<1>t. outq \in Seq(0..PuCells) /\ fwd \in Seq(0..PuCells)  BY DEF PuTyped
<1>c. \A C : Count(cells, C) \in Nat /\ Count(outq, C) \in Nat /\ Count(fwd, C) \in Nat
  BY <1>t, CountType
<1>1. CASE stalled \/ outq # <<>>
  <2>1. outq' = outq \o cells /\ fwd' = fwd  BY <1>1 DEF Pump!Enqueue
  <2>2. outq' \in Seq(0..PuCells) /\ Joins(outq', outq, cells)  BY <1>t, <2>1, JoinConcat
  <2>3. \A C : Count(outq', C) = Count(outq, C) + Count(cells, C)  BY <1>t, <2>2, CountJoin
  <2>4. \A C : InPipe(C)' = InPipe(C) + Count(cells, C)  BY <1>c, <2>1, <2>3 DEF InPipe
  <2>5. ~(Len(outq) = 0 /\ ~stalled)  BY <1>t, <1>1
  <2> QED BY <1>c, <1>t, <2>1, <2>2, <2>4, <2>5
<1>2. CASE ~(stalled \/ outq # <<>>)
  <2>1. fwd' = fwd \o cells /\ outq' = outq  BY <1>2 DEF Pump!Enqueue
  <2>2. fwd' \in Seq(0..PuCells) /\ Joins(fwd', fwd, cells)  BY <1>t, <2>1, JoinConcat
  <2>3. \A C : Count(fwd', C) = Count(fwd, C) + Count(cells, C)  BY <1>t, <2>2, CountJoin
  <2>4. \A C : InPipe(C)' = InPipe(C) + Count(cells, C)  BY <1>c, <2>1, <2>3 DEF InPipe
  <2> QED BY <1>c, <1>t, <2>1, <2>2, <2>4
<1> QED BY <1>1, <1>2

\* Part of a queue of the stream's own cells.
LEMMA PuPart ==
    ASSUME NEW q \in Seq(1..PuCells), NEW n \in 0..Len(q)
    PROVE  \E a \in Seq(0..PuCells), b \in Seq(1..PuCells) :
             /\ a = SubSeq(q, 1, n) /\ b = SubSeq(q, n + 1, Len(q))
             /\ Len(a) = n /\ Len(b) = Len(q) - n /\ Joins(q, a, b)
             /\ Count(a, 1..PuCells) = n /\ Count(a, 0..PuCells) = n
             /\ \A C : /\ Count(a, C) \in Nat /\ Count(b, C) \in Nat
                       /\ Count(q, C) = Count(a, C) + Count(b, C)
<1>1. PICK a \in Seq(1..PuCells), b \in Seq(1..PuCells) :
        /\ a = SubSeq(q, 1, n) /\ b = SubSeq(q, n + 1, Len(q))
        /\ Len(a) = n /\ Len(b) = Len(q) - n /\ Joins(q, a, b)
  BY JoinSubSeq
<1>2. a \in Seq(0..PuCells)
  <2>1. 1..PuCells \subseteq 0..PuCells  OBVIOUS
  <2> QED BY <1>1, <2>1
<1>3. Count(a, 1..PuCells) = n /\ Count(a, 0..PuCells) = n  BY <1>1, <1>2, CountType
<1>4. \A C : /\ Count(a, C) \in Nat /\ Count(b, C) \in Nat
             /\ Count(q, C) = Count(a, C) + Count(b, C)
  <2>1. q \in Seq(1..PuCells) /\ a \in Seq(1..PuCells) /\ b \in Seq(1..PuCells) /\ Joins(q, a, b)
    BY <1>1
  <2> QED BY <2>1, CountJoin
<1> QED BY <1>1, <1>2, <1>3, <1>4

\* What a retry of sent cells with the credit cw, sw leaves.
DrainEffect(cw, sw, sent) ==
    /\ outq' \in Seq(0..PuCells) /\ fwd' \in Seq(0..PuCells)
    /\ sendbuf' \in Seq(1..PuCells) /\ Len(sendbuf') <= PuRead /\ paused' \in BOOLEAN
    /\ circ_package_window' \in Nat /\ package_window' \in Nat
    /\ circ_package_window' = cw - sent /\ package_window' = sw - sent
    /\ InPipe(1..PuCells)' = InPipe(1..PuCells) + sent
    /\ InPipe(0..PuCells)' = InPipe(0..PuCells) + sent
    /\ \A v : InPipe({v})' + Count(sendbuf', {v}) <= InPipe({v}) + Count(sendbuf, {v})

\* A retry: the first cells of sendbuf go out, and the rest is kept only if
\* none did.
LEMMA PuDrained ==
    ASSUME PuTyped, NEW cw \in Nat, NEW sw \in Nat, NEW sent \in 0..Len(sendbuf),
           sent <= cw, sent <= sw, NEW clear \in BOOLEAN, NEW unpause \in BOOLEAN,
           sent > 0 => clear, Pump!Drain(cw, sw, sent, clear, unpause)
    PROVE  DrainEffect(cw, sw, sent)
<1>t. sendbuf \in Seq(1..PuCells) /\ Len(sendbuf) <= PuRead /\ paused \in BOOLEAN
      /\ Len(sendbuf) \in Nat
  BY DEF PuTyped
<1>1. PICK a \in Seq(0..PuCells), b \in Seq(1..PuCells) :
        /\ a = SubSeq(sendbuf, 1, sent)
        /\ Count(a, 1..PuCells) = sent /\ Count(a, 0..PuCells) = sent
        /\ \A C : /\ Count(a, C) \in Nat /\ Count(b, C) \in Nat
                  /\ Count(sendbuf, C) = Count(a, C) + Count(b, C)
  BY <1>t, PuPart
<1>2. /\ Pump!Enqueue(a)
      /\ circ_package_window' = cw - sent /\ package_window' = sw - sent
      /\ sendbuf' = IF clear THEN <<>> ELSE sendbuf
      /\ paused' = (paused /\ ~unpause)
  BY <1>1 DEF Pump!Drain
<1>3. /\ outq' \in Seq(0..PuCells) /\ fwd' \in Seq(0..PuCells)
      /\ \A C : InPipe(C)' = InPipe(C) + Count(a, C)
  BY <1>1, <1>2, PuEnqueue
<1>4. sendbuf' \in Seq(1..PuCells) /\ Len(sendbuf') <= PuRead
  <2>1. CASE clear
    BY <1>2, <2>1, PuConstants
  <2>2. CASE ~clear
    BY <1>2, <1>t, <2>2
  <2> QED BY <2>1, <2>2
<1>5. \A v : InPipe({v})' + Count(sendbuf', {v}) <= InPipe({v}) + Count(sendbuf, {v})
  <2> TAKE v
  <2>1. InPipe({v})' = InPipe({v}) + Count(a, {v}) /\ InPipe({v}) \in Nat  BY <1>3, PuPipeType
  <2>2. /\ Count(a, {v}) \in Nat /\ Count(b, {v}) \in Nat
        /\ Count(sendbuf, {v}) = Count(a, {v}) + Count(b, {v})
    BY <1>1
  <2>3. CASE clear
    <3>1. Len(sendbuf') = 0  BY <1>2, <2>3
    <3>2. Count(sendbuf', {v}) = 0  BY <3>1, CountEmpty
    <3> QED BY <2>1, <2>2, <3>2
  <2>4. CASE ~clear
    <3>1. sent = 0  BY <2>4
    <3>2. Count(a, {v}) <= Count(a, {v}) /\ Len(a) = 0  BY <1>1, <2>2, <3>1
    <3>3. Count(a, {v}) = 0  BY <3>2, CountEmpty
    <3>4. sendbuf' = sendbuf  BY <1>2, <2>4
    <3> QED BY <2>1, <2>2, <3>3, <3>4
  <2> QED BY <2>3, <2>4
<1>6. InPipe(1..PuCells)' = InPipe(1..PuCells) + sent /\ InPipe(0..PuCells)' = InPipe(0..PuCells) + sent
  BY <1>1, <1>3
<1>7. paused' \in BOOLEAN /\ circ_package_window' \in Nat /\ package_window' \in Nat  BY <1>2
<1> QED BY <1>2, <1>3, <1>4, <1>5, <1>6, <1>7 DEF DrainEffect

\* The exit's SENDMEs take up what its windows have fallen by.
LEMMA PuChecked ==
    ASSUME PuTyped, NEW cw \in (PuCirc - PuIncrement)..PuCirc,
           NEW sw \in (PuStream - PuIncrement)..PuStream,
           NEW x \in {<<>>, <<"XON">>, <<"XOFF">>}, Pump!SendmeCheck(cw, sw, x)
    PROVE  /\ bwd' \in Seq(PuCommands)
           /\ circ_deliver_window' \in (PuCirc - PuIncrement + 1)..PuCirc
           /\ deliver_window' \in (PuStream - PuIncrement + 1)..PuStream
           /\ (PuStream - deliver_window') + PuTimes(Count(bwd', {"SENDME"}))
                = (PuStream - sw) + PuTimes(Count(bwd, {"SENDME"}))
           /\ (PuCirc - circ_deliver_window') + PuTimes(Count(bwd', {"CIRC_SENDME"}))
                = (PuCirc - cw) + PuTimes(Count(bwd, {"CIRC_SENDME"}))
<1> DEFINE circ == cw <= PuCirc - PuIncrement
           strm == sw <= PuStream - PuIncrement
           y == IF circ THEN <<"CIRC_SENDME">> ELSE <<>>
           z == IF strm THEN <<"SENDME">> ELSE <<>>
<1>1. /\ circ_deliver_window' = IF circ THEN cw + PuIncrement ELSE cw
      /\ deliver_window' = IF strm THEN sw + PuIncrement ELSE sw
      /\ bwd' = bwd \o x \o y \o z
  BY DEF Pump!SendmeCheck
<1>t. bwd \in Seq(PuCommands)  BY DEF PuTyped
<1>one. \A c \in PuCommands : \A C : <<c>> \in Seq(PuCommands) /\ Count(<<c>>, C) = IF c \in C THEN 1 ELSE 0
  <2> TAKE c \in PuCommands
  <2> TAKE C
  <2>1. PICK q \in Seq(PuCommands) : q = <<c>>
    <3>1. <<c>> \in Seq(PuCommands)  OBVIOUS
    <3> QED BY <3>1
  <2>2. Len(q) = 1 /\ q[1] = c  BY <2>1
  <2>3. Count(q, C) = Cardinality({j \in 1..1 : q[j] \in C})  BY <2>2 DEF Count, Rank
  <2>4. {j \in 1..1 : q[j] \in C} = IF c \in C THEN {1} ELSE {}  BY <2>2
  <2>5. Cardinality({1}) = 1 /\ Cardinality({}) = 0  BY FS_Singleton, FS_EmptySet
  <2>6. Count(q, C) = IF c \in C THEN 1 ELSE 0  BY <2>3, <2>4, <2>5
  <2> QED BY <2>1, <2>6
<1>none. \A C : <<>> \in Seq(PuCommands) /\ Count(<<>>, C) = 0
  <2> TAKE C
  <2>1. <<>> \in Seq(PuCommands) /\ Len(<<>>) = 0  OBVIOUS
  <2> QED BY <2>1, CountEmpty
<1>cmd. /\ "XON" \in PuCommands /\ "XOFF" \in PuCommands /\ "CIRC_SENDME" \in PuCommands /\ "SENDME" \in PuCommands
        /\ "XON" \notin {"SENDME"} /\ "XOFF" \notin {"SENDME"} /\ "CIRC_SENDME" \notin {"SENDME"}
        /\ "XON" \notin {"CIRC_SENDME"} /\ "XOFF" \notin {"CIRC_SENDME"} /\ "SENDME" \notin {"CIRC_SENDME"}
        /\ "SENDME" \in {"SENDME"} /\ "CIRC_SENDME" \in {"CIRC_SENDME"}
  BY DEF PuCommands
<1>2. x \in Seq(PuCommands) /\ Count(x, {"SENDME"}) = 0 /\ Count(x, {"CIRC_SENDME"}) = 0
  <2>1. CASE x = <<>>
    BY <1>none, <2>1
  <2>2. CASE x = <<"XON">>
    BY <1>one, <1>cmd, <2>2
  <2>3. CASE x = <<"XOFF">>
    BY <1>one, <1>cmd, <2>3
  <2> QED BY <2>1, <2>2, <2>3
<1>3. /\ y \in Seq(PuCommands) /\ Count(y, {"SENDME"}) = 0
      /\ Count(y, {"CIRC_SENDME"}) = IF circ THEN 1 ELSE 0
  BY <1>one, <1>none, <1>cmd
<1>4. /\ z \in Seq(PuCommands) /\ Count(z, {"CIRC_SENDME"}) = 0
      /\ Count(z, {"SENDME"}) = IF strm THEN 1 ELSE 0
  BY <1>one, <1>none, <1>cmd
<1>5. PICK b1 \in Seq(PuCommands), b2 \in Seq(PuCommands) :
        /\ b1 = bwd \o x /\ b2 = b1 \o y /\ bwd' = b2 \o z
        /\ Joins(b1, bwd, x) /\ Joins(b2, b1, y)
  <2> HIDE DEF y, z
  <2>1. bwd \o x \in Seq(PuCommands) /\ Joins(bwd \o x, bwd, x)  BY <1>t, <1>2, JoinConcat
  <2>2. PICK b1 \in Seq(PuCommands) : b1 = bwd \o x  BY <2>1
  <2>3. b1 \o y \in Seq(PuCommands) /\ Joins(b1 \o y, b1, y)  BY <1>3, JoinConcat
  <2> QED BY <1>1, <2>1, <2>2, <2>3
<1>6. bwd' \in Seq(PuCommands) /\ Joins(bwd', b2, z)
  <2> HIDE DEF z
  <2> QED BY <1>4, <1>5, JoinConcat
<1>7. \A C : /\ Count(bwd, C) \in Nat
             /\ Count(bwd', C) = Count(bwd, C) + Count(x, C) + Count(y, C) + Count(z, C)
  <2> HIDE DEF y, z
  <2> TAKE C
  <2>1. /\ Count(bwd, C) \in Nat /\ Count(x, C) \in Nat
        /\ Count(b1, C) = Count(bwd, C) + Count(x, C)
    <3>1. bwd \in Seq(PuCommands) /\ x \in Seq(PuCommands) /\ b1 \in Seq(PuCommands) /\ Joins(b1, bwd, x)
      BY <1>t, <1>2, <1>5
    <3> QED BY <3>1, CountJoin
  <2>2. Count(y, C) \in Nat /\ Count(b2, C) = Count(b1, C) + Count(y, C)
    <3>1. y \in Seq(PuCommands) /\ b1 \in Seq(PuCommands) /\ b2 \in Seq(PuCommands) /\ Joins(b2, b1, y)
      BY <1>3, <1>5
    <3> QED BY <3>1, CountJoin
  <2>3. Count(z, C) \in Nat /\ Count(bwd', C) = Count(b2, C) + Count(z, C)
    <3>1. z \in Seq(PuCommands) /\ b2 \in Seq(PuCommands) /\ bwd' \in Seq(PuCommands) /\ Joins(bwd', b2, z)
      BY <1>4, <1>5, <1>6
    <3> QED BY <3>1, CountJoin
  <2> QED BY <2>1, <2>2, <2>3
<1> HIDE DEF y, z
<1>8. PICK m \in Nat, k \in Nat : m = Count(bwd, {"SENDME"}) /\ k = Count(bwd, {"CIRC_SENDME"})
  BY <1>7
<1>9. /\ Count(bwd', {"SENDME"}) = m + (IF strm THEN 1 ELSE 0)
      /\ Count(bwd', {"CIRC_SENDME"}) = k + (IF circ THEN 1 ELSE 0)
  BY <1>2, <1>3, <1>4, <1>7, <1>8
<1>10. /\ PuTimes(m) \in Nat /\ PuTimes(m + 1) = PuTimes(m) + PuIncrement
       /\ PuTimes(k) \in Nat /\ PuTimes(k + 1) = PuTimes(k) + PuIncrement
  BY PuTimesStep
<1>11. PuTimes(Count(bwd', {"SENDME"})) = PuTimes(m) + (IF strm THEN PuIncrement ELSE 0)
  <2>1. m + 0 = m  OBVIOUS
  <2>2. PuIncrement \in Nat  BY PuConstants
  <2> QED BY <1>9, <1>10, <2>1, <2>2
<1>12. PuTimes(Count(bwd', {"CIRC_SENDME"})) = PuTimes(k) + (IF circ THEN PuIncrement ELSE 0)
  <2>1. k + 0 = k  OBVIOUS
  <2>2. PuIncrement \in Nat  BY PuConstants
  <2> QED BY <1>9, <1>10, <2>1, <2>2
<1>13. PICK d \in Nat, e \in Nat : d = PuTimes(m) /\ e = PuTimes(k)  BY <1>10
<1>14. /\ PuTimes(Count(bwd', {"SENDME"})) = d + (IF strm THEN PuIncrement ELSE 0)
       /\ PuTimes(Count(bwd', {"CIRC_SENDME"})) = e + (IF circ THEN PuIncrement ELSE 0)
  BY <1>11, <1>12, <1>13
<1>15. /\ deliver_window' \in (PuStream - PuIncrement + 1)..PuStream
       /\ (PuStream - deliver_window') + (d + (IF strm THEN PuIncrement ELSE 0)) = (PuStream - sw) + d
  <2>1. deliver_window' = IF strm THEN sw + PuIncrement ELSE sw  BY <1>1
  <2> QED BY <2>1, PuConstants
<1>16. /\ circ_deliver_window' \in (PuCirc - PuIncrement + 1)..PuCirc
       /\ (PuCirc - circ_deliver_window') + (e + (IF circ THEN PuIncrement ELSE 0)) = (PuCirc - cw) + e
  <2>1. circ_deliver_window' = IF circ THEN cw + PuIncrement ELSE cw  BY <1>1
  <2> QED BY <2>1, PuConstants
<1> QED BY <1>6, <1>8, <1>13, <1>14, <1>15, <1>16

-----------------------------------------------------------------------------
(* Types, credit and places.                                               *)

\* Credit and places after a step that changes no window at the exit.
LEMMA PuClientKeeps ==
    ASSUME PuTyped, PuCredit, PuOnce, NEW sent \in Nat, NEW got \in Nat,
           UNCHANGED <<deliver_window, circ_deliver_window, target>>,
           InPipe(1..PuCells)' = InPipe(1..PuCells) + got,
           InPipe(0..PuCells)' = InPipe(0..PuCells) + sent,
           package_window' + got + PuTimes(Count(bwd', {"SENDME"}))
             = package_window + PuTimes(Count(bwd, {"SENDME"})),
           circ_package_window' + sent + PuTimes(Count(bwd', {"CIRC_SENDME"}))
             = circ_package_window + PuTimes(Count(bwd, {"CIRC_SENDME"})),
           package_window' \in Nat, circ_package_window' \in Nat,
           Count(bwd', {"SENDME"}) \in Nat, Count(bwd', {"CIRC_SENDME"}) \in Nat
    PROVE  PuCredit'
<1>1. /\ InPipe(1..PuCells) \in Nat /\ InPipe(0..PuCells) \in Nat
      /\ Count(bwd, {"SENDME"}) \in Nat /\ Count(bwd, {"CIRC_SENDME"}) \in Nat
  BY PuPipeType
<1>2. /\ PuTimes(Count(bwd, {"SENDME"})) \in Nat /\ PuTimes(Count(bwd, {"CIRC_SENDME"})) \in Nat
      /\ PuTimes(Count(bwd', {"SENDME"})) \in Nat /\ PuTimes(Count(bwd', {"CIRC_SENDME"})) \in Nat
  BY <1>1, PuTimesStep
<1>3. /\ deliver_window \in Int /\ circ_deliver_window \in Int
      /\ package_window \in Nat /\ circ_package_window \in Nat
  BY PuConstants DEF PuTyped
<1>4. PICK o \in Nat, w \in Nat, m \in Nat, k \in Nat, mm \in Nat, kk \in Nat :
        /\ o = InPipe(1..PuCells) /\ w = InPipe(0..PuCells)
        /\ m = PuTimes(Count(bwd, {"SENDME"})) /\ k = PuTimes(Count(bwd, {"CIRC_SENDME"}))
        /\ mm = PuTimes(Count(bwd', {"SENDME"})) /\ kk = PuTimes(Count(bwd', {"CIRC_SENDME"}))
  BY <1>1, <1>2
<1>5. /\ package_window + o + (PuStream - deliver_window) + m = PuStream
      /\ circ_package_window + w + (PuCirc - circ_deliver_window) + k = PuCirc
  BY <1>4 DEF PuCredit
<1>6. /\ package_window' + got + mm = package_window + m
      /\ circ_package_window' + sent + kk = circ_package_window + k
  BY <1>4
<1>7. /\ package_window' + (o + got) + (PuStream - deliver_window) + mm = PuStream
      /\ circ_package_window' + (w + sent) + (PuCirc - circ_deliver_window) + kk = PuCirc
  <2>1. PICK p \in Nat, c \in Nat, p1 \in Nat, c1 \in Nat, d \in Int, e \in Int :
          /\ p = package_window /\ c = circ_package_window
          /\ p1 = package_window' /\ c1 = circ_package_window'
          /\ d = PuStream - deliver_window /\ e = PuCirc - circ_deliver_window
    BY <1>3, PuConstants
  <2>2. p + o + d + m = PuStream /\ c + w + e + k = PuCirc  BY <1>5, <2>1
  <2>3. p1 + got + mm = p + m /\ c1 + sent + kk = c + k  BY <1>6, <2>1
  <2>4. p1 + (o + got) + d + mm = PuStream /\ c1 + (w + sent) + e + kk = PuCirc  BY <2>2, <2>3
  <2> QED BY <2>1, <2>4
<1>8. deliver_window' = deliver_window /\ circ_deliver_window' = circ_deliver_window  OBVIOUS
<1> QED BY <1>4, <1>7, <1>8 DEF PuCredit

\* Places after a step that takes no new cell from the application.
LEMMA PuOnceKeeps ==
    ASSUME PuTyped, PuOnce, next' = next,
           \A v \in 1..PuCells : PlacesOf(v)' \in Nat /\ PlacesOf(v)' <= PlacesOf(v)
    PROVE  PuOnce'
<1>1. \A v \in 1..PuCells : PlacesOf(v) \in Nat  BY PuPipeType DEF PlacesOf
<1> QED BY <1>1 DEF PuOnce

\* A read keeps types, credit and places.
LEMMA PuReadCore ==
    ASSUME PuCore, NEW n \in 1..PuRead, Pump!ClientRead(n)
    PROVE  PuCore'
<1>t. /\ PuTyped /\ next \in 1..(PuCells + 1) /\ circ_package_window \in Nat /\ package_window \in Nat
      /\ n \in Nat /\ n >= 1 /\ n <= PuRead /\ next \in Nat
  BY PuConstants DEF PuCore, PuTyped
<1>1. PICK cells \in Seq(1..PuCells) :
        /\ cells = [i \in 1..n |-> next + i - 1] /\ Len(cells) = n
        /\ \A i \in 1..Len(cells) : cells[i] = next + i - 1
  <2>1. next + n - 1 <= PuCells  BY DEF Pump!ClientRead
  <2>2. \A i \in 1..n : next + i - 1 \in 1..PuCells  BY <1>t, <2>1, PuConstants
  <2>3. [i \in 1..n |-> next + i - 1] \in Seq(1..PuCells)  BY <1>t, <2>2
  <2>4. PICK f : f = [i \in 1..n |-> next + i - 1]  OBVIOUS
  <2>5. f \in Seq(1..PuCells) /\ DOMAIN f = 1..n /\ \A i \in 1..n : f[i] = next + i - 1
    BY <2>3, <2>4
  <2>6. Len(f) = n  BY <1>t, <2>5
  <2> QED BY <2>4, <2>5, <2>6
<1>2. PICK sent \in Nat :
        /\ sent = Pump!Sendable(n, circ_package_window, package_window)
        /\ sent <= n /\ sent <= circ_package_window /\ sent <= package_window
  BY <1>t, PuSendable
<1>3. /\ Pump!Enqueue(SubSeq(cells, 1, sent))
      /\ circ_package_window' = circ_package_window - sent
      /\ package_window' = package_window - sent
      /\ sendbuf' = IF sent < n THEN SubSeq(cells, sent + 1, n) ELSE sendbuf
      /\ paused' = (sent < n) /\ next' = next + n /\ next + n - 1 <= PuCells
      /\ UNCHANGED <<stalled, bwd, deliver_window, circ_deliver_window, xoff_sent, target, bounds>>
  BY <1>1, <1>2 DEF Pump!ClientRead, Pump!exit
<1>4. PICK a \in Seq(0..PuCells), b \in Seq(1..PuCells) :
        /\ a = SubSeq(cells, 1, sent) /\ b = SubSeq(cells, sent + 1, n)
        /\ Len(b) = n - sent
        /\ Count(a, 1..PuCells) = sent /\ Count(a, 0..PuCells) = sent
        /\ \A C : /\ Count(a, C) \in Nat /\ Count(b, C) \in Nat
                  /\ Count(cells, C) = Count(a, C) + Count(b, C)
  <2>1. sent \in 0..Len(cells)  BY <1>1, <1>2
  <2>2. PICK a \in Seq(0..PuCells), b \in Seq(1..PuCells) :
        /\ a = SubSeq(cells, 1, sent) /\ b = SubSeq(cells, sent + 1, Len(cells))
        /\ Len(b) = Len(cells) - sent
        /\ Count(a, 1..PuCells) = sent /\ Count(a, 0..PuCells) = sent
        /\ \A C : /\ Count(a, C) \in Nat /\ Count(b, C) \in Nat
                  /\ Count(cells, C) = Count(a, C) + Count(b, C)
    BY <2>1, PuPart
  <2>3. Len(cells) = n  BY <1>1
  <2> QED BY <2>2, <2>3
<1>5. /\ outq' \in Seq(0..PuCells) /\ fwd' \in Seq(0..PuCells)
      /\ \A C : InPipe(C)' = InPipe(C) + Count(a, C)
  <2>1. Pump!Enqueue(a)  BY <1>3, <1>4
  <2> QED BY <1>t, <2>1, PuEnqueue
<1>6. sendbuf' \in Seq(1..PuCells) /\ Len(sendbuf') <= PuRead
  <2>1. CASE sent < n
    <3>1. sendbuf' = b /\ Len(b) = n - sent  BY <1>3, <1>4, <2>1
    <3>2. n - sent <= PuRead  BY <1>t, <1>2, PuConstants
    <3> QED BY <3>1, <3>2
  <2>2. CASE ~(sent < n)
    <3>1. sendbuf' = sendbuf  BY <1>3, <2>2
    <3> QED BY <1>t, <3>1 DEF PuTyped
  <2> QED BY <2>1, <2>2
<1>7. PuTyped'
  <2>1. next' \in 1..(PuCells + 1) /\ paused' \in BOOLEAN
        /\ circ_package_window' \in Nat /\ package_window' \in Nat
    <3>1. next' = next + n /\ next + n - 1 <= PuCells  BY <1>3
    <3>2. next' \in 1..(PuCells + 1)  BY <1>t, <3>1, PuConstants
    <3>3. /\ circ_package_window' = circ_package_window - sent
          /\ package_window' = package_window - sent
      BY <1>3
    <3>4. circ_package_window' \in Nat /\ package_window' \in Nat  BY <1>t, <1>2, <3>3
    <3>5. paused' \in BOOLEAN  BY <1>3
    <3> QED BY <3>2, <3>4, <3>5
  <2> QED BY <1>t, <1>3, <1>5, <1>6, <2>1 DEF PuTyped
<1>8. PuCredit'
  <2>1. /\ InPipe(1..PuCells)' = InPipe(1..PuCells) + sent
        /\ InPipe(0..PuCells)' = InPipe(0..PuCells) + sent
    BY <1>4, <1>5
  <2>2. \A C : Count(bwd', C) = Count(bwd, C) /\ Count(bwd, C) \in Nat
    BY <1>t, <1>3, PuPipeType
  <2>3. /\ PuTimes(Count(bwd, {"SENDME"})) \in Nat /\ PuTimes(Count(bwd, {"CIRC_SENDME"})) \in Nat
    BY <2>2, PuTimesStep
  <2>4. /\ package_window' + sent + PuTimes(Count(bwd', {"SENDME"}))
             = package_window + PuTimes(Count(bwd, {"SENDME"}))
        /\ circ_package_window' + sent + PuTimes(Count(bwd', {"CIRC_SENDME"}))
             = circ_package_window + PuTimes(Count(bwd, {"CIRC_SENDME"}))
    BY <1>t, <1>3, <2>2, <2>3
  <2>5. package_window' \in Nat /\ circ_package_window' \in Nat  BY <1>7 DEF PuTyped
  <2>6. UNCHANGED <<deliver_window, circ_deliver_window, target>>  BY <1>3
  <2> QED BY <1>t, <2>1, <2>2, <2>4, <2>5, <2>6, PuClientKeeps DEF PuCore
<1>9. PuOnce'
  <2> SUFFICES ASSUME NEW v \in 1..PuCells
               PROVE  IF v < next' THEN PlacesOf(v)' <= 1 ELSE PlacesOf(v)' = 0
    BY DEF PuOnce
  <2>1. IF v < next THEN PlacesOf(v) <= 1 ELSE PlacesOf(v) = 0  BY DEF PuCore, PuOnce
  <2>2. /\ InPipe({v}) \in Nat /\ Count(target, {v}) \in Nat /\ Count(sendbuf, {v}) \in Nat
    BY <1>t, PuPipeType
  <2>3. /\ Count(cells, {v}) \in Nat /\ Count(cells, {v}) <= 1
        /\ ~(next <= v /\ v < next + n) => Count(cells, {v}) = 0
    <3>1. v \in Nat  OBVIOUS
    <3> QED BY <1>t, <1>1, <3>1, CountRow
  <2>4. /\ Count(a, {v}) \in Nat /\ Count(b, {v}) \in Nat
        /\ Count(cells, {v}) = Count(a, {v}) + Count(b, {v})
        /\ InPipe({v})' = InPipe({v}) + Count(a, {v})
    BY <1>4, <1>5
  <2>5. Count(sendbuf', {v}) = Count(b, {v}) \/ Count(sendbuf', {v}) = Count(sendbuf, {v})
    BY <1>3, <1>4
  <2>6. Count(target', {v}) = Count(target, {v})  BY <1>3
  <2>7. PlacesOf(v) = Count(target, {v}) + InPipe({v}) + Count(sendbuf, {v})  BY DEF PlacesOf
  <2>8. PlacesOf(v)' = Count(target, {v}) + (InPipe({v}) + Count(a, {v})) + Count(sendbuf', {v})
    BY <2>4, <2>6 DEF PlacesOf
  <2>9. PICK tt \in Nat, pp \in Nat, sb \in Nat, ca \in Nat, cb \in Nat :
          /\ tt = Count(target, {v}) /\ pp = InPipe({v}) /\ sb = Count(sendbuf, {v})
          /\ ca = Count(a, {v}) /\ cb = Count(b, {v})
    BY <2>2, <2>4
  <2>10. PlacesOf(v)' = tt + (pp + ca) + cb \/ PlacesOf(v)' = tt + (pp + ca) + sb
    BY <2>5, <2>8, <2>9
  <2>11. /\ IF v < next THEN tt + pp + sb <= 1 ELSE tt + pp + sb = 0
         /\ ca + cb <= 1
         /\ ~(next <= v /\ v < next + n) => ca + cb = 0
    BY <2>1, <2>3, <2>4, <2>7, <2>9
  <2>12. v \in Nat /\ next' = next + n  BY <1>3
  <2> QED BY <1>t, <2>10, <2>11, <2>12
<1> QED BY <1>7, <1>8, <1>9 DEF PuCore

\* So does a step that moves no cell and no credit.
LEMMA PuQuietCore ==
    ASSUME PuCore, paused' \in BOOLEAN, stalled' \in BOOLEAN,
           bounds' \in [other : Nat, stalls : Nat, full : Nat],
           UNCHANGED <<next, sendbuf, circ_package_window, package_window, outq, fwd, bwd,
                       circ_deliver_window, deliver_window, xoff_sent, target>>
    PROVE  PuCore'
<1>1. PuTyped'  BY DEF PuCore, PuTyped
<1>2. \A C : InPipe(C)' = InPipe(C)  BY DEF InPipe
<1>3. PuCredit'  BY <1>2 DEF PuCore, PuCredit
<1>4. \A v : PlacesOf(v)' = PlacesOf(v)  BY <1>2 DEF PlacesOf
<1>5. PuOnce'  BY <1>4 DEF PuCore, PuOnce
<1> QED BY <1>1, <1>3, <1>5 DEF PuCore

\* The client's link: a pause, a stall, its end, another stream's cell.
LEMMA PuLinkCore ==
    ASSUME PuCore, Pump!ClientBackpressure \/ Pump!LinkStalls \/ Pump!LinkRecovers
    PROVE  PuCore'
<1>t. /\ bounds \in [other : Nat, stalls : Nat, full : Nat]
      /\ paused \in BOOLEAN /\ stalled \in BOOLEAN
  BY DEF PuCore, PuTyped
<1>1. UNCHANGED <<next, sendbuf, circ_package_window, package_window, outq, fwd, bwd,
                  circ_deliver_window, deliver_window, xoff_sent, target>>
  BY DEF Pump!ClientBackpressure, Pump!LinkStalls, Pump!LinkRecovers, Pump!client, Pump!link, Pump!exit
<1>2. paused' \in BOOLEAN /\ stalled' \in BOOLEAN
  BY <1>t DEF Pump!ClientBackpressure, Pump!LinkStalls, Pump!LinkRecovers, Pump!client, Pump!link
<1>3. bounds' = bounds \/ bounds' = [bounds EXCEPT !.stalls = @ + 1]
  BY DEF Pump!ClientBackpressure, Pump!LinkStalls, Pump!LinkRecovers
<1>4. bounds' \in [other : Nat, stalls : Nat, full : Nat]  BY <1>t, <1>3
<1> QED BY <1>1, <1>2, <1>4, PuQuietCore

\* So does a cell of another stream.
LEMMA PuOtherCore ==
    ASSUME PuCore, Pump!OtherSends
    PROVE  PuCore'
<1>t. /\ PuTyped /\ bounds \in [other : Nat, stalls : Nat, full : Nat]
      /\ circ_package_window \in Nat /\ package_window \in Nat
  BY DEF PuCore, PuTyped
<1>1. /\ Pump!Enqueue(<<0>>) /\ circ_package_window > 0
      /\ circ_package_window' = circ_package_window - 1
      /\ bounds' = [bounds EXCEPT !.other = @ + 1]
      /\ UNCHANGED <<next, sendbuf, paused, package_window, stalled, bwd,
                     circ_deliver_window, deliver_window, xoff_sent, target>>
  BY DEF Pump!OtherSends, Pump!OtherStream, Pump!exit
<1>2. PICK a \in Seq(0..PuCells) : a = <<0>> /\ Len(a) = 1 /\ a[1] = 0
  <2>1. 0 \in 0..PuCells  BY PuConstants
  <2>2. <<0>> \in Seq(0..PuCells)  BY <2>1
  <2> QED BY <2>2
<1>3. \A C : Count(a, C) = IF 0 \in C THEN 1 ELSE 0
  <2> TAKE C
  <2>1. Count(a, C) = Cardinality({j \in 1..1 : a[j] \in C})  BY <1>2 DEF Count, Rank
  <2>2. {j \in 1..1 : a[j] \in C} = IF 0 \in C THEN {1} ELSE {}  BY <1>2
  <2>3. Cardinality({1}) = 1 /\ Cardinality({}) = 0  BY FS_Singleton, FS_EmptySet
  <2> QED BY <2>1, <2>2, <2>3
<1>4. /\ outq' \in Seq(0..PuCells) /\ fwd' \in Seq(0..PuCells)
      /\ \A C : InPipe(C)' = InPipe(C) + Count(a, C)
  <2>1. Pump!Enqueue(a)  BY <1>1, <1>2
  <2> QED BY <1>t, <2>1, PuEnqueue
<1>5. PuTyped'
  <2>1. bounds' \in [other : Nat, stalls : Nat, full : Nat]  BY <1>t, <1>1
  <2>2. circ_package_window' \in Nat  BY <1>t, <1>1
  <2> QED BY <1>t, <1>1, <1>4, <2>1, <2>2 DEF PuTyped
<1>6. PuCredit'
  <2>1. 0 \notin 1..PuCells /\ 0 \in 0..PuCells  BY PuConstants
  <2>2. Count(a, 1..PuCells) = 0 /\ Count(a, 0..PuCells) = 1  BY <1>3, <2>1
  <2>3. InPipe(1..PuCells)' = InPipe(1..PuCells) + 0 /\ InPipe(0..PuCells)' = InPipe(0..PuCells) + 1
    BY <1>4, <2>2
  <2>4. \A C : Count(bwd', C) = Count(bwd, C) /\ Count(bwd, C) \in Nat
    BY <1>t, <1>1, PuPipeType
  <2>5. /\ PuTimes(Count(bwd, {"SENDME"})) \in Nat /\ PuTimes(Count(bwd, {"CIRC_SENDME"})) \in Nat
    BY <2>4, PuTimesStep
  <2>6. /\ package_window' + 0 + PuTimes(Count(bwd', {"SENDME"}))
             = package_window + PuTimes(Count(bwd, {"SENDME"}))
        /\ circ_package_window' + 1 + PuTimes(Count(bwd', {"CIRC_SENDME"}))
             = circ_package_window + PuTimes(Count(bwd, {"CIRC_SENDME"}))
    BY <1>t, <1>1, <2>4, <2>5
  <2>7. package_window' \in Nat /\ circ_package_window' \in Nat  BY <1>5 DEF PuTyped
  <2>8. UNCHANGED <<deliver_window, circ_deliver_window, target>> /\ PuTyped /\ PuCredit /\ PuOnce
    BY <1>1 DEF PuCore
  <2> QED BY <2>3, <2>4, <2>6, <2>7, <2>8, PuClientKeeps
<1>7. PuOnce'
  <2>1. \A v \in 1..PuCells : PlacesOf(v)' = PlacesOf(v) /\ PlacesOf(v) \in Nat
    <3> TAKE v \in 1..PuCells
    <3>1. 0 \notin {v}  OBVIOUS
    <3>2. Count(a, {v}) = 0  BY <1>3, <3>1
    <3>3. /\ InPipe({v}) \in Nat /\ Count(target, {v}) \in Nat /\ Count(sendbuf, {v}) \in Nat
      BY <1>t, PuPipeType
    <3>4. InPipe({v})' = InPipe({v})  BY <1>4, <3>2, <3>3
    <3> QED BY <1>1, <3>3, <3>4 DEF PlacesOf
  <2>2. PuOnce /\ next' = next  BY <1>1 DEF PuCore
  <2> QED BY <2>1, <2>2 DEF PuOnce
<1> QED BY <1>5, <1>6, <1>7 DEF PuCore

\* So does a flush of the guard link's queue.
LEMMA PuWritableCore ==
    ASSUME PuCore, NEW n \in 1..Len(outq), Pump!LinkWritable(n)
    PROVE  PuCore'
<1>t. PuTyped /\ outq \in Seq(0..PuCells) /\ fwd \in Seq(0..PuCells) /\ paused \in BOOLEAN
  BY DEF PuCore, PuTyped
<1>1. /\ fwd' = fwd \o SubSeq(outq, 1, n)
      /\ outq' = SubSeq(outq, n + 1, Len(outq))
      /\ UNCHANGED <<next, sendbuf, circ_package_window, package_window, stalled, bwd,
                     circ_deliver_window, deliver_window, xoff_sent, target, bounds>>
  BY DEF Pump!LinkWritable, Pump!exit
<1>p. paused' \in BOOLEAN  BY <1>t DEF Pump!LinkWritable
<1>2. PICK a \in Seq(0..PuCells), b \in Seq(0..PuCells) :
        /\ a = SubSeq(outq, 1, n) /\ b = SubSeq(outq, n + 1, Len(outq)) /\ Joins(outq, a, b)
  <2>1. n \in 0..Len(outq)  OBVIOUS
  <2> QED BY <1>t, <2>1, JoinSubSeq
<1>3. fwd' \in Seq(0..PuCells) /\ Joins(fwd', fwd, a) /\ outq' = b
  <2>1. fwd' = fwd \o a /\ outq' = b  BY <1>1, <1>2
  <2> QED BY <1>t, <1>2, <2>1, JoinConcat
<1>4. \A C : InPipe(C)' = InPipe(C)
  <2> TAKE C
  <2>1. /\ Count(a, C) \in Nat /\ Count(b, C) \in Nat
        /\ Count(outq, C) = Count(a, C) + Count(b, C)
    <3>1. outq \in Seq(0..PuCells) /\ a \in Seq(0..PuCells) /\ b \in Seq(0..PuCells) /\ Joins(outq, a, b)
      BY <1>t, <1>2
    <3> QED BY <3>1, CountJoin
  <2>2. Count(fwd, C) \in Nat /\ Count(fwd', C) = Count(fwd, C) + Count(a, C)
    <3>1. fwd \in Seq(0..PuCells) /\ a \in Seq(0..PuCells) /\ fwd' \in Seq(0..PuCells) /\ Joins(fwd', fwd, a)
      BY <1>t, <1>2, <1>3
    <3> QED BY <3>1, CountJoin
  <2>3. Count(outq', C) = Count(b, C)  BY <1>3
  <2>4. InPipe(C)' = Count(outq', C) + Count(fwd', C) /\ InPipe(C) = Count(outq, C) + Count(fwd, C)
    BY DEF InPipe
  <2> QED BY <2>1, <2>2, <2>3, <2>4
<1>5. PuTyped'  BY <1>t, <1>1, <1>p, <1>2, <1>3 DEF PuTyped
<1>6. PuCredit'  BY <1>1, <1>4 DEF PuCore, PuCredit
<1>7. \A v : PlacesOf(v)' = PlacesOf(v)  BY <1>1, <1>4 DEF PlacesOf
<1>8. PuOnce'  BY <1>1, <1>7 DEF PuCore, PuOnce
<1> QED BY <1>5, <1>6, <1>8 DEF PuCore

\* One cell more counts for one, if it is in C.
LEMMA CountAppend ==
    ASSUME NEW S, NEW q \in Seq(S), NEW c \in S, NEW C
    PROVE  Count(Append(q, c), C) = Count(q, C) + (IF c \in C THEN 1 ELSE 0)
BY RankAppend

\* The first cell on its way is taken; own is 1 if it is the stream's.
LEMMA PuTaken ==
    ASSUME PuTyped, fwd # <<>>, fwd' = Tail(fwd), outq' = outq
    PROVE  /\ Head(fwd) \in 0..PuCells /\ fwd' \in Seq(0..PuCells)
           /\ \A C : /\ InPipe(C)' \in Nat
                     /\ InPipe(C) = InPipe(C)' + (IF Head(fwd) \in C THEN 1 ELSE 0)
<1>t. fwd \in Seq(0..PuCells) /\ outq \in Seq(0..PuCells)  BY DEF PuTyped
<1>1. Head(fwd) \in 0..PuCells /\ fwd' \in Seq(0..PuCells)  BY <1>t, QueueHead, TailCells
<1>2. ASSUME NEW C
      PROVE  /\ InPipe(C)' \in Nat
             /\ InPipe(C) = InPipe(C)' + (IF Head(fwd) \in C THEN 1 ELSE 0)
  <2>1. /\ Count(fwd', C) \in Nat
        /\ Count(fwd, C) = Count(fwd', C) + (IF Head(fwd) \in C THEN 1 ELSE 0)
    BY <1>t, RankTail
  <2>2. Count(outq, C) \in Nat /\ Count(outq', C) = Count(outq, C)  BY <1>t, CountType
  <2>3. InPipe(C)' = Count(outq', C) + Count(fwd', C) /\ InPipe(C) = Count(outq, C) + Count(fwd, C)
    BY DEF InPipe
  <2> QED BY <2>1, <2>2, <2>3
<1> QED BY <1>1, <1>2

\* The exit, on any cell, keeps types, credit and places.
LEMMA PuExitCore ==
    ASSUME PuCore, Pump!ExitCell
    PROVE  PuCore'
<1>t. /\ PuTyped /\ xoff_sent \in BOOLEAN /\ target \in Seq(1..PuCells)
      /\ circ_deliver_window \in (PuCirc - PuIncrement + 1)..PuCirc
      /\ deliver_window \in (PuStream - PuIncrement + 1)..PuStream
      /\ bounds \in [other : Nat, stalls : Nat, full : Nat]
      /\ package_window \in Nat /\ circ_package_window \in Nat
  BY DEF PuCore, PuTyped
<1>1. /\ fwd # <<>> /\ fwd' = Tail(fwd)
      /\ UNCHANGED <<next, sendbuf, paused, circ_package_window, package_window, outq, stalled>>
  BY DEF Pump!ExitCell, Pump!ExitOther, Pump!ExitWrites, Pump!ExitTargetFull, Pump!ExitTakes,
         Pump!client, Pump!link
<1>2. PICK own \in {0, 1} : own = IF Head(fwd) = 0 THEN 0 ELSE 1  OBVIOUS
<1>3. PICK x \in {<<>>, <<"XON">>, <<"XOFF">>} :
        Pump!SendmeCheck(circ_deliver_window - 1, deliver_window - own, x)
  <2>1. CASE Pump!ExitOther
    <3>1. own = 0 /\ deliver_window - 0 = deliver_window
      BY <1>2, <1>t, <2>1, PuConstants DEF Pump!ExitOther, Pump!OtherStream
    <3> QED BY <2>1, <3>1 DEF Pump!ExitOther
  <2>2. CASE Pump!ExitWrites
    <3>1. own = 1  BY <1>2, <2>2 DEF Pump!ExitWrites, Pump!OtherStream
    <3>2. (IF xoff_sent THEN <<"XON">> ELSE <<>>) \in {<<>>, <<"XON">>, <<"XOFF">>}  OBVIOUS
    <3> QED BY <2>2, <3>1, <3>2 DEF Pump!ExitWrites
  <2>3. CASE Pump!ExitTargetFull
    <3>1. own = 1  BY <1>2, <2>3 DEF Pump!ExitTargetFull, Pump!OtherStream
    <3>2. (IF xoff_sent THEN <<>> ELSE <<"XOFF">>) \in {<<>>, <<"XON">>, <<"XOFF">>}  OBVIOUS
    <3> QED BY <2>3, <3>1, <3>2 DEF Pump!ExitTargetFull
  <2> QED BY <2>1, <2>2, <2>3 DEF Pump!ExitCell
<1>4. /\ target' = target \/ (Head(fwd) # 0 /\ target' = Append(target, Head(fwd)))
      /\ xoff_sent' \in BOOLEAN
  BY <1>t DEF Pump!ExitCell, Pump!ExitOther, Pump!ExitWrites, Pump!ExitTargetFull, Pump!OtherStream
<1>5. bounds' \in [other : Nat, stalls : Nat, full : Nat]
  <2>1. bounds' = bounds \/ bounds' = [bounds EXCEPT !.full = @ + 1]
    BY DEF Pump!ExitCell, Pump!ExitOther, Pump!ExitWrites, Pump!ExitTargetFull
  <2> QED BY <1>t, <2>1
<1>6. PICK cw \in (PuCirc - PuIncrement)..PuCirc, sw \in (PuStream - PuIncrement)..PuStream :
        cw = circ_deliver_window - 1 /\ sw = deliver_window - own
  BY <1>2, <1>t, PuConstants
<1>7. /\ bwd' \in Seq(PuCommands)
      /\ circ_deliver_window' \in (PuCirc - PuIncrement + 1)..PuCirc
      /\ deliver_window' \in (PuStream - PuIncrement + 1)..PuStream
      /\ (PuStream - deliver_window') + PuTimes(Count(bwd', {"SENDME"}))
           = (PuStream - sw) + PuTimes(Count(bwd, {"SENDME"}))
      /\ (PuCirc - circ_deliver_window') + PuTimes(Count(bwd', {"CIRC_SENDME"}))
           = (PuCirc - cw) + PuTimes(Count(bwd, {"CIRC_SENDME"}))
  <2>1. Pump!SendmeCheck(cw, sw, x)  BY <1>3, <1>6
  <2> QED BY <1>t, <1>3, <1>6, <2>1, PuChecked
<1>8. /\ Head(fwd) \in 0..PuCells /\ fwd' \in Seq(0..PuCells)
      /\ \A C : /\ InPipe(C)' \in Nat
                /\ InPipe(C) = InPipe(C)' + (IF Head(fwd) \in C THEN 1 ELSE 0)
  BY <1>t, <1>1, PuTaken
<1>9. target' \in Seq(1..PuCells)
  <2>1. CASE target' = target
    BY <1>t, <2>1
  <2>2. CASE Head(fwd) # 0 /\ target' = Append(target, Head(fwd))
    <3>1. Head(fwd) \in 1..PuCells  BY <1>8, <2>2, PuConstants
    <3> QED BY <1>t, <2>2, <3>1
  <2> QED BY <1>4, <2>1, <2>2
<1>10. PuTyped'  BY <1>t, <1>1, <1>4, <1>5, <1>7, <1>8, <1>9 DEF PuTyped
<1>11. PuCredit'
  <2>1. /\ InPipe(1..PuCells)' \in Nat /\ InPipe(1..PuCells) = InPipe(1..PuCells)' + own
        /\ InPipe(0..PuCells)' \in Nat /\ InPipe(0..PuCells) = InPipe(0..PuCells)' + 1
    <3>1. Head(fwd) \in 1..PuCells <=> Head(fwd) # 0  BY <1>8, PuConstants
    <3> QED BY <1>2, <1>8, <3>1
  <2>2. /\ Count(bwd, {"SENDME"}) \in Nat /\ Count(bwd, {"CIRC_SENDME"}) \in Nat
        /\ Count(bwd', {"SENDME"}) \in Nat /\ Count(bwd', {"CIRC_SENDME"}) \in Nat
    BY <1>t, <1>7, PuPipeType, CountType
  <2>3. PICK o \in Nat, w \in Nat, m \in Nat, k \in Nat, mm \in Nat, kk \in Nat :
        /\ o = InPipe(1..PuCells)' /\ w = InPipe(0..PuCells)'
        /\ m = PuTimes(Count(bwd, {"SENDME"})) /\ k = PuTimes(Count(bwd, {"CIRC_SENDME"}))
        /\ mm = PuTimes(Count(bwd', {"SENDME"})) /\ kk = PuTimes(Count(bwd', {"CIRC_SENDME"}))
    BY <2>1, <2>2, PuTimesStep
  <2>4. /\ package_window + (o + own) + (PuStream - deliver_window) + m = PuStream
        /\ circ_package_window + (w + 1) + (PuCirc - circ_deliver_window) + k = PuCirc
    BY <2>1, <2>3 DEF PuCore, PuCredit
  <2>5. PICK p \in Nat, c \in Nat, d \in Int, e \in Int, d1 \in Int, e1 \in Int :
          /\ p = package_window /\ c = circ_package_window
          /\ d = deliver_window /\ e = circ_deliver_window
          /\ d1 = deliver_window' /\ e1 = circ_deliver_window'
    BY <1>t, <1>7, PuConstants
  <2>6. /\ (PuStream - d1) + mm = (PuStream - (d - own)) + m
        /\ (PuCirc - e1) + kk = (PuCirc - (e - 1)) + k
    BY <1>6, <1>7, <2>3, <2>5
  <2>7. /\ p + (o + own) + (PuStream - d) + m = PuStream
        /\ c + (w + 1) + (PuCirc - e) + k = PuCirc
    BY <2>4, <2>5
  <2>8. p + o + (PuStream - d1) + mm = PuStream /\ c + w + (PuCirc - e1) + kk = PuCirc
    BY <2>6, <2>7, PuConstants
  <2>9. p = package_window' /\ c = circ_package_window'  BY <1>1, <2>5
  <2> QED BY <2>3, <2>5, <2>8, <2>9 DEF PuCredit
<1>12. PuOnce'
  <2>1. \A v \in 1..PuCells : PlacesOf(v)' \in Nat /\ PlacesOf(v)' <= PlacesOf(v)
    <3> TAKE v \in 1..PuCells
    <3>1. /\ InPipe({v})' \in Nat
          /\ InPipe({v}) = InPipe({v})' + (IF Head(fwd) \in {v} THEN 1 ELSE 0)
      BY <1>8
    <3>2. Count(target, {v}) \in Nat /\ Count(sendbuf, {v}) \in Nat  BY <1>t, PuPipeType
    <3>3. \/ Count(target', {v}) = Count(target, {v})
          \/ Count(target', {v}) = Count(target, {v}) + (IF Head(fwd) \in {v} THEN 1 ELSE 0)
      <4>1. CASE target' = target
        BY <4>1
      <4>2. CASE Head(fwd) # 0 /\ target' = Append(target, Head(fwd))
        <5>1. Head(fwd) \in 1..PuCells  BY <1>8, <4>2, PuConstants
        <5>2. PICK h \in 1..PuCells : h = Head(fwd)  BY <5>1
        <5>3. Count(Append(target, h), {v}) = Count(target, {v}) + (IF h \in {v} THEN 1 ELSE 0)
          <6>1. target \in Seq(1..PuCells)  BY <1>t
          <6> QED BY <6>1, CountAppend
        <5> QED BY <4>2, <5>2, <5>3
      <4> QED BY <1>4, <4>1, <4>2
    <3>4. Count(sendbuf', {v}) = Count(sendbuf, {v})  BY <1>1
    <3>5. /\ PlacesOf(v) = Count(target, {v}) + InPipe({v}) + Count(sendbuf, {v})
          /\ PlacesOf(v)' = Count(target', {v}) + InPipe({v})' + Count(sendbuf', {v})
      BY DEF PlacesOf
    <3>6. PICK tt \in Nat, pp \in Nat, sb \in Nat :
            tt = Count(target, {v}) /\ pp = InPipe({v})' /\ sb = Count(sendbuf, {v})
      BY <3>1, <3>2
    <3>7. /\ PlacesOf(v) = tt + (pp + (IF Head(fwd) \in {v} THEN 1 ELSE 0)) + sb
          /\ \/ PlacesOf(v)' = tt + pp + sb
             \/ PlacesOf(v)' = (tt + (IF Head(fwd) \in {v} THEN 1 ELSE 0)) + pp + sb
      BY <3>1, <3>3, <3>4, <3>5, <3>6
    <3> QED BY <3>7
  <2>2. PuOnce /\ next' = next  BY <1>1 DEF PuCore
  <2> QED BY <1>t, <2>1, <2>2, PuOnceKeeps
<1> QED BY <1>10, <1>11, <1>12 DEF PuCore

\* A cell coming back is taken; a SENDME's increment leaves the queue.
LEMMA PuAckTaken ==
    ASSUME PuTyped, bwd # <<>>, bwd' = Tail(bwd)
    PROVE  /\ Head(bwd) \in PuCommands /\ bwd' \in Seq(PuCommands)
           /\ \A C : /\ Count(bwd', C) \in Nat
                     /\ Count(bwd, C) = Count(bwd', C) + (IF Head(bwd) \in C THEN 1 ELSE 0)
           /\ \A c : PuTimes(Count(bwd, {c})) = PuTimes(Count(bwd', {c}))
                                                 + (IF Head(bwd) = c THEN PuIncrement ELSE 0)
<1>t. bwd \in Seq(PuCommands)  BY DEF PuTyped
<1>1. Head(bwd) \in PuCommands /\ bwd' \in Seq(PuCommands)  BY <1>t, QueueHead
<1>2. \A C : /\ Count(bwd', C) \in Nat
             /\ Count(bwd, C) = Count(bwd', C) + (IF Head(bwd) \in C THEN 1 ELSE 0)
  BY <1>t, RankTail
<1>3. ASSUME NEW c
      PROVE  PuTimes(Count(bwd, {c})) = PuTimes(Count(bwd', {c}))
                                         + (IF Head(bwd) = c THEN PuIncrement ELSE 0)
  <2>1. PICK n \in Nat : n = Count(bwd', {c})  BY <1>2
  <2>2. PuTimes(n) \in Nat /\ PuTimes(n + 1) = PuTimes(n) + PuIncrement /\ PuIncrement \in Nat
    BY PuTimesStep, PuConstants
  <2>3. CASE Head(bwd) = c
    <3>1. Head(bwd) \in {c}  BY <2>3
    <3>2. Count(bwd, {c}) = n + 1  BY <1>2, <2>1, <3>1
    <3> QED BY <2>1, <2>2, <2>3, <3>2
  <2>4. CASE Head(bwd) # c
    <3>1. Head(bwd) \notin {c}  BY <2>4
    <3>2. Count(bwd, {c}) = n  BY <1>2, <2>1, <3>1
    <3> QED BY <2>1, <2>2, <2>4, <3>2
  <2> QED BY <2>3, <2>4
<1> QED BY <1>1, <1>2, <1>3

\* A retry keeps types, credit and places: the cells it drops are nowhere else.
LEMMA PuRetryCore ==
    ASSUME PuCore, bwd # <<>>, bwd' = Tail(bwd),
           UNCHANGED <<next, stalled, circ_deliver_window, deliver_window, xoff_sent, target, bounds>>,
           NEW cw \in Nat, NEW sw \in Nat, NEW sent \in 0..Len(sendbuf), sent <= cw, sent <= sw,
           NEW clear \in BOOLEAN, NEW unpause \in BOOLEAN, sent > 0 => clear,
           cw = circ_package_window + (IF Head(bwd) = "CIRC_SENDME" THEN PuIncrement ELSE 0),
           sw = package_window + (IF Head(bwd) = "SENDME" THEN PuIncrement ELSE 0),
           Pump!Drain(cw, sw, sent, clear, unpause)
    PROVE  PuCore'
<1>t. /\ PuTyped /\ circ_package_window \in Nat /\ package_window \in Nat
      /\ Len(sendbuf) \in Nat /\ PuIncrement \in Nat
  BY PuConstants DEF PuCore, PuTyped
<1>1. /\ outq' \in Seq(0..PuCells) /\ fwd' \in Seq(0..PuCells)
      /\ sendbuf' \in Seq(1..PuCells) /\ Len(sendbuf') <= PuRead /\ paused' \in BOOLEAN
      /\ circ_package_window' \in Nat /\ package_window' \in Nat
      /\ circ_package_window' = cw - sent /\ package_window' = sw - sent
      /\ InPipe(1..PuCells)' = InPipe(1..PuCells) + sent
      /\ InPipe(0..PuCells)' = InPipe(0..PuCells) + sent
      /\ \A v : InPipe({v})' + Count(sendbuf', {v}) <= InPipe({v}) + Count(sendbuf, {v})
  <2>1. DrainEffect(cw, sw, sent)  BY <1>t, PuDrained
  <2> QED BY <2>1 DEF DrainEffect
<1>2. /\ bwd' \in Seq(PuCommands)
      /\ \A C : Count(bwd', C) \in Nat
      /\ \A c : PuTimes(Count(bwd, {c})) = PuTimes(Count(bwd', {c}))
                                            + (IF Head(bwd) = c THEN PuIncrement ELSE 0)
  BY <1>t, PuAckTaken
<1>3. PuTyped'  BY <1>t, <1>1, <1>2 DEF PuTyped
<1>4. PuCredit'
  <2>1. PICK m \in Nat, k \in Nat, i \in Nat, j \in Nat :
          /\ m = PuTimes(Count(bwd', {"SENDME"})) /\ k = PuTimes(Count(bwd', {"CIRC_SENDME"}))
          /\ i = (IF Head(bwd) = "SENDME" THEN PuIncrement ELSE 0)
          /\ j = (IF Head(bwd) = "CIRC_SENDME" THEN PuIncrement ELSE 0)
    <3>1. PuTimes(Count(bwd', {"SENDME"})) \in Nat /\ PuTimes(Count(bwd', {"CIRC_SENDME"})) \in Nat
      BY <1>2, PuTimesStep
    <3>2. /\ (IF Head(bwd) = "SENDME" THEN PuIncrement ELSE 0) \in Nat
          /\ (IF Head(bwd) = "CIRC_SENDME" THEN PuIncrement ELSE 0) \in Nat
      BY <1>t
    <3> QED BY <3>1, <3>2
  <2>2. PuTimes(Count(bwd, {"SENDME"})) = m + i /\ PuTimes(Count(bwd, {"CIRC_SENDME"})) = k + j
    BY <1>2, <2>1
  <2>3. /\ package_window' = (package_window + i) - sent
        /\ circ_package_window' = (circ_package_window + j) - sent
    BY <1>1, <2>1
  <2>4. /\ package_window' + sent + m = package_window + (m + i)
        /\ circ_package_window' + sent + k = circ_package_window + (k + j)
    BY <1>t, <2>3
  <2>5. /\ package_window' + sent + PuTimes(Count(bwd', {"SENDME"}))
             = package_window + PuTimes(Count(bwd, {"SENDME"}))
        /\ circ_package_window' + sent + PuTimes(Count(bwd', {"CIRC_SENDME"}))
             = circ_package_window + PuTimes(Count(bwd, {"CIRC_SENDME"}))
    BY <2>1, <2>2, <2>4
  <2>6. UNCHANGED <<deliver_window, circ_deliver_window, target>> /\ PuTyped /\ PuCredit /\ PuOnce
    BY DEF PuCore
  <2>7. sent \in Nat  BY <1>t
  <2> QED BY <1>1, <1>2, <2>5, <2>6, <2>7, PuClientKeeps
<1>5. PuOnce'
  <2>1. \A v \in 1..PuCells : PlacesOf(v)' \in Nat /\ PlacesOf(v)' <= PlacesOf(v)
    <3> TAKE v \in 1..PuCells
    <3>1. /\ InPipe({v}) \in Nat /\ Count(target, {v}) \in Nat /\ Count(sendbuf, {v}) \in Nat
      BY <1>t, PuPipeType
    <3>2. InPipe({v})' \in Nat /\ Count(sendbuf', {v}) \in Nat
      <4>1. Count(outq', {v}) \in Nat /\ Count(fwd', {v}) \in Nat /\ Count(sendbuf', {v}) \in Nat
        BY <1>1, CountType
      <4> QED BY <4>1 DEF InPipe
    <3>3. Count(target', {v}) = Count(target, {v})  OBVIOUS
    <3>4. InPipe({v})' + Count(sendbuf', {v}) <= InPipe({v}) + Count(sendbuf, {v})  BY <1>1
    <3>5. /\ PlacesOf(v) = Count(target, {v}) + InPipe({v}) + Count(sendbuf, {v})
          /\ PlacesOf(v)' = Count(target', {v}) + InPipe({v})' + Count(sendbuf', {v})
      BY DEF PlacesOf
    <3>6. PICK tt \in Nat, pp \in Nat, sb \in Nat, p1 \in Nat, s1 \in Nat :
            /\ tt = Count(target, {v}) /\ pp = InPipe({v}) /\ sb = Count(sendbuf, {v})
            /\ p1 = InPipe({v})' /\ s1 = Count(sendbuf', {v})
      BY <3>1, <3>2
    <3>7. PlacesOf(v) = tt + pp + sb /\ PlacesOf(v)' = tt + p1 + s1 /\ p1 + s1 <= pp + sb
      BY <3>3, <3>4, <3>5, <3>6
    <3> QED BY <3>7
  <2>2. PuOnce /\ next' = next  BY DEF PuCore
  <2> QED BY <1>t, <2>1, <2>2, PuOnceKeeps
<1> QED BY <1>3, <1>4, <1>5 DEF PuCore

\* A retry with the credit the cell has brought, as a SENDME or an XON does it.
PuRetry ==
    \E cw \in Nat, sw \in Nat, sent \in 0..Len(sendbuf), clear \in BOOLEAN, unpause \in BOOLEAN :
        /\ sent <= cw /\ sent <= sw /\ (sent > 0 => clear)
        /\ cw = circ_package_window + (IF Head(bwd) = "CIRC_SENDME" THEN PuIncrement ELSE 0)
        /\ sw = package_window + (IF Head(bwd) = "SENDME" THEN PuIncrement ELSE 0)
        /\ Pump!Drain(cw, sw, sent, clear, unpause)
        /\ paused => sent = Len(sendbuf) \/ sent = cw \/ sent = sw
        /\ Head(bwd) # "XON" =>
             (clear <=> paused /\ (Len(sendbuf) > 0 => sent > 0)) /\ (unpause <=> clear)

\* What each cell coming back does.
LEMMA PuCellEffect ==
    ASSUME PuTyped, Pump!ClientCell
    PROVE  /\ bwd # <<>> /\ bwd' = Tail(bwd)
           /\ UNCHANGED <<next, stalled, circ_deliver_window, deliver_window, xoff_sent, target, bounds>>
           /\ \/ /\ Head(bwd) = "XOFF" /\ paused' = TRUE
                 /\ UNCHANGED <<sendbuf, circ_package_window, package_window, outq, fwd>>
              \/ PuRetry
<1>t. /\ circ_package_window \in Nat /\ package_window \in Nat /\ Len(sendbuf) \in Nat
      /\ sendbuf \in Seq(1..PuCells) /\ paused \in BOOLEAN /\ PuIncrement \in Nat
      /\ (sendbuf # <<>> <=> Len(sendbuf) > 0)
  BY PuConstants DEF PuTyped
<1>1. /\ bwd # <<>> /\ bwd' = Tail(bwd)
      /\ UNCHANGED <<next, stalled, circ_deliver_window, deliver_window, xoff_sent, target, bounds>>
  BY DEF Pump!ClientCell, Pump!ClientCircSendme, Pump!ClientStreamSendme, Pump!ClientXoff, Pump!ClientXon,
         Pump!ClientTakes, Pump!exit
<1>n. /\ "XOFF" # "CIRC_SENDME" /\ "XOFF" # "SENDME" /\ "XON" # "CIRC_SENDME" /\ "XON" # "SENDME"
      /\ "CIRC_SENDME" # "SENDME" /\ "XON" # "XOFF"
  OBVIOUS
<1>s. ASSUME NEW cw \in Nat, NEW sw \in Nat
      PROVE  \E sent \in 0..Len(sendbuf) :
               /\ sent = IF paused THEN Pump!Sendable(Len(sendbuf), cw, sw) ELSE 0
               /\ sent <= cw /\ sent <= sw
               /\ paused => sent = Len(sendbuf) \/ sent = cw \/ sent = sw
               /\ sent > 0 => paused
  <2>1. CASE paused
    <3>1. PICK k : /\ k = Pump!Sendable(Len(sendbuf), cw, sw)
                   /\ k \in Nat /\ k <= Len(sendbuf) /\ k <= cw /\ k <= sw
                   /\ k = Len(sendbuf) \/ k = cw \/ k = sw
      <4>1. PICK n \in Nat : n = Len(sendbuf)  BY <1>t
      <4>2. PICK k : /\ k = Pump!Sendable(n, cw, sw)
                     /\ k \in Nat /\ k <= n /\ k <= cw /\ k <= sw
                     /\ k = n \/ k = cw \/ k = sw
        BY PuSendable
      <4> QED BY <4>1, <4>2
    <3>2. k \in 0..Len(sendbuf)  BY <1>t, <3>1
    <3> QED BY <2>1, <3>1, <3>2
  <2>2. CASE ~paused
    <3>1. 0 \in 0..Len(sendbuf) /\ 0 <= cw /\ 0 <= sw  BY <1>t
    <3> QED BY <2>2, <3>1
  <2> QED BY <2>1, <2>2
<1>r. ASSUME NEW cw \in Nat, NEW sw \in Nat, Pump!ResumeReads(cw, sw)
      PROVE  \E sent \in 0..Len(sendbuf), clear \in BOOLEAN, unpause \in BOOLEAN :
               /\ sent <= cw /\ sent <= sw /\ (sent > 0 => clear)
               /\ Pump!Drain(cw, sw, sent, clear, unpause)
               /\ paused => sent = Len(sendbuf) \/ sent = cw \/ sent = sw
               /\ (clear <=> paused /\ (Len(sendbuf) > 0 => sent > 0)) /\ (unpause <=> clear)
  <2>1. PICK sent \in 0..Len(sendbuf) :
               /\ sent = IF paused THEN Pump!Sendable(Len(sendbuf), cw, sw) ELSE 0
               /\ sent <= cw /\ sent <= sw
               /\ paused => sent = Len(sendbuf) \/ sent = cw \/ sent = sw
               /\ sent > 0 => paused
    BY <1>s
  <2>2. PICK ok \in BOOLEAN : ok = (paused /\ (sendbuf # <<>> => sent > 0))  BY <1>t
  <2>3. Pump!Drain(cw, sw, sent, ok, ok)  BY <1>r, <2>1, <2>2 DEF Pump!ResumeReads
  <2>4. (ok <=> paused /\ (Len(sendbuf) > 0 => sent > 0)) /\ (sent > 0 => ok)
    BY <1>t, <2>1, <2>2
  <2> QED BY <2>1, <2>3, <2>4
<1>2. CASE Pump!ClientCircSendme
  <2>1. PICK cw \in Nat, sw \in Nat : cw = circ_package_window + PuIncrement /\ sw = package_window
    BY <1>t
  <2>2. Head(bwd) = "CIRC_SENDME" /\ Pump!ResumeReads(cw, sw)
    BY <1>2, <2>1 DEF Pump!ClientCircSendme, Pump!ClientTakes
  <2>3. /\ cw = circ_package_window + (IF Head(bwd) = "CIRC_SENDME" THEN PuIncrement ELSE 0)
        /\ sw = package_window + (IF Head(bwd) = "SENDME" THEN PuIncrement ELSE 0)
    BY <1>t, <1>n, <2>1, <2>2
  <2> QED BY <1>1, <1>r, <2>2, <2>3 DEF PuRetry
<1>3. CASE Pump!ClientStreamSendme
  <2>1. PICK cw \in Nat, sw \in Nat : cw = circ_package_window /\ sw = package_window + PuIncrement
    BY <1>t
  <2>2. Head(bwd) = "SENDME" /\ Pump!ResumeReads(cw, sw)
    BY <1>3, <2>1 DEF Pump!ClientStreamSendme, Pump!ClientTakes
  <2>3. /\ cw = circ_package_window + (IF Head(bwd) = "CIRC_SENDME" THEN PuIncrement ELSE 0)
        /\ sw = package_window + (IF Head(bwd) = "SENDME" THEN PuIncrement ELSE 0)
    BY <1>t, <1>n, <2>1, <2>2
  <2> QED BY <1>1, <1>r, <2>2, <2>3 DEF PuRetry
<1>4. CASE Pump!ClientXoff
  BY <1>1, <1>4 DEF Pump!ClientXoff, Pump!ClientTakes
<1>5. CASE Pump!ClientXon
  <2>1. PICK cw \in Nat, sw \in Nat : cw = circ_package_window /\ sw = package_window  BY <1>t
  <2>2. PICK sent \in 0..Len(sendbuf) :
               /\ sent = IF paused THEN Pump!Sendable(Len(sendbuf), cw, sw) ELSE 0
               /\ sent <= cw /\ sent <= sw
               /\ paused => sent = Len(sendbuf) \/ sent = cw \/ sent = sw
               /\ sent > 0 => paused
    BY <1>s
  <2>3. PICK clear \in BOOLEAN, unpause \in BOOLEAN : clear = (sent > 0) /\ unpause = TRUE
    <3>1. (sent > 0) \in BOOLEAN /\ TRUE \in BOOLEAN  OBVIOUS
    <3> QED BY <3>1, Zenon
  <2>4. Head(bwd) = "XON"  BY <1>5 DEF Pump!ClientXon, Pump!ClientTakes
  <2>5. Pump!Drain(cw, sw, sent, sent > 0, TRUE)  BY <1>5, <2>1, <2>2 DEF Pump!ClientXon
  <2>6. Pump!Drain(cw, sw, sent, clear, unpause)  BY <2>3, <2>5
  <2>7. /\ cw = circ_package_window + (IF Head(bwd) = "CIRC_SENDME" THEN PuIncrement ELSE 0)
        /\ sw = package_window + (IF Head(bwd) = "SENDME" THEN PuIncrement ELSE 0)
    BY <1>t, <1>n, <2>1, <2>4
  <2> QED BY <1>1, <2>2, <2>3, <2>4, <2>6, <2>7 DEF PuRetry
<1> QED BY <1>2, <1>3, <1>4, <1>5 DEF Pump!ClientCell

\* So does every cell coming back.
LEMMA PuCellCore ==
    ASSUME PuCore, Pump!ClientCell
    PROVE  PuCore'
<1>t. PuTyped /\ PuCredit /\ PuOnce /\ circ_package_window \in Nat /\ package_window \in Nat
  BY DEF PuCore, PuTyped
<1>1. /\ bwd # <<>> /\ bwd' = Tail(bwd)
      /\ UNCHANGED <<next, stalled, circ_deliver_window, deliver_window, xoff_sent, target, bounds>>
  BY <1>t, PuCellEffect
<1>2. CASE /\ Head(bwd) = "XOFF" /\ paused' = TRUE
           /\ UNCHANGED <<sendbuf, circ_package_window, package_window, outq, fwd>>
  <2>1. /\ bwd' \in Seq(PuCommands)
        /\ \A C : Count(bwd', C) \in Nat
        /\ \A c : PuTimes(Count(bwd, {c})) = PuTimes(Count(bwd', {c}))
                                              + (IF Head(bwd) = c THEN PuIncrement ELSE 0)
    BY <1>t, <1>1, PuAckTaken
  <2>2. PuTyped'  BY <1>t, <1>1, <1>2, <2>1 DEF PuTyped
  <2>3. \A C : InPipe(C)' = InPipe(C)  BY <1>2 DEF InPipe
  <2>4. \A c : c # "XOFF" => PuTimes(Count(bwd', {c})) = PuTimes(Count(bwd, {c}))
    <3> TAKE c
    <3> HAVE c # "XOFF"
    <3>1. PuTimes(Count(bwd', {c})) \in Nat  BY <2>1, PuTimesStep
    <3>2. PuTimes(Count(bwd, {c})) = PuTimes(Count(bwd', {c})) + 0  BY <1>2, <2>1
    <3> QED BY <3>1, <3>2
  <2>5. "SENDME" # "XOFF" /\ "CIRC_SENDME" # "XOFF"  OBVIOUS
  <2>6. PuCredit'  BY <1>t, <1>1, <1>2, <2>3, <2>4, <2>5 DEF PuCredit
  <2>7. \A v : PlacesOf(v)' = PlacesOf(v)  BY <1>1, <1>2, <2>3 DEF PlacesOf
  <2>8. PuOnce'  BY <1>t, <1>1, <2>7 DEF PuOnce
  <2> QED BY <2>2, <2>6, <2>8 DEF PuCore
<1>3. CASE PuRetry
  BY <1>1, <1>3, PuRetryCore DEF PuRetry
<1> QED
  <2>1. \/ /\ Head(bwd) = "XOFF" /\ paused' = TRUE
           /\ UNCHANGED <<sendbuf, circ_package_window, package_window, outq, fwd>>
        \/ PuRetry
    BY <1>t, PuCellEffect
  <2> QED BY <1>2, <1>3, <2>1

\* Every step keeps types, credit and places.
LEMMA PuCoreNext == PuCore /\ Pump!Next => PuCore'
<1> SUFFICES ASSUME PuCore, Pump!Next PROVE PuCore'
  OBVIOUS
<1>1. CASE Pump!Read
  BY <1>1, PuReadCore DEF Pump!Read
<1>2. CASE Pump!ClientBackpressure \/ Pump!LinkStalls \/ Pump!LinkRecovers
  BY <1>2, PuLinkCore
<1>3. CASE Pump!OtherSends
  BY <1>3, PuOtherCore
<1>4. CASE Pump!Writable
  BY <1>4, PuWritableCore DEF Pump!Writable
<1>5. CASE Pump!ExitCell
  BY <1>5, PuExitCore
<1>6. CASE Pump!ClientCell
  BY <1>6, PuCellCore
<1> QED BY <1>1, <1>2, <1>3, <1>4, <1>5, <1>6 DEF Pump!Next

-----------------------------------------------------------------------------
(* What is kept goes first.                                                *)

\* What has happened stays counted.
LEMMA PuBounds ==
    ASSUME PuTyped, Pump!Next
    PROVE  /\ bounds'.stalls \in Nat /\ bounds'.full \in Nat /\ bounds'.other \in Nat
           /\ bounds'.stalls = 0 => bounds.stalls = 0 /\ ~Pump!LinkStalls
           /\ bounds'.full = 0 => bounds.full = 0 /\ ~Pump!ExitTargetFull
           /\ bounds'.other = 0 => bounds.other = 0 /\ ~Pump!OtherSends
<1>t. bounds \in [other : Nat, stalls : Nat, full : Nat]  BY DEF PuTyped
<1>1. CASE Pump!LinkStalls
  <2>1. bounds' = [bounds EXCEPT !.stalls = @ + 1] /\ ~Pump!ExitTargetFull /\ ~Pump!OtherSends
    <3>1. bounds' = [bounds EXCEPT !.stalls = @ + 1]  BY <1>1 DEF Pump!LinkStalls
    <3>2. bounds'.full = bounds.full /\ bounds'.other = bounds.other  BY <1>t, <3>1
    <3>3. ~Pump!ExitTargetFull
      <4>1. Pump!ExitTargetFull => bounds'.full = bounds.full + 1
        BY <1>t DEF Pump!ExitTargetFull
      <4> QED BY <1>t, <3>2, <4>1
    <3>4. ~Pump!OtherSends
      <4>1. Pump!OtherSends => bounds'.other = bounds.other + 1  BY <1>t DEF Pump!OtherSends
      <4> QED BY <1>t, <3>2, <4>1
    <3> QED BY <3>1, <3>3, <3>4
  <2> QED BY <1>t, <2>1
<1>2. CASE Pump!ExitTargetFull
  <2>1. bounds' = [bounds EXCEPT !.full = @ + 1]  BY <1>2 DEF Pump!ExitTargetFull
  <2>2. bounds'.stalls = bounds.stalls /\ bounds'.other = bounds.other /\ bounds'.full = bounds.full + 1
    BY <1>t, <2>1
  <2>3. ~Pump!LinkStalls
    <3>1. Pump!LinkStalls => bounds'.stalls = bounds.stalls + 1  BY <1>t DEF Pump!LinkStalls
    <3> QED BY <1>t, <2>2, <3>1
  <2>4. ~Pump!OtherSends
    <3>1. Pump!OtherSends => bounds'.other = bounds.other + 1  BY <1>t DEF Pump!OtherSends
    <3> QED BY <1>t, <2>2, <3>1
  <2> QED BY <1>t, <2>2, <2>3, <2>4
<1>3. CASE Pump!OtherSends
  <2>1. bounds' = [bounds EXCEPT !.other = @ + 1]  BY <1>3 DEF Pump!OtherSends
  <2>2. bounds'.stalls = bounds.stalls /\ bounds'.full = bounds.full /\ bounds'.other = bounds.other + 1
    BY <1>t, <2>1
  <2>3. ~Pump!LinkStalls
    <3>1. Pump!LinkStalls => bounds'.stalls = bounds.stalls + 1  BY <1>t DEF Pump!LinkStalls
    <3> QED BY <1>t, <2>2, <3>1
  <2>4. ~Pump!ExitTargetFull
    <3>1. Pump!ExitTargetFull => bounds'.full = bounds.full + 1  BY <1>t DEF Pump!ExitTargetFull
    <3> QED BY <1>t, <2>2, <3>1
  <2> QED BY <1>t, <2>2, <2>3, <2>4
<1>4. CASE ~Pump!LinkStalls /\ ~Pump!ExitTargetFull /\ ~Pump!OtherSends
  <2>1. bounds' = bounds
    <3>1. CASE Pump!ClientCell
      BY <1>4, <3>1 DEF Pump!ClientCell, Pump!ClientCircSendme, Pump!ClientStreamSendme,
                        Pump!ClientXoff, Pump!ClientXon, Pump!ClientTakes
    <3>2. CASE Pump!ExitCell
      BY <1>4, <3>2 DEF Pump!ExitCell, Pump!ExitOther, Pump!ExitWrites
    <3>3. CASE Pump!Read \/ Pump!ClientBackpressure \/ Pump!LinkRecovers \/ Pump!Writable
      BY <3>3 DEF Pump!Read, Pump!ClientRead, Pump!ClientBackpressure, Pump!LinkRecovers,
                  Pump!Writable, Pump!LinkWritable
    <3> QED BY <1>4, <3>1, <3>2, <3>3 DEF Pump!Next
  <2> QED BY <1>t, <1>4, <2>1
<1> QED BY <1>1, <1>2, <1>3, <1>4

\* The SENDMEs of one delivered cell, the circuit's before the stream's.
LEMMA PuAnswered ==
    ASSUME PuTyped, NEW cw, NEW sw, Pump!SendmeCheck(cw, sw, <<>>)
    PROVE  \E b \in Seq(PuCommands) :
             /\ b = IF cw <= PuCirc - PuIncrement THEN Append(bwd, "CIRC_SENDME") ELSE bwd
             /\ bwd' = IF sw <= PuStream - PuIncrement THEN Append(b, "SENDME") ELSE b
<1>t. bwd \in Seq(PuCommands) /\ "CIRC_SENDME" \in PuCommands /\ "SENDME" \in PuCommands
  BY DEF PuTyped, PuCommands
<1>1. bwd' = bwd \o <<>> \o (IF cw <= PuCirc - PuIncrement THEN <<"CIRC_SENDME">> ELSE <<>>)
                    \o (IF sw <= PuStream - PuIncrement THEN <<"SENDME">> ELSE <<>>)
  BY DEF Pump!SendmeCheck
<1>2. \A q \in Seq(PuCommands) : q \o <<>> = q /\ \A c \in PuCommands : q \o <<c>> = Append(q, c)
  <2> TAKE q \in Seq(PuCommands)
  <2>1. q \o <<>> = q  BY ConcatEmptySeq
  <2>2. \A c \in PuCommands : q \o <<c>> = Append(q, c)  BY AppendIsConcat
  <2> QED BY <2>1, <2>2
<1>3. PICK b \in Seq(PuCommands) :
        b = IF cw <= PuCirc - PuIncrement THEN Append(bwd, "CIRC_SENDME") ELSE bwd
  <2>1. Append(bwd, "CIRC_SENDME") \in Seq(PuCommands)  BY <1>t
  <2> QED BY <1>t, <2>1, Zenon
<1>4. b = bwd \o <<>> \o (IF cw <= PuCirc - PuIncrement THEN <<"CIRC_SENDME">> ELSE <<>>)
  BY <1>t, <1>2, <1>3
<1>5. bwd' = IF sw <= PuStream - PuIncrement THEN Append(b, "SENDME") ELSE b
  BY <1>t, <1>1, <1>2, <1>3, <1>4
<1> QED BY <1>3, <1>5

\* The exit keeps what PuKept says, until the target fills.
LEMMA PuKeptExit ==
    ASSUME PuTyped, PuKept, Pump!Next, Pump!ExitCell
    PROVE  PuKept'
<1> SUFFICES ASSUME bounds'.stalls = 0, bounds'.full = 0
             PROVE  /\ Len(outq') = 0 /\ ~stalled' /\ ~xoff_sent'
                    /\ \A i \in 1..Len(bwd') : bwd'[i] \in {"CIRC_SENDME", "SENDME"}
                    /\ Len(sendbuf') > 0 => paused'
  BY DEF PuKept
<1>1. bounds.stalls = 0 /\ bounds.full = 0 /\ ~Pump!ExitTargetFull  BY PuBounds
<1>2. /\ Len(outq) = 0 /\ ~stalled /\ ~xoff_sent
      /\ \A i \in 1..Len(bwd) : bwd[i] \in {"CIRC_SENDME", "SENDME"}
      /\ Len(sendbuf) > 0 => paused
  BY <1>1 DEF PuKept
<1>3. UNCHANGED <<outq, stalled, sendbuf, paused>> /\ ~xoff_sent'
  <2>1. UNCHANGED <<outq, stalled, sendbuf, paused>>
    BY DEF Pump!ExitCell, Pump!ExitOther, Pump!ExitWrites, Pump!ExitTargetFull, Pump!ExitTakes,
           Pump!client, Pump!link
  <2>2. xoff_sent' = FALSE \/ xoff_sent' = xoff_sent
    BY <1>1 DEF Pump!ExitCell, Pump!ExitOther, Pump!ExitWrites
  <2> QED BY <1>2, <2>1, <2>2
<1>4. PICK cw, sw : Pump!SendmeCheck(cw, sw, <<>>)
  <2>1. CASE Pump!ExitOther
    BY <2>1 DEF Pump!ExitOther
  <2>2. CASE Pump!ExitWrites
    BY <1>2, <2>2 DEF Pump!ExitWrites
  <2> QED BY <1>1, <2>1, <2>2 DEF Pump!ExitCell
<1>5. PICK b \in Seq(PuCommands) :
             /\ b = IF cw <= PuCirc - PuIncrement THEN Append(bwd, "CIRC_SENDME") ELSE bwd
             /\ bwd' = IF sw <= PuStream - PuIncrement THEN Append(b, "SENDME") ELSE b
  BY <1>4, PuAnswered
<1>6. bwd \in Seq(PuCommands)  BY DEF PuTyped
<1>7. \A q \in Seq(PuCommands) : \A c \in PuCommands :
        (c \in {"CIRC_SENDME", "SENDME"} /\ \A i \in 1..Len(q) : q[i] \in {"CIRC_SENDME", "SENDME"})
          => \A i \in 1..Len(Append(q, c)) : Append(q, c)[i] \in {"CIRC_SENDME", "SENDME"}
  OBVIOUS
<1>8. "CIRC_SENDME" \in PuCommands /\ "SENDME" \in PuCommands  BY DEF PuCommands
<1>9. \A i \in 1..Len(b) : b[i] \in {"CIRC_SENDME", "SENDME"}  BY <1>2, <1>5, <1>6, <1>7, <1>8
<1>10. \A i \in 1..Len(bwd') : bwd'[i] \in {"CIRC_SENDME", "SENDME"}  BY <1>5, <1>7, <1>8, <1>9
<1> QED BY <1>2, <1>3, <1>10

\* The first SENDME is taken.
LEMMA PuShift ==
    ASSUME PuTyped, bwd # <<>>, bwd' = Tail(bwd)
    PROVE  /\ Len(bwd) \in Nat /\ Len(bwd) > 0 /\ Len(bwd') = Len(bwd) - 1 /\ Head(bwd) = bwd[1]
           /\ \A i \in 1..Len(bwd') : i + 1 \in 1..Len(bwd) /\ bwd'[i] = bwd[i + 1]
<1>1. bwd \in Seq(PuCommands)  BY DEF PuTyped
<1> QED BY <1>1

\* So does a cell coming back: a buffer that is not emptied stays paused.
LEMMA PuKeptCell ==
    ASSUME PuTyped, PuKept, Pump!Next, Pump!ClientCell
    PROVE  PuKept'
<1> SUFFICES ASSUME bounds'.stalls = 0, bounds'.full = 0
             PROVE  /\ Len(outq') = 0 /\ ~stalled' /\ ~xoff_sent'
                    /\ \A i \in 1..Len(bwd') : bwd'[i] \in {"CIRC_SENDME", "SENDME"}
                    /\ Len(sendbuf') > 0 => paused'
  BY DEF PuKept
<1>1. bounds.stalls = 0 /\ bounds.full = 0  BY PuBounds
<1>2. /\ Len(outq) = 0 /\ ~stalled /\ ~xoff_sent
      /\ \A i \in 1..Len(bwd) : bwd[i] \in {"CIRC_SENDME", "SENDME"}
      /\ Len(sendbuf) > 0 => paused
  BY <1>1 DEF PuKept
<1>3. /\ bwd # <<>> /\ bwd' = Tail(bwd) /\ UNCHANGED <<stalled, xoff_sent>>  BY PuCellEffect
<1>4. Head(bwd) \in {"CIRC_SENDME", "SENDME"}
      /\ \A i \in 1..Len(bwd') : bwd'[i] \in {"CIRC_SENDME", "SENDME"}
  <2>1. /\ Len(bwd) \in Nat /\ Len(bwd) > 0 /\ Len(bwd') = Len(bwd) - 1 /\ Head(bwd) = bwd[1]
        /\ \A i \in 1..Len(bwd') : i + 1 \in 1..Len(bwd) /\ bwd'[i] = bwd[i + 1]
    BY <1>3, PuShift
  <2>2. 1 \in 1..Len(bwd)  BY <2>1
  <2> QED BY <1>2, <2>1, <2>2
<1>5. Head(bwd) # "XOFF" /\ Head(bwd) # "XON"  BY <1>4
<1>6. PICK cw \in Nat, sw \in Nat, sent \in 0..Len(sendbuf), clear \in BOOLEAN, unpause \in BOOLEAN :
        /\ Pump!Drain(cw, sw, sent, clear, unpause)
        /\ unpause <=> clear
  <2>1. PuRetry  BY <1>5, PuCellEffect
  <2> QED BY <1>5, <2>1 DEF PuRetry
<1>7. Len(sendbuf') > 0 => paused'
  <2>1. sendbuf' = (IF clear THEN <<>> ELSE sendbuf) /\ paused' = (paused /\ ~unpause)
    BY <1>6 DEF Pump!Drain
  <2>2. CASE clear
    <3>1. Len(sendbuf') = 0  BY <2>1, <2>2
    <3> QED BY <3>1
  <2>3. CASE ~clear
    BY <1>2, <1>6, <2>1, <2>3
  <2> QED BY <2>2, <2>3
<1>8. outq' = outq
  <2>1. Pump!Enqueue(SubSeq(sendbuf, 1, sent))  BY <1>6 DEF Pump!Drain
  <2>2. outq = <<>> /\ ~stalled  BY <1>2 DEF PuTyped
  <2> QED BY <2>1, <2>2 DEF Pump!Enqueue
<1> QED BY <1>2, <1>3, <1>4, <1>7, <1>8

\* Every step keeps it.
LEMMA PuKeptNext ==
    ASSUME PuTyped, PuKept, Pump!Next
    PROVE  PuKept'
<1>1. CASE Pump!ExitCell
  BY <1>1, PuKeptExit
<1>2. CASE Pump!ClientCell
  BY <1>2, PuKeptCell
<1>3. CASE ~Pump!ExitCell /\ ~Pump!ClientCell
  <2> SUFFICES ASSUME bounds'.stalls = 0, bounds'.full = 0
               PROVE  /\ Len(outq') = 0 /\ ~stalled' /\ ~xoff_sent'
                      /\ \A i \in 1..Len(bwd') : bwd'[i] \in {"CIRC_SENDME", "SENDME"}
                      /\ Len(sendbuf') > 0 => paused'
    BY DEF PuKept
  <2>1. bounds.stalls = 0 /\ bounds.full = 0 /\ ~Pump!LinkStalls  BY PuBounds
  <2>2. /\ Len(outq) = 0 /\ ~stalled /\ ~xoff_sent
        /\ \A i \in 1..Len(bwd) : bwd[i] \in {"CIRC_SENDME", "SENDME"}
        /\ Len(sendbuf) > 0 => paused
    BY <2>1 DEF PuKept
  <2>3. outq = <<>> /\ ~stalled  BY <2>2 DEF PuTyped
  <2>4. ~Pump!Writable /\ ~Pump!LinkRecovers  BY <2>2 DEF Pump!Writable, Pump!LinkRecovers
  <2>5. CASE Pump!Read
    <3>1. PICK n \in 1..PuRead : Pump!ClientRead(n)  BY <2>5 DEF Pump!Read
    <3>2. PICK sent, a, b :
            /\ Pump!Enqueue(a) /\ sendbuf' = (IF sent < n THEN b ELSE sendbuf)
            /\ paused' = (sent < n) /\ ~paused
            /\ UNCHANGED <<stalled, bwd, xoff_sent>>
      BY <3>1 DEF Pump!ClientRead, Pump!exit
    <3>3. outq' = outq  BY <2>3, <3>2 DEF Pump!Enqueue
    <3>4. Len(sendbuf') > 0 => paused'  BY <2>2, <3>2
    <3> QED BY <2>2, <3>2, <3>3, <3>4
  <2>6. CASE Pump!ClientBackpressure
    BY <2>2, <2>6 DEF Pump!ClientBackpressure, Pump!link, Pump!exit
  <2>7. CASE Pump!OtherSends
    <3>1. /\ Pump!Enqueue(<<0>>)
          /\ UNCHANGED <<sendbuf, paused, stalled, bwd, xoff_sent>>
      BY <2>7 DEF Pump!OtherSends, Pump!OtherStream, Pump!exit
    <3>2. outq' = outq  BY <2>3, <3>1 DEF Pump!Enqueue
    <3> QED BY <2>2, <3>1, <3>2
  <2> QED BY <1>3, <2>1, <2>4, <2>5, <2>6, <2>7 DEF Pump!Next
<1> QED BY <1>1, <1>2, <1>3

-----------------------------------------------------------------------------
(* A stream alone on its circuit arrives in order.                         *)

\* Cells move from the head of one queue to the end of the one before it.
LEMMA RowMoves ==
    ASSUME NEW S, NEW t \in Seq(S), NEW f \in Seq(S), NEW s \in Seq(S), NEW n \in Int,
           NEW f1 \in Seq(S), NEW a \in Seq(S), NEW b \in Seq(S),
           Joins(f1, f, a), Joins(s, a, b), Row(t, f, s, n)
    PROVE  Row(t, f1, b, n)
<1>1. PICK lt \in Nat, lf \in Nat, ls \in Nat, la \in Nat, lb \in Nat :
        lt = Len(t) /\ lf = Len(f) /\ ls = Len(s) /\ la = Len(a) /\ lb = Len(b)
  OBVIOUS
<1>2. /\ Len(f1) = lf + la
      /\ \A i \in 1..lf : f1[i] = f[i]
      /\ \A i \in 1..la : f1[lf + i] = a[i]
      /\ ls = la + lb
      /\ \A i \in 1..la : s[i] = a[i]
      /\ \A i \in 1..lb : s[la + i] = b[i]
  BY <1>1 DEF Joins
<1>3. /\ \A i \in 1..lt : t[i] = i
      /\ \A i \in 1..lf : f[i] = lt + i
      /\ \A i \in 1..ls : s[i] = lt + lf + i
      /\ n = lt + lf + ls + 1
  BY <1>1 DEF Row
<1>4. \A i \in 1..(lf + la) : f1[i] = lt + i
  <2> TAKE i \in 1..(lf + la)
  <2>1. CASE i <= lf
    <3>1. i \in 1..lf  BY <2>1
    <3> QED BY <1>2, <1>3, <3>1
  <2>2. CASE i > lf
    <3>1. PICK k \in 1..la : k = i - lf  BY <2>2
    <3>2. k \in 1..ls /\ i = lf + k  BY <1>2, <3>1
    <3>3. f1[lf + k] = lt + lf + k  BY <1>2, <1>3, <3>1, <3>2
    <3> QED BY <3>2, <3>3
  <2> QED BY <2>1, <2>2
<1>5. \A i \in 1..lb : b[i] = lt + (lf + la) + i
  <2> TAKE i \in 1..lb
  <2>1. la + i \in 1..ls  BY <1>2
  <2> QED BY <1>2, <1>3, <2>1
<1>6. n = lt + (lf + la) + lb + 1  BY <1>2, <1>3
<1> QED BY <1>1, <1>2, <1>3, <1>4, <1>5, <1>6 DEF Row

\* The first cell on its way reaches the target.
LEMMA RowTaken ==
    ASSUME NEW S, NEW T, NEW t \in Seq(T), NEW f \in Seq(S), NEW s \in Seq(T), NEW n \in Int,
           f # <<>>, Head(f) \in T, Row(t, f, s, n)
    PROVE  Head(f) = Len(t) + 1 /\ Row(Append(t, Head(f)), Tail(f), s, n)
<1>1. PICK lt \in Nat, lf \in Nat, ls \in Nat : lt = Len(t) /\ lf = Len(f) /\ ls = Len(s)
  OBVIOUS
<1>2. /\ \A i \in 1..lt : t[i] = i
      /\ \A i \in 1..lf : f[i] = lt + i
      /\ \A i \in 1..ls : s[i] = lt + lf + i
      /\ n = lt + lf + ls + 1
  BY <1>1 DEF Row
<1>3. lf > 0 /\ Head(f) = f[1] /\ Len(Tail(f)) = lf - 1
      /\ \A i \in 1..(lf - 1) : Tail(f)[i] = f[i + 1]
  BY <1>1
<1>4. Head(f) = lt + 1  BY <1>2, <1>3
<1>5. /\ Len(Append(t, Head(f))) = lt + 1
      /\ \A i \in 1..lt : Append(t, Head(f))[i] = t[i]
      /\ Append(t, Head(f))[lt + 1] = Head(f)
  BY <1>1
<1>6. \A i \in 1..(lt + 1) : Append(t, Head(f))[i] = i  BY <1>2, <1>4, <1>5
<1>7. \A i \in 1..(lf - 1) : Tail(f)[i] = (lt + 1) + i  BY <1>2, <1>3
<1>8. \A i \in 1..ls : s[i] = (lt + 1) + (lf - 1) + i  BY <1>2
<1>9. n = (lt + 1) + (lf - 1) + ls + 1  BY <1>2
<1> QED BY <1>1, <1>3, <1>4, <1>5, <1>6, <1>7, <1>8, <1>9 DEF Row

\* Alone, the circuit has at least the stream's credit, and an increment more
\* while the stream's SENDME of a pair is still on its way.
LEMMA PuWindows ==
    ASSUME PuCore, PuKept, PuOrder, PuAlone
    PROVE  circ_package_window >= package_window
                + (IF Len(bwd) > 0 /\ bwd[1] = "SENDME" THEN PuIncrement ELSE 0)
<1>t. /\ PuTyped /\ PuCredit /\ package_window \in Nat /\ circ_package_window \in Nat
      /\ deliver_window \in Int /\ circ_deliver_window \in Int
      /\ fwd \in Seq(0..PuCells) /\ target \in Seq(1..PuCells)
  BY PuConstants DEF PuCore, PuTyped
<1>1. /\ Row(target, fwd, sendbuf, next)
      /\ PuCirc - circ_deliver_window = PuStream - deliver_window
      /\ Count(bwd, {"SENDME"}) = Count(bwd, {"CIRC_SENDME"})
                                   + (IF Len(bwd) > 0 /\ bwd[1] = "SENDME" THEN 1 ELSE 0)
  BY DEF PuOrder, PuAcks
<1>2. Len(outq) = 0  BY DEF PuKept, PuAlone
<1>3. InPipe(1..PuCells) = InPipe(0..PuCells)
  <2>1. \A i \in 1..Len(fwd) : fwd[i] \in 1..PuCells
    <3> TAKE i \in 1..Len(fwd)
    <3>1. fwd[i] = Len(target) + i  BY <1>1 DEF Row
    <3>2. fwd[i] \in 0..PuCells /\ Len(target) \in Nat  BY <1>t, ElementOfSeq, LenProperties
    <3> QED BY <3>1, <3>2, PuConstants
  <2>2. fwd \in Seq(1..PuCells)
    <3>1. PICK n \in Nat : n = Len(fwd)  BY <1>t
    <3>2. fwd \in [1..n -> 0..PuCells]  BY <1>t, <3>1, LenProperties
    <3>3. fwd \in [1..n -> 1..PuCells] /\ fwd = [i \in 1..n |-> fwd[i]]  BY <2>1, <3>1, <3>2
    <3>4. \A i \in 1..n : fwd[i] \in 1..PuCells  BY <2>1, <3>1
    <3>5. [i \in 1..n |-> fwd[i]] \in Seq(1..PuCells)  BY <3>4, IsASeq
    <3> QED BY <3>3, <3>5
  <2>3. 1..PuCells \subseteq 0..PuCells /\ 1..PuCells \subseteq 1..PuCells  OBVIOUS
  <2>4. Count(fwd, 1..PuCells) = Len(fwd) /\ Count(fwd, 0..PuCells) = Len(fwd)
    BY <2>2, <2>3, CountType
  <2>5. Count(outq, 1..PuCells) = 0 /\ Count(outq, 0..PuCells) = 0  BY <1>2, CountEmpty
  <2> QED BY <2>4, <2>5 DEF InPipe
<1>4. PICK p \in Nat, k \in Nat, s \in Nat :
        p = InPipe(0..PuCells) /\ k = Count(bwd, {"CIRC_SENDME"}) /\ s = Count(bwd, {"SENDME"})
  BY <1>t, PuPipeType
<1>5. PICK tk \in Nat, ts \in Nat : tk = PuTimes(k) /\ ts = PuTimes(s)  BY PuTimesStep
<1>6. PICK w \in Nat, c \in Nat, g \in Int :
        w = package_window /\ c = circ_package_window /\ g = PuStream - deliver_window
  BY <1>t, PuConstants
<1>7. w + p + g + ts = PuStream /\ c + p + g + tk = PuCirc
  BY <1>t, <1>1, <1>3, <1>4, <1>5, <1>6 DEF PuCredit
<1>8. CASE Len(bwd) > 0 /\ bwd[1] = "SENDME"
  <2>1. s = k + 1  BY <1>1, <1>4, <1>8
  <2>2. ts = tk + PuIncrement  BY <1>5, <2>1, PuTimesStep
  <2>3. c >= w + PuIncrement  BY <1>7, <2>2, PuConstants
  <2> QED BY <1>6, <1>8, <2>3
<1>9. CASE ~(Len(bwd) > 0 /\ bwd[1] = "SENDME")
  <2>1. s = k  BY <1>1, <1>4, <1>9
  <2>2. ts = tk  BY <1>5, <2>1
  <2>3. c >= w + 0  BY <1>7, <2>2, PuConstants
  <2> QED BY <1>6, <1>9, <2>3
<1> QED BY <1>8, <1>9

\* The stream's queues as queues of any cells.
LEMMA PuQueues ==
    ASSUME PuTyped
    PROVE  /\ target \in Seq(0..PuCells) /\ fwd \in Seq(0..PuCells) /\ sendbuf \in Seq(0..PuCells)
           /\ \A q \in Seq(1..PuCells) : q \in Seq(0..PuCells)
           /\ next \in Int
<1>1. 1..PuCells \subseteq 0..PuCells  OBVIOUS
<1>2. \A q \in Seq(1..PuCells) : q \in Seq(0..PuCells)  BY <1>1, SeqMonotonic
<1>3. target \in Seq(1..PuCells) /\ fwd \in Seq(0..PuCells) /\ sendbuf \in Seq(1..PuCells)
      /\ next \in Int
  BY PuConstants DEF PuTyped
<1> QED BY <1>2, <1>3

\* A read of a stream alone: what the window stops, the stream's window stops.
LEMMA PuOrderRead ==
    ASSUME PuCore, PuKept, PuOrder, PuAlone, NEW n \in 1..PuRead, Pump!ClientRead(n)
    PROVE  PuOrder'
<1>t. /\ PuTyped /\ circ_package_window \in Nat /\ package_window \in Nat
      /\ n \in Nat /\ n >= 1 /\ next \in Nat /\ next >= 1 /\ PuCells \in Nat
  BY PuConstants DEF PuCore, PuTyped
<1>q. /\ target \in Seq(0..PuCells) /\ fwd \in Seq(0..PuCells) /\ sendbuf \in Seq(0..PuCells)
      /\ \A q \in Seq(1..PuCells) : q \in Seq(0..PuCells)
  BY <1>t, PuQueues
<1>o. /\ Row(target, fwd, sendbuf, next)
      /\ PuCirc - circ_deliver_window = PuStream - deliver_window
      /\ PuAcks
  BY DEF PuOrder
<1>k. Len(outq) = 0 /\ ~stalled /\ (Len(sendbuf) > 0 => paused)  BY DEF PuKept, PuAlone
<1>1. PICK cells \in Seq(1..PuCells) :
        /\ cells = [i \in 1..n |-> next + i - 1] /\ Len(cells) = n
        /\ \A i \in 1..Len(cells) : cells[i] = next + i - 1
  <2>1. next + n - 1 <= PuCells  BY DEF Pump!ClientRead
  <2>2. \A i \in 1..n : next + i - 1 \in 1..PuCells  BY <1>t, <2>1
  <2>3. [i \in 1..n |-> next + i - 1] \in Seq(1..PuCells)  BY <1>t, <2>2
  <2>4. PICK f : f = [i \in 1..n |-> next + i - 1]  OBVIOUS
  <2>5. f \in Seq(1..PuCells) /\ DOMAIN f = 1..n /\ \A i \in 1..n : f[i] = next + i - 1
    BY <2>3, <2>4
  <2>6. Len(f) = n  BY <1>t, <2>5
  <2> QED BY <2>4, <2>5, <2>6
<1>2. PICK sent \in Nat :
        /\ sent = Pump!Sendable(n, circ_package_window, package_window)
        /\ sent <= n /\ sent <= circ_package_window /\ sent <= package_window
        /\ sent = n \/ sent = circ_package_window \/ sent = package_window
  <2>1. PICK m \in Nat, cw \in Nat, sw \in Nat :
          m = n /\ cw = circ_package_window /\ sw = package_window
    BY <1>t
  <2>2. /\ Pump!Sendable(m, cw, sw) \in Nat /\ Pump!Sendable(m, cw, sw) <= m
        /\ Pump!Sendable(m, cw, sw) <= cw /\ Pump!Sendable(m, cw, sw) <= sw
        /\ \/ Pump!Sendable(m, cw, sw) = m
           \/ Pump!Sendable(m, cw, sw) = cw
           \/ Pump!Sendable(m, cw, sw) = sw
    BY PuSendable
  <2> QED BY <2>1, <2>2
<1>3. /\ Pump!Enqueue(SubSeq(cells, 1, sent))
      /\ package_window' = package_window - sent
      /\ sendbuf' = IF sent < n THEN SubSeq(cells, sent + 1, n) ELSE sendbuf
      /\ next' = next + n /\ ~paused
      /\ UNCHANGED <<bwd, deliver_window, circ_deliver_window, target>>
  BY <1>1, <1>2 DEF Pump!ClientRead, Pump!exit
<1>4. PICK a \in Seq(0..PuCells), b \in Seq(1..PuCells) :
        /\ a = SubSeq(cells, 1, sent) /\ b = SubSeq(cells, sent + 1, n)
        /\ Len(b) = n - sent /\ Joins(cells, a, b)
  <2>1. sent \in 0..Len(cells) /\ Len(cells) = n  BY <1>1, <1>2
  <2>2. PICK a \in Seq(0..PuCells), b \in Seq(1..PuCells) :
        /\ a = SubSeq(cells, 1, sent) /\ b = SubSeq(cells, sent + 1, Len(cells))
        /\ Len(b) = Len(cells) - sent /\ Joins(cells, a, b)
    BY <2>1, PuPart
  <2> QED BY <2>1, <2>2
<1>5. fwd' \in Seq(0..PuCells) /\ Joins(fwd', fwd, a)
  <2>1. Pump!Enqueue(a)  BY <1>3, <1>4
  <2>2. fwd' = fwd \o a  BY <1>t, <1>k, <2>1, PuEnqueue
  <2> QED BY <1>q, <2>2, JoinConcat
<1>6. Len(sendbuf) = 0  BY <1>k, <1>3, <1>q
<1>7. Row(target, fwd, cells, next + n)
  <2>1. PICK lt \in Nat, lf \in Nat : lt = Len(target) /\ lf = Len(fwd)  BY <1>q, LenProperties
  <2>2. /\ \A i \in 1..lt : target[i] = i
        /\ \A i \in 1..lf : fwd[i] = lt + i
        /\ next = lt + lf + 0 + 1
    BY <1>o, <1>6, <2>1 DEF Row
  <2>3. \A i \in 1..n : cells[i] = lt + lf + i  BY <1>1, <2>2
  <2>4. next + n = lt + lf + n + 1  BY <2>2
  <2> QED BY <1>1, <2>1, <2>2, <2>3, <2>4 DEF Row
<1>8. Row(target, fwd', b, next + n)
  <2>1. /\ cells \in Seq(0..PuCells) /\ b \in Seq(0..PuCells) /\ next + n \in Int
        /\ target \in Seq(0..PuCells) /\ fwd \in Seq(0..PuCells) /\ fwd' \in Seq(0..PuCells)
        /\ Joins(fwd', fwd, a) /\ Joins(cells, a, b)
    <3>1. cells \in Seq(0..PuCells) /\ b \in Seq(0..PuCells)  BY <1>q
    <3>2. next + n \in Int  BY <1>t
    <3> QED BY <1>q, <1>4, <1>5, <3>1, <3>2
  <2> QED BY <1>7, <2>1, RowMoves
<1>9. Row(target', fwd', sendbuf', next')
  <2>1. CASE sent < n
    BY <1>3, <1>4, <1>8, <2>1
  <2>2. CASE ~(sent < n)
    <3>1. sendbuf' = sendbuf /\ Len(b) = 0  BY <1>2, <1>3, <1>4, <2>2, <1>t
    <3>2. Row(target, fwd', sendbuf, next + n)  BY <1>6, <1>8, <3>1 DEF Row
    <3> QED BY <1>3, <3>1, <3>2
  <2> QED BY <2>1, <2>2
<1>10. Len(sendbuf') > 0 => package_window' = 0
  <2>1. circ_package_window >= package_window
    <3>1. circ_package_window >= package_window
                + (IF Len(bwd) > 0 /\ bwd[1] = "SENDME" THEN PuIncrement ELSE 0)
      BY PuWindows
    <3>2. PICK x \in Nat : x = IF Len(bwd) > 0 /\ bwd[1] = "SENDME" THEN PuIncrement ELSE 0
      BY PuConstants
    <3> QED BY <1>t, <3>1, <3>2
  <2>2. CASE sent < n
    <3>1. sent = package_window  BY <1>t, <1>2, <2>1, <2>2
    <3> QED BY <1>t, <1>3, <3>1
  <2>3. CASE ~(sent < n)
    <3>1. sendbuf' = sendbuf  BY <1>3, <2>3
    <3> QED BY <1>6, <3>1
  <2> QED BY <2>2, <2>3
<1>11. PuAcks' /\ PuCirc - circ_deliver_window' = PuStream - deliver_window'
  <2>1. PuAcks'  BY <1>o, <1>3 DEF PuAcks, PuPairs
  <2> QED BY <1>o, <1>3, <2>1
<1> QED BY <1>9, <1>10, <1>11 DEF PuOrder

\* A new pair of SENDMEs.
LEMMA PuAcksGrow ==
    ASSUME PuTyped, PuAcks, bwd' = Append(Append(bwd, "CIRC_SENDME"), "SENDME")
    PROVE  PuAcks'
<1>t. bwd \in Seq(PuCommands) /\ "CIRC_SENDME" \in PuCommands /\ "SENDME" \in PuCommands
  BY DEF PuTyped, PuCommands
<1>1. PICK q \in Seq(PuCommands), n \in Nat : q = bwd /\ n = Len(q)  BY <1>t, LenProperties
<1>2. PICK r \in Seq(PuCommands) : r = Append(q, "CIRC_SENDME")
  <2>1. Append(q, "CIRC_SENDME") \in Seq(PuCommands)  BY <1>t
  <2> QED BY <2>1, Zenon
<1>3. PICK s \in Seq(PuCommands) : s = bwd'  BY <1>t, <1>1, <1>2
<1>4. s = Append(r, "SENDME")  BY <1>1, <1>2, <1>3
<1>5. /\ Len(s) = n + 2 /\ s[n + 1] = "CIRC_SENDME" /\ s[n + 2] = "SENDME"
      /\ \A i \in 1..n : s[i] = q[i]
  <2>1. Len(r) = n + 1 /\ r[n + 1] = "CIRC_SENDME" /\ \A i \in 1..n : r[i] = q[i]  BY <1>1, <1>2
  <2>2. Len(s) = n + 2 /\ s[n + 2] = "SENDME" /\ \A i \in 1..(n + 1) : s[i] = r[i]
    BY <1>4, <2>1
  <2>3. n + 1 \in 1..(n + 1) /\ \A i \in 1..n : i \in 1..(n + 1)  OBVIOUS
  <2> QED BY <2>1, <2>2, <2>3
<1>6. \A i \in 1..n : /\ q[i] = "CIRC_SENDME" => i < n
                      /\ i < n => (q[i + 1] = "SENDME" <=> q[i] = "CIRC_SENDME")
  BY <1>1 DEF PuAcks, PuPairs
<1>7. PuPairs'
  <2> SUFFICES ASSUME NEW i \in 1..(n + 2)
               PROVE  /\ s[i] = "CIRC_SENDME" => i < n + 2
                      /\ i < n + 2 => (s[i + 1] = "SENDME" <=> s[i] = "CIRC_SENDME")
    BY <1>3, <1>5 DEF PuPairs
  <2>1. CASE i < n
    <3>1. i \in 1..n /\ i + 1 \in 1..n  BY <2>1
    <3>2. s[i] = q[i] /\ s[i + 1] = q[i + 1]  BY <1>5, <3>1
    <3> QED BY <1>6, <2>1, <3>1, <3>2
  <2>2. CASE i = n
    <3>1. s[i] = q[i] /\ q[i] # "CIRC_SENDME" /\ s[i + 1] = "CIRC_SENDME"  BY <1>5, <1>6, <2>2
    <3>2. "CIRC_SENDME" # "SENDME"  OBVIOUS
    <3> QED BY <2>2, <3>1, <3>2
  <2>3. CASE i = n + 1
    <3>1. s[i] = "CIRC_SENDME" /\ s[i + 1] = "SENDME"
      <4>1. (n + 1) + 1 = n + 2  OBVIOUS
      <4> QED BY <1>5, <2>3, <4>1
    <3> QED BY <2>3, <3>1
  <2>4. CASE i = n + 2
    <3>1. "CIRC_SENDME" # "SENDME" /\ s[i] = "SENDME"  BY <1>5, <2>4
    <3> QED BY <2>4, <3>1
  <2> QED BY <2>1, <2>2, <2>3, <2>4
<1>8. \A C : /\ Count(q, C) \in Nat
             /\ Count(s, C) = Count(q, C) + (IF "CIRC_SENDME" \in C THEN 1 ELSE 0)
                                          + (IF "SENDME" \in C THEN 1 ELSE 0)
  <2> TAKE C
  <2>1. Count(r, C) = Count(q, C) + (IF "CIRC_SENDME" \in C THEN 1 ELSE 0) /\ Count(q, C) \in Nat
    BY <1>t, <1>2, CountAppend, CountType
  <2>2. Count(s, C) = Count(r, C) + (IF "SENDME" \in C THEN 1 ELSE 0)
    BY <1>t, <1>4, CountAppend
  <2> QED BY <2>1, <2>2
<1>9. /\ Count(s, {"SENDME"}) = Count(q, {"SENDME"}) + 1
      /\ Count(s, {"CIRC_SENDME"}) = Count(q, {"CIRC_SENDME"}) + 1
      /\ Count(q, {"SENDME"}) \in Nat /\ Count(q, {"CIRC_SENDME"}) \in Nat
  <2>1. "SENDME" \notin {"CIRC_SENDME"} /\ "CIRC_SENDME" \notin {"SENDME"}
        /\ "SENDME" \in {"SENDME"} /\ "CIRC_SENDME" \in {"CIRC_SENDME"}
    OBVIOUS
  <2> QED BY <1>8, <2>1
<1>10. PICK a \in Nat, b \in Nat, h \in {0, 1} :
         /\ a = Count(q, {"SENDME"}) /\ b = Count(q, {"CIRC_SENDME"})
         /\ h = IF n > 0 /\ q[1] = "SENDME" THEN 1 ELSE 0
  BY <1>9
<1>11. a = b + h  BY <1>1, <1>10 DEF PuAcks
<1>12. h = IF n + 2 > 0 /\ s[1] = "SENDME" THEN 1 ELSE 0
  <2>1. CASE n = 0
    <3>1. s[1] = "CIRC_SENDME" /\ h = 0  BY <1>5, <1>10, <2>1
    <3>2. "CIRC_SENDME" # "SENDME"  OBVIOUS
    <3> QED BY <3>1, <3>2
  <2>2. CASE n > 0
    <3>1. 1 \in 1..n /\ n + 2 > 0  BY <2>2
    <3>2. s[1] = q[1]  BY <1>5, <3>1
    <3> QED BY <1>10, <2>2, <3>1, <3>2
  <2> QED BY <2>1, <2>2
<1>13. Count(s, {"SENDME"}) = Count(s, {"CIRC_SENDME"}) + h  BY <1>9, <1>10, <1>11
<1> QED BY <1>3, <1>5, <1>7, <1>12, <1>13 DEF PuAcks

\* The first SENDME is taken, the second of its pair is now the first or gone.
LEMMA PuAcksTail ==
    ASSUME PuTyped, PuAcks, bwd # <<>>, bwd' = Tail(bwd), Head(bwd) \in {"CIRC_SENDME", "SENDME"}
    PROVE  PuAcks'
<1>t. bwd \in Seq(PuCommands) /\ bwd' \in Seq(PuCommands)
      /\ \A C : /\ Count(bwd', C) \in Nat
                /\ Count(bwd, C) = Count(bwd', C) + (IF Head(bwd) \in C THEN 1 ELSE 0)
  BY PuAckTaken DEF PuTyped
<1>1. PICK q \in Seq(PuCommands), s \in Seq(PuCommands), n \in Nat :
        q = bwd /\ s = bwd' /\ n = Len(s)
  BY <1>t, LenProperties
<1>2. /\ Len(q) = n + 1 /\ q[1] \in {"CIRC_SENDME", "SENDME"} /\ Head(bwd) = q[1]
      /\ \A i \in 1..n : s[i] = q[i + 1]
  <2>1. /\ Len(bwd) \in Nat /\ Len(bwd) > 0 /\ Len(bwd') = Len(bwd) - 1 /\ Head(bwd) = bwd[1]
        /\ \A i \in 1..Len(bwd') : i + 1 \in 1..Len(bwd) /\ bwd'[i] = bwd[i + 1]
    BY PuShift
  <2>2. Len(q) = n + 1  BY <1>1, <2>1
  <2> QED BY <1>1, <2>1, <2>2
<1>3. \A i \in 1..(n + 1) : /\ q[i] = "CIRC_SENDME" => i < n + 1
                            /\ i < n + 1 => (q[i + 1] = "SENDME" <=> q[i] = "CIRC_SENDME")
  BY <1>1, <1>2 DEF PuAcks, PuPairs
<1>4. PuPairs'
  <2> SUFFICES ASSUME NEW i \in 1..n
               PROVE  /\ s[i] = "CIRC_SENDME" => i < n
                      /\ i < n => (s[i + 1] = "SENDME" <=> s[i] = "CIRC_SENDME")
    BY <1>1 DEF PuPairs
  <2>1. PICK j \in 1..(n + 1) : j = i + 1  OBVIOUS
  <2>2. s[i] = q[j]  BY <1>2, <2>1
  <2>3. i < n => s[i + 1] = q[j + 1]
    <3>1. i < n => i + 1 \in 1..n  OBVIOUS
    <3> QED BY <1>2, <2>1, <3>1
  <2>4. j < n + 1 <=> i < n  BY <2>1
  <2> QED BY <1>3, <2>2, <2>3, <2>4
<1>5. PICK a \in Nat, b \in Nat :
        a = Count(s, {"SENDME"}) /\ b = Count(s, {"CIRC_SENDME"})
  BY <1>t, <1>1
<1>6. Count(q, {"SENDME"}) = Count(q, {"CIRC_SENDME"}) + (IF n + 1 > 0 /\ q[1] = "SENDME" THEN 1 ELSE 0)
  BY <1>1, <1>2 DEF PuAcks
<1>7. CASE q[1] = "CIRC_SENDME"
  <2>1. q[1] # "SENDME" /\ q[1] \notin {"SENDME"} /\ q[1] \in {"CIRC_SENDME"}  BY <1>7
  <2>2. Count(q, {"SENDME"}) = a /\ Count(q, {"CIRC_SENDME"}) = b + 1
    BY <1>t, <1>1, <1>2, <1>5, <2>1
  <2>3. a = b + 1  BY <1>6, <2>1, <2>2
  <2>4. n > 0 /\ s[1] = "SENDME"
    <3>1. 1 \in 1..(n + 1)  OBVIOUS
    <3>2. 1 < n + 1 /\ q[1 + 1] = "SENDME"  BY <1>3, <1>7, <3>1
    <3>3. 1 \in 1..n  BY <3>2
    <3> QED BY <1>2, <3>2, <3>3
  <2> QED BY <1>1, <1>4, <1>5, <2>3, <2>4 DEF PuAcks
<1>8. CASE q[1] = "SENDME"
  <2>1. q[1] # "CIRC_SENDME" /\ q[1] \in {"SENDME"} /\ q[1] \notin {"CIRC_SENDME"}  BY <1>8
  <2>2. Count(q, {"SENDME"}) = a + 1 /\ Count(q, {"CIRC_SENDME"}) = b
    BY <1>t, <1>1, <1>2, <1>5, <2>1
  <2>3. a = b + 0
    <3>1. n + 1 > 0  OBVIOUS
    <3> QED BY <1>6, <1>8, <2>2, <3>1
  <2>4. ~(n > 0 /\ s[1] = "SENDME")
    <3>1. 1 \in 1..(n + 1)  OBVIOUS
    <3>2. n > 0 => 1 < n + 1 /\ 1 \in 1..n  OBVIOUS
    <3> QED BY <1>2, <1>3, <2>1, <3>1, <3>2
  <2> QED BY <1>1, <1>4, <1>5, <2>3, <2>4 DEF PuAcks
<1> QED BY <1>2, <1>7, <1>8

\* Delivery of the next cell in the row.
LEMMA PuOrderExit ==
    ASSUME PuCore, PuKept, PuOrder, PuAlone, Pump!ExitOther \/ Pump!ExitWrites
    PROVE  PuOrder'
<1>t. /\ PuTyped /\ fwd \in Seq(0..PuCells) /\ target \in Seq(1..PuCells) /\ sendbuf \in Seq(1..PuCells)
      /\ circ_deliver_window \in (PuCirc - PuIncrement + 1)..PuCirc
      /\ deliver_window \in (PuStream - PuIncrement + 1)..PuStream
      /\ next \in Int
  BY PuConstants DEF PuCore, PuTyped
<1>o. /\ Row(target, fwd, sendbuf, next) /\ (Len(sendbuf) > 0 => package_window = 0)
      /\ PuCirc - circ_deliver_window = PuStream - deliver_window
      /\ PuAcks
  BY DEF PuOrder
<1>k. ~xoff_sent  BY DEF PuKept, PuAlone
<1>1. /\ fwd # <<>> /\ fwd' = Tail(fwd) /\ UNCHANGED <<next, sendbuf, package_window>>
  BY DEF Pump!ExitOther, Pump!ExitWrites, Pump!ExitTakes, Pump!client
<1>2. Head(fwd) \in 0..PuCells /\ Head(fwd) # 0
  <2>1. Head(fwd) \in 0..PuCells  BY <1>t, <1>1, QueueHead
  <2>2. 1 \in 1..Len(fwd) /\ Head(fwd) = fwd[1] /\ Len(target) \in Nat  BY <1>t, <1>1
  <2>3. fwd[1] = Len(target) + 1  BY <1>o, <2>2 DEF Row
  <2> QED BY <2>1, <2>2, <2>3
<1>3. /\ target' = Append(target, Head(fwd))
      /\ Pump!SendmeCheck(circ_deliver_window - 1, deliver_window - 1, <<>>)
  <2>1. Pump!ExitWrites  BY <1>2 DEF Pump!ExitOther, Pump!OtherStream
  <2> QED BY <1>k, <2>1 DEF Pump!ExitWrites
<1>4. Row(target', fwd', sendbuf', next')
  <2>1. Head(fwd) \in 1..PuCells  BY <1>2, PuConstants
  <2>2. Row(Append(target, Head(fwd)), Tail(fwd), sendbuf, next)
    BY <1>t, <1>o, <1>1, <2>1, RowTaken
  <2> QED BY <1>1, <1>3, <2>2
<1>5. PICK c \in Int, d \in Int : c = circ_deliver_window - 1 /\ d = deliver_window - 1
  BY <1>t, PuConstants
<1>6. c <= PuCirc - PuIncrement <=> d <= PuStream - PuIncrement
  BY <1>t, <1>o, <1>5, PuConstants
<1>7. PuCirc - circ_deliver_window' = PuStream - deliver_window'
  <2>1. /\ circ_deliver_window' = IF c <= PuCirc - PuIncrement THEN c + PuIncrement ELSE c
        /\ deliver_window' = IF d <= PuStream - PuIncrement THEN d + PuIncrement ELSE d
    BY <1>3, <1>5 DEF Pump!SendmeCheck
  <2>2. PuCirc - c = PuStream - d  BY <1>t, <1>o, <1>5, PuConstants
  <2> QED BY <1>5, <1>6, <2>1, <2>2, PuConstants
<1>8. PuAcks'
  <2>1. Pump!SendmeCheck(c, d, <<>>)  BY <1>3, <1>5
  <2>2. PICK b \in Seq(PuCommands) :
             /\ b = IF c <= PuCirc - PuIncrement THEN Append(bwd, "CIRC_SENDME") ELSE bwd
             /\ bwd' = IF d <= PuStream - PuIncrement THEN Append(b, "SENDME") ELSE b
    BY <1>t, <2>1, PuAnswered
  <2>3. CASE c <= PuCirc - PuIncrement
    <3>1. bwd' = Append(Append(bwd, "CIRC_SENDME"), "SENDME")  BY <1>6, <2>2, <2>3
    <3> QED BY <1>t, <1>o, <3>1, PuAcksGrow
  <2>4. CASE ~(c <= PuCirc - PuIncrement)
    <3>1. bwd' = bwd  BY <1>6, <2>2, <2>4
    <3> QED BY <1>o, <3>1 DEF PuAcks, PuPairs
  <2> QED BY <2>3, <2>4
<1> QED BY <1>o, <1>1, <1>4, <1>7, <1>8 DEF PuOrder

\* A circuit SENDME finds nothing it may send; a stream SENDME sends it all.
LEMMA PuOrderCell ==
    ASSUME PuCore, PuKept, PuOrder, PuAlone, Pump!ClientCell
    PROVE  PuOrder'
<1>t. /\ PuTyped /\ circ_package_window \in Nat /\ package_window \in Nat /\ Len(sendbuf) \in Nat
      /\ Len(sendbuf) <= PuRead /\ PuIncrement \in Nat /\ PuRead \in Nat /\ PuRead <= PuIncrement
      /\ sendbuf \in Seq(1..PuCells)
  BY PuConstants DEF PuCore, PuTyped
<1>q. /\ target \in Seq(0..PuCells) /\ fwd \in Seq(0..PuCells) /\ sendbuf \in Seq(0..PuCells)
      /\ \A q \in Seq(1..PuCells) : q \in Seq(0..PuCells)
      /\ next \in Int
  BY <1>t, PuQueues
<1>o. /\ Row(target, fwd, sendbuf, next) /\ (Len(sendbuf) > 0 => package_window = 0)
      /\ PuCirc - circ_deliver_window = PuStream - deliver_window
      /\ PuAcks
  BY DEF PuOrder
<1>k. /\ Len(outq) = 0 /\ ~stalled /\ (Len(sendbuf) > 0 => paused)
      /\ \A i \in 1..Len(bwd) : bwd[i] \in {"CIRC_SENDME", "SENDME"}
  BY DEF PuKept, PuAlone
<1>1. /\ bwd # <<>> /\ bwd' = Tail(bwd)
      /\ UNCHANGED <<next, circ_deliver_window, deliver_window, target>>
  BY <1>t, PuCellEffect
<1>2. Len(bwd) > 0 /\ Head(bwd) = bwd[1] /\ Head(bwd) \in {"CIRC_SENDME", "SENDME"}
  <2>1. Len(bwd) \in Nat /\ Len(bwd) > 0 /\ Head(bwd) = bwd[1]  BY <1>t, <1>1, PuShift
  <2>2. 1 \in 1..Len(bwd)  BY <2>1
  <2> QED BY <1>k, <2>1, <2>2
<1>3. PuAcks'  BY <1>t, <1>o, <1>1, <1>2, PuAcksTail
<1>4. PICK cw \in Nat, sw \in Nat, sent \in 0..Len(sendbuf), clear \in BOOLEAN, unpause \in BOOLEAN :
        /\ sent <= cw /\ sent <= sw
        /\ cw = circ_package_window + (IF Head(bwd) = "CIRC_SENDME" THEN PuIncrement ELSE 0)
        /\ sw = package_window + (IF Head(bwd) = "SENDME" THEN PuIncrement ELSE 0)
        /\ Pump!Drain(cw, sw, sent, clear, unpause)
        /\ paused => sent = Len(sendbuf) \/ sent = cw \/ sent = sw
        /\ clear <=> paused /\ (Len(sendbuf) > 0 => sent > 0)
  <2>1. Head(bwd) # "XOFF" /\ Head(bwd) # "XON"  BY <1>2
  <2>2. PuRetry  BY <1>t, <2>1, PuCellEffect
  <2> QED BY <2>1, <2>2 DEF PuRetry
<1>5. PICK a \in Seq(0..PuCells), b \in Seq(1..PuCells) :
        a = SubSeq(sendbuf, 1, sent) /\ Len(a) = sent /\ Len(b) = Len(sendbuf) - sent /\ Joins(sendbuf, a, b)
  BY <1>t, PuPart
<1>6. /\ fwd' \in Seq(0..PuCells) /\ Joins(fwd', fwd, a)
      /\ package_window' = sw - sent /\ sendbuf' = IF clear THEN <<>> ELSE sendbuf
  <2>1. /\ Pump!Enqueue(a) /\ package_window' = sw - sent
        /\ sendbuf' = IF clear THEN <<>> ELSE sendbuf
    BY <1>4, <1>5 DEF Pump!Drain
  <2>2. fwd' = fwd \o a  BY <1>t, <1>k, <2>1, PuEnqueue
  <2> QED BY <1>q, <2>1, <2>2, JoinConcat
<1>7. Row(target, fwd', b, next)
  <2>1. b \in Seq(0..PuCells)  BY <1>q
  <2>2. Joins(fwd', fwd, a) /\ Joins(sendbuf, a, b) /\ fwd' \in Seq(0..PuCells)  BY <1>5, <1>6
  <2> QED BY <1>q, <1>o, <2>1, <2>2, RowMoves
<1>8. CASE Len(sendbuf) = 0
  <2>1. Len(sendbuf') = 0 /\ Len(b) = 0
    <3>1. sent = 0  BY <1>8
    <3>2. CASE clear
      BY <1>5, <1>6, <1>8, <3>1, <3>2
    <3>3. CASE ~clear
      BY <1>5, <1>6, <1>8, <3>1, <3>3
    <3> QED BY <3>2, <3>3
  <2>2. Row(target, fwd', sendbuf', next)  BY <1>7, <2>1 DEF Row
  <2>3. ~(Len(sendbuf') > 0)  BY <2>1
  <2> QED BY <1>o, <1>1, <1>3, <2>2, <2>3 DEF PuOrder
<1>9. CASE Len(sendbuf) > 0 /\ Head(bwd) = "CIRC_SENDME"
  <2>1. sw = 0
    <3>1. Head(bwd) # "SENDME" /\ package_window = 0  BY <1>o, <1>9
    <3> QED BY <1>4, <3>1
  <2>2. sent = 0 /\ ~clear
    <3>1. sent = 0  BY <1>4, <2>1
    <3> QED BY <1>4, <1>9, <3>1
  <2>3. sendbuf' = sendbuf /\ package_window' = 0  BY <1>6, <2>1, <2>2
  <2>4. Row(target, fwd', sendbuf, next)
    <3>1. Len(a) = 0 /\ Len(b) = Len(sendbuf)  BY <1>5, <2>2, <1>t
    <3>2. \A i \in 1..Len(b) : sendbuf[i] = b[i]
      <4>1. \A i \in 1..Len(b) : sendbuf[0 + i] = b[i] /\ 0 + i = i  BY <1>5, <3>1 DEF Joins
      <4> QED BY <4>1
    <3> QED BY <1>7, <3>1, <3>2 DEF Row
  <2> QED BY <1>o, <1>1, <1>3, <2>3, <2>4 DEF PuOrder
<1>10. CASE Len(sendbuf) > 0 /\ Head(bwd) = "SENDME"
  <2>1. sw = PuIncrement /\ package_window = 0  BY <1>o, <1>t, <1>4, <1>10
  <2>2. cw >= PuIncrement
    <3>1. circ_package_window >= 0 + PuIncrement
      <4>1. circ_package_window >= package_window
                + (IF Len(bwd) > 0 /\ bwd[1] = "SENDME" THEN PuIncrement ELSE 0)
        BY PuWindows
      <4> QED BY <1>2, <1>10, <2>1, <4>1
    <3>2. Head(bwd) # "CIRC_SENDME"  BY <1>10
    <3>3. cw = circ_package_window + 0  BY <1>4, <3>2
    <3> QED BY <1>t, <3>1, <3>3
  <2>3. sent = Len(sendbuf)
    <3>1. sent = Len(sendbuf) \/ sent = cw \/ sent = sw  BY <1>k, <1>4, <1>10
    <3> QED BY <1>t, <2>1, <2>2, <3>1
  <2>4. clear  BY <1>k, <1>4, <1>10, <2>3
  <2>5. Len(sendbuf') = 0 /\ Len(b) = 0  BY <1>t, <1>5, <1>6, <2>3, <2>4
  <2>6. Row(target, fwd', sendbuf', next)  BY <1>7, <2>5 DEF Row
  <2>7. ~(Len(sendbuf') > 0)  BY <2>5
  <2> QED BY <1>o, <1>1, <1>3, <2>6, <2>7 DEF PuOrder
<1> QED BY <1>t, <1>2, <1>8, <1>9, <1>10

\* Every step of a stream alone keeps the row.
LEMMA PuOrderNext ==
    ASSUME PuCore, PuKept, PuOrder, Pump!Next
    PROVE  PuOrder'
<1> SUFFICES ASSUME PuAlone' PROVE PuOrder'
  BY DEF PuOrder
<1>t. PuTyped  BY DEF PuCore
<1>1. PuAlone /\ ~Pump!LinkStalls /\ ~Pump!ExitTargetFull /\ ~Pump!OtherSends
  BY <1>t, PuBounds DEF PuAlone
<1>2. ~Pump!Writable /\ ~Pump!LinkRecovers
  <2>1. Len(outq) = 0 /\ ~stalled  BY <1>1 DEF PuKept, PuAlone
  <2> QED BY <2>1 DEF Pump!Writable, Pump!LinkRecovers
<1>3. CASE Pump!Read
  BY <1>1, <1>3, PuOrderRead DEF Pump!Read
<1>4. CASE Pump!ClientBackpressure
  <2>1. UNCHANGED <<next, sendbuf, package_window, fwd, bwd, circ_deliver_window, deliver_window, target>>
    BY <1>4 DEF Pump!ClientBackpressure, Pump!exit
  <2>2. PuAcks /\ PuOrder  BY <1>1 DEF PuOrder
  <2>3. PuAcks'  BY <2>1, <2>2 DEF PuAcks, PuPairs
  <2> QED BY <1>1, <2>1, <2>3 DEF PuOrder
<1>5. CASE Pump!ExitCell
  BY <1>1, <1>5, PuOrderExit DEF Pump!ExitCell
<1>6. CASE Pump!ClientCell
  BY <1>1, <1>6, PuOrderCell
<1> QED BY <1>1, <1>2, <1>3, <1>4, <1>5, <1>6 DEF Pump!Next

\* The inductive invariant holds at the start.
LEMMA PuInit == Pump!Init => PuInv
<1> SUFFICES ASSUME Pump!Init PROVE PuInv
  OBVIOUS
<1>1. /\ next = 1 /\ sendbuf = <<>> /\ paused = FALSE
      /\ circ_package_window = PuCirc /\ package_window = PuStream
      /\ outq = <<>> /\ stalled = FALSE /\ fwd = <<>> /\ bwd = <<>>
      /\ circ_deliver_window = PuCirc /\ deliver_window = PuStream
      /\ xoff_sent = FALSE /\ target = <<>>
      /\ bounds = [other |-> 0, stalls |-> 0, full |-> 0]
  BY DEF Pump!Init, Pump!Undisturbed
<1>2. PuTyped
  <2>1. next \in 1..(PuCells + 1)  BY <1>1, PuConstants
  <2>2. /\ circ_deliver_window \in (PuCirc - PuIncrement + 1)..PuCirc
        /\ deliver_window \in (PuStream - PuIncrement + 1)..PuStream
        /\ circ_package_window \in Nat /\ package_window \in Nat
    BY <1>1, PuConstants
  <2>3. bounds \in [other : Nat, stalls : Nat, full : Nat]  BY <1>1
  <2>4. /\ sendbuf \in Seq(1..PuCells) /\ Len(sendbuf) <= PuRead /\ outq \in Seq(0..PuCells)
        /\ fwd \in Seq(0..PuCells) /\ bwd \in Seq(PuCommands) /\ target \in Seq(1..PuCells)
    BY <1>1, PuConstants
  <2>5. paused \in BOOLEAN /\ stalled \in BOOLEAN /\ xoff_sent \in BOOLEAN  BY <1>1
  <2> QED BY <2>1, <2>2, <2>3, <2>4, <2>5 DEF PuTyped
<1>3. Len(outq) = 0 /\ Len(fwd) = 0 /\ Len(bwd) = 0 /\ Len(sendbuf) = 0 /\ Len(target) = 0
  BY <1>1
<1>4. \A C : /\ Count(outq, C) = 0 /\ Count(fwd, C) = 0 /\ Count(bwd, C) = 0
             /\ Count(sendbuf, C) = 0 /\ Count(target, C) = 0
  BY <1>3, CountEmpty
<1>5. PuCredit
  <2>1. InPipe(1..PuCells) = 0 /\ InPipe(0..PuCells) = 0  BY <1>4 DEF InPipe
  <2>2. PuTimes(Count(bwd, {"SENDME"})) = 0 /\ PuTimes(Count(bwd, {"CIRC_SENDME"})) = 0
    BY <1>4, PuTimesStep
  <2>3. PuStream + 0 + (PuStream - PuStream) + 0 = PuStream /\ PuCirc + 0 + (PuCirc - PuCirc) + 0 = PuCirc
    BY PuConstants
  <2> QED BY <1>1, <2>1, <2>2, <2>3 DEF PuCredit
<1>6. PuOnce
  <2>1. \A v : PlacesOf(v) = 0  BY <1>4 DEF PlacesOf, InPipe
  <2> QED BY <2>1 DEF PuOnce
<1>7. PuKept  BY <1>1, <1>3 DEF PuKept
<1>8. PuOrder
  <2>1. Row(target, fwd, sendbuf, next)  BY <1>1, <1>3 DEF Row
  <2>2. PuAcks  BY <1>3, <1>4 DEF PuAcks, PuPairs
  <2>3. PuCirc - circ_deliver_window = PuStream - deliver_window  BY <1>1, PuConstants
  <2> QED BY <1>3, <2>1, <2>2, <2>3 DEF PuOrder
<1> QED BY <1>2, <1>5, <1>6, <1>7, <1>8 DEF PuInv, PuCore

\* Every step keeps it.
LEMMA PuNext == PuInv /\ (Pump!Next \/ UNCHANGED Pump!vars) => PuInv'
<1>1. ASSUME PuInv, Pump!Next PROVE PuInv'
  <2>1. PuCore /\ PuTyped /\ PuKept /\ PuOrder  BY <1>1 DEF PuInv, PuCore
  <2>2. PuCore'  BY <1>1, <2>1, PuCoreNext
  <2>3. PuKept'  BY <1>1, <2>1, PuKeptNext
  <2>4. PuOrder'  BY <1>1, <2>1, PuOrderNext
  <2> QED BY <2>2, <2>3, <2>4 DEF PuInv
<1>2. ASSUME PuInv, UNCHANGED Pump!vars PROVE PuInv'
  <2>1. UNCHANGED <<next, sendbuf, paused, circ_package_window, package_window, outq, stalled, fwd, bwd,
                    circ_deliver_window, deliver_window, xoff_sent, target, bounds>>
    BY <1>2 DEF Pump!vars, Pump!client, Pump!link, Pump!exit
  <2>2. PuCore'
    <3>1. PuCore /\ paused' \in BOOLEAN /\ stalled' \in BOOLEAN
          /\ bounds' \in [other : Nat, stalls : Nat, full : Nat]
      BY <1>2, <2>1 DEF PuInv, PuCore, PuTyped
    <3> QED BY <2>1, <3>1, PuQuietCore
  <2>3. PuKept'  BY <1>2, <2>1 DEF PuInv, PuKept
  <2>4. PuOrder'
    <3>1. PuOrder  BY <1>2 DEF PuInv
    <3>2. PuAlone' => PuAlone  BY <2>1 DEF PuAlone
    <3>3. PuAcks => PuAcks'  BY <2>1 DEF PuAcks, PuPairs
    <3> QED BY <2>1, <3>1, <3>2, <3>3 DEF PuOrder
  <2> QED BY <2>2, <2>3, <2>4 DEF PuInv
<1> QED BY <1>1, <1>2

\* It implies what the flow run checks.
LEMMA PuSound ==
    ASSUME PuInv
    PROVE  /\ Pump!TypeOK /\ Pump!CreditConserved /\ Pump!NoCellTwice
           /\ Pump!LosslessAlone /\ Pump!KeptCellsGoFirst
<1>t. PuTyped /\ PuCredit /\ PuOnce /\ PuKept /\ PuOrder  BY DEF PuInv, PuCore
<1>1. PICK o \in Nat, w \in Nat, m \in Nat, k \in Nat :
        /\ o = InPipe(1..PuCells) /\ w = InPipe(0..PuCells)
        /\ m = PuTimes(Count(bwd, {"SENDME"})) /\ k = PuTimes(Count(bwd, {"CIRC_SENDME"}))
  <2>1. /\ InPipe(1..PuCells) \in Nat /\ InPipe(0..PuCells) \in Nat
        /\ Count(bwd, {"SENDME"}) \in Nat /\ Count(bwd, {"CIRC_SENDME"}) \in Nat
    BY <1>t, PuPipeType
  <2> QED BY <2>1, PuTimesStep
<1>2. Pump!TypeOK
  <2>1. /\ package_window \in Nat /\ circ_package_window \in Nat
        /\ circ_deliver_window \in (PuCirc - PuIncrement + 1)..PuCirc
        /\ deliver_window \in (PuStream - PuIncrement + 1)..PuStream
    BY <1>t DEF PuTyped
  <2>2. /\ package_window + o + (PuStream - deliver_window) + m = PuStream
        /\ circ_package_window + w + (PuCirc - circ_deliver_window) + k = PuCirc
    BY <1>t, <1>1 DEF PuCredit
  <2>3. /\ circ_package_window \in 0..PuCirc /\ package_window \in 0..PuStream
        /\ circ_deliver_window \in 1..PuCirc /\ deliver_window \in 1..PuStream
    BY <2>1, <2>2, PuConstants
  <2> QED BY <1>t, <2>3 DEF Pump!TypeOK, PuTyped, PuCommands
<1>3. Pump!CreditConserved
  <2>1. \A q, C : Pump!Count(q, C) = Count(q, C)
    <3>1. \A S : Pump!Cardinality(S) = Cardinality(S)  BY DEF Pump!Cardinality, Cardinality
    <3> QED BY <3>1 DEF Pump!Count, Count, Rank
  <2>2. outq \in Seq(0..PuCells) /\ fwd \in Seq(0..PuCells) /\ 0..PuCells \subseteq 0..PuCells
    BY <1>t DEF PuTyped
  <2>3. Len(outq) = Count(outq, 0..PuCells) /\ Len(fwd) = Count(fwd, 0..PuCells)
    BY <2>2, CountType
  <2>4. /\ InPipe(1..PuCells) = Pump!Count(outq, Pump!OwnCells) + Pump!Count(fwd, Pump!OwnCells)
        /\ InPipe(0..PuCells) = Len(outq) + Len(fwd)
    BY <2>1, <2>3 DEF InPipe, Pump!OwnCells
  <2>5. \A C : Count(outq, C) \in Nat /\ Count(fwd, C) \in Nat  BY <2>2, CountType
  <2>6. PICK a \in Nat, b \in Nat, c \in Nat, d \in Nat :
          /\ a = Count(outq, 1..PuCells) /\ b = Count(fwd, 1..PuCells)
          /\ c = Count(outq, 0..PuCells) /\ d = Count(fwd, 0..PuCells)
    BY <2>5
  <2>7. PICK p \in Nat, cp \in Nat, g \in Int, h \in Int :
          /\ p = package_window /\ cp = circ_package_window
          /\ g = PuStream - deliver_window /\ h = PuCirc - circ_deliver_window
    BY <1>t, PuConstants DEF PuTyped
  <2>8. p + (a + b) + g + m = PuStream /\ cp + (c + d) + h + k = PuCirc
    BY <1>t, <1>1, <2>6, <2>7 DEF PuCredit, InPipe
  <2>9. p + a + b + g + m = PuStream /\ cp + c + d + h + k = PuCirc  BY <2>8
  <2>10. /\ m = PuIncrement * Pump!Count(bwd, {"SENDME"})
         /\ k = PuIncrement * Pump!Count(bwd, {"CIRC_SENDME"})
    BY <1>1, <2>1 DEF PuTimes
  <2> QED BY <2>1, <2>3, <2>6, <2>7, <2>9, <2>10 DEF Pump!CreditConserved, Pump!OwnCells
<1>4. Pump!NoCellTwice
  <2> SUFFICES ASSUME NEW i \in 1..Len(target), NEW j \in 1..Len(target), i # j, target[i] = target[j]
               PROVE  FALSE
    BY DEF Pump!NoCellTwice
  <2>1. target \in Seq(1..PuCells)  BY <1>t DEF PuTyped
  <2>2. PICK v \in 1..PuCells : v = target[i]  BY <2>1, ElementOfSeq
  <2>3. Count(target, {v}) >= 2  BY <2>1, <2>2, CountTwo
  <2>4. PlacesOf(v) <= 1  BY <1>t DEF PuOnce
  <2>5. Count(target, {v}) \in Nat /\ InPipe({v}) \in Nat /\ Count(sendbuf, {v}) \in Nat
    BY <1>t, PuPipeType
  <2> QED BY <2>3, <2>4, <2>5 DEF PlacesOf
<1>5. Pump!LosslessAlone
  <2> SUFFICES ASSUME bounds = Pump!Undisturbed PROVE Pump!DeliveredInOrder
    BY DEF Pump!LosslessAlone
  <2>1. PuAlone  BY DEF PuAlone, Pump!Undisturbed
  <2> QED BY <1>t, <2>1 DEF PuOrder, Row, Pump!DeliveredInOrder
<1>6. Pump!KeptCellsGoFirst
  <2>1. sendbuf # <<>> => Len(sendbuf) > 0  BY <1>t DEF PuTyped
  <2> QED BY <1>t, <2>1 DEF PuKept, Pump!KeptCellsGoFirst
<1> QED BY <1>2, <1>3, <1>4, <1>5, <1>6

\* Application to target, for every window, increment, read size, water mark
\* and bound with PumpAssumption: through every pause, retry, stall and full
\* target credit is conserved and no cell arrives twice; kept cells go first
\* until the link stalls or the target fills, and an undisturbed stream
\* arrives in order without a gap (socks5.c's moor_socks5_handle_client and
\* moor_socks5_resume_reads).
THEOREM PumpFlowSound == FlowSpec => []PumpSound
<1> DEFINE Inv == component = "pump" => PuInv
<1>1. FlowInit => Inv
  <2>1. ASSUME FlowInit, component = "pump" PROVE Pump!Init
    BY <2>1 DEF FlowInit
  <2> QED BY <2>1, PuInit
<1>2. Inv /\ [FlowNext]_all => Inv'
  <2> SUFFICES ASSUME Inv, [FlowNext]_all, component' = "pump" PROVE PuInv'
    OBVIOUS
  <2>1. component = "pump" /\ (Pump!Next \/ UNCHANGED Pump!vars)
    <3>1. CASE FlowNext
      <4>1. component = "pump"  BY <3>1 DEF FlowNext
      <4>2. Pump!Next  BY <3>1, <4>1 DEF FlowNext
      <4> QED BY <4>1, <4>2
    <3>2. CASE UNCHANGED all
      BY <3>2 DEF all, pumpOnly, shared, Pump!vars, Pump!client, Pump!link, Pump!exit
    <3> QED BY <3>1, <3>2
  <2>2. PuInv  BY <2>1
  <2> QED BY <2>1, <2>2, PuNext
<1>3. Inv => PumpSound  BY PuSound DEF PumpSound
<1> QED BY <1>1, <1>2, <1>3, PTL DEF FlowSpec
=============================================================================
