--------------------------- MODULE RendezvousProofs ---------------------------
(***************************************************************************)
(* Proofs about both directions of a rendezvous circuit: RendezvousSound   *)
(* is an invariant of BothSpec for every number of streams and all sizes   *)
(* of windows and increments that RendezvousAssumption allows.             *)
(*                                                                         *)
(* To the service the inductive invariant InInv speaks of the cells on the *)
(* way W, of the two ends of each stream and of the SENDMEs on their way   *)
(* back (Core).  Every cell is of a stream that was opened and a BEGIN is  *)
(* its stream's first (WayOk); the stream's credit adds up while both ends *)
(* are open, and is whole while the BEGIN is on its way (Credit); chunk    *)
(* numbers on the way continue what was delivered (Ordered); and as long   *)
(* as one stream is used the same holds of the nonces (NoncesOk).  Once    *)
(* the service has closed the circuit, two streams have been used.         *)
(* From the service OutInv bounds the windows and says that the sealed     *)
(* cells carry the nonces the client expects next.                         *)
(***************************************************************************)
EXTENDS MCRendezvous, FiniteSetTheorems, SequenceTheorems, WellFoundedInduction, TLAPS

-----------------------------------------------------------------------------
(* Queues.                                                                 *)

FwdCell == [cmd : {"BEGIN", "DATA", "END"}, sid : Streams, data : Sealed]
SvcCell == [cmd : {"CONNECTED", "SENDME", "END"}, sid : Streams, data : Sealed]
BackCell == SvcCell \cup {Control("CIRC_SENDME", 0)}

\* Queue w is queue q with queue r behind it.
IsQueue(q) == Len(q) \in Nat /\ DOMAIN q = 1..Len(q)
Joins(w, q, r) ==
    /\ IsQueue(w) /\ IsQueue(q) /\ IsQueue(r)
    /\ Len(w) = Len(q) + Len(r)
    /\ \A i \in 1..Len(q) : w[i] = q[i]
    /\ \A i \in 1..Len(r) : w[Len(q) + i] = r[i]

\* Concatenation lays two queues end to end.
LEMMA JoinConcat ==
    ASSUME NEW S, NEW q \in Seq(S), NEW r \in Seq(S)
    PROVE  q \o r \in Seq(S) /\ Joins(q \o r, q, r)
BY DEF Joins, IsQueue

\* So does appending a cell.
LEMMA JoinAppend ==
    ASSUME NEW S, NEW q \in Seq(S), NEW c \in S
    PROVE  Append(q, c) \in Seq(S) /\ <<c>> \in Seq(S) /\ Joins(Append(q, c), q, <<c>>)
<1>1. /\ Append(q, c) \in Seq(S) /\ <<c>> \in Seq(S) /\ Len(<<c>>) = 1 /\ <<c>>[1] = c
      /\ Len(q) \in Nat /\ Len(Append(q, c)) = Len(q) + 1
      /\ \A i \in 1..Len(q) : Append(q, c)[i] = q[i]
      /\ Append(q, c)[Len(q) + 1] = c
  OBVIOUS
<1>2. \A i \in 1..1 : i = 1  OBVIOUS
<1>3. IsQueue(q) /\ IsQueue(<<c>>) /\ IsQueue(Append(q, c))  BY <1>1 DEF IsQueue
<1> QED BY <1>1, <1>2, <1>3 DEF Joins

\* The first cell of a queue, and what is left.
LEMMA JoinTail ==
    ASSUME NEW S, NEW q \in Seq(S), q # <<>>
    PROVE  /\ Head(q) \in S /\ Head(q) = q[1] /\ Tail(q) \in Seq(S) /\ <<Head(q)>> \in Seq(S)
           /\ Joins(q, <<Head(q)>>, Tail(q))
<1>1. PICK c \in S : c = Head(q) /\ c = q[1]  OBVIOUS
<1>2. PICK r \in Seq(S) : r = Tail(q)
  <2>1. Tail(q) \in Seq(S)  OBVIOUS
  <2> QED BY <2>1
<1>3. /\ Len(r) \in Nat /\ Len(q) = Len(r) + 1
      /\ \A i \in 1..Len(r) : r[i] = q[i + 1]
  BY <1>2
<1>4. /\ <<c>> \in Seq(S) /\ Len(<<c>>) = 1 /\ <<c>>[1] = c
      /\ \A i \in 1..1 : i = 1
  OBVIOUS
<1>5. IsQueue(q) /\ IsQueue(<<c>>) /\ IsQueue(r)  BY <1>4 DEF IsQueue
<1>6. Joins(q, <<c>>, r)  BY <1>1, <1>3, <1>4, <1>5 DEF Joins
<1> QED BY <1>1, <1>2, <1>4, <1>6

\* A cell that moves from one queue to the next is still on its way.
LEMMA WayMoves ==
    ASSUME NEW S, NEW q \in Seq(S), NEW r \in Seq(S), r # <<>>
    PROVE  Append(q, Head(r)) \o Tail(r) = q \o r
OBVIOUS

\* The way without its first cell, and with cells behind it.
LEMMA WayEnds ==
    ASSUME NEW S, NEW q \in Seq(S), NEW r \in Seq(S), NEW t \in Seq(S)
    PROVE  /\ q # <<>> => /\ q \o r # <<>> /\ Head(q \o r) = Head(q)
                          /\ Tail(q \o r) = Tail(q) \o r
           /\ q \o (r \o t) = (q \o r) \o t
OBVIOUS

\* The cells of a queue are counted by the parts it is joined from.
LEMMA CellsJoin ==
    ASSUME NEW w, NEW q, NEW r, Joins(w, q, r), NEW cmd, NEW s
    PROVE  /\ CellsOf(q, cmd, s) \in Nat /\ CellsOf(r, cmd, s) \in Nat
           /\ CellsOf(w, cmd, s) = CellsOf(q, cmd, s) + CellsOf(r, cmd, s)
<1>1. PICK n \in Nat, m \in Nat : n = Len(q) /\ m = Len(r)  BY DEF Joins, IsQueue
<1>2. /\ Len(w) = n + m
      /\ \A i \in 1..n : w[i] = q[i]
      /\ \A i \in 1..m : w[n + i] = r[i]
  BY <1>1 DEF Joins
<1> DEFINE Is(c) == c.cmd = cmd /\ c.sid = s
           A == {j \in 1..n : Is(q[j])}
           B == {j \in 1..m : Is(r[j])}
           D == {j \in (n + 1)..(n + m) : Is(w[j])}
           f == [i \in B |-> n + i]
<1> HIDE DEF Is
<1>3. {j \in 1..(n + m) : Is(w[j])} = A \cup D /\ A \cap D = {}  BY <1>2
<1>4. IsFiniteSet(A) /\ IsFiniteSet(B) /\ IsFiniteSet(D)
  <2>1. A \in SUBSET (1..n) /\ B \in SUBSET (1..m) /\ D \in SUBSET ((n + 1)..(n + m))  OBVIOUS
  <2>2. IsFiniteSet(1..n) /\ IsFiniteSet(1..m) /\ IsFiniteSet((n + 1)..(n + m))  BY FS_Interval
  <2> QED BY <2>1, <2>2, FS_Subset
<1>5. \A i \in B : i \in 1..m /\ n + i \in D  BY <1>2
<1>6. \A j \in D : j - n \in B /\ n + (j - n) = j
  <2> TAKE j \in D
  <2>1. j - n \in 1..m /\ n + (j - n) = j  OBVIOUS
  <2> QED BY <1>2, <2>1
<1>7. f \in Bijection(B, D)
  <2> HIDE DEF B, D
  <2>1. f \in [B -> D]  BY <1>5
  <2>2. \A a, b \in B : f[a] = f[b] => a = b  BY <1>5
  <2>3. \A j \in D : \E a \in B : f[a] = j  BY <1>6
  <2> HIDE DEF f
  <2> QED BY <2>1, <2>2, <2>3 DEF Bijection, Injection, Surjection, IsInjective
<1>8. DOMAIN q = 1..n /\ DOMAIN r = 1..m /\ DOMAIN w = 1..(n + m)
  BY <1>1, <1>2 DEF Joins, IsQueue
<1>9. /\ CellsOf(q, cmd, s) = Cardinality(A) /\ CellsOf(r, cmd, s) = Cardinality(B)
      /\ CellsOf(w, cmd, s) = Cardinality(A \cup D)
  BY <1>3, <1>8 DEF CellsOf, Is
<1> HIDE DEF A, B, D, f
<1>10. Cardinality(B) = Cardinality(D)
  <2>1. ExistsBijection(B, D)  BY <1>7 DEF ExistsBijection
  <2> QED BY <1>4, <2>1, FS_Bijection
<1>11. Cardinality(A) \in Nat /\ Cardinality(B) \in Nat  BY <1>4, FS_CardinalityType
<1>12. Cardinality(A \cup D) = Cardinality(A) + Cardinality(D) - Cardinality(A \cap D)
  BY <1>4, FS_Union
<1>13. Cardinality(A \cap D) = 0  BY <1>3, FS_EmptySet
<1> QED BY <1>9, <1>10, <1>11, <1>12, <1>13

\* All cells of a queue are counted, or none.
LEMMA CellsUniform ==
    ASSUME NEW S, NEW q \in Seq(S), NEW cmd, NEW s
    PROVE  /\ CellsOf(q, cmd, s) \in Nat
           /\ (\A i \in 1..Len(q) : q[i].cmd = cmd /\ q[i].sid = s)
                => CellsOf(q, cmd, s) = Len(q)
           /\ (\A i \in 1..Len(q) : q[i].cmd # cmd \/ q[i].sid # s)
                => CellsOf(q, cmd, s) = 0
<1>1. PICK n \in Nat : n = Len(q) /\ DOMAIN q = 1..n  OBVIOUS
<1> DEFINE A == {i \in DOMAIN q : q[i].cmd = cmd /\ q[i].sid = s}
<1>2. IsFiniteSet(1..n) /\ Cardinality(1..n) = n
  <2>1. IsFiniteSet(1..n) /\ Cardinality(1..n) = IF 1 > n THEN 0 ELSE n - 1 + 1  BY FS_Interval
  <2> QED BY <2>1
<1>3. A \in SUBSET (1..n)  BY <1>1
<1>4. Cardinality(A) \in Nat  BY <1>2, <1>3, FS_Subset, FS_CardinalityType
<1>5. (\A i \in 1..n : q[i].cmd = cmd /\ q[i].sid = s) => A = 1..n  BY <1>1
<1>6. (\A i \in 1..n : q[i].cmd # cmd \/ q[i].sid # s) => A = {}  BY <1>1
<1>7. CellsOf(q, cmd, s) = Cardinality(A)  BY DEF CellsOf
<1> HIDE DEF A
<1> QED BY <1>1, <1>2, <1>4, <1>5, <1>6, <1>7, FS_EmptySet

\* The count over a queue of one cell.
LEMMA CellsOne ==
    ASSUME NEW S, NEW c \in S, NEW cmd, NEW s
    PROVE  /\ c.cmd = cmd /\ c.sid = s => CellsOf(<<c>>, cmd, s) = 1
           /\ c.cmd # cmd \/ c.sid # s => CellsOf(<<c>>, cmd, s) = 0
<1>1. <<c>> \in Seq(S) /\ Len(<<c>>) = 1 /\ \A i \in 1..1 : <<c>>[i] = c  OBVIOUS
<1>2. PICK q \in Seq(S) : q = <<c>> /\ Len(q) = 1 /\ \A i \in 1..1 : q[i] = c  BY <1>1
<1>3. /\ (\A i \in 1..Len(q) : q[i].cmd = cmd /\ q[i].sid = s) => CellsOf(q, cmd, s) = Len(q)
      /\ (\A i \in 1..Len(q) : q[i].cmd # cmd \/ q[i].sid # s) => CellsOf(q, cmd, s) = 0
  BY CellsUniform
<1> QED BY <1>2, <1>3

\* Appending a cell and taking the first one.
LEMMA CellsEnds ==
    ASSUME NEW S, NEW q \in Seq(S), NEW cmd, NEW s
    PROVE  /\ CellsOf(q, cmd, s) \in Nat
           /\ \A c \in S :
                /\ c.cmd = cmd /\ c.sid = s
                     => CellsOf(Append(q, c), cmd, s) = CellsOf(q, cmd, s) + 1
                /\ c.cmd # cmd \/ c.sid # s
                     => CellsOf(Append(q, c), cmd, s) = CellsOf(q, cmd, s)
           /\ q # <<>> =>
                /\ CellsOf(Tail(q), cmd, s) \in Nat
                /\ Head(q).cmd = cmd /\ Head(q).sid = s
                     => CellsOf(q, cmd, s) = CellsOf(Tail(q), cmd, s) + 1
                /\ Head(q).cmd # cmd \/ Head(q).sid # s
                     => CellsOf(q, cmd, s) = CellsOf(Tail(q), cmd, s)
<1>1. CellsOf(q, cmd, s) \in Nat  BY CellsUniform
<1>2. ASSUME NEW c \in S
      PROVE  /\ c.cmd = cmd /\ c.sid = s
                  => CellsOf(Append(q, c), cmd, s) = CellsOf(q, cmd, s) + 1
             /\ c.cmd # cmd \/ c.sid # s
                  => CellsOf(Append(q, c), cmd, s) = CellsOf(q, cmd, s)
  <2>1. PICK w \in Seq(S), r \in Seq(S) : w = Append(q, c) /\ r = <<c>> /\ Joins(w, q, r)
    BY JoinAppend
  <2>j. Joins(w, q, r)  BY <2>1
  <2>2. CellsOf(w, cmd, s) = CellsOf(q, cmd, s) + CellsOf(r, cmd, s)  BY <2>j, CellsJoin
  <2> QED BY <1>1, <2>1, <2>2, CellsOne
<1>3. ASSUME q # <<>>
      PROVE  /\ CellsOf(Tail(q), cmd, s) \in Nat
             /\ Head(q).cmd = cmd /\ Head(q).sid = s
                  => CellsOf(q, cmd, s) = CellsOf(Tail(q), cmd, s) + 1
             /\ Head(q).cmd # cmd \/ Head(q).sid # s
                  => CellsOf(q, cmd, s) = CellsOf(Tail(q), cmd, s)
  <2>1. PICK h \in S, w \in Seq(S), r \in Seq(S) :
          h = Head(q) /\ w = <<h>> /\ r = Tail(q) /\ Joins(q, w, r)
    BY <1>3, JoinTail
  <2>j. Joins(q, w, r)  BY <2>1
  <2>2. /\ CellsOf(r, cmd, s) \in Nat
        /\ CellsOf(q, cmd, s) = CellsOf(w, cmd, s) + CellsOf(r, cmd, s)
    BY <2>j, CellsJoin
  <2> QED BY <2>1, <2>2, CellsOne
<1> QED BY <1>1, <1>2, <1>3

-----------------------------------------------------------------------------
(* Numbers in line.                                                        *)

\* At the places of I the queue carries the numbers from..to-1, in order.
Line(I, v, from, to) ==
    /\ from <= to
    /\ \A i \in I : v[i] \in from..(to - 1)
    /\ \A i, j \in I : i < j => v[i] < v[j]
    /\ \A n \in from..(to - 1) : \E i \in I : v[i] = n

\* A line goes on when the next n numbers, or none, are put behind it.
LEMMA LineGrows ==
    ASSUME NEW m \in Nat, NEW k \in Nat, NEW from \in Nat, NEW to \in Int,
           NEW I \in SUBSET (1..m), NEW v, NEW J \in SUBSET (1..(m + k)), NEW u,
           Line(I, v, from, to),
           \A i \in 1..m : (i \in J <=> i \in I) /\ u[i] = v[i]
    PROVE  /\ (\A j \in 1..k : m + j \in J /\ u[m + j] = to + j - 1)
                => Line(J, u, from, to + k)
           /\ (\A j \in 1..k : m + j \notin J) => Line(J, u, from, to)
<1>0. \A i \in J : i \in 1..m \/ \E j \in 1..k : i = m + j
  <2> TAKE i \in J
  <2>1. i \in 1..m \/ (i - m \in 1..k /\ i = m + (i - m))  OBVIOUS
  <2> QED BY <2>1
<1>1. ASSUME \A j \in 1..k : m + j \in J /\ u[m + j] = to + j - 1
      PROVE  Line(J, u, from, to + k)
  <2>1. \A i \in J : u[i] \in from..(to + k - 1)
    <3> TAKE i \in J
    <3>1. CASE i \in 1..m
      BY <3>1 DEF Line
    <3>2. CASE \E j \in 1..k : i = m + j
      BY <1>1, <3>2 DEF Line
    <3> QED BY <1>0, <3>1, <3>2
  <2>2. \A i, j \in J : i < j => u[i] < u[j]
    <3> SUFFICES ASSUME NEW i \in J, NEW j \in J, i < j PROVE u[i] < u[j]
      OBVIOUS
    <3>1. CASE j \in 1..m
      <4>1. i \in 1..m  BY <3>1
      <4> QED BY <3>1, <4>1 DEF Line
    <3>2. CASE \E b \in 1..k : j = m + b
      <4>1. PICK b \in 1..k : j = m + b /\ u[j] = to + b - 1  BY <1>1, <3>2
      <4>2. CASE i \in 1..m
        <5>1. u[i] \in from..(to - 1)  BY <4>2 DEF Line
        <5> QED BY <4>1, <5>1
      <4>3. CASE \E a \in 1..k : i = m + a
        BY <1>1, <4>1, <4>3
      <4> QED BY <1>0, <4>2, <4>3
    <3> QED BY <1>0, <3>1, <3>2
  <2>3. \A n \in from..(to + k - 1) : \E i \in J : u[i] = n
    <3> TAKE n \in from..(to + k - 1)
    <3>1. CASE n < to
      <4>1. n \in from..(to - 1)  BY <3>1
      <4>2. PICK i \in I : v[i] = n  BY <4>1 DEF Line
      <4> QED BY <4>2
    <3>2. CASE n >= to
      <4>1. n - to + 1 \in 1..k  BY <3>2
      <4>2. u[m + (n - to + 1)] = to + (n - to + 1) - 1 /\ m + (n - to + 1) \in J  BY <1>1, <4>1
      <4>3. to + (n - to + 1) - 1 = n  OBVIOUS
      <4> QED BY <4>2, <4>3
    <3> QED BY <3>1, <3>2
  <2>4. from <= to + k  BY DEF Line
  <2> QED BY <2>1, <2>2, <2>3, <2>4 DEF Line
<1>2. ASSUME \A j \in 1..k : m + j \notin J
      PROVE  Line(J, u, from, to)
  <2>1. J = I  BY <1>0, <1>2
  <2>2. \A i \in I : u[i] = v[i]  OBVIOUS
  <2> QED BY <2>1, <2>2 DEF Line
<1> QED BY <1>1, <1>2

\* What is left of a line when the first cell is taken.
LEMMA LineTaken ==
    ASSUME NEW m \in Nat, NEW from \in Nat, NEW to \in Int,
           NEW I \in SUBSET (1..(m + 1)), NEW v, NEW J \in SUBSET (1..m), NEW u,
           Line(I, v, from, to),
           \A i \in 1..m : (i \in J <=> i + 1 \in I) /\ u[i] = v[i + 1]
    PROVE  /\ 1 \in I => v[1] = from /\ Line(J, u, from + 1, to)
           /\ 1 \notin I => Line(J, u, from, to)
<1>0. \A i \in I : i = 1 \/ (i - 1 \in J /\ (i - 1) + 1 = i /\ u[i - 1] = v[i])
  <2> TAKE i \in I
  <2>1. i = 1 \/ (i - 1 \in 1..m /\ (i - 1) + 1 = i)  OBVIOUS
  <2> QED BY <2>1
<1>1. ASSUME 1 \in I PROVE v[1] = from /\ Line(J, u, from + 1, to)
  <2>1. v[1] = from
    <3>1. v[1] \in from..(to - 1)  BY <1>1 DEF Line
    <3>2. from \in from..(to - 1)  BY <3>1
    <3>3. PICK i \in I : v[i] = from  BY <3>2 DEF Line
    <3>4. i = 1 \/ 1 < i  OBVIOUS
    <3>5. 1 < i => v[1] < v[i]  BY <1>1 DEF Line
    <3> QED BY <3>1, <3>3, <3>4, <3>5
  <2>2. \A i \in J : u[i] \in (from + 1)..(to - 1)
    <3> TAKE i \in J
    <3>1. i + 1 \in I /\ 1 < i + 1 /\ u[i] = v[i + 1]  OBVIOUS
    <3>2. v[1] < v[i + 1] /\ v[i + 1] \in from..(to - 1)  BY <1>1, <3>1 DEF Line
    <3> QED BY <2>1, <3>1, <3>2
  <2>3. \A i, j \in J : i < j => u[i] < u[j]
    <3> SUFFICES ASSUME NEW i \in J, NEW j \in J, i < j PROVE u[i] < u[j]
      OBVIOUS
    <3>0. i \in 1..m /\ j \in 1..m  OBVIOUS
    <3>1. i + 1 \in I /\ j + 1 \in I /\ i + 1 < j + 1 /\ u[i] = v[i + 1] /\ u[j] = v[j + 1]
      BY <3>0
    <3> QED BY <3>1 DEF Line
  <2>4. \A n \in (from + 1)..(to - 1) : \E i \in J : u[i] = n
    <3> TAKE n \in (from + 1)..(to - 1)
    <3>1. PICK i \in I : v[i] = n  BY DEF Line
    <3> QED BY <1>0, <2>1, <3>1
  <2>5. from + 1 <= to  BY <1>1 DEF Line
  <2> QED BY <2>1, <2>2, <2>3, <2>4, <2>5 DEF Line
<1>2. ASSUME 1 \notin I PROVE Line(J, u, from, to)
  <2>1. \A i \in J : u[i] \in from..(to - 1)  BY DEF Line
  <2>2. \A i, j \in J : i < j => u[i] < u[j]
    <3> SUFFICES ASSUME NEW i \in J, NEW j \in J, i < j PROVE u[i] < u[j]
      OBVIOUS
    <3>0. i \in 1..m /\ j \in 1..m  OBVIOUS
    <3>1. i + 1 \in I /\ j + 1 \in I /\ i + 1 < j + 1 /\ u[i] = v[i + 1] /\ u[j] = v[j + 1]
      BY <3>0
    <3> QED BY <3>1 DEF Line
  <2>3. \A n \in from..(to - 1) : \E i \in J : u[i] = n
    <3> TAKE n \in from..(to - 1)
    <3>1. PICK i \in I : v[i] = n  BY DEF Line
    <3> QED BY <1>0, <1>2, <3>1
  <2> QED BY <2>1, <2>2, <2>3 DEF Line
<1> QED BY <1>1, <1>2

-----------------------------------------------------------------------------
(* To the service: the inductive invariant.                                *)

\* k increments.
Times(k) == Increment * k

Target == [open : BOOLEAN, del : Nat, got : Seq(Nat)]

\* Where the sealed cells of a queue are, and those of one stream, and the
\* numbers they carry.
DataAt(W) == {i \in DOMAIN W : W[i].cmd = "DATA"}
DataOf(W, s) == {i \in DOMAIN W : W[i].cmd = "DATA" /\ W[i].sid = s}
Nonces(W) == [i \in DOMAIN W |-> W[i].data.nonce]
Seqs(W) == [i \in DOMAIN W |-> W[i].data.seq]
HasBegin(W, s) == \E i \in DOMAIN W : W[i].cmd = "BEGIN" /\ W[i].sid = s

\* Cells are of streams that were opened, BEGIN is a stream's first cell, and
\* END is only sent of a stream that the client has closed.
WayOk(cs, W) ==
    \A i \in DOMAIN W :
      /\ cs[W[i].sid].st # "unused"
      /\ W[i].cmd = "END" => cs[W[i].sid].st = "closed"
      /\ W[i].cmd = "BEGIN" => \A j \in 1..(i - 1) : W[j].sid # W[i].sid

\* What holds of stream s whatever becomes of the circuit.
Bounded(c, t) ==
    /\ c.pkg \in 0..StreamWindow /\ t.del \in 0..StreamWindow
    /\ c.lost = 0 => \A i \in 1..Len(t.got) : t.got[i] = i

\* The client's end of a stream.
Kept(c) ==
    /\ Len(c.kept) \in {0, 1}
    /\ c.st = "unused" => c.pkg = StreamWindow /\ c.next = 1 /\ c.kept = <<>>

\* Its credit: d cells and a SENDMEs are on their way, and b says whether the
\* BEGIN is.
Credit(c, t, b, d, a) ==
    /\ t.open => StreamWindow - Increment < t.del
    /\ c.st = "unused" => ~t.open /\ t.got = <<>> /\ a = 0
    /\ b => ~t.open /\ t.got = <<>>
    /\ c.st = "open" /\ b => c.pkg + d = StreamWindow
    /\ c.st = "open" /\ t.open => c.pkg + d + (StreamWindow - t.del) + Times(a) = StreamWindow
    /\ c.st = "open" /\ ~t.open => a = 0

\* Its chunks, as long as none was left behind.
Ordered(c, t, b, I, v) ==
    c.lost = 0 =>
      /\ t.open \/ b \/ c.st = "unused" => Line(I, v, Len(t.got) + 1, c.next - Len(c.kept))
      /\ Len(c.kept) = 1 => c.kept[1].seq = c.next - 1

StreamOk(s, c, t, W, a) ==
    /\ Bounded(c, t) /\ Kept(c)
    /\ Credit(c, t, HasBegin(W, s), CellsOf(W, "DATA", s), a)
    /\ Ordered(c, t, HasBegin(W, s), DataOf(W, s), Seqs(W))

\* The nonces, as long as one stream is used and no chunk was passed over.
Unused(cs) == \A s \in Streams : cs[s].st = "unused"
Alone(cs) ==
    /\ \A s, r \in Streams : cs[s].st # "unused" /\ cs[r].st # "unused" => s = r
    /\ \A s \in Streams : ~cs[s].late
Sealing(c, W, send, recv) ==
    /\ Line(DataAt(W), Nonces(W), recv, send - Len(c.kept))
    /\ Len(c.kept) = 1 => c.kept[1].nonce = send - 1
NoncesOk(cs, W, send, recv) ==
    /\ Unused(cs) => send = recv
    /\ Alone(cs) => \A s \in Streams : cs[s].st # "unused" => Sealing(cs[s], W, send, recv)

\* All of it, with A[s] the SENDMEs of stream s on their way.
Core(cs, ts, W, A, send, recv) ==
    /\ WayOk(cs, W)
    /\ \A s \in Streams : StreamOk(s, cs[s], ts[s], W, A[s])
    /\ NoncesOk(cs, W, send, recv)

Acks(q, r) == [s \in Streams |-> CellsOf(q, "SENDME", s) + CellsOf(r, "SENDME", s)]

InTypes ==
    /\ circ_package_window \in 0..CircWindow
    /\ clients \in [Streams -> Client] /\ targets \in [Streams -> Target]
    /\ rp_deliver_window \in (CircWindow - Increment + 1)..CircWindow
    /\ e2e_send_nonce \in Nat /\ e2e_recv_nonce \in Nat /\ closed \in BOOLEAN
    /\ c2rp \in Seq(FwdCell) /\ rp2hs \in Seq(FwdCell)
    /\ hs2rp \in Seq(SvcCell) /\ rp2c \in Seq(BackCell)

InInv ==
    /\ InTypes
    /\ \A s \in Streams : Bounded(clients[s], targets[s])
    /\ closed => ~Alone(clients) \/ Way = <<>>
    /\ ~closed => Core(clients, targets, Way, Acks(hs2rp, rp2c), e2e_send_nonce, e2e_recv_nonce)

-----------------------------------------------------------------------------
(* What the way carries when cells are put behind it or taken off it.      *)

\* Cells R are put behind W.
LEMMA WayGrown ==
    ASSUME NEW W, NEW R, NEW W2, Joins(W2, W, R), NEW s, NEW from \in Nat, NEW to \in Int
    PROVE  /\ HasBegin(W2, s) <=> HasBegin(W, s) \/ HasBegin(R, s)
           /\ Line(DataOf(W, s), Seqs(W), from, to) =>
                /\ (\A j \in 1..Len(R) : R[j].cmd = "DATA" /\ R[j].sid = s
                                         /\ R[j].data.seq = to + j - 1)
                     => Line(DataOf(W2, s), Seqs(W2), from, to + Len(R))
                /\ (\A j \in 1..Len(R) : R[j].cmd # "DATA" \/ R[j].sid # s)
                     => Line(DataOf(W2, s), Seqs(W2), from, to)
           /\ Line(DataAt(W), Nonces(W), from, to) =>
                /\ (\A j \in 1..Len(R) : R[j].cmd = "DATA" /\ R[j].data.nonce = to + j - 1)
                     => Line(DataAt(W2), Nonces(W2), from, to + Len(R))
                /\ (\A j \in 1..Len(R) : R[j].cmd # "DATA")
                     => Line(DataAt(W2), Nonces(W2), from, to)
<1>1. PICK m \in Nat, k \in Nat : m = Len(W) /\ k = Len(R)  BY DEF Joins, IsQueue
<1>2. /\ DOMAIN W = 1..m /\ DOMAIN R = 1..k /\ DOMAIN W2 = 1..(m + k)
      /\ \A i \in 1..m : W2[i] = W[i]
      /\ \A j \in 1..k : W2[m + j] = R[j]
  BY <1>1 DEF Joins, IsQueue
<1>3. /\ \A i \in 1..m : i \in 1..(m + k)
      /\ \A j \in 1..k : m + j \in 1..(m + k)
      /\ \A i \in 1..(m + k) : i \in 1..m \/ (i - m \in 1..k /\ i = m + (i - m))
  OBVIOUS
<1>4. HasBegin(W2, s) <=> HasBegin(W, s) \/ HasBegin(R, s)
  <2>1. HasBegin(W2, s) => HasBegin(W, s) \/ HasBegin(R, s)
    <3> SUFFICES ASSUME NEW i \in 1..(m + k), W2[i].cmd = "BEGIN", W2[i].sid = s
                 PROVE  HasBegin(W, s) \/ HasBegin(R, s)
      BY <1>2 DEF HasBegin
    <3>1. CASE i \in 1..m
      BY <1>2, <3>1 DEF HasBegin
    <3>2. CASE i - m \in 1..k /\ i = m + (i - m)
      <4>1. W2[i] = R[i - m]  BY <1>2, <3>2
      <4> QED BY <1>2, <3>2, <4>1 DEF HasBegin
    <3> QED BY <1>3, <3>1, <3>2
  <2>2. HasBegin(W, s) => HasBegin(W2, s)  BY <1>2, <1>3 DEF HasBegin
  <2>3. HasBegin(R, s) => HasBegin(W2, s)
    <3> SUFFICES ASSUME NEW j \in 1..k, R[j].cmd = "BEGIN", R[j].sid = s
                 PROVE  HasBegin(W2, s)
      BY <1>2 DEF HasBegin
    <3>1. m + j \in DOMAIN W2 /\ W2[m + j] = R[j]  BY <1>2, <1>3
    <3> QED BY <3>1 DEF HasBegin
  <2> QED BY <2>1, <2>2, <2>3
<1>5. ASSUME Line(DataOf(W, s), Seqs(W), from, to)
      PROVE  /\ (\A j \in 1..k : R[j].cmd = "DATA" /\ R[j].sid = s
                                 /\ R[j].data.seq = to + j - 1)
                  => Line(DataOf(W2, s), Seqs(W2), from, to + k)
             /\ (\A j \in 1..k : R[j].cmd # "DATA" \/ R[j].sid # s)
                  => Line(DataOf(W2, s), Seqs(W2), from, to)
  <2>1. DataOf(W, s) \in SUBSET (1..m) /\ DataOf(W2, s) \in SUBSET (1..(m + k))
    BY <1>2 DEF DataOf
  <2>2. \A i \in 1..m : (i \in DataOf(W2, s) <=> i \in DataOf(W, s)) /\ Seqs(W2)[i] = Seqs(W)[i]
    BY <1>2, <1>3 DEF DataOf, Seqs
  <2>3. \A j \in 1..k : /\ m + j \in DataOf(W2, s) <=> R[j].cmd = "DATA" /\ R[j].sid = s
                        /\ Seqs(W2)[m + j] = R[j].data.seq
    BY <1>2, <1>3 DEF DataOf, Seqs
  <2>v. PICK v, u : v = Seqs(W) /\ u = Seqs(W2)  OBVIOUS
  <2>4. PICK I \in SUBSET (1..m), J \in SUBSET (1..(m + k)) : I = DataOf(W, s) /\ J = DataOf(W2, s)
    BY <2>1
  <2>5. Line(I, v, from, to) /\ \A i \in 1..m : (i \in J <=> i \in I) /\ u[i] = v[i]
    BY <1>5, <2>v, <2>2, <2>4
  <2>6. /\ (\A j \in 1..k : m + j \in J /\ u[m + j] = to + j - 1) => Line(J, u, from, to + k)
        /\ (\A j \in 1..k : m + j \notin J) => Line(J, u, from, to)
    BY <2>5, LineGrows
  <2> QED BY <2>v, <2>3, <2>4, <2>6
<1>6. ASSUME Line(DataAt(W), Nonces(W), from, to)
      PROVE  /\ (\A j \in 1..k : R[j].cmd = "DATA" /\ R[j].data.nonce = to + j - 1)
                  => Line(DataAt(W2), Nonces(W2), from, to + k)
             /\ (\A j \in 1..k : R[j].cmd # "DATA")
                  => Line(DataAt(W2), Nonces(W2), from, to)
  <2>1. DataAt(W) \in SUBSET (1..m) /\ DataAt(W2) \in SUBSET (1..(m + k))  BY <1>2 DEF DataAt
  <2>2. \A i \in 1..m : (i \in DataAt(W2) <=> i \in DataAt(W)) /\ Nonces(W2)[i] = Nonces(W)[i]
    BY <1>2, <1>3 DEF DataAt, Nonces
  <2>3. \A j \in 1..k : /\ m + j \in DataAt(W2) <=> R[j].cmd = "DATA"
                        /\ Nonces(W2)[m + j] = R[j].data.nonce
    BY <1>2, <1>3 DEF DataAt, Nonces
  <2>v. PICK v, u : v = Nonces(W) /\ u = Nonces(W2)  OBVIOUS
  <2>4. PICK I \in SUBSET (1..m), J \in SUBSET (1..(m + k)) : I = DataAt(W) /\ J = DataAt(W2)
    BY <2>1
  <2>5. Line(I, v, from, to) /\ \A i \in 1..m : (i \in J <=> i \in I) /\ u[i] = v[i]
    BY <1>6, <2>v, <2>2, <2>4
  <2>6. /\ (\A j \in 1..k : m + j \in J /\ u[m + j] = to + j - 1) => Line(J, u, from, to + k)
        /\ (\A j \in 1..k : m + j \notin J) => Line(J, u, from, to)
    BY <2>5, LineGrows
  <2> QED BY <2>v, <2>3, <2>4, <2>6
<1> QED BY <1>1, <1>4, <1>5, <1>6

\* Cell h is taken off the front of W.
LEMMA WayTaken ==
    ASSUME NEW W, NEW h, NEW W2, Joins(W, <<h>>, W2), NEW s, NEW from \in Nat, NEW to \in Int
    PROVE  /\ HasBegin(W, s) <=> (h.cmd = "BEGIN" /\ h.sid = s) \/ HasBegin(W2, s)
           /\ Line(DataOf(W, s), Seqs(W), from, to) =>
                /\ h.cmd = "DATA" /\ h.sid = s
                     => h.data.seq = from /\ Line(DataOf(W2, s), Seqs(W2), from + 1, to)
                /\ h.cmd # "DATA" \/ h.sid # s => Line(DataOf(W2, s), Seqs(W2), from, to)
           /\ Line(DataAt(W), Nonces(W), from, to) =>
                /\ h.cmd = "DATA"
                     => h.data.nonce = from /\ Line(DataAt(W2), Nonces(W2), from + 1, to)
                /\ h.cmd # "DATA" => Line(DataAt(W2), Nonces(W2), from, to)
<1>1. PICK m \in Nat : m = Len(W2)  BY DEF Joins, IsQueue
<1>0. Len(<<h>>) = 1 /\ \A i \in 1..1 : <<h>>[i] = h  OBVIOUS
<1>2. /\ DOMAIN W = 1..(m + 1) /\ DOMAIN W2 = 1..m
      /\ W[1] = h
      /\ \A i \in 1..m : W[i + 1] = W2[i]
  <2>1. Len(W) = 1 + m  BY <1>0, <1>1 DEF Joins
  <2>2. DOMAIN W = 1..(m + 1) /\ DOMAIN W2 = 1..m  BY <1>1, <2>1 DEF Joins, IsQueue
  <2>3. W[1] = h  BY <1>0 DEF Joins
  <2>4. \A i \in 1..m : W[1 + i] = W2[i]  BY <1>0, <1>1 DEF Joins
  <2> QED BY <2>2, <2>3, <2>4
<1>3. /\ 1 \in 1..(m + 1)
      /\ \A i \in 1..m : i + 1 \in 1..(m + 1)
      /\ \A i \in 1..(m + 1) : i = 1 \/ (i - 1 \in 1..m /\ i = (i - 1) + 1)
  OBVIOUS
<1>4. HasBegin(W, s) <=> (h.cmd = "BEGIN" /\ h.sid = s) \/ HasBegin(W2, s)
  <2>1. HasBegin(W, s) => (h.cmd = "BEGIN" /\ h.sid = s) \/ HasBegin(W2, s)
    <3> SUFFICES ASSUME NEW i \in 1..(m + 1), W[i].cmd = "BEGIN", W[i].sid = s
                 PROVE  (h.cmd = "BEGIN" /\ h.sid = s) \/ HasBegin(W2, s)
      BY <1>2 DEF HasBegin
    <3>1. CASE i = 1
      BY <1>2, <3>1
    <3>2. CASE i - 1 \in 1..m /\ i = (i - 1) + 1
      <4>1. W[i] = W2[i - 1]  BY <1>2, <3>2
      <4> QED BY <1>2, <3>2, <4>1 DEF HasBegin
    <3> QED BY <1>3, <3>1, <3>2
  <2>2. h.cmd = "BEGIN" /\ h.sid = s => HasBegin(W, s)  BY <1>2, <1>3 DEF HasBegin
  <2>3. HasBegin(W2, s) => HasBegin(W, s)
    <3> SUFFICES ASSUME NEW j \in 1..m, W2[j].cmd = "BEGIN", W2[j].sid = s
                 PROVE  HasBegin(W, s)
      BY <1>2 DEF HasBegin
    <3>1. j + 1 \in DOMAIN W /\ W[j + 1] = W2[j]  BY <1>2, <1>3
    <3> QED BY <3>1 DEF HasBegin
  <2> QED BY <2>1, <2>2, <2>3
<1>5. ASSUME Line(DataOf(W, s), Seqs(W), from, to)
      PROVE  /\ h.cmd = "DATA" /\ h.sid = s
                  => h.data.seq = from /\ Line(DataOf(W2, s), Seqs(W2), from + 1, to)
             /\ h.cmd # "DATA" \/ h.sid # s => Line(DataOf(W2, s), Seqs(W2), from, to)
  <2>1. DataOf(W, s) \in SUBSET (1..(m + 1)) /\ DataOf(W2, s) \in SUBSET (1..m)
    BY <1>2 DEF DataOf
  <2>2. \A i \in 1..m : (i \in DataOf(W2, s) <=> i + 1 \in DataOf(W, s))
                        /\ Seqs(W2)[i] = Seqs(W)[i + 1]
    BY <1>2, <1>3 DEF DataOf, Seqs
  <2>3. (1 \in DataOf(W, s) <=> h.cmd = "DATA" /\ h.sid = s) /\ Seqs(W)[1] = h.data.seq
    BY <1>2, <1>3 DEF DataOf, Seqs
  <2>v. PICK v, u : v = Seqs(W) /\ u = Seqs(W2)  OBVIOUS
  <2>4. PICK I \in SUBSET (1..(m + 1)), J \in SUBSET (1..m) : I = DataOf(W, s) /\ J = DataOf(W2, s)
    BY <2>1
  <2>5. Line(I, v, from, to) /\ \A i \in 1..m : (i \in J <=> i + 1 \in I) /\ u[i] = v[i + 1]
    BY <1>5, <2>v, <2>2, <2>4
  <2>6. /\ 1 \in I => v[1] = from /\ Line(J, u, from + 1, to)
        /\ 1 \notin I => Line(J, u, from, to)
    BY <2>5, LineTaken
  <2> QED BY <2>v, <2>3, <2>4, <2>6
<1>6. ASSUME Line(DataAt(W), Nonces(W), from, to)
      PROVE  /\ h.cmd = "DATA"
                  => h.data.nonce = from /\ Line(DataAt(W2), Nonces(W2), from + 1, to)
             /\ h.cmd # "DATA" => Line(DataAt(W2), Nonces(W2), from, to)
  <2>1. DataAt(W) \in SUBSET (1..(m + 1)) /\ DataAt(W2) \in SUBSET (1..m)  BY <1>2 DEF DataAt
  <2>2. \A i \in 1..m : (i \in DataAt(W2) <=> i + 1 \in DataAt(W))
                        /\ Nonces(W2)[i] = Nonces(W)[i + 1]
    BY <1>2, <1>3 DEF DataAt, Nonces
  <2>3. (1 \in DataAt(W) <=> h.cmd = "DATA") /\ Nonces(W)[1] = h.data.nonce
    BY <1>2, <1>3 DEF DataAt, Nonces
  <2>v. PICK v, u : v = Nonces(W) /\ u = Nonces(W2)  OBVIOUS
  <2>4. PICK I \in SUBSET (1..(m + 1)), J \in SUBSET (1..m) : I = DataAt(W) /\ J = DataAt(W2)
    BY <2>1
  <2>5. Line(I, v, from, to) /\ \A i \in 1..m : (i \in J <=> i + 1 \in I) /\ u[i] = v[i + 1]
    BY <1>6, <2>v, <2>2, <2>4
  <2>6. /\ 1 \in I => v[1] = from /\ Line(J, u, from + 1, to)
        /\ 1 \notin I => Line(J, u, from, to)
    BY <2>5, LineTaken
  <2> QED BY <2>v, <2>3, <2>4, <2>6
<1> QED BY <1>4, <1>5, <1>6

\* Multiples of the increment.
LEMMA TimesStep ==
    ASSUME NEW k \in Nat
    PROVE  Times(k) \in Nat /\ Times(k + 1) = Times(k) + Increment /\ Times(0) = 0
BY RendezvousAssumption DEF Times

\* A stream sees of the way its own BEGIN, and its sealed cells.
LEMMA StreamSame ==
    ASSUME NEW r, NEW c \in Client, NEW t \in Target, NEW W, NEW W2, NEW a,
           StreamOk(r, c, t, W, a),
           HasBegin(W2, r) <=> HasBegin(W, r),
           CellsOf(W2, "DATA", r) = CellsOf(W, "DATA", r),
           \A from \in Nat, to \in Int :
             Line(DataOf(W, r), Seqs(W), from, to) => Line(DataOf(W2, r), Seqs(W2), from, to)
    PROVE  StreamOk(r, c, t, W2, a)
<1>1. Len(t.got) + 1 \in Nat /\ c.next - Len(c.kept) \in Int  BY DEF Client, Target
<1>2. Ordered(c, t, HasBegin(W2, r), DataOf(W2, r), Seqs(W2))  BY <1>1 DEF StreamOk, Ordered
<1>3. Credit(c, t, HasBegin(W2, r), CellsOf(W2, "DATA", r), a)  BY DEF StreamOk, Credit
<1> QED BY <1>2, <1>3 DEF StreamOk

\* Cells of one stream put behind the way are nothing to another stream.
LEMMA OtherGrown ==
    ASSUME NEW W, NEW R, NEW W2, Joins(W2, W, R), NEW s, \A j \in 1..Len(R) : R[j].sid = s,
           NEW r, r # s, NEW c \in Client, NEW t \in Target, NEW a, StreamOk(r, c, t, W, a)
    PROVE  StreamOk(r, c, t, W2, a)
<1>1. DOMAIN R = 1..Len(R) /\ Len(R) \in Nat  BY DEF Joins, IsQueue
<1>2. \A j \in 1..Len(R) : R[j].sid # r  OBVIOUS
<1>3. ~HasBegin(R, r)  BY <1>1, <1>2 DEF HasBegin
<1>4. CellsOf(R, "DATA", r) = 0
  <2>1. {i \in DOMAIN R : R[i].cmd = "DATA" /\ R[i].sid = r} = {}  BY <1>1, <1>2
  <2> QED BY <2>1, FS_EmptySet DEF CellsOf
<1>5. CellsOf(W2, "DATA", r) = CellsOf(W, "DATA", r)
  <2>1. /\ CellsOf(W, "DATA", r) \in Nat
        /\ CellsOf(W2, "DATA", r) = CellsOf(W, "DATA", r) + CellsOf(R, "DATA", r)
    BY CellsJoin
  <2> QED BY <1>4, <2>1
<1>6. HasBegin(W2, r) <=> HasBegin(W, r)
  <2>1. 0 \in Nat /\ 0 \in Int  OBVIOUS
  <2>2. HasBegin(W2, r) <=> HasBegin(W, r) \/ HasBegin(R, r)  BY <2>1, WayGrown
  <2> QED BY <1>3, <2>2
<1>7. \A from \in Nat, to \in Int :
        Line(DataOf(W, r), Seqs(W), from, to) => Line(DataOf(W2, r), Seqs(W2), from, to)
  BY <1>2, WayGrown
<1> QED BY <1>5, <1>6, <1>7, StreamSame

\* Nor is a cell of one stream that is taken.
LEMMA OtherTaken ==
    ASSUME NEW W, NEW h, NEW W2, Joins(W, <<h>>, W2),
           NEW r, r # h.sid, NEW c \in Client, NEW t \in Target, NEW a, StreamOk(r, c, t, W, a)
    PROVE  StreamOk(r, c, t, W2, a)
<1>1. CellsOf(W2, "DATA", r) = CellsOf(W, "DATA", r)
  <2>1. /\ CellsOf(W2, "DATA", r) \in Nat
        /\ CellsOf(W, "DATA", r) = CellsOf(<<h>>, "DATA", r) + CellsOf(W2, "DATA", r)
    BY CellsJoin
  <2>2. CellsOf(<<h>>, "DATA", r) = 0
    <3>1. h \in {h}  OBVIOUS
    <3> QED BY <3>1, CellsOne
  <2> QED BY <2>1, <2>2
<1>2. HasBegin(W2, r) <=> HasBegin(W, r)
  <2>1. 0 \in Nat /\ 0 \in Int  OBVIOUS
  <2>2. HasBegin(W, r) <=> (h.cmd = "BEGIN" /\ h.sid = r) \/ HasBegin(W2, r)  BY <2>1, WayTaken
  <2> QED BY <2>2
<1>3. \A from \in Nat, to \in Int :
        Line(DataOf(W, r), Seqs(W), from, to) => Line(DataOf(W2, r), Seqs(W2), from, to)
  BY WayTaken
<1> QED BY <1>1, <1>2, <1>3, StreamSame

\* The way stays in order when its first cell is taken.
LEMMA WayOkTaken ==
    ASSUME NEW cs, NEW W, NEW h, NEW W2, Joins(W, <<h>>, W2), WayOk(cs, W)
    PROVE  /\ WayOk(cs, W2)
           /\ cs[h.sid].st # "unused"
           /\ h.cmd = "END" => cs[h.sid].st = "closed"
           /\ HasBegin(W2, h.sid) => FALSE
<1>0. Len(<<h>>) = 1 /\ \A i \in 1..1 : <<h>>[i] = h  OBVIOUS
<1>1. PICK m \in Nat : m = Len(W2)  BY DEF Joins, IsQueue
<1>2. /\ DOMAIN W = 1..(m + 1) /\ DOMAIN W2 = 1..m
      /\ W[1] = h
      /\ \A i \in 1..m : W[i + 1] = W2[i]
  <2>1. Len(W) = 1 + m  BY <1>0, <1>1 DEF Joins
  <2>2. DOMAIN W = 1..(m + 1) /\ DOMAIN W2 = 1..m  BY <1>1, <2>1 DEF Joins, IsQueue
  <2>3. W[1] = h  BY <1>0 DEF Joins
  <2>4. \A i \in 1..m : W[1 + i] = W2[i]  BY <1>0, <1>1 DEF Joins
  <2> QED BY <2>2, <2>3, <2>4
<1>3. 1 \in 1..(m + 1) /\ \A i \in 1..m : i + 1 \in 1..(m + 1)  OBVIOUS
<1>4. /\ cs[h.sid].st # "unused"
      /\ h.cmd = "END" => cs[h.sid].st = "closed"
  BY <1>2, <1>3 DEF WayOk
<1>5. ASSUME NEW i \in 1..m
      PROVE  /\ cs[W2[i].sid].st # "unused"
             /\ W2[i].cmd = "END" => cs[W2[i].sid].st = "closed"
             /\ W2[i].cmd = "BEGIN" => W2[i].sid # h.sid
             /\ W2[i].cmd = "BEGIN" => \A j \in 1..(i - 1) : W2[j].sid # W2[i].sid
  <2>1. i + 1 \in DOMAIN W /\ W[i + 1] = W2[i]  BY <1>2, <1>3
  <2>2. /\ cs[W2[i].sid].st # "unused"
        /\ W2[i].cmd = "END" => cs[W2[i].sid].st = "closed"
        /\ W2[i].cmd = "BEGIN" => \A j \in 1..((i + 1) - 1) : W[j].sid # W2[i].sid
    BY <2>1 DEF WayOk
  <2>3. ASSUME W2[i].cmd = "BEGIN", NEW j \in 1..(i - 1) PROVE W2[j].sid # W2[i].sid
    <3>1. j + 1 \in 1..((i + 1) - 1) /\ W[j + 1] = W2[j]  BY <1>2
    <3> QED BY <2>2, <2>3, <3>1
  <2>4. 1 \in 1..((i + 1) - 1)  OBVIOUS
  <2> QED BY <1>2, <2>2, <2>3, <2>4
<1>6. WayOk(cs, W2)  BY <1>2, <1>5 DEF WayOk
<1>7. ~HasBegin(W2, h.sid)  BY <1>2, <1>5 DEF HasBegin
<1> QED BY <1>4, <1>6, <1>7

\* While no stream is used nothing is on the way, and of an unused stream
\* nothing ever is.
LEMMA NothingUnused ==
    ASSUME NEW cs, NEW W \in Seq(FwdCell), WayOk(cs, W)
    PROVE  /\ Unused(cs) => W = <<>> /\ DataAt(W) = {}
           /\ \A s : cs[s].st = "unused" => ~HasBegin(W, s) /\ CellsOf(W, "DATA", s) = 0
<1>1. PICK m \in Nat : m = Len(W) /\ DOMAIN W = 1..m  OBVIOUS
<1>2. \A i \in 1..m : W[i].sid \in Streams
  <2>1. \A i \in 1..m : W[i] \in FwdCell  BY <1>1
  <2> QED BY <2>1 DEF FwdCell
<1>3. ASSUME Unused(cs) PROVE W = <<>> /\ DataAt(W) = {}
  <2>1. \A i \in 1..m : FALSE  BY <1>1, <1>2, <1>3 DEF WayOk, Unused
  <2>2. m = 0  BY <2>1
  <2>3. DataAt(W) = {}  BY <1>1, <2>1 DEF DataAt
  <2> QED BY <1>1, <2>2, <2>3
<1>4. ASSUME NEW s, cs[s].st = "unused" PROVE ~HasBegin(W, s) /\ CellsOf(W, "DATA", s) = 0
  <2>1. \A i \in DOMAIN W : W[i].sid # s  BY <1>4 DEF WayOk
  <2>2. ~HasBegin(W, s)  BY <2>1 DEF HasBegin
  <2>3. {i \in DOMAIN W : W[i].cmd = "DATA" /\ W[i].sid = s} = {}  BY <2>1
  <2> QED BY <2>2, <2>3, FS_EmptySet DEF CellsOf
<1> QED BY <1>3, <1>4

-----------------------------------------------------------------------------
(* The client's steps.                                                     *)

\* The client may put cells R of stream s behind the way when only that stream
\* changes, from cs to cs2: cells of an open stream, a first BEGIN, a last END.
Sends(cs, cs2, s, R) ==
    /\ s \in Streams
    /\ cs \in [Streams -> Client] /\ cs2 \in [Streams -> Client]
    /\ \A r \in Streams : r # s => cs2[r] = cs[r]
    /\ cs2[s].st # "unused" /\ (cs[s].st = "closed" => cs2[s].st = "closed")
    /\ cs[s].late => cs2[s].late
    /\ \A j \in 1..Len(R) :
         /\ R[j].sid = s
         /\ R[j].cmd = "END" => cs2[s].st = "closed"
         /\ R[j].cmd = "BEGIN" => Len(R) = 1 /\ cs[s].st = "unused"

\* The way stays in order.
LEMMA WayOkGrown ==
    ASSUME NEW cs, NEW cs2, NEW s, NEW R, Sends(cs, cs2, s, R),
           NEW W \in Seq(FwdCell), NEW W2, Joins(W2, W, R), WayOk(cs, W)
    PROVE  WayOk(cs2, W2)
<1>0. \A r \in Streams : /\ cs[r].st # "unused" => cs2[r].st # "unused"
                         /\ cs[r].st = "closed" => cs2[r].st = "closed"
  BY DEF Sends
<1>1. PICK m \in Nat, k \in Nat : m = Len(W) /\ k = Len(R)  BY DEF Joins, IsQueue
<1>2. /\ DOMAIN W = 1..m /\ DOMAIN R = 1..k /\ DOMAIN W2 = 1..(m + k)
      /\ \A i \in 1..m : W2[i] = W[i]
      /\ \A j \in 1..k : W2[m + j] = R[j]
  BY <1>1 DEF Joins, IsQueue
<1>3. \A i \in 1..m : W[i].sid \in Streams
  <2>1. \A i \in 1..m : W[i] \in FwdCell  BY <1>1
  <2> QED BY <2>1 DEF FwdCell
<1> SUFFICES ASSUME NEW i \in 1..(m + k)
             PROVE  /\ cs2[W2[i].sid].st # "unused"
                    /\ W2[i].cmd = "END" => cs2[W2[i].sid].st = "closed"
                    /\ W2[i].cmd = "BEGIN" => \A j \in 1..(i - 1) : W2[j].sid # W2[i].sid
  BY <1>2 DEF WayOk
<1>4. CASE i \in 1..m
  <2>1. /\ cs[W[i].sid].st # "unused"
        /\ W[i].cmd = "END" => cs[W[i].sid].st = "closed"
        /\ W[i].cmd = "BEGIN" => \A j \in 1..(i - 1) : W[j].sid # W[i].sid
    BY <1>2, <1>4 DEF WayOk
  <2>2. W2[i] = W[i] /\ \A j \in 1..(i - 1) : W2[j] = W[j]  BY <1>2, <1>4
  <2>3. /\ cs2[W[i].sid].st # "unused"
        /\ cs[W[i].sid].st = "closed" => cs2[W[i].sid].st = "closed"
    <3>1. PICK r \in Streams : r = W[i].sid  BY <1>3, <1>4
    <3>2. cs[r].st # "unused"  BY <2>1, <3>1
    <3>3. cs2[r].st # "unused" /\ (cs[r].st = "closed" => cs2[r].st = "closed")  BY <1>0, <3>2
    <3> QED BY <3>1, <3>3
  <2> QED BY <2>1, <2>2, <2>3
<1>5. CASE i - m \in 1..k /\ i = m + (i - m)
  <2>1. PICK j \in 1..k : i = m + j /\ W2[i] = R[j]  BY <1>2, <1>5
  <2>2. /\ R[j].sid = s
        /\ R[j].cmd = "END" => cs2[s].st = "closed"
        /\ R[j].cmd = "BEGIN" => k = 1 /\ cs[s].st = "unused"
        /\ cs2[s].st # "unused"
    BY <1>1 DEF Sends
  <2>3. ASSUME R[j].cmd = "BEGIN", NEW b \in 1..(i - 1) PROVE W2[b].sid # s
    <3>1. k = 1 /\ j = 1 /\ b \in 1..m  BY <2>1, <2>2, <2>3
    <3>2. W2[b] = W[b] /\ cs[W[b].sid].st # "unused"  BY <1>2, <3>1 DEF WayOk
    <3> QED BY <2>2, <2>3, <3>2
  <2> QED BY <2>1, <2>2, <2>3
<1>6. i \in 1..m \/ (i - m \in 1..k /\ i = m + (i - m))  OBVIOUS
<1> QED BY <1>4, <1>5, <1>6

\* The other streams see nothing of it.
LEMMA OthersGrown ==
    ASSUME NEW cs, NEW cs2, NEW s, NEW R, Sends(cs, cs2, s, R),
           NEW ts \in [Streams -> Target], NEW A, NEW W, NEW W2, Joins(W2, W, R),
           \A r \in Streams : StreamOk(r, cs[r], ts[r], W, A[r])
    PROVE  \A r \in Streams : r # s => StreamOk(r, cs2[r], ts[r], W2, A[r])
<1> SUFFICES ASSUME NEW r \in Streams, r # s PROVE StreamOk(r, cs2[r], ts[r], W2, A[r])
  OBVIOUS
<1>1. /\ cs2[r] = cs[r] /\ cs[r] \in Client /\ ts[r] \in Target
      /\ \A j \in 1..Len(R) : R[j].sid = s
  BY DEF Sends
<1>2. StreamOk(r, cs[r], ts[r], W, A[r])  OBVIOUS
<1>3. StreamOk(r, cs[r], ts[r], W2, A[r])  BY <1>1, <1>2, OtherGrown
<1> QED BY <1>1, <1>3

\* A line without cells.
LEMMA LineEmpty ==
    ASSUME NEW from \in Int, NEW v
    PROVE  Line({}, v, from, from)
BY DEF Line

\* If stream s is the only one used, its chunks were sealed in line before.
LEMMA SealedBefore ==
    ASSUME NEW cs, NEW cs2, NEW s, NEW R, Sends(cs, cs2, s, R),
           NEW ts, NEW A, NEW send \in Nat, NEW recv \in Nat,
           NEW W \in Seq(FwdCell), Core(cs, ts, W, A, send, recv), Alone(cs2)
    PROVE  Sealing(cs[s], W, send, recv)
<1>1. /\ Alone(cs) /\ s \in Streams
      /\ cs[s].st = "unused" => Unused(cs)
  BY DEF Alone, Unused, Sends
<1>2. WayOk(cs, W) /\ NoncesOk(cs, W, send, recv)  BY DEF Core
<1>3. CASE cs[s].st # "unused"
  BY <1>1, <1>2, <1>3 DEF NoncesOk
<1>4. CASE cs[s].st = "unused"
  <2>1. send = recv /\ DataAt(W) = {}
    <3>1. Unused(cs)  BY <1>1, <1>4
    <3>2. DataAt(W) = {}  BY <1>2, <3>1, NothingUnused
    <3> QED BY <1>2, <3>1, <3>2 DEF NoncesOk
  <2>2. Len(cs[s].kept) = 0
    <3>1. Kept(cs[s])  BY <1>1 DEF Core, StreamOk
    <3>2. cs[s].kept = <<>>  BY <1>4, <3>1 DEF Kept
    <3> QED BY <3>2
  <2>3. Line({}, Nonces(W), recv, recv)  BY LineEmpty
  <2>4. send - Len(cs[s].kept) = recv  BY <2>1, <2>2
  <2> QED BY <2>1, <2>2, <2>3, <2>4 DEF Sealing
<1> QED BY <1>3, <1>4

\* A step of the client on stream s keeps the whole in order if it keeps that
\* stream in order.
LEMMA ClientStep ==
    ASSUME NEW cs, NEW cs2, NEW s, NEW R, Sends(cs, cs2, s, R),
           NEW ts \in [Streams -> Target], NEW A, NEW A2,
           \A r \in Streams : r # s => A2[r] = A[r],
           NEW send, NEW recv, NEW send2,
           NEW W \in Seq(FwdCell), NEW W2, Joins(W2, W, R), Core(cs, ts, W, A, send, recv),
           StreamOk(s, cs2[s], ts[s], W2, A2[s]),
           Alone(cs2) => Sealing(cs2[s], W2, send2, recv)
    PROVE  Core(cs2, ts, W2, A2, send2, recv)
<1>1. WayOk(cs, W) /\ \A r \in Streams : StreamOk(r, cs[r], ts[r], W, A[r])  BY DEF Core
<1>2. WayOk(cs2, W2)  BY <1>1, WayOkGrown
<1>3. \A r \in Streams : r # s => StreamOk(r, cs2[r], ts[r], W2, A[r])  BY <1>1, OthersGrown
<1>4. \A r \in Streams : StreamOk(r, cs2[r], ts[r], W2, A2[r])
  <2> TAKE r \in Streams
  <2>1. CASE r = s
    BY <2>1
  <2>2. CASE r # s
    BY <1>3, <2>2
  <2> QED BY <2>1, <2>2
<1>5. s \in Streams /\ cs2[s].st # "unused"  BY DEF Sends
<1>6. NoncesOk(cs2, W2, send2, recv)
  <2>1. ~Unused(cs2)  BY <1>5 DEF Unused
  <2>2. ASSUME Alone(cs2), NEW r \in Streams, cs2[r].st # "unused"
        PROVE  Sealing(cs2[r], W2, send2, recv)
    <3>1. r = s  BY <1>5, <2>2 DEF Alone
    <3> QED BY <2>2, <3>1
  <2> QED BY <2>1, <2>2 DEF NoncesOk
<1> QED BY <1>2, <1>4, <1>6 DEF Core

-----------------------------------------------------------------------------
(* One stream at the client.                                               *)

\* The line of I and v is also that of J and u.
SameLine(I, v, J, u) ==
    \A from \in Nat, to \in Int : Line(I, v, from, to) => Line(J, u, from, to)

\* Control cells put behind the way are no sealed cells.
LEMMA WayControl ==
    ASSUME NEW W, NEW R, NEW W2, Joins(W2, W, R), \A j \in 1..Len(R) : R[j].cmd # "DATA"
    PROVE  /\ \A s : CellsOf(W2, "DATA", s) = CellsOf(W, "DATA", s)
           /\ \A s : SameLine(DataOf(W, s), Seqs(W), DataOf(W2, s), Seqs(W2))
           /\ SameLine(DataAt(W), Nonces(W), DataAt(W2), Nonces(W2))
<1>1. DOMAIN R = 1..Len(R) /\ Len(R) \in Nat  BY DEF Joins, IsQueue
<1>2. ASSUME NEW s PROVE CellsOf(W2, "DATA", s) = CellsOf(W, "DATA", s)
  <2>1. /\ CellsOf(W, "DATA", s) \in Nat
        /\ CellsOf(W2, "DATA", s) = CellsOf(W, "DATA", s) + CellsOf(R, "DATA", s)
    BY CellsJoin
  <2>2. {i \in DOMAIN R : R[i].cmd = "DATA" /\ R[i].sid = s} = {}  BY <1>1
  <2>3. CellsOf(R, "DATA", s) = 0  BY <2>2, FS_EmptySet DEF CellsOf
  <2> QED BY <2>1, <2>3
<1>3. ASSUME NEW s, NEW from \in Nat, NEW to \in Int
      PROVE  /\ Line(DataOf(W, s), Seqs(W), from, to) => Line(DataOf(W2, s), Seqs(W2), from, to)
             /\ Line(DataAt(W), Nonces(W), from, to) => Line(DataAt(W2), Nonces(W2), from, to)
  BY WayGrown
<1>4. \A s : SameLine(DataOf(W, s), Seqs(W), DataOf(W2, s), Seqs(W2))  BY <1>3 DEF SameLine
<1>5. SameLine(DataAt(W), Nonces(W), DataAt(W2), Nonces(W2))  BY <1>3 DEF SameLine
<1> QED BY <1>2, <1>4, <1>5

\* Sealed cells of stream s are put behind the way.
LEMMA WayData ==
    ASSUME NEW W, NEW R, NEW W2, Joins(W2, W, R), NEW s,
           \A j \in 1..Len(R) : R[j].cmd = "DATA" /\ R[j].sid = s
    PROVE  /\ CellsOf(W, "DATA", s) \in Nat
           /\ CellsOf(W2, "DATA", s) = CellsOf(W, "DATA", s) + Len(R)
           /\ HasBegin(W2, s) <=> HasBegin(W, s)
<1>1. PICK n \in Nat : DOMAIN R = 1..n /\ n = Len(R)  BY DEF Joins, IsQueue
<1>2. /\ CellsOf(W, "DATA", s) \in Nat
      /\ CellsOf(W2, "DATA", s) = CellsOf(W, "DATA", s) + CellsOf(R, "DATA", s)
  BY CellsJoin
<1>3. CellsOf(R, "DATA", s) = n
  <2>1. {i \in DOMAIN R : R[i].cmd = "DATA" /\ R[i].sid = s} = 1..n  BY <1>1
  <2>2. Cardinality(1..n) = IF 1 > n THEN 0 ELSE n - 1 + 1  BY FS_Interval
  <2>3. Cardinality(1..n) = n  BY <2>2
  <2> QED BY <2>1, <2>3 DEF CellsOf
<1>4. ~HasBegin(R, s)  BY <1>1 DEF HasBegin
<1>5. HasBegin(W2, s) <=> HasBegin(W, s) \/ HasBegin(R, s)
  <2>1. 0 \in Nat /\ 0 \in Int  OBVIOUS
  <2> QED BY <2>1, WayGrown
<1> QED BY <1>1, <1>2, <1>3, <1>4, <1>5

\* Only the state of the stream differs.
SameBut(c, c2, st) ==
    /\ c \in Client /\ c2 \in Client /\ c2.st = st
    /\ c2.pkg = c.pkg /\ c2.next = c.next /\ c2.paused = c.paused /\ c2.kept = c.kept
    /\ c2.lost = c.lost /\ c2.late = c.late

\* A stream is opened: its BEGIN is its first cell.
LEMMA StreamOpened ==
    ASSUME NEW s, NEW c, NEW c2, SameBut(c, c2, "open"), c.st = "unused", NEW t \in Target,
           NEW W, NEW W2, NEW a, StreamOk(s, c, t, W, a),
           CellsOf(W, "DATA", s) = 0, CellsOf(W2, "DATA", s) = 0,
           SameLine(DataOf(W, s), Seqs(W), DataOf(W2, s), Seqs(W2))
    PROVE  StreamOk(s, c2, t, W2, a)
<1>1. /\ Bounded(c, t) /\ Kept(c)
      /\ Credit(c, t, HasBegin(W, s), CellsOf(W, "DATA", s), a)
      /\ Ordered(c, t, HasBegin(W, s), DataOf(W, s), Seqs(W))
  BY DEF StreamOk
<1>c. /\ c2.st = "open" /\ c2.pkg = c.pkg /\ c2.next = c.next
      /\ c2.paused = c.paused /\ c2.kept = c.kept /\ c2.lost = c.lost
  BY DEF SameBut
<1>2. Bounded(c2, t) /\ Kept(c2)  BY <1>c, <1>1 DEF Bounded, Kept
<1>3. Credit(c2, t, HasBegin(W2, s), CellsOf(W2, "DATA", s), a)
  <2>1. /\ c.pkg = StreamWindow /\ ~t.open /\ t.got = <<>> /\ a = 0 /\ StreamWindow \in Nat
    BY <1>1, RendezvousAssumption DEF Kept, Credit
  <2> QED BY <1>c, <2>1 DEF Credit
<1>4. Ordered(c2, t, HasBegin(W2, s), DataOf(W2, s), Seqs(W2))
  <2>0. c.kept = <<>> /\ Len(c.kept) = 0 /\ c.next = 1 /\ t.got = <<>> /\ Len(t.got) = 0
    BY <1>1 DEF Kept, Credit
  <2> SUFFICES ASSUME c2.lost = 0
               PROVE  Line(DataOf(W2, s), Seqs(W2), Len(t.got) + 1, c2.next - Len(c2.kept))
    BY <1>c, <2>0 DEF Ordered
  <2>1. Line(DataOf(W, s), Seqs(W), Len(t.got) + 1, c.next - Len(c.kept))
    BY <1>c, <1>1 DEF Ordered
  <2>2. Line(DataOf(W, s), Seqs(W), 1, 1)  BY <2>0, <2>1
  <2>3. Line(DataOf(W2, s), Seqs(W2), 1, 1)  BY <2>2 DEF SameLine
  <2> QED BY <1>c, <2>0, <2>3
<1> QED BY <1>2, <1>3, <1>4 DEF StreamOk

\* A stream is closed.
LEMMA StreamClosed ==
    ASSUME NEW s, NEW c, NEW c2, SameBut(c, c2, "closed"), NEW t \in Target,
           NEW W, NEW W2, NEW a, StreamOk(s, c, t, W, a),
           HasBegin(W2, s) <=> HasBegin(W, s),
           SameLine(DataOf(W, s), Seqs(W), DataOf(W2, s), Seqs(W2))
    PROVE  StreamOk(s, c2, t, W2, a)
<1>1. /\ Bounded(c, t) /\ Kept(c)
      /\ Credit(c, t, HasBegin(W, s), CellsOf(W, "DATA", s), a)
      /\ Ordered(c, t, HasBegin(W, s), DataOf(W, s), Seqs(W))
  BY DEF StreamOk
<1>c. /\ c2.st = "closed" /\ c2.pkg = c.pkg /\ c2.next = c.next
      /\ c2.paused = c.paused /\ c2.kept = c.kept /\ c2.lost = c.lost
  BY DEF SameBut
<1>2. Bounded(c2, t) /\ Kept(c2)  BY <1>c, <1>1 DEF Bounded, Kept
<1>3. Credit(c2, t, HasBegin(W2, s), CellsOf(W2, "DATA", s), a)  BY <1>c, <1>1 DEF Credit
<1>4. Ordered(c2, t, HasBegin(W2, s), DataOf(W2, s), Seqs(W2))
  <2>1. Len(t.got) + 1 \in Nat /\ c.next - Len(c.kept) \in Int  BY DEF Target, SameBut, Client
  <2>2. PICK from \in Nat, to \in Int : from = Len(t.got) + 1 /\ to = c.next - Len(c.kept)
    BY <2>1
  <2>3. Line(DataOf(W, s), Seqs(W), from, to) => Line(DataOf(W2, s), Seqs(W2), from, to)
    BY DEF SameLine
  <2> QED BY <1>c, <1>1, <2>2, <2>3 DEF Ordered
<1> QED BY <1>2, <1>3, <1>4 DEF StreamOk

\* A SENDME refills the package window of an open stream.
Refilled(c, c2) ==
    /\ c \in Client /\ c2 \in Client /\ c.st = "open" /\ c2.st = "open"
    /\ c2.pkg = c.pkg + Increment /\ c2.next = c.next /\ c2.paused = c.paused
    /\ c2.kept = c.kept /\ c2.lost = c.lost /\ c2.late = c.late

\* It does not overfill it.
LEMMA StreamRefilled ==
    ASSUME NEW s, NEW c, NEW c2, Refilled(c, c2), NEW t \in Target,
           NEW W \in Seq(FwdCell), NEW a \in Nat, StreamOk(s, c, t, W, a + 1)
    PROVE  StreamOk(s, c2, t, W, a)
<1>1. /\ Bounded(c, t) /\ Kept(c)
      /\ Credit(c, t, HasBegin(W, s), CellsOf(W, "DATA", s), a + 1)
      /\ Ordered(c, t, HasBegin(W, s), DataOf(W, s), Seqs(W))
  BY DEF StreamOk
<1>c. /\ c.st = "open" /\ c2.st = "open" /\ c2.pkg = c.pkg + Increment /\ c2.next = c.next
      /\ c2.paused = c.paused /\ c2.kept = c.kept /\ c2.lost = c.lost
  BY DEF Refilled
<1>2. Increment \in Nat /\ StreamWindow \in Nat /\ a + 1 # 0  BY RendezvousAssumption
<1>3. PICK d \in Nat : d = CellsOf(W, "DATA", s)  BY CellsUniform
<1>4. PICK x \in Nat : x = Times(a) /\ Times(a + 1) = x + Increment  BY TimesStep
<1>5. PICK b \in BOOLEAN : b <=> HasBegin(W, s)
  <2>1. HasBegin(W, s) \/ ~HasBegin(W, s)  OBVIOUS
  <2> QED BY <2>1
<1>6. t.open /\ ~b
  <2>1. t.open  BY <1>1, <1>2, <1>c DEF Credit
  <2> QED BY <1>1, <1>5, <2>1 DEF Credit
<1>7. /\ c.pkg \in 0..StreamWindow /\ t.del \in 0..StreamWindow
      /\ StreamWindow - Increment < t.del
      /\ c.pkg + d + (StreamWindow - t.del) + (x + Increment) = StreamWindow
  BY <1>1, <1>3, <1>4, <1>6, <1>c DEF Credit, Bounded
<1>8. /\ c2.pkg \in 0..StreamWindow
      /\ c2.pkg + d + (StreamWindow - t.del) + x = StreamWindow
  <2>1. PICK p \in Nat, e \in Nat, k \in Nat, w \in Nat :
          p = c.pkg /\ e = t.del /\ k = Increment /\ w = StreamWindow
    BY <1>2, <1>7
  <2>2. e <= w /\ p + d + (w - e) + (x + k) = w /\ c2.pkg = p + k  BY <1>7, <1>c, <2>1
  <2>3. p + k \in 0..w /\ p + k + d + (w - e) + x = w  BY <2>2
  <2> QED BY <2>1, <2>2, <2>3
<1>9. Bounded(c2, t) /\ Kept(c2)  BY <1>c, <1>1, <1>8 DEF Bounded, Kept
<1>10. Credit(c2, t, HasBegin(W, s), CellsOf(W, "DATA", s), a)
  BY <1>c, <1>3, <1>4, <1>5, <1>6, <1>7, <1>8 DEF Credit
<1>11. Ordered(c2, t, HasBegin(W, s), DataOf(W, s), Seqs(W))  BY <1>c, <1>1 DEF Ordered
<1> QED BY <1>9, <1>10, <1>11 DEF StreamOk

\* Chunks of stream s are sealed and sent as the cells R, or resent; the rest
\* of the read is kept or left behind.
Ships(s, c, c2, R) ==
    /\ c \in Client /\ c2 \in Client /\ c.st = "open" /\ c2.st = "open"
    /\ Len(R) \in Nat /\ Len(R) <= c.pkg /\ c2.pkg = c.pkg - Len(R)
    /\ Kept(c2)
    /\ \A j \in 1..Len(R) : R[j].cmd = "DATA" /\ R[j].sid = s
    /\ c2.lost = 0 =>
         /\ c.lost = 0
         /\ \A j \in 1..Len(R) : R[j].data.seq = c.next - Len(c.kept) + j - 1
         /\ c2.next - Len(c2.kept) = c.next - Len(c.kept) + Len(R)
         /\ Len(c2.kept) = 1 => c2.kept[1].seq = c2.next - 1

\* Credit moves from the window to the way, and the chunks stay in order.
LEMMA StreamShips ==
    ASSUME NEW s, NEW c, NEW c2, NEW R, Ships(s, c, c2, R), NEW t \in Target,
           NEW W, NEW W2, Joins(W2, W, R), NEW a \in Nat, StreamOk(s, c, t, W, a)
    PROVE  StreamOk(s, c2, t, W2, a)
<1>1. /\ Bounded(c, t) /\ Kept(c)
      /\ Credit(c, t, HasBegin(W, s), CellsOf(W, "DATA", s), a)
      /\ Ordered(c, t, HasBegin(W, s), DataOf(W, s), Seqs(W))
  BY DEF StreamOk
<1>2. PICK k \in Nat : k = Len(R)  BY DEF Ships
<1>c. /\ c.st = "open" /\ c2.st = "open" /\ k <= c.pkg /\ c2.pkg = c.pkg - k
      /\ Kept(c2) /\ c.pkg \in Int
      /\ c2.lost = 0 =>
           /\ c.lost = 0
           /\ \A j \in 1..k : R[j].data.seq = c.next - Len(c.kept) + j - 1
           /\ c2.next - Len(c2.kept) = c.next - Len(c.kept) + k
           /\ Len(c2.kept) = 1 => c2.kept[1].seq = c2.next - 1
  BY <1>2 DEF Ships, Client
<1>d. \A j \in 1..Len(R) : R[j].cmd = "DATA" /\ R[j].sid = s  BY DEF Ships
<1>3. PICK d \in Nat : d = CellsOf(W, "DATA", s) /\ CellsOf(W2, "DATA", s) = d + k
  <2>1. /\ CellsOf(W, "DATA", s) \in Nat
        /\ CellsOf(W2, "DATA", s) = CellsOf(W, "DATA", s) + Len(R)
    BY <1>d, WayData
  <2> QED BY <1>2, <2>1
<1>b. PICK b \in BOOLEAN : (b <=> HasBegin(W, s)) /\ (b <=> HasBegin(W2, s))
  <2>1. HasBegin(W2, s) <=> HasBegin(W, s)  BY <1>d, WayData
  <2>2. HasBegin(W, s) \/ ~HasBegin(W, s)  OBVIOUS
  <2> QED BY <2>1, <2>2
<1>4. Bounded(c2, t)  BY <1>1, <1>c, RendezvousAssumption DEF Bounded
<1>5. Credit(c2, t, HasBegin(W2, s), CellsOf(W2, "DATA", s), a)
  <2>0. StreamWindow \in Nat /\ Times(a) \in Nat /\ t.del \in 0..StreamWindow
    BY <1>1, TimesStep, RendezvousAssumption DEF Bounded
  <2>1. b => c.pkg + d = StreamWindow /\ ~t.open /\ t.got = <<>>
    BY <1>1, <1>3, <1>b, <1>c DEF Credit
  <2>2. t.open => /\ c.pkg + d + (StreamWindow - t.del) + Times(a) = StreamWindow
                  /\ StreamWindow - Increment < t.del
    BY <1>1, <1>3, <1>c DEF Credit
  <2>3. ~t.open => a = 0  BY <1>1, <1>c DEF Credit
  <2>4. b => c2.pkg + (d + k) = StreamWindow  BY <1>c, <2>0, <2>1
  <2>5. t.open => c2.pkg + (d + k) + (StreamWindow - t.del) + Times(a) = StreamWindow
    BY <1>c, <2>0, <2>2
  <2> QED BY <1>c, <1>3, <1>b, <2>1, <2>2, <2>3, <2>4, <2>5 DEF Credit
<1>6. Ordered(c2, t, HasBegin(W2, s), DataOf(W2, s), Seqs(W2))
  <2> SUFFICES ASSUME c2.lost = 0, t.open \/ b
               PROVE  Line(DataOf(W2, s), Seqs(W2), Len(t.got) + 1, c2.next - Len(c2.kept))
    BY <1>c, <1>b DEF Ordered
  <2>1. PICK from \in Nat, to \in Int : from = Len(t.got) + 1 /\ to = c.next - Len(c.kept)
    <3>1. Len(t.got) + 1 \in Nat /\ c.next - Len(c.kept) \in Int  BY DEF Target, Ships, Client
    <3> QED BY <3>1
  <2>2. Line(DataOf(W, s), Seqs(W), from, to)  BY <1>1, <1>b, <1>c, <2>1 DEF Ordered
  <2>3. \A j \in 1..Len(R) : R[j].cmd = "DATA" /\ R[j].sid = s /\ R[j].data.seq = to + j - 1
    BY <1>c, <1>d, <1>2, <2>1
  <2>4. Line(DataOf(W2, s), Seqs(W2), from, to + Len(R))  BY <2>2, <2>3, WayGrown
  <2>5. c2.next - Len(c2.kept) = to + Len(R)  BY <1>2, <1>c, <2>1
  <2> QED BY <2>1, <2>4, <2>5
<1> QED BY <1>c, <1>4, <1>5, <1>6 DEF StreamOk

-----------------------------------------------------------------------------
(* The client's steps on the whole.                                        *)

\* Control cells are not sealed.
LEMMA SealingSame ==
    ASSUME NEW c, NEW c2 \in Client, c2.kept = c.kept, NEW send \in Nat, NEW recv \in Nat,
           NEW W, NEW W2, Sealing(c, W, send, recv),
           SameLine(DataAt(W), Nonces(W), DataAt(W2), Nonces(W2))
    PROVE  Sealing(c2, W2, send, recv)
<1>1. send - Len(c2.kept) \in Int  BY DEF Client
<1> QED BY <1>1 DEF Sealing, SameLine

\* The client opens a stream.
LEMMA CoreOpen ==
    ASSUME NEW cs, NEW cs2, NEW s, NEW R, Sends(cs, cs2, s, R),
           SameBut(cs[s], cs2[s], "open"), cs[s].st = "unused",
           NEW ts \in [Streams -> Target], NEW A, NEW send \in Nat, NEW recv \in Nat,
           NEW W \in Seq(FwdCell), NEW W2, Joins(W2, W, R),
           \A j \in 1..Len(R) : R[j].cmd # "DATA", Core(cs, ts, W, A, send, recv)
    PROVE  Core(cs2, ts, W2, A, send, recv)
<1>1. s \in Streams /\ WayOk(cs, W) /\ StreamOk(s, cs[s], ts[s], W, A[s])
      /\ ts[s] \in Target /\ cs2[s] \in Client /\ cs2[s].kept = cs[s].kept
  BY DEF Sends, Core, SameBut
<1>2. /\ CellsOf(W2, "DATA", s) = CellsOf(W, "DATA", s)
      /\ SameLine(DataOf(W, s), Seqs(W), DataOf(W2, s), Seqs(W2))
      /\ SameLine(DataAt(W), Nonces(W), DataAt(W2), Nonces(W2))
  BY WayControl
<1>3. CellsOf(W, "DATA", s) = 0  BY <1>1, NothingUnused
<1>4. StreamOk(s, cs2[s], ts[s], W2, A[s])  BY <1>1, <1>2, <1>3, StreamOpened
<1>5. ASSUME Alone(cs2) PROVE Sealing(cs2[s], W2, send, recv)
  <2>1. Sealing(cs[s], W, send, recv)  BY <1>5, SealedBefore
  <2>2. SameLine(DataAt(W), Nonces(W), DataAt(W2), Nonces(W2))  BY <1>2
  <2>3. cs2[s] \in Client /\ cs2[s].kept = cs[s].kept  BY <1>1
  <2> QED BY <2>1, <2>2, <2>3, SealingSame
<1> QED BY <1>4, <1>5, ClientStep

\* A stream ends: the client closes it, or is told that it is.
LEMMA CoreClose ==
    ASSUME NEW cs, NEW cs2, NEW s, NEW R, Sends(cs, cs2, s, R),
           SameBut(cs[s], cs2[s], "closed"),
           NEW ts \in [Streams -> Target], NEW A, NEW send \in Nat, NEW recv \in Nat,
           NEW W \in Seq(FwdCell), NEW W2, Joins(W2, W, R),
           \A j \in 1..Len(R) : R[j].cmd = "END", Core(cs, ts, W, A, send, recv)
    PROVE  Core(cs2, ts, W2, A, send, recv)
<1>1. s \in Streams /\ StreamOk(s, cs[s], ts[s], W, A[s])
      /\ ts[s] \in Target /\ cs2[s] \in Client /\ cs2[s].kept = cs[s].kept
  BY DEF Sends, Core, SameBut
<1>2. /\ SameLine(DataOf(W, s), Seqs(W), DataOf(W2, s), Seqs(W2))
      /\ SameLine(DataAt(W), Nonces(W), DataAt(W2), Nonces(W2))
  <2>1. \A j \in 1..Len(R) : R[j].cmd # "DATA"  OBVIOUS
  <2> QED BY <2>1, WayControl
<1>3. HasBegin(W2, s) <=> HasBegin(W, s)
  <2>1. HasBegin(W2, s) <=> HasBegin(W, s) \/ HasBegin(R, s)
    <3>1. 0 \in Nat /\ 0 \in Int  OBVIOUS
    <3> QED BY <3>1, WayGrown
  <2>2. ~HasBegin(R, s)  BY DEF HasBegin, Joins, IsQueue
  <2> QED BY <2>1, <2>2
<1>4. StreamOk(s, cs2[s], ts[s], W2, A[s])  BY <1>1, <1>2, <1>3, StreamClosed
<1>5. ASSUME Alone(cs2) PROVE Sealing(cs2[s], W2, send, recv)
  <2>1. Sealing(cs[s], W, send, recv)  BY <1>5, SealedBefore
  <2> QED BY <1>1, <1>2, <2>1, SealingSame
<1> QED BY <1>4, <1>5, ClientStep

\* A stream's SENDME arrives.
LEMMA CoreRefill ==
    ASSUME NEW cs, NEW cs2, NEW s, Sends(cs, cs2, s, <<>>), Refilled(cs[s], cs2[s]),
           NEW ts \in [Streams -> Target], NEW A, NEW A2,
           \A r \in Streams : r # s => A2[r] = A[r], A2[s] \in Nat, A[s] = A2[s] + 1,
           NEW send \in Nat, NEW recv \in Nat, NEW W \in Seq(FwdCell),
           Core(cs, ts, W, A, send, recv)
    PROVE  Core(cs2, ts, W, A2, send, recv)
<1>1. s \in Streams /\ StreamOk(s, cs[s], ts[s], W, A2[s] + 1)
      /\ ts[s] \in Target /\ cs2[s] \in Client /\ cs2[s].kept = cs[s].kept
  BY DEF Sends, Core, Refilled
<1>2. PICK R : R = <<>>  OBVIOUS
<1>3. Joins(W, W, R)  BY <1>2 DEF Joins, IsQueue
<1>4. StreamOk(s, cs2[s], ts[s], W, A2[s])  BY <1>1, StreamRefilled
<1>5. ASSUME Alone(cs2) PROVE Sealing(cs2[s], W, send, recv)
  <2>1. Sealing(cs[s], W, send, recv)  BY <1>5, SealedBefore
  <2>2. SameLine(DataAt(W), Nonces(W), DataAt(W), Nonces(W))  BY DEF SameLine
  <2> QED BY <1>1, <2>1, <2>2, SealingSame
<1>6. Sends(cs, cs2, s, R)  BY <1>2
<1> QED BY <1>3, <1>4, <1>5, <1>6, ClientStep

\* The nonces go on with the cells R and the chunk that is kept.
Seals(c, c2, R, send, send2) ==
    /\ \A j \in 1..Len(R) : R[j].data.nonce = send - Len(c.kept) + j - 1
    /\ send2 - Len(c2.kept) = send - Len(c.kept) + Len(R)
    /\ Len(c2.kept) = 1 => c2.kept[1].nonce = send2 - 1

\* The client sends chunks of a stream, or resends one.
LEMMA CoreShips ==
    ASSUME NEW cs, NEW cs2, NEW s, NEW R, Sends(cs, cs2, s, R), Ships(s, cs[s], cs2[s], R),
           NEW ts \in [Streams -> Target], NEW A, A[s] \in Nat,
           NEW send \in Nat, NEW recv \in Nat, NEW send2 \in Nat,
           NEW W \in Seq(FwdCell), NEW W2, Joins(W2, W, R), Core(cs, ts, W, A, send, recv),
           Sealing(cs[s], W, send, recv) /\ ~cs2[s].late => Seals(cs[s], cs2[s], R, send, send2)
    PROVE  Core(cs2, ts, W2, A, send2, recv)
<1>1. s \in Streams /\ StreamOk(s, cs[s], ts[s], W, A[s]) /\ ts[s] \in Target
  BY DEF Sends, Core
<1>2. StreamOk(s, cs2[s], ts[s], W2, A[s])  BY <1>1, StreamShips
<1>3. ASSUME Alone(cs2) PROVE Sealing(cs2[s], W2, send2, recv)
  <2>1. Sealing(cs[s], W, send, recv)  BY <1>3, SealedBefore
  <2>2. Seals(cs[s], cs2[s], R, send, send2)
    <3>1. ~cs2[s].late  BY <1>1, <1>3 DEF Alone
    <3> QED BY <2>1, <3>1
  <2>3. PICK to \in Int : to = send - Len(cs[s].kept)
    <3>1. cs[s] \in Client  BY DEF Ships
    <3>2. Len(cs[s].kept) \in Nat  BY <3>1 DEF Client
    <3>3. send - Len(cs[s].kept) \in Int  BY <3>2
    <3> QED BY <3>3
  <2>4. Line(DataAt(W), Nonces(W), recv, to)  BY <2>1, <2>3 DEF Sealing
  <2>5. \A j \in 1..Len(R) : R[j].cmd = "DATA" /\ R[j].data.nonce = to + j - 1
    BY <2>2, <2>3 DEF Ships, Seals
  <2>6. Line(DataAt(W2), Nonces(W2), recv, to + Len(R))  BY <2>4, <2>5, WayGrown
  <2>7. send2 - Len(cs2[s].kept) = to + Len(R)  BY <2>2, <2>3 DEF Seals
  <2>8. Len(cs2[s].kept) = 1 => cs2[s].kept[1].nonce = send2 - 1  BY <2>2 DEF Seals
  <2> QED BY <2>6, <2>7, <2>8 DEF Sealing
<1> QED BY <1>2, <1>3, ClientStep

-----------------------------------------------------------------------------
(* The service's steps.                                                    *)

\* What the first cell says of its stream.
LEMMA TakenOf ==
    ASSUME NEW cs, NEW W, NEW h, NEW W2, Joins(W, <<h>>, W2), WayOk(cs, W)
    PROVE  /\ cs[h.sid].st # "unused" /\ (h.cmd = "END" => cs[h.sid].st = "closed")
           /\ ~HasBegin(W2, h.sid) /\ (HasBegin(W, h.sid) <=> h.cmd = "BEGIN")
           /\ CellsOf(W2, "DATA", h.sid) \in Nat
           /\ h.cmd = "DATA" => CellsOf(W, "DATA", h.sid) = CellsOf(W2, "DATA", h.sid) + 1
           /\ h.cmd # "DATA" => CellsOf(W, "DATA", h.sid) = CellsOf(W2, "DATA", h.sid)
<1>1. /\ cs[h.sid].st # "unused" /\ (h.cmd = "END" => cs[h.sid].st = "closed")
      /\ ~HasBegin(W2, h.sid)
  BY WayOkTaken
<1>2. HasBegin(W, h.sid) <=> h.cmd = "BEGIN"
  <2>1. 0 \in Nat /\ 0 \in Int  OBVIOUS
  <2>2. HasBegin(W, h.sid) <=> (h.cmd = "BEGIN" /\ h.sid = h.sid) \/ HasBegin(W2, h.sid)
    BY <2>1, WayTaken
  <2> QED BY <1>1, <2>2
<1>3. /\ CellsOf(W2, "DATA", h.sid) \in Nat
      /\ CellsOf(W, "DATA", h.sid) = CellsOf(<<h>>, "DATA", h.sid) + CellsOf(W2, "DATA", h.sid)
  BY CellsJoin
<1>4. /\ h.cmd = "DATA" => CellsOf(<<h>>, "DATA", h.sid) = 1
      /\ h.cmd # "DATA" => CellsOf(<<h>>, "DATA", h.sid) = 0
  <2>1. h \in {h}  OBVIOUS
  <2> QED BY <2>1, CellsOne
<1> QED BY <1>1, <1>2, <1>3, <1>4

\* If one stream is used, its sealed cells arrive in step.
LEMMA OpensInStep ==
    ASSUME NEW cs, NEW ts, NEW A, NEW W, NEW h, h.sid \in Streams, NEW W2, Joins(W, <<h>>, W2),
           NEW send \in Nat, NEW recv \in Nat, cs \in [Streams -> Client],
           Core(cs, ts, W, A, send, recv), h.cmd = "DATA", Alone(cs)
    PROVE  h.data.nonce = recv
<1>1. WayOk(cs, W) /\ NoncesOk(cs, W, send, recv)  BY DEF Core
<1>2. cs[h.sid].st # "unused"  BY <1>1, TakenOf
<1>3. Sealing(cs[h.sid], W, send, recv)  BY <1>1, <1>2 DEF NoncesOk
<1>4. PICK to \in Int : to = send - Len(cs[h.sid].kept)
  <2>1. cs[h.sid] \in Client  OBVIOUS
  <2>2. Len(cs[h.sid].kept) \in Nat  BY <2>1 DEF Client
  <2>3. send - Len(cs[h.sid].kept) \in Int  BY <2>2
  <2> QED BY <2>3
<1>5. Line(DataAt(W), Nonces(W), recv, to)  BY <1>3, <1>4 DEF Sealing
<1> QED BY <1>5, WayTaken

\* The service takes the first cell h of the way, of stream s, and leaves the
\* stream in order.
AtService(cs, ts, ts2, A, A2, s, W, h, W2, send, recv, recv2) ==
    /\ cs \in [Streams -> Client] /\ ts \in [Streams -> Target] /\ s \in Streams
    /\ \A r \in Streams : r # s => ts2[r] = ts[r] /\ A2[r] = A[r]
    /\ h.sid = s /\ Joins(W, <<h>>, W2) /\ send \in Nat /\ recv \in Nat
    /\ Core(cs, ts, W, A, send, recv) /\ StreamOk(s, cs[s], ts2[s], W2, A2[s])
    /\ h.cmd = "DATA" => recv2 = recv + 1
    /\ h.cmd # "DATA" => recv2 = recv

\* A step of the service on the stream of the first cell keeps the whole in
\* order if it keeps that stream in order.
LEMMA ServiceStep ==
    ASSUME NEW cs, NEW ts, NEW ts2, NEW A, NEW A2, NEW s, NEW W, NEW h, NEW W2, NEW send,
           NEW recv, NEW recv2,
           AtService(cs, ts, ts2, A, A2, s, W, h, W2, send, recv, recv2)
    PROVE  Core(cs, ts2, W2, A2, send, recv2)
<1>0. /\ cs \in [Streams -> Client] /\ ts \in [Streams -> Target] /\ s \in Streams
      /\ \A r \in Streams : r # s => ts2[r] = ts[r] /\ A2[r] = A[r]
      /\ h.sid = s /\ Joins(W, <<h>>, W2) /\ send \in Nat /\ recv \in Nat
      /\ Core(cs, ts, W, A, send, recv) /\ StreamOk(s, cs[s], ts2[s], W2, A2[s])
      /\ h.cmd = "DATA" => recv2 = recv + 1
      /\ h.cmd # "DATA" => recv2 = recv
  BY DEF AtService
<1>1. /\ WayOk(cs, W) /\ NoncesOk(cs, W, send, recv)
      /\ \A r \in Streams : StreamOk(r, cs[r], ts[r], W, A[r])
  BY <1>0 DEF Core
<1>2. WayOk(cs, W2) /\ cs[s].st # "unused"  BY <1>0, <1>1, WayOkTaken
<1>3. \A r \in Streams : StreamOk(r, cs[r], ts2[r], W2, A2[r])
  <2> TAKE r \in Streams
  <2>1. CASE r = s
    BY <1>0, <2>1
  <2>2. CASE r # s
    <3>1. StreamOk(r, cs[r], ts[r], W, A[r]) /\ cs[r] \in Client /\ ts[r] \in Target
      BY <1>0, <1>1
    <3>2. StreamOk(r, cs[r], ts[r], W2, A[r])  BY <1>0, <2>2, <3>1, OtherTaken
    <3> QED BY <1>0, <2>2, <3>2
  <2> QED BY <2>1, <2>2
<1>4. NoncesOk(cs, W2, send, recv2)
  <2>1. ~Unused(cs)  BY <1>0, <1>2 DEF Unused
  <2>2. ASSUME Alone(cs), NEW r \in Streams, cs[r].st # "unused"
        PROVE  Sealing(cs[r], W2, send, recv2)
    <3>1. Sealing(cs[r], W, send, recv)  BY <1>1, <2>2 DEF NoncesOk
    <3>2. PICK to \in Int : to = send - Len(cs[r].kept)
      <4>1. cs[r] \in Client  BY <1>0, <2>2
      <4>2. Len(cs[r].kept) \in Nat  BY <4>1 DEF Client
      <4>3. send - Len(cs[r].kept) \in Int  BY <1>0, <4>2
      <4> QED BY <4>3
    <3>3. Line(DataAt(W), Nonces(W), recv, to)  BY <3>1, <3>2 DEF Sealing
    <3>4. /\ h.cmd = "DATA" => Line(DataAt(W2), Nonces(W2), recv + 1, to)
          /\ h.cmd # "DATA" => Line(DataAt(W2), Nonces(W2), recv, to)
      BY <1>0, <3>3, WayTaken
    <3>5. Line(DataAt(W2), Nonces(W2), recv2, to)  BY <1>0, <3>4
    <3> QED BY <3>1, <3>2, <3>5 DEF Sealing
  <2> QED BY <2>1, <2>2 DEF NoncesOk
<1> QED BY <1>2, <1>3, <1>4 DEF Core

\* The service's end of a stream: opened, closed, or a chunk delivered.
Opened(t, t2) == t2 \in Target /\ t2.open /\ t2.del = StreamWindow /\ t2.got = t.got
Ended(t, t2) == t2 \in Target /\ ~t2.open /\ t2.del = t.del /\ t2.got = t.got
Delivered(t, t2, n) == t2 \in Target /\ t2.open /\ t.open /\ t2.got = Append(t.got, n)

\* Stream s, in order, is about to see the first cell, one of its own.
First(s, cs, c, t, W, h, W2, a) ==
    /\ c = cs[s] /\ c \in Client /\ t \in Target /\ h.sid = s /\ Joins(W, <<h>>, W2)
    /\ WayOk(cs, W) /\ a \in Nat /\ StreamOk(s, c, t, W, a)

\* What it is before the cell is taken.
LEMMA StreamTaken ==
    ASSUME NEW s, NEW cs, NEW c, NEW t, NEW W, NEW h, NEW W2, NEW a,
           First(s, cs, c, t, W, h, W2, a), NEW d, d = CellsOf(W2, "DATA", s)
    PROVE  /\ d \in Nat /\ Times(a) \in Nat /\ Times(0) = 0
           /\ Times(a + 1) = Times(a) + Increment
           /\ StreamWindow \in Nat /\ Increment \in Nat /\ 0 < Increment /\ Increment <= StreamWindow
           /\ Bounded(c, t) /\ Kept(c) /\ c.st # "unused" /\ ~HasBegin(W2, s)
           /\ h.cmd = "DATA" => Credit(c, t, FALSE, d + 1, a)
           /\ h.cmd = "BEGIN" => Credit(c, t, TRUE, d, a)
           /\ h.cmd = "END" => Credit(c, t, FALSE, d, a) /\ c.st = "closed"
<1>0. /\ c = cs[s] /\ c \in Client /\ t \in Target /\ h.sid = s /\ Joins(W, <<h>>, W2)
      /\ WayOk(cs, W) /\ a \in Nat /\ StreamOk(s, c, t, W, a)
  BY DEF First
<1>1. /\ Bounded(c, t) /\ Kept(c)
      /\ Credit(c, t, HasBegin(W, s), CellsOf(W, "DATA", s), a)
  BY <1>0 DEF StreamOk
<1>2. /\ d \in Nat /\ c.st # "unused" /\ (h.cmd = "END" => c.st = "closed")
      /\ ~HasBegin(W2, s) /\ (HasBegin(W, s) <=> h.cmd = "BEGIN")
      /\ h.cmd = "DATA" => CellsOf(W, "DATA", s) = d + 1
      /\ h.cmd # "DATA" => CellsOf(W, "DATA", s) = d
  BY <1>0, TakenOf
<1>3. /\ StreamWindow \in Nat /\ Increment \in Nat /\ 0 < Increment /\ Increment <= StreamWindow
      /\ Times(a) \in Nat /\ Times(0) = 0 /\ Times(a + 1) = Times(a) + Increment
  BY <1>0, TimesStep, RendezvousAssumption
<1>4. h.cmd = "DATA" => Credit(c, t, FALSE, d + 1, a)
  <2>1. h.cmd = "DATA" => CellsOf(W, "DATA", s) = d + 1 /\ ~HasBegin(W, s)  BY <1>2
  <2> QED BY <1>1, <2>1 DEF Credit
<1>5. h.cmd = "BEGIN" => Credit(c, t, TRUE, d, a)
  <2>1. h.cmd = "BEGIN" => CellsOf(W, "DATA", s) = d /\ HasBegin(W, s)  BY <1>2
  <2> QED BY <1>1, <2>1 DEF Credit
<1>6. h.cmd = "END" => Credit(c, t, FALSE, d, a)
  <2>1. h.cmd = "END" => CellsOf(W, "DATA", s) = d /\ ~HasBegin(W, s)  BY <1>2
  <2> QED BY <1>1, <2>1 DEF Credit
<1> QED BY <1>1, <1>2, <1>3, <1>4, <1>5, <1>6

\* The service connects: the stream's window is full.
LEMMA StreamAccepted ==
    ASSUME NEW s, NEW cs, NEW c, NEW t, NEW W, NEW h, NEW W2, NEW a,
           First(s, cs, c, t, W, h, W2, a), NEW t2, Opened(t, t2), h.cmd = "BEGIN"
    PROVE  StreamOk(s, c, t2, W2, a)
<1>0. /\ c = cs[s] /\ c \in Client /\ t \in Target /\ h.sid = s /\ Joins(W, <<h>>, W2)
      /\ WayOk(cs, W) /\ a \in Nat /\ StreamOk(s, c, t, W, a)
  BY DEF First
<1>1. PICK d : d = CellsOf(W2, "DATA", s)  OBVIOUS
<1>2. /\ d \in Nat /\ Times(0) = 0
      /\ StreamWindow \in Nat /\ Increment \in Nat /\ 0 < Increment
      /\ Bounded(c, t) /\ Kept(c) /\ c.st # "unused" /\ ~HasBegin(W2, s)
      /\ Credit(c, t, TRUE, d, a)
  BY <1>1, StreamTaken
<1>3. t2.open /\ t2.del = StreamWindow /\ t2.got = t.got  BY DEF Opened
<1>4. Bounded(c, t2)  BY <1>2, <1>3 DEF Bounded
<1>5. Credit(c, t2, HasBegin(W2, s), CellsOf(W2, "DATA", s), a)
  <2>1. c.st = "open" => c.pkg + d = StreamWindow /\ a = 0  BY <1>2 DEF Credit
  <2>2. c.st = "open" => c.pkg + d + (StreamWindow - StreamWindow) + Times(a) = StreamWindow
    BY <1>2, <2>1 DEF Bounded
  <2>3. StreamWindow - Increment < StreamWindow  BY <1>2
  <2> QED BY <1>1, <1>2, <1>3, <2>1, <2>2, <2>3 DEF Credit
<1>6. Ordered(c, t2, HasBegin(W2, s), DataOf(W2, s), Seqs(W2))
  <2>1. PICK from \in Nat, to \in Int : from = Len(t.got) + 1 /\ to = c.next - Len(c.kept)
    <3>1. Len(t.got) + 1 \in Nat /\ c.next - Len(c.kept) \in Int  BY <1>0 DEF Target, Client
    <3> QED BY <3>1
  <2>2. HasBegin(W, s)  BY <1>0, TakenOf
  <2>3. /\ Ordered(c, t, HasBegin(W, s), DataOf(W, s), Seqs(W))  BY <1>0 DEF StreamOk
  <2>4. c.lost = 0 => Line(DataOf(W, s), Seqs(W), from, to)  BY <2>1, <2>2, <2>3 DEF Ordered
  <2>5. c.lost = 0 => Line(DataOf(W2, s), Seqs(W2), from, to)  BY <1>0, <2>4, WayTaken
  <2>6. c.lost = 0 => (Len(c.kept) = 1 => c.kept[1].seq = c.next - 1)  BY <2>3 DEF Ordered
  <2> QED BY <1>3, <2>1, <2>5, <2>6 DEF Ordered
<1> QED BY <1>2, <1>4, <1>5, <1>6 DEF StreamOk

\* The service drops the first cell: it refuses a BEGIN, or knows of no such
\* stream.
LEMMA StreamDrops ==
    ASSUME NEW s, NEW cs, NEW c, NEW t, NEW W, NEW h, NEW W2, NEW a,
           First(s, cs, c, t, W, h, W2, a),
           h.cmd = "BEGIN" \/ (h.cmd = "DATA" /\ ~t.open)
    PROVE  StreamOk(s, c, t, W2, a) /\ ~t.open
<1>0. /\ c = cs[s] /\ c \in Client /\ t \in Target /\ h.sid = s /\ Joins(W, <<h>>, W2)
      /\ WayOk(cs, W) /\ a \in Nat /\ StreamOk(s, c, t, W, a)
  BY DEF First
<1>1. PICK d : d = CellsOf(W2, "DATA", s)  OBVIOUS
<1>2. /\ Bounded(c, t) /\ Kept(c) /\ c.st # "unused" /\ ~HasBegin(W2, s)
      /\ h.cmd = "DATA" => Credit(c, t, FALSE, d + 1, a)
      /\ h.cmd = "BEGIN" => Credit(c, t, TRUE, d, a)
  BY <1>1, StreamTaken
<1>3. ~t.open  BY <1>2 DEF Credit
<1>4. c.st = "open" => a = 0  BY <1>2, <1>3 DEF Credit
<1>5. Credit(c, t, HasBegin(W2, s), CellsOf(W2, "DATA", s), a)  BY <1>2, <1>3, <1>4 DEF Credit
<1>6. Ordered(c, t, HasBegin(W, s), DataOf(W, s), Seqs(W))  BY <1>0 DEF StreamOk
<1>7. Ordered(c, t, HasBegin(W2, s), DataOf(W2, s), Seqs(W2))  BY <1>2, <1>3, <1>6 DEF Ordered
<1> QED BY <1>2, <1>3, <1>5, <1>7 DEF StreamOk

\* The service closes the target.
LEMMA StreamEnded ==
    ASSUME NEW s, NEW cs, NEW c, NEW t, NEW W, NEW h, NEW W2, NEW a,
           First(s, cs, c, t, W, h, W2, a), NEW t2, Ended(t, t2), h.cmd = "END"
    PROVE  StreamOk(s, c, t2, W2, a)
<1>0. /\ c = cs[s] /\ c \in Client /\ t \in Target /\ h.sid = s /\ Joins(W, <<h>>, W2)
      /\ WayOk(cs, W) /\ a \in Nat /\ StreamOk(s, c, t, W, a)
  BY DEF First
<1>1. PICK d : d = CellsOf(W2, "DATA", s)  OBVIOUS
<1>2. Bounded(c, t) /\ Kept(c) /\ c.st = "closed" /\ ~HasBegin(W2, s)  BY <1>1, StreamTaken
<1>3. ~t2.open /\ t2.del = t.del /\ t2.got = t.got  BY DEF Ended
<1>4. Bounded(c, t2)  BY <1>2, <1>3 DEF Bounded
<1>5. Credit(c, t2, HasBegin(W2, s), CellsOf(W2, "DATA", s), a)  BY <1>2, <1>3 DEF Credit
<1>6. Ordered(c, t, HasBegin(W, s), DataOf(W, s), Seqs(W))  BY <1>0 DEF StreamOk
<1>7. Ordered(c, t2, HasBegin(W2, s), DataOf(W2, s), Seqs(W2))  BY <1>2, <1>3, <1>6 DEF Ordered
<1> QED BY <1>2, <1>4, <1>5, <1>7 DEF StreamOk

\* A cell of a known stream is at the service, with d more on their way.
Counting(c, t, t2, d, a) ==
    /\ d \in Nat /\ a \in Nat /\ c.pkg \in Int /\ t.del \in Int /\ t.open /\ t2.open
    /\ c.st # "unused" /\ Credit(c, t, FALSE, d + 1, a)

\* Credit when the service counts it, and when it acknowledges.
LEMMA CreditCounts ==
    ASSUME NEW c, NEW t, NEW t2, NEW d, NEW a, Counting(c, t, t2, d, a)
    PROVE  /\ t.del - 1 > StreamWindow - Increment /\ t2.del = t.del - 1
                => Credit(c, t2, FALSE, d, a)
           /\ t.del - 1 <= StreamWindow - Increment /\ t2.del = t.del - 1 + Increment
                => Credit(c, t2, FALSE, d, a + 1) /\ t2.del = StreamWindow
<1>0. /\ d \in Nat /\ a \in Nat /\ c.pkg \in Int /\ t.del \in Int /\ t.open /\ t2.open
      /\ c.st # "unused" /\ Credit(c, t, FALSE, d + 1, a)
  BY DEF Counting
<1>1. PICK p \in Int, e \in Int, x \in Nat, k \in Nat, w \in Nat :
        p = c.pkg /\ e = t.del /\ x = Times(a) /\ k = Increment /\ w = StreamWindow
  BY <1>0, TimesStep, RendezvousAssumption
<1>k. 0 < k /\ Times(a + 1) = x + k  BY <1>0, <1>1, TimesStep, RendezvousAssumption
<1>2. /\ w - k < e
      /\ c.st = "open" => p + (d + 1) + (w - e) + x = w
  BY <1>0, <1>1 DEF Credit
<1>3. ASSUME t.del - 1 > StreamWindow - Increment, t2.del = t.del - 1
      PROVE  Credit(c, t2, FALSE, d, a)
  <2>1. e - 1 > w - k /\ t2.del = e - 1  BY <1>1, <1>3
  <2>2. c.st = "open" => p + d + (w - (e - 1)) + x = w  BY <1>0, <1>2
  <2> QED BY <1>0, <1>1, <2>1, <2>2 DEF Credit
<1>4. ASSUME t.del - 1 <= StreamWindow - Increment, t2.del = t.del - 1 + Increment
      PROVE  Credit(c, t2, FALSE, d, a + 1) /\ t2.del = StreamWindow
  <2>1. e - 1 <= w - k /\ t2.del = e - 1 + k  BY <1>1, <1>4
  <2>2. t2.del = w /\ w - k < w  BY <1>1, <1>2, <1>k, <2>1
  <2>3. c.st = "open" => p + d + (w - w) + (x + k) = w  BY <1>0, <1>2, <2>1
  <2> QED BY <1>0, <1>1, <1>k, <2>2, <2>3 DEF Credit
<1> QED BY <1>3, <1>4

\* The service delivers a chunk.
LEMMA StreamDelivers ==
    ASSUME NEW s, NEW cs, NEW c, NEW t, NEW W, NEW h, NEW W2, NEW a,
           First(s, cs, c, t, W, h, W2, a), NEW t2, NEW n, Delivered(t, t2, n),
           h.cmd = "DATA", h.data.seq = n, n \in Nat, NEW a2,
           \/ t.del - 1 > StreamWindow - Increment /\ t2.del = t.del - 1 /\ a2 = a
           \/ /\ t.del - 1 <= StreamWindow - Increment
              /\ t2.del = t.del - 1 + Increment /\ a2 = a + 1
    PROVE  StreamOk(s, c, t2, W2, a2)
<1>0. /\ c = cs[s] /\ c \in Client /\ t \in Target /\ h.sid = s /\ Joins(W, <<h>>, W2)
      /\ WayOk(cs, W) /\ a \in Nat /\ StreamOk(s, c, t, W, a)
  BY DEF First
<1>1. PICK d : d = CellsOf(W2, "DATA", s)  OBVIOUS
<1>2. /\ d \in Nat /\ Times(a) \in Nat /\ Times(a + 1) = Times(a) + Increment
      /\ StreamWindow \in Nat /\ Increment \in Nat /\ 0 < Increment /\ Increment <= StreamWindow
      /\ Bounded(c, t) /\ Kept(c) /\ c.st # "unused" /\ ~HasBegin(W2, s)
      /\ Credit(c, t, FALSE, d + 1, a)
  <2>1. /\ d \in Nat /\ Bounded(c, t) /\ Kept(c) /\ c.st # "unused" /\ ~HasBegin(W2, s)
        /\ h.cmd = "DATA" => Credit(c, t, FALSE, d + 1, a)
    BY ONLY First(s, cs, c, t, W, h, W2, a), <1>1, StreamTaken
  <2>2. Times(a) \in Nat /\ Times(a + 1) = Times(a) + Increment  BY <1>0, TimesStep
  <2>3. StreamWindow \in Nat /\ Increment \in Nat /\ 0 < Increment /\ Increment <= StreamWindow
    BY RendezvousAssumption
  <2>4. Credit(c, t, FALSE, d + 1, a)  BY <2>1
  <2> QED BY <2>1, <2>2, <2>3, <2>4
<1>3. t2.open /\ t.open /\ t2.got = Append(t.got, n)  BY DEF Delivered
<1>4. c.pkg \in Int /\ t.del \in Int /\ t.del \in 0..StreamWindow  BY <1>2 DEF Bounded
<1>5. /\ Credit(c, t2, FALSE, d, a2)
      /\ \/ t2.del = t.del - 1 /\ t.del - 1 > StreamWindow - Increment
         \/ t2.del = StreamWindow
  <2>1. Counting(c, t, t2, d, a)  BY <1>0, <1>2, <1>3, <1>4 DEF Counting
  <2> QED BY <2>1, CreditCounts
<1>6. t2.del \in 0..StreamWindow  BY <1>2, <1>4, <1>5
<1>7. PICK from \in Nat, to \in Int : from = Len(t.got) + 1 /\ to = c.next - Len(c.kept)
  <2>1. Len(t.got) + 1 \in Nat /\ c.next - Len(c.kept) \in Int  BY <1>0 DEF Target, Client
  <2> QED BY <2>1
<1>8. Ordered(c, t, HasBegin(W, s), DataOf(W, s), Seqs(W))  BY <1>0 DEF StreamOk
<1>9. c.lost = 0 => Line(DataOf(W, s), Seqs(W), from, to)  BY <1>3, <1>7, <1>8 DEF Ordered
<1>10. c.lost = 0 => n = from /\ Line(DataOf(W2, s), Seqs(W2), from + 1, to)
  BY <1>0, <1>9, WayTaken
<1>11. /\ Len(t2.got) = from
       /\ \A i \in 1..(from - 1) : t2.got[i] = t.got[i]
       /\ t2.got[from] = n
  <2>1. t.got \in Seq(Nat)  BY <1>0 DEF Target
  <2> QED BY <1>3, <1>7, <2>1
<1>12. Bounded(c, t2)
  <2>1. ASSUME c.lost = 0, NEW i \in 1..Len(t2.got) PROVE t2.got[i] = i
    <3>1. i \in 1..(from - 1) \/ i = from  BY <1>11
    <3>2. \A j \in 1..(from - 1) : t.got[j] = j
      <4>1. from - 1 = Len(t.got)  BY <1>0, <1>7 DEF Target
      <4> QED BY <1>2, <2>1, <4>1 DEF Bounded
    <3> QED BY <1>10, <1>11, <2>1, <3>1, <3>2
  <2> QED BY <1>2, <1>6, <2>1 DEF Bounded
<1>13. Credit(c, t2, HasBegin(W2, s), CellsOf(W2, "DATA", s), a2)
  BY <1>1, <1>2, <1>5 DEF Credit
<1>14. Ordered(c, t2, HasBegin(W2, s), DataOf(W2, s), Seqs(W2))
  BY <1>7, <1>8, <1>10, <1>11 DEF Ordered
<1> QED BY <1>2, <1>12, <1>13, <1>14 DEF StreamOk

-----------------------------------------------------------------------------
(* Numbers, records and loops.                                             *)

\* The least of two or three numbers.
LEMMA MinOf ==
    ASSUME NEW x \in Int, NEW y \in Int, NEW z \in Int
    PROVE  /\ Min({x, y}) \in {x, y} /\ Min({x, y}) <= x /\ Min({x, y}) <= y
           /\ Min({x, y, z}) \in {x, y, z} /\ Min({x, y, z}) <= x /\ Min({x, y, z}) <= y
           /\ Min({x, y, z}) <= z
BY DEF Min

\* Updates of several fields of one stream.
Cut(cs, s, p, n, x, y, l, z) ==
    [cs EXCEPT ![s].pkg = p, ![s].next = n, ![s].paused = x, ![s].kept = y, ![s].lost = l,
               ![s].late = z]
IsCut(cs, s, p, n, x, y, l, z, cs2) ==
    /\ cs \in [Streams -> Client] /\ s \in Streams /\ p \in Int /\ n \in Nat /\ x \in BOOLEAN
    /\ y \in Seq(Sealed) /\ l \in Nat /\ z \in BOOLEAN /\ cs2 = Cut(cs, s, p, n, x, y, l, z)
Resumed(cs, s, p, x, y) == [cs EXCEPT ![s].pkg = p, ![s].paused = x, ![s].kept = y]

\* The fields after a read.
LEMMA ReadFields ==
    ASSUME NEW cs, NEW s, NEW p, NEW n, NEW x, NEW y, NEW l, NEW z, NEW cs2,
           IsCut(cs, s, p, n, x, y, l, z, cs2)
    PROVE  /\ cs2 \in [Streams -> Client]
           /\ \A r \in Streams : r # s => cs2[r] = cs[r]
           /\ cs2[s].pkg = p /\ cs2[s].paused = x /\ cs2[s].kept = y
           /\ cs2[s].st = cs[s].st /\ cs2[s].next = n /\ cs2[s].lost = l
           /\ cs2[s].late = z
<1>0. /\ cs \in [Streams -> Client] /\ s \in Streams /\ p \in Int /\ n \in Nat /\ x \in BOOLEAN
      /\ y \in Seq(Sealed) /\ l \in Nat /\ z \in BOOLEAN /\ cs2 = Cut(cs, s, p, n, x, y, l, z)
  BY DEF IsCut
<1>1. PICK c : c = [st |-> cs[s].st, pkg |-> p, next |-> n, paused |-> x, kept |-> y, lost |-> l,
                    late |-> z]
  OBVIOUS
<1>2. c \in Client
  <2>1. cs[s].st \in {"unused", "open", "closed"}  BY <1>0 DEF Client
  <2> QED BY <1>0, <1>1, <2>1 DEF Client
<1>3. cs2[s] = c
  <2>1. cs[s] \in Client  BY <1>0
  <2>2. cs2[s] = [cs[s] EXCEPT !.pkg = p, !.next = n, !.paused = x, !.kept = y, !.lost = l,
                           !.late = z]
    BY <1>0 DEF Cut
  <2> QED BY <1>1, <2>1, <2>2 DEF Client
<1>4. DOMAIN cs2 = Streams /\ cs2 = [r \in Streams |-> cs2[r]]  BY <1>0 DEF Cut
<1>5. \A r \in Streams : r # s => cs2[r] = cs[r]  BY <1>0 DEF Cut
<1>6. cs2 \in [Streams -> Client]  BY <1>0, <1>2, <1>3, <1>4, <1>5
<1> QED BY <1>1, <1>3, <1>5, <1>6

\* The same when a client is resumed.
LEMMA ResumeFields ==
    ASSUME NEW cs \in [Streams -> Client], NEW s \in Streams, NEW p \in Int,
           NEW x \in BOOLEAN, NEW y \in Seq(Sealed), NEW cs2,
           cs2 = Resumed(cs, s, p, x, y)
    PROVE  /\ cs2 \in [Streams -> Client]
           /\ \A r \in Streams : r # s => cs2[r] = cs[r]
           /\ cs2[s].pkg = p /\ cs2[s].paused = x /\ cs2[s].kept = y
           /\ cs2[s].st = cs[s].st /\ cs2[s].next = cs[s].next /\ cs2[s].lost = cs[s].lost
           /\ cs2[s].late = cs[s].late
BY DEF Client, Resumed

\* A nonempty set of naturals has a least element.
LEMMA LeastNat ==
    ASSUME NEW T \in SUBSET Nat, T # {}
    PROVE  \E x \in T : \A y \in T : x <= y
<1> DEFINE R == {ss \in Nat \X Nat : ss[1] < ss[2]}
<1>0. IsWellFoundedOn(R, Nat)  BY NatLessThanWellFounded, Zenon DEF OpToRel
<1> HIDE DEF R
<1>1. PICK x \in T : \A y \in T : ~(<<y, x>> \in R)  BY <1>0, WFMin
<1>2. \A y \in T : ~(y < x)  BY <1>1 DEF R
<1> QED BY <1>2

\* A set that holds 0 and every successor up to n holds all numbers up to n.
LEMMA UpTo ==
    ASSUME NEW n \in Nat, NEW P \in SUBSET Nat, 0 \in P,
           \A k \in 0..(n - 1) : k \in P => k + 1 \in P
    PROVE  n \in P
<1> SUFFICES ASSUME n \notin P PROVE FALSE
  OBVIOUS
<1> DEFINE T == {k \in 0..n : k \notin P}
<1>1. T \in SUBSET Nat /\ T # {}  OBVIOUS
<1>2. PICK x \in T : \A y \in T : x <= y  BY <1>1, LeastNat
<1>3. x # 0 /\ x - 1 \in 0..(n - 1) /\ x - 1 \notin T  BY <1>2
<1>4. x - 1 \in P  BY <1>3
<1> QED BY <1>2, <1>3, <1>4

\* The clients are tried one after the other: the values the loop passes
\* through exist.
IsLoop(f, n, m) == f = [k \in 0..n |-> IF k = 0 THEN m ELSE ResumeOne(f[k - 1], k)]

\* The loop has a result.
LEMMA LoopExists ==
    ASSUME NEW n \in Nat, NEW m
    PROVE  \E f : IsLoop(f, n, m)
<1> DEFINE E(j) == \E f : f = [k \in 0..j |-> IF k = 0 THEN m ELSE ResumeOne(f[k - 1], k)]
           P == {j \in Nat : E(j)}
<1>1. 0 \in P
  <2>1. [k \in 0..0 |-> m]
          = [k \in 0..0 |-> IF k = 0 THEN m ELSE ResumeOne([i \in 0..0 |-> m][k - 1], k)]
    OBVIOUS
  <2> QED BY <2>1
<1>2. ASSUME NEW j \in 0..(n - 1), j \in P PROVE j + 1 \in P
  <2>1. PICK f : f = [k \in 0..j |-> IF k = 0 THEN m ELSE ResumeOne(f[k - 1], k)]  BY <1>2
  <2> DEFINE h == [k \in 0..(j + 1) |-> IF k = j + 1 THEN ResumeOne(f[j], k) ELSE f[k]]
  <2>2. \A k \in 0..(j + 1) : h[k] = IF k = 0 THEN m ELSE ResumeOne(h[k - 1], k)  BY <2>1
  <2>3. h = [k \in 0..(j + 1) |-> IF k = 0 THEN m ELSE ResumeOne(h[k - 1], k)]  BY <2>2
  <2> HIDE DEF h
  <2>4. E(j + 1)  BY <2>3
  <2>5. j + 1 \in Nat  OBVIOUS
  <2> HIDE DEF E
  <2> QED BY <2>4, <2>5
<1> HIDE DEF P
<1>3. n \in P  BY <1>1, <1>2, UpTo DEF P
<1> QED BY <1>3 DEF P, IsLoop

-----------------------------------------------------------------------------
(* moor_socks5_resume_reads.                                               *)

\* The client in the middle of the loop, with q ahead of what it sends.
Resuming(acc, q, ts, A, send, recv) ==
    /\ q \in Seq(FwdCell) /\ ts \in [Streams -> Target] /\ \A s \in Streams : A[s] \in Nat
    /\ send \in Nat /\ recv \in Nat
    /\ acc.window \in 0..CircWindow /\ acc.clients \in [Streams -> Client]
    /\ acc.out \in Seq(FwdCell)
    /\ Core(acc.clients, ts, q \o acc.out, A, send, recv)

\* The cells that carry chunks d[1] to d[n] of stream s.
Carries(R, s, n, d) ==
    /\ s \in Streams /\ n \in Nat /\ \A i \in 1..n : d[i] \in Sealed
    /\ R = [i \in 1..n |-> Cell("DATA", s, d[i])]

\* They are cells, put behind a queue.
LEMMA SealedCells ==
    ASSUME NEW s, NEW n, NEW d, NEW R, Carries(R, s, n, d)
    PROVE  /\ R \in Seq(FwdCell) /\ Len(R) = n
           /\ \A i \in 1..n : R[i].cmd = "DATA" /\ R[i].sid = s /\ R[i].data = d[i]
<1>1. /\ s \in Streams /\ n \in Nat /\ \A i \in 1..n : d[i] \in Sealed
      /\ R = [i \in 1..n |-> Cell("DATA", s, d[i])]
  BY DEF Carries
<1>2. \A i \in 1..n : Cell("DATA", s, d[i]) \in FwdCell  BY <1>1 DEF Cell, FwdCell
<1>3. R \in [1..n -> FwdCell]  BY <1>1, <1>2
<1>4. R \in Seq(FwdCell) /\ Len(R) = n  BY <1>1, <1>3
<1>5. \A i \in 1..n : R[i].cmd = "DATA" /\ R[i].sid = s /\ R[i].data = d[i]  BY <1>1 DEF Cell
<1> QED BY <1>4, <1>5

\* Cells behind the last queue are behind the way.
LEMMA WayLonger ==
    ASSUME NEW q \in Seq(FwdCell), NEW o \in Seq(FwdCell), NEW R \in Seq(FwdCell)
    PROVE  /\ q \o o \in Seq(FwdCell) /\ o \o R \in Seq(FwdCell)
           /\ q \o (o \o R) \in Seq(FwdCell)
           /\ Joins(q \o (o \o R), q \o o, R)
<1>1. q \o (o \o R) = (q \o o) \o R  BY WayEnds
<1>2. PICK w \in Seq(FwdCell) : w = q \o o
  <2>1. q \o o \in Seq(FwdCell)  BY JoinConcat
  <2> QED BY <2>1
<1>3. w \o R \in Seq(FwdCell) /\ Joins(w \o R, w, R)  BY JoinConcat
<1> QED BY <1>1, <1>2, <1>3

\* One client is tried: its kept chunk, if both windows allow, is the next
\* cell behind the way.
LEMMA ResumeKeeps ==
    ASSUME NEW acc, NEW q, NEW ts, NEW A, NEW send, NEW recv,
           Resuming(acc, q, ts, A, send, recv), NEW s \in Streams
    PROVE  Resuming(ResumeOne(acc, s), q, ts, A, send, recv)
<1>1. /\ q \in Seq(FwdCell) /\ ts \in [Streams -> Target] /\ A[s] \in Nat
      /\ send \in Nat /\ recv \in Nat
      /\ \A r \in Streams : A[r] \in Nat
  BY DEF Resuming
<1>2. PICK cs, o, win : cs = acc.clients /\ o = acc.out /\ win = acc.window  OBVIOUS
<1>3. /\ win \in 0..CircWindow /\ cs \in [Streams -> Client] /\ o \in Seq(FwdCell)
      /\ Core(cs, ts, q \o o, A, send, recv)
  BY <1>2 DEF Resuming
<1>4. PICK c \in Client : c = cs[s]  BY <1>3
<1>5. PICK k \in {0, 1} : k = Len(c.kept)
  <2>1. Kept(c)  BY <1>3, <1>4 DEF Core, StreamOk
  <2> QED BY <2>1 DEF Kept
<1> DEFINE stays == ~(c.st = "open" /\ c.paused) \/ Min({win, c.pkg}) < k
<1>6. CASE stays
  <2>1. ResumeOne(acc, s) = acc  BY <1>2, <1>4, <1>5, <1>6 DEF ResumeOne
  <2> QED BY <2>1
<1>7. CASE ~stays
  <2>0. CircWindow \in Nat  BY RendezvousAssumption
  <2>1. c.st = "open" /\ k <= win /\ k <= c.pkg /\ c.pkg \in Int /\ c.kept \in Seq(Sealed)
    <3>1. c.pkg \in Int /\ c.kept \in Seq(Sealed)  BY DEF Client
    <3>2. win \in Int  BY <1>3, <2>0
    <3>3. PICK m : m = Min({win, c.pkg})  OBVIOUS
    <3>4. m \in {win, c.pkg} /\ m <= win /\ m <= c.pkg  BY <3>1, <3>2, <3>3, MinOf
    <3>5. c.st = "open" /\ ~(m < k)  BY <1>7, <3>3
    <3> QED BY <3>1, <3>2, <3>4, <3>5
  <2>2. PICK R : R = [i \in 1..k |-> Cell("DATA", s, c.kept[i])]  OBVIOUS
  <2>3. PICK cs2 : cs2 = [cs EXCEPT ![s].pkg = c.pkg - k, ![s].paused = FALSE, ![s].kept = <<>>]
    OBVIOUS
  <2>4. ResumeOne(acc, s) = [window |-> win - k, clients |-> cs2, out |-> o \o R]
    BY <1>2, <1>4, <1>5, <1>7, <2>2, <2>3 DEF ResumeOne
  <2>5. /\ R \in Seq(FwdCell) /\ Len(R) = k
        /\ \A i \in 1..k : R[i].cmd = "DATA" /\ R[i].sid = s /\ R[i].data = c.kept[i]
    <3>1. k \in Nat /\ \A i \in 1..k : c.kept[i] \in Sealed  BY <1>5, <2>1
    <3>2. Carries(R, s, k, c.kept)  BY <2>1, <2>2, <3>1 DEF Carries
    <3> QED BY <3>2, SealedCells
  <2>6. /\ cs2 \in [Streams -> Client]
        /\ \A r \in Streams : r # s => cs2[r] = cs[r]
        /\ cs2[s].pkg = c.pkg - k /\ cs2[s].paused = FALSE /\ cs2[s].kept = <<>>
        /\ cs2[s].st = cs[s].st /\ cs2[s].next = cs[s].next /\ cs2[s].lost = cs[s].lost
        /\ cs2[s].late = cs[s].late
    <3>1. c.pkg - k \in Int /\ <<>> \in Seq(Sealed) /\ FALSE \in BOOLEAN  BY <1>5, <2>1
    <3>2. PICK p \in Int, x \in BOOLEAN, y \in Seq(Sealed) :
            p = c.pkg - k /\ x = FALSE /\ y = <<>>
      BY <3>1
    <3>3. cs2 = Resumed(cs, s, p, x, y)  BY <2>3, <3>2 DEF Resumed
    <3>4. /\ cs2 \in [Streams -> Client]
          /\ \A r \in Streams : r # s => cs2[r] = cs[r]
          /\ cs2[s].pkg = p /\ cs2[s].paused = x /\ cs2[s].kept = y
          /\ cs2[s].st = cs[s].st /\ cs2[s].next = cs[s].next /\ cs2[s].lost = cs[s].lost
          /\ cs2[s].late = cs[s].late
      <4>1. cs \in [Streams -> Client]  BY <1>3
      <4> QED BY <3>3, <4>1, ResumeFields
    <3> QED BY <3>2, <3>4
  <2>7. /\ q \o o \in Seq(FwdCell) /\ o \o R \in Seq(FwdCell)
        /\ Joins(q \o (o \o R), q \o o, R)
    BY <1>1, <1>3, <2>5, WayLonger
  <2>8. Sends(cs, cs2, s, R)
    <3>1. cs2[s].st = "open" /\ cs[s].st = "open"  BY <1>4, <2>1, <2>6
    <3> QED BY <1>3, <2>5, <2>6, <3>1 DEF Sends
  <2>9. Len(cs2[s].kept) = 0  BY <2>6
  <2>10. StreamOk(s, c, ts[s], q \o o, A[s])  BY <1>3, <1>4 DEF Core
  <2>11. Ships(s, cs[s], cs2[s], R)
    <3>1. Kept(cs2[s])  BY <1>4, <2>1, <2>6, <2>9 DEF Kept
    <3>2. c.lost = 0 => (k = 1 => c.kept[1].seq = c.next - 1)
      BY <1>5, <2>10 DEF StreamOk, Ordered
    <3>3. c.next \in Nat  BY DEF Client
    <3>4. c.lost = 0 => \A j \in 1..k : R[j].data.seq = c.next - k + j - 1
      <4> SUFFICES ASSUME c.lost = 0, NEW j \in 1..k
                   PROVE  R[j].data.seq = c.next - k + j - 1
        OBVIOUS
      <4>1. k = 1 /\ j = 1  BY <1>5
      <4>2. R[j].data = c.kept[1] /\ c.kept[1].seq = c.next - 1  BY <2>5, <3>2, <4>1
      <4>3. c.next - 1 = c.next - k + j - 1  BY <3>3, <4>1
      <4> QED BY <4>2, <4>3
    <3>5. c.next - 0 = c.next - k + k  BY <1>5, <3>3
    <3>6. cs2[s] \in Client /\ cs[s] \in Client  BY <1>3, <2>6
    <3> QED BY <1>4, <1>5, <2>1, <2>5, <2>6, <2>9, <3>1, <3>4, <3>5, <3>6 DEF Ships
  <2>12. Sealing(cs[s], q \o o, send, recv) => Seals(cs[s], cs2[s], R, send, send)
    <3> SUFFICES ASSUME Sealing(c, q \o o, send, recv) PROVE Seals(c, cs2[s], R, send, send)
      BY <1>4
    <3>0. k = 0 \/ k = 1  BY <1>5
    <3>1. k = 1 => c.kept[1].nonce = send - 1  BY <1>5 DEF Sealing
    <3>2. \A j \in 1..k : R[j].data.nonce = send - k + j - 1
      <4> SUFFICES ASSUME NEW j \in 1..k PROVE R[j].data.nonce = send - k + j - 1
        OBVIOUS
      <4>1. k = 1 /\ j = 1  BY <3>0
      <4>2. R[j].data = c.kept[1] /\ c.kept[1].nonce = send - 1  BY <2>5, <3>1, <4>1
      <4>3. send - 1 = send - k + j - 1  BY <1>1, <4>1
      <4> QED BY <4>2, <4>3
    <3>3. send - 0 = send - k + k  BY <1>1, <1>5
    <3> QED BY <1>5, <2>5, <2>9, <3>2, <3>3 DEF Seals
  <2>13. PICK w \in Seq(FwdCell) : w = q \o o  BY <2>7
  <2>14. Core(cs2, ts, q \o (o \o R), A, send, recv)
    <3>1. Joins(q \o (o \o R), w, R) /\ Core(cs, ts, w, A, send, recv)  BY <1>3, <2>7, <2>13
    <3>2. Sealing(cs[s], w, send, recv) /\ ~cs2[s].late => Seals(cs[s], cs2[s], R, send, send)
      BY <2>12, <2>13
    <3> QED BY <1>1, <2>8, <2>11, <3>1, <3>2, CoreShips
  <2>15. win - k \in 0..CircWindow  BY <1>3, <1>5, <2>0, <2>1
  <2> QED BY <1>1, <2>4, <2>6, <2>7, <2>14, <2>15 DEF Resuming
<1> QED BY <1>6, <1>7

\* So are all of them.
LEMMA LoopKeeps ==
    ASSUME NEW f, NEW m, IsLoop(f, N, m), NEW q, NEW ts, NEW A, NEW send, NEW recv,
           Resuming(m, q, ts, A, send, recv)
    PROVE  Resuming(f[N], q, ts, A, send, recv)
<1>0. N \in Nat  BY RendezvousAssumption
<1>1. f = [k \in 0..N |-> IF k = 0 THEN m ELSE ResumeOne(f[k - 1], k)]  BY DEF IsLoop
<1> DEFINE G(a) == Resuming(a, q, ts, A, send, recv)
           P == {k \in Nat : k <= N => G(f[k])}
<1> HIDE DEF G
<1>2. 0 \in P
  <2>1. f[0] = m  BY <1>0, <1>1
  <2>2. G(m)  BY DEF G
  <2> QED BY <2>1, <2>2
<1>3. ASSUME NEW k \in 0..(N - 1), k \in P PROVE k + 1 \in P
  <2>1. k + 1 \in 0..N /\ k + 1 # 0 /\ (k + 1) - 1 = k /\ k + 1 \in Nat /\ k + 1 \in 1..N
    BY <1>0
  <2>2. f[k + 1] = ResumeOne(f[k], k + 1)  BY <1>1, <2>1
  <2>3. G(f[k])  BY <1>0, <1>3
  <2>4. k + 1 \in Streams  BY <2>1 DEF Streams
  <2>5. PICK a, b : a = f[k] /\ b = k + 1  OBVIOUS
  <2>6. G(ResumeOne(a, b))
    <3>1. Resuming(a, q, ts, A, send, recv) /\ b \in Streams  BY <2>3, <2>4, <2>5 DEF G
    <3>2. Resuming(ResumeOne(a, b), q, ts, A, send, recv)  BY <3>1, ResumeKeeps
    <3> QED BY <3>2 DEF G
  <2> QED BY <2>1, <2>2, <2>5, <2>6
<1> HIDE DEF P
<1>4. N \in P  BY <1>0, <1>2, <1>3, UpTo DEF P
<1>5. G(f[N])  BY <1>0, <1>4 DEF P
<1> QED BY <1>5 DEF G

\* moor_socks5_resume_reads keeps everything in order.
LEMMA ResumeReadsKeeps ==
    ASSUME NEW cs, NEW m, m = [window |-> circ_package_window, clients |-> cs, out |-> c2rp],
           NEW q, NEW ts, NEW A, NEW send, NEW recv, Resuming(m, q, ts, A, send, recv)
    PROVE  Resuming(ResumeReads(cs), q, ts, A, send, recv)
<1> DEFINE g == CHOOSE f : IsLoop(f, N, m)
<1>1. IsLoop(g, N, m)
  <2>1. \E f : IsLoop(f, N, m)  BY LoopExists, RendezvousAssumption
  <2> QED BY <2>1
<1>2. ResumeReads(cs) = g[N]  BY DEF ResumeReads, IsLoop
<1> HIDE DEF g
<1> QED BY <1>1, <1>2, LoopKeeps

-----------------------------------------------------------------------------
(* SENDMEs on their way to the client.                                     *)

\* The client takes a cell.
LEMMA AcksTaken ==
    ASSUME NEW q \in Seq(SvcCell), NEW r \in Seq(BackCell), r # <<>>
    PROVE  /\ \A x \in Streams : Acks(q, r)[x] \in Nat /\ Acks(q, Tail(r))[x] \in Nat
           /\ Head(r).cmd = "SENDME" =>
                \A x \in Streams : /\ x # Head(r).sid => Acks(q, Tail(r))[x] = Acks(q, r)[x]
                                   /\ x = Head(r).sid => Acks(q, r)[x] = Acks(q, Tail(r))[x] + 1
           /\ Head(r).cmd # "SENDME" => Acks(q, Tail(r)) = Acks(q, r)
<1>1. ASSUME NEW x \in Streams
      PROVE  /\ CellsOf(q, "SENDME", x) \in Nat /\ CellsOf(r, "SENDME", x) \in Nat
             /\ CellsOf(Tail(r), "SENDME", x) \in Nat
             /\ Head(r).cmd = "SENDME" /\ Head(r).sid = x
                  => CellsOf(r, "SENDME", x) = CellsOf(Tail(r), "SENDME", x) + 1
             /\ Head(r).cmd # "SENDME" \/ Head(r).sid # x
                  => CellsOf(r, "SENDME", x) = CellsOf(Tail(r), "SENDME", x)
  <2>1. CellsOf(q, "SENDME", x) \in Nat  BY CellsUniform
  <2>2. /\ CellsOf(r, "SENDME", x) \in Nat /\ CellsOf(Tail(r), "SENDME", x) \in Nat
        /\ Head(r).cmd = "SENDME" /\ Head(r).sid = x
             => CellsOf(r, "SENDME", x) = CellsOf(Tail(r), "SENDME", x) + 1
        /\ Head(r).cmd # "SENDME" \/ Head(r).sid # x
             => CellsOf(r, "SENDME", x) = CellsOf(Tail(r), "SENDME", x)
    BY CellsEnds
  <2> QED BY <2>1, <2>2
<1>2. ASSUME NEW x \in Streams
      PROVE  /\ Acks(q, r)[x] = CellsOf(q, "SENDME", x) + CellsOf(r, "SENDME", x)
             /\ Acks(q, Tail(r))[x] = CellsOf(q, "SENDME", x) + CellsOf(Tail(r), "SENDME", x)
  BY DEF Acks
<1>3. \A x \in Streams : Acks(q, r)[x] \in Nat /\ Acks(q, Tail(r))[x] \in Nat  BY <1>1, <1>2
<1>4. ASSUME Head(r).cmd = "SENDME", NEW x \in Streams
      PROVE  /\ x # Head(r).sid => Acks(q, Tail(r))[x] = Acks(q, r)[x]
             /\ x = Head(r).sid => Acks(q, r)[x] = Acks(q, Tail(r))[x] + 1
  BY <1>1, <1>2, <1>4
<1>5. ASSUME Head(r).cmd # "SENDME" PROVE Acks(q, Tail(r)) = Acks(q, r)
  BY <1>1, <1>5 DEF Acks
<1> QED BY <1>3, <1>4, <1>5

\* The rendezvous point returns a cell of the service.
LEMMA AcksReturned ==
    ASSUME NEW q \in Seq(SvcCell), NEW r \in Seq(BackCell), q # <<>>
    PROVE  Acks(Tail(q), Append(r, Head(q))) = Acks(q, r)
<1>0. PICK h \in SvcCell : h = Head(q)  OBVIOUS
<1>h. h \in BackCell  BY DEF BackCell
<1>1. ASSUME NEW x \in Streams
      PROVE  CellsOf(Tail(q), "SENDME", x) + CellsOf(Append(r, h), "SENDME", x)
               = CellsOf(q, "SENDME", x) + CellsOf(r, "SENDME", x)
  <2>1. /\ CellsOf(q, "SENDME", x) \in Nat /\ CellsOf(Tail(q), "SENDME", x) \in Nat
        /\ h.cmd = "SENDME" /\ h.sid = x
             => CellsOf(q, "SENDME", x) = CellsOf(Tail(q), "SENDME", x) + 1
        /\ h.cmd # "SENDME" \/ h.sid # x
             => CellsOf(q, "SENDME", x) = CellsOf(Tail(q), "SENDME", x)
    BY <1>0, CellsEnds
  <2>2. /\ CellsOf(r, "SENDME", x) \in Nat
        /\ h.cmd = "SENDME" /\ h.sid = x
             => CellsOf(Append(r, h), "SENDME", x) = CellsOf(r, "SENDME", x) + 1
        /\ h.cmd # "SENDME" \/ h.sid # x
             => CellsOf(Append(r, h), "SENDME", x) = CellsOf(r, "SENDME", x)
    BY <1>h, CellsEnds
  <2> QED BY <2>1, <2>2
<1> QED BY <1>0, <1>1 DEF Acks

\* The service sends a cell.
LEMMA AcksSent ==
    ASSUME NEW q \in Seq(SvcCell), NEW r \in Seq(BackCell), NEW c \in SvcCell
    PROVE  /\ \A x \in Streams : Acks(q, r)[x] \in Nat
           /\ c.cmd # "SENDME" => Acks(Append(q, c), r) = Acks(q, r)
           /\ c.cmd = "SENDME" =>
                \A x \in Streams :
                  /\ x # c.sid => Acks(Append(q, c), r)[x] = Acks(q, r)[x]
                  /\ x = c.sid => Acks(Append(q, c), r)[x] = Acks(q, r)[x] + 1
<1>1. ASSUME NEW x \in Streams
      PROVE  /\ CellsOf(q, "SENDME", x) \in Nat /\ CellsOf(r, "SENDME", x) \in Nat
             /\ c.cmd = "SENDME" /\ c.sid = x
                  => CellsOf(Append(q, c), "SENDME", x) = CellsOf(q, "SENDME", x) + 1
             /\ c.cmd # "SENDME" \/ c.sid # x
                  => CellsOf(Append(q, c), "SENDME", x) = CellsOf(q, "SENDME", x)
  <2>1. CellsOf(r, "SENDME", x) \in Nat  BY CellsUniform
  <2>2. /\ CellsOf(q, "SENDME", x) \in Nat
        /\ c.cmd = "SENDME" /\ c.sid = x
             => CellsOf(Append(q, c), "SENDME", x) = CellsOf(q, "SENDME", x) + 1
        /\ c.cmd # "SENDME" \/ c.sid # x
             => CellsOf(Append(q, c), "SENDME", x) = CellsOf(q, "SENDME", x)
    BY CellsEnds
  <2> QED BY <2>1, <2>2
<1>2. ASSUME NEW x \in Streams
      PROVE  /\ Acks(q, r)[x] = CellsOf(q, "SENDME", x) + CellsOf(r, "SENDME", x)
             /\ Acks(Append(q, c), r)[x]
                  = CellsOf(Append(q, c), "SENDME", x) + CellsOf(r, "SENDME", x)
  BY DEF Acks
<1>3. \A x \in Streams : Acks(q, r)[x] \in Nat  BY <1>1, <1>2
<1>4. ASSUME c.cmd = "SENDME", NEW x \in Streams
      PROVE  /\ x # c.sid => Acks(Append(q, c), r)[x] = Acks(q, r)[x]
             /\ x = c.sid => Acks(Append(q, c), r)[x] = Acks(q, r)[x] + 1
  BY <1>1, <1>2, <1>4
<1>5. ASSUME c.cmd # "SENDME" PROVE Acks(Append(q, c), r) = Acks(q, r)
  BY <1>1, <1>5 DEF Acks
<1> QED BY <1>3, <1>4, <1>5

\* A circuit SENDME is no stream's.
LEMMA AcksCirc ==
    ASSUME NEW q \in Seq(SvcCell), NEW r \in Seq(BackCell)
    PROVE  Acks(q, Append(r, Control("CIRC_SENDME", 0))) = Acks(q, r)
<1>1. PICK c \in BackCell : c = Control("CIRC_SENDME", 0)  BY DEF BackCell
<1>2. c.cmd # "SENDME"  BY <1>1 DEF Control, Cell
<1>3. ASSUME NEW x \in Streams
      PROVE  CellsOf(Append(r, c), "SENDME", x) = CellsOf(r, "SENDME", x)
  BY <1>2, CellsEnds
<1> QED BY <1>1, <1>3 DEF Acks

-----------------------------------------------------------------------------
(* The inductive invariant, used and established.                          *)

\* What it says while the circuit is open.
LEMMA InUsed ==
    ASSUME InInv, ~closed
    PROVE  /\ InTypes /\ Core(clients, targets, rp2hs \o c2rp, Acks(hs2rp, rp2c),
                              e2e_send_nonce, e2e_recv_nonce)
           /\ Way = rp2hs \o c2rp /\ Way \in Seq(FwdCell)
           /\ \A s \in Streams : Acks(hs2rp, rp2c)[s] \in Nat
<1>1. InTypes /\ Way = rp2hs \o c2rp  BY DEF InInv, Way
<1>2. Core(clients, targets, rp2hs \o c2rp, Acks(hs2rp, rp2c), e2e_send_nonce, e2e_recv_nonce)
  BY <1>1 DEF InInv
<1>3. Way \in Seq(FwdCell)  BY <1>1, JoinConcat DEF InTypes
<1>4. \A s \in Streams : Acks(hs2rp, rp2c)[s] \in Nat
  <2> TAKE s \in Streams
  <2>1. hs2rp \in Seq(SvcCell) /\ rp2c \in Seq(BackCell)  BY <1>1 DEF InTypes
  <2>2. CellsOf(hs2rp, "SENDME", s) \in Nat  BY <2>1, CellsUniform
  <2>3. CellsOf(rp2c, "SENDME", s) \in Nat  BY <2>1, CellsUniform
  <2> QED BY <2>2, <2>3 DEF Acks
<1> QED BY <1>1, <1>2, <1>3, <1>4

\* The whole being in order bounds every stream.
LEMMA CoreBounded ==
    ASSUME NEW cs, NEW ts, NEW W, NEW A, NEW send, NEW recv, Core(cs, ts, W, A, send, recv)
    PROVE  \A s \in Streams : Bounded(cs[s], ts[s])
BY DEF Core, StreamOk

\* What a step that leaves the circuit open has to show.
LEMMA InShown ==
    ASSUME InTypes', ~closed', NEW W, W = rp2hs' \o c2rp', NEW A, A = Acks(hs2rp', rp2c'),
           Core(clients', targets', W, A, e2e_send_nonce', e2e_recv_nonce')
    PROVE  InInv'
<1>1. \A s \in Streams : Bounded(clients'[s], targets'[s])  BY CoreBounded
<1>2. W = Way'  BY DEF Way
<1>3. A = (Acks(hs2rp, rp2c))'  BY DEF Acks
<1> QED BY <1>1, <1>2, <1>3 DEF InInv

\* What a step of the client has to show.
LEMMA ClientShownAny ==
    ASSUME InInv, ClientActs, c2rp' \in Seq(FwdCell),
           circ_package_window' \in 0..CircWindow, clients' \in [Streams -> Client],
           e2e_send_nonce' \in Nat, rp2c' \in Seq(BackCell), NEW W2, W2 = rp2hs \o c2rp',
           NEW A, A = Acks(hs2rp, rp2c'),
           Core(clients', targets, W2, A, e2e_send_nonce', e2e_recv_nonce)
    PROVE  InInv'
<1>1. /\ ~closed /\ closed' = closed /\ rp_deliver_window' = rp_deliver_window
      /\ e2e_recv_nonce' = e2e_recv_nonce /\ targets' = targets /\ rp2hs' = rp2hs /\ hs2rp' = hs2rp
  BY DEF ClientActs, svars
<1>2. InTypes  BY DEF InInv
<1>4. InTypes'  BY <1>1, <1>2 DEF InTypes
<1>5. W2 = rp2hs' \o c2rp' /\ A = Acks(hs2rp', rp2c') /\ ~closed'  BY <1>1
<1>6. Core(clients', targets', W2, A, e2e_send_nonce', e2e_recv_nonce')  BY <1>1
<1> QED BY <1>4, <1>5, <1>6, InShown

\* The client takes a step: cells R are put behind the way.
LEMMA ClientShown ==
    ASSUME InInv, ClientActs, NEW R \in Seq(FwdCell), c2rp' = c2rp \o R,
           circ_package_window' \in 0..CircWindow, clients' \in [Streams -> Client],
           e2e_send_nonce' \in Nat, rp2c' \in Seq(BackCell), NEW W2, W2 = rp2hs \o c2rp',
           NEW A, A = Acks(hs2rp, rp2c'),
           Core(clients', targets, W2, A, e2e_send_nonce', e2e_recv_nonce)
    PROVE  InInv'
<1>1. c2rp' \in Seq(FwdCell)
  <2>1. c2rp \in Seq(FwdCell)  BY DEF InInv, InTypes
  <2>2. c2rp \o R \in Seq(FwdCell)  BY <2>1, JoinConcat
  <2> QED BY <2>2
<1> QED BY <1>1, ClientShownAny

-----------------------------------------------------------------------------
(* The client's actions.                                                   *)

\* A control cell.
LEMMA ControlCell ==
    ASSUME NEW s \in Streams, NEW cmd \in {"BEGIN", "DATA", "END"}, NEW c, c = Control(cmd, s)
    PROVE  c \in FwdCell /\ c.cmd = cmd /\ c.sid = s
BY DEF Control, Cell, NoData, FwdCell, Sealed

\* A queue with one cell more.
LEMMA OneMore ==
    ASSUME NEW q \in Seq(FwdCell), NEW c \in FwdCell
    PROVE  /\ Append(q, c) = q \o <<c>> /\ <<c>> \in Seq(FwdCell) /\ Len(<<c>>) = 1
           /\ \A j \in 1..1 : <<c>>[j] = c
OBVIOUS

\* The state of one stream changes.
LEMMA StateField ==
    ASSUME NEW cs \in [Streams -> Client], NEW s \in Streams,
           NEW st \in {"unused", "open", "closed"}, NEW cs2, cs2 = [cs EXCEPT ![s].st = st]
    PROVE  /\ cs2 \in [Streams -> Client]
           /\ \A r \in Streams : r # s => cs2[r] = cs[r]
           /\ SameBut(cs[s], cs2[s], st)
BY DEF Client, SameBut

\* OpenStream keeps the invariant.
LEMMA OpenStreamKeeps ==
    ASSUME InInv, NEW s \in Streams, OpenStream(s)
    PROVE  InInv'
<1>1. /\ ClientActs /\ ~closed /\ clients[s].st = "unused"
      /\ clients' = [clients EXCEPT ![s].st = "open"]
      /\ c2rp' = Append(c2rp, Control("BEGIN", s))
      /\ circ_package_window' = circ_package_window /\ e2e_send_nonce' = e2e_send_nonce
      /\ rp2c' = rp2c
  BY DEF OpenStream, ClientActs
<1>2. /\ InTypes
      /\ Core(clients, targets, rp2hs \o c2rp, Acks(hs2rp, rp2c), e2e_send_nonce, e2e_recv_nonce)
  BY <1>1, InUsed
<1>3. /\ clients \in [Streams -> Client] /\ targets \in [Streams -> Target]
      /\ e2e_send_nonce \in Nat /\ e2e_recv_nonce \in Nat
      /\ c2rp \in Seq(FwdCell) /\ rp2hs \in Seq(FwdCell) /\ rp2c \in Seq(BackCell)
      /\ circ_package_window \in 0..CircWindow
  BY <1>2 DEF InTypes
<1>4. PICK c : c = Control("BEGIN", s) /\ c \in FwdCell /\ c.cmd = "BEGIN" /\ c.sid = s
  BY ControlCell
<1>5. PICK R \in Seq(FwdCell) : /\ R = <<c>> /\ Len(R) = 1 /\ \A j \in 1..1 : R[j] = c
                                /\ c2rp' = c2rp \o R
  BY <1>1, <1>3, <1>4, OneMore
<1>6. PICK W \in Seq(FwdCell), W2 \in Seq(FwdCell) :
        W = rp2hs \o c2rp /\ W2 = rp2hs \o c2rp' /\ Joins(W2, W, R)
  BY <1>3, <1>5, WayLonger
<1>7. /\ clients' \in [Streams -> Client]
      /\ \A r \in Streams : r # s => clients'[r] = clients[r]
      /\ SameBut(clients[s], clients'[s], "open")
  BY <1>1, <1>3, StateField
<1>8. Sends(clients, clients', s, R)
  <2>1. clients'[s].st = "open"  BY <1>7 DEF SameBut
  <2>4. clients[s].late => clients'[s].late  BY <1>7 DEF SameBut
  <2>2. \A j \in 1..Len(R) : R[j].sid = s /\ R[j].cmd = "BEGIN"  BY <1>4, <1>5
  <2>3. Len(R) = 1  BY <1>5
  <2> QED BY <1>1, <1>3, <1>7, <2>1, <2>2, <2>3, <2>4 DEF Sends
<1>9. \A j \in 1..Len(R) : R[j].cmd # "DATA"  BY <1>4, <1>5
<1>10. PICK A : A = Acks(hs2rp, rp2c)  OBVIOUS
<1>11. Core(clients, targets, W, A, e2e_send_nonce, e2e_recv_nonce)  BY <1>2, <1>6, <1>10
<1>12. Core(clients', targets, W2, A, e2e_send_nonce, e2e_recv_nonce)
  BY <1>1, <1>3, <1>6, <1>7, <1>8, <1>9, <1>11, CoreOpen
<1> QED BY <1>1, <1>3, <1>5, <1>6, <1>7, <1>10, <1>12, ClientShown

\* CloseStream keeps the invariant.
LEMMA CloseStreamKeeps ==
    ASSUME InInv, NEW s \in Streams, CloseStream(s)
    PROVE  InInv'
<1>1. /\ ClientActs /\ ~closed /\ clients[s].st = "open"
      /\ clients' = [clients EXCEPT ![s].st = "closed"]
      /\ c2rp' = Append(c2rp, Control("END", s))
      /\ circ_package_window' = circ_package_window /\ e2e_send_nonce' = e2e_send_nonce
      /\ rp2c' = rp2c
  BY DEF CloseStream, ClientActs, Readable
<1>2. /\ InTypes
      /\ Core(clients, targets, rp2hs \o c2rp, Acks(hs2rp, rp2c), e2e_send_nonce, e2e_recv_nonce)
  BY <1>1, InUsed
<1>3. /\ clients \in [Streams -> Client] /\ targets \in [Streams -> Target]
      /\ e2e_send_nonce \in Nat /\ e2e_recv_nonce \in Nat
      /\ c2rp \in Seq(FwdCell) /\ rp2hs \in Seq(FwdCell) /\ rp2c \in Seq(BackCell)
      /\ circ_package_window \in 0..CircWindow
  BY <1>2 DEF InTypes
<1>4. PICK c : c = Control("END", s) /\ c \in FwdCell /\ c.cmd = "END" /\ c.sid = s
  BY ControlCell
<1>5. PICK R \in Seq(FwdCell) : /\ R = <<c>> /\ Len(R) = 1 /\ \A j \in 1..1 : R[j] = c
                                /\ c2rp' = c2rp \o R
  BY <1>1, <1>3, <1>4, OneMore
<1>6. PICK W \in Seq(FwdCell), W2 \in Seq(FwdCell) :
        W = rp2hs \o c2rp /\ W2 = rp2hs \o c2rp' /\ Joins(W2, W, R)
  BY <1>3, <1>5, WayLonger
<1>7. /\ clients' \in [Streams -> Client]
      /\ \A r \in Streams : r # s => clients'[r] = clients[r]
      /\ SameBut(clients[s], clients'[s], "closed")
  BY <1>1, <1>3, StateField
<1>9. \A j \in 1..Len(R) : R[j].sid = s /\ R[j].cmd = "END"  BY <1>4, <1>5
<1>8. Sends(clients, clients', s, R)
  <2>1. clients'[s].st = "closed"  BY <1>7 DEF SameBut
  <2>2. clients[s].late => clients'[s].late  BY <1>7 DEF SameBut
  <2> QED BY <1>3, <1>7, <1>9, <2>1, <2>2 DEF Sends
<1>10. PICK A : A = Acks(hs2rp, rp2c)  OBVIOUS
<1>11. Core(clients, targets, W, A, e2e_send_nonce, e2e_recv_nonce)  BY <1>2, <1>6, <1>10
<1>12. Core(clients', targets, W2, A, e2e_send_nonce, e2e_recv_nonce)
  <2>1. \A j \in 1..Len(R) : R[j].cmd = "END"  BY <1>9
  <2> QED BY <1>3, <1>6, <1>7, <1>8, <1>11, <2>1, CoreClose
<1> QED BY <1>1, <1>3, <1>5, <1>6, <1>7, <1>10, <1>12, ClientShown

\* One read: n chunks are sealed and k of them sent.
Reads(s, c, c2, n, k, m, send, chunk, R) ==
    /\ c \in Client /\ c2 \in Client /\ Kept(c) /\ c.st = "open"
    /\ n \in Nat /\ k \in Nat /\ k <= n /\ k <= c.pkg /\ send \in Nat
    /\ m = IF k < n THEN k + 1 ELSE n
    /\ \A i \in 1..n : chunk[i].seq = c.next + i - 1 /\ chunk[i].nonce = send + i - 1
    /\ Len(R) = k
    /\ \A i \in 1..k : R[i].cmd = "DATA" /\ R[i].sid = s /\ R[i].data = chunk[i]
    /\ c2.st = c.st /\ c2.pkg = c.pkg - k /\ c2.next = c.next + n /\ c2.paused = (k < n)
    /\ c2.kept = (IF k < n THEN <<chunk[k + 1]>> ELSE c.kept)
    /\ c2.lost = c.lost + n - m + Len(c.kept) /\ (c.late \/ c.kept # <<>> => c2.late)

\* Its chunks and its nonces go on from where they were.
LEMMA ReadShips ==
    ASSUME NEW s, NEW c, NEW c2, NEW n, NEW k, NEW m, NEW send, NEW chunk, NEW R,
           Reads(s, c, c2, n, k, m, send, chunk, R)
    PROVE  Ships(s, c, c2, R) /\ (~c2.late => Seals(c, c2, R, send, send + m))
<1>1. /\ c \in Client /\ c2 \in Client /\ Kept(c) /\ c.st = "open"
      /\ n \in Nat /\ k \in Nat /\ k <= n /\ k <= c.pkg /\ send \in Nat
      /\ m = IF k < n THEN k + 1 ELSE n
      /\ Len(R) = k /\ c2.st = c.st /\ c2.pkg = c.pkg - k /\ c2.next = c.next + n
      /\ c2.lost = c.lost + n - m + Len(c.kept)
  BY DEF Reads
<1>2. /\ \A i \in 1..n : chunk[i].seq = c.next + i - 1 /\ chunk[i].nonce = send + i - 1
      /\ \A i \in 1..k : R[i].cmd = "DATA" /\ R[i].sid = s /\ R[i].data = chunk[i]
      /\ c2.kept = IF k < n THEN <<chunk[k + 1]>> ELSE c.kept
  BY DEF Reads
<1>3. c.pkg \in Int /\ c.next \in Nat /\ c.lost \in Nat  BY <1>1 DEF Client
<1>l. Len(c.kept) \in {0, 1}  BY <1>1 DEF Kept
<1>4. SUFFICES ASSUME Len(c.kept) = 0
               PROVE  Ships(s, c, c2, R) /\ Seals(c, c2, R, send, send + m)
  <2>1. CASE Len(c.kept) = 1
    <3>1. c2.late
      <4>1. c.kept # <<>>  BY <2>1
      <4> QED BY <4>1 DEF Reads
    <3>2. c2.lost # 0
      <4>1. m \in Nat /\ m <= n  BY <1>1
      <4> QED BY <1>1, <1>3, <2>1, <4>1
    <3>3. Kept(c2)
      <4>1. c2.kept = c.kept \/ Len(c2.kept) = 1  BY <1>2
      <4> QED BY <1>1, <1>l, <4>1 DEF Kept
    <3>4. \A j \in 1..k : R[j].cmd = "DATA" /\ R[j].sid = s  BY <1>2
    <3>5. Ships(s, c, c2, R)  BY <1>1, <3>2, <3>3, <3>4 DEF Ships
    <3> QED BY <3>1, <3>5
  <2> QED BY <1>l, <2>1
<1>5. \A j \in 1..k : R[j].data.seq = c.next + j - 1 /\ R[j].data.nonce = send + j - 1
  <2> SUFFICES ASSUME NEW j \in 1..k
               PROVE  R[j].data.seq = c.next + j - 1 /\ R[j].data.nonce = send + j - 1
    OBVIOUS
  <2>1. j \in 1..n  BY <1>1
  <2> QED BY <1>2, <2>1
<1>6. /\ \A j \in 1..k : R[j].data.seq = c.next - Len(c.kept) + j - 1
      /\ \A j \in 1..k : R[j].data.nonce = send - Len(c.kept) + j - 1
  <2>1. c.next - Len(c.kept) = c.next /\ send - Len(c.kept) = send  BY <1>1, <1>3, <1>4
  <2> QED BY <1>5, <2>1
<1>7. CASE k < n
  <2>1. PICK d : d = chunk[k + 1]  OBVIOUS
  <2>2. d.seq = c.next + k /\ d.nonce = send + k
    <3>1. k + 1 \in 1..n /\ c.next + (k + 1) - 1 = c.next + k /\ send + (k + 1) - 1 = send + k
      BY <1>1, <1>3, <1>7
    <3> QED BY <1>2, <2>1, <3>1
  <2>3. c2.kept = <<d>> /\ m = k + 1  BY <1>1, <1>2, <1>7, <2>1
  <2>4. Len(c2.kept) = 1 /\ c2.kept[1] = d  BY <2>3
  <2>5. Kept(c2)  BY <1>1, <2>3, <2>4 DEF Kept
  <2>6. Seals(c, c2, R, send, send + m)
    <3>1. (send + m) - 1 = send - 0 + k /\ send + k = (send + m) - 1  BY <1>1, <2>3
    <3> QED BY <1>1, <1>4, <1>6, <2>2, <2>4, <3>1 DEF Seals
  <2>7. c2.lost = 0 => /\ c.lost = 0
                       /\ c2.next - 1 = c.next - 0 + k
                       /\ c.next + k = c2.next - 1
    <3>1. c2.lost = c.lost + n - (k + 1) /\ c2.next = c.next + n  BY <1>1, <1>3, <1>4, <2>3
    <3>2. PICK a \in Nat, b \in Nat : a = c.lost /\ b = c.next  BY <1>3
    <3>3. a + n - (k + 1) = 0 => a = 0 /\ b + n - 1 = b - 0 + k /\ b + k = b + n - 1
      BY <1>1, <1>7
    <3>4. c2.lost = a + n - (k + 1) /\ c2.next = b + n  BY <3>1, <3>2
    <3>5. ASSUME c2.lost = 0
          PROVE  c.lost = 0 /\ c2.next - 1 = c.next - 0 + k /\ c.next + k = c2.next - 1
      <4>1. a = 0 /\ b + n - 1 = b - 0 + k /\ b + k = b + n - 1  BY <3>3, <3>4, <3>5
      <4>2. n \in Nat /\ k \in Nat  BY <1>1
      <4>3. c2.next - 1 = b + n - 1  BY <3>4, <4>2
      <4> QED BY <3>2, <4>1, <4>3, Zenon
    <3> QED BY <3>5
  <2>8. Ships(s, c, c2, R)
    <3>1. c2.lost = 0 => /\ c.lost = 0
                         /\ \A j \in 1..k : R[j].data.seq = c.next - Len(c.kept) + j - 1
                         /\ c2.next - Len(c2.kept) = c.next - Len(c.kept) + k
                         /\ c2.kept[1].seq = c2.next - 1
      BY <1>4, <1>6, <2>2, <2>4, <2>7
    <3>2. \A j \in 1..k : R[j].cmd = "DATA" /\ R[j].sid = s  BY <1>2
    <3> QED BY <1>1, <2>5, <3>1, <3>2 DEF Ships
  <2> QED BY <2>6, <2>8
<1>8. CASE ~(k < n)
  <2>1. k = n /\ m = n /\ c2.kept = c.kept /\ Len(c2.kept) = 0  BY <1>1, <1>2, <1>4, <1>8
  <2>2. Kept(c2)  BY <1>1, <2>1 DEF Kept
  <2>3. Seals(c, c2, R, send, send + m)
    <3>1. (send + m) - 0 = send - 0 + k  BY <1>1, <2>1
    <3>2. Len(c2.kept) = 0 /\ Len(c.kept) = 0 /\ Len(R) = k  BY <1>1, <1>4, <2>1
    <3>3. (send + m) - Len(c2.kept) = send - Len(c.kept) + Len(R)  BY <3>1, <3>2
    <3>4. \A j \in 1..Len(R) : R[j].data.nonce = send - Len(c.kept) + j - 1  BY <1>6, <3>2
    <3> QED BY <3>2, <3>3, <3>4 DEF Seals
  <2>4. c2.lost = 0 => c.lost = 0 /\ c2.next - 0 = c.next - 0 + k  BY <1>1, <1>3, <1>4, <2>1
  <2>5. Ships(s, c, c2, R)
    <3>1. c2.lost = 0 => /\ c.lost = 0
                         /\ \A j \in 1..k : R[j].data.seq = c.next - Len(c.kept) + j - 1
                         /\ c2.next - Len(c2.kept) = c.next - Len(c.kept) + k
      BY <1>4, <1>6, <2>1, <2>4
    <3>2. \A j \in 1..k : R[j].cmd = "DATA" /\ R[j].sid = s  BY <1>2
    <3> QED BY <1>1, <2>1, <2>2, <3>1, <3>2 DEF Ships
  <2> QED BY <2>3, <2>5
<1> QED BY <1>7, <1>8

\* ClientSend keeps the invariant.
LEMMA ClientSendKeeps ==
    ASSUME InInv, NEW s \in Streams, NEW n \in 1..MaxRead, ClientSend(s, n)
    PROVE  InInv'
<1>0. n \in Nat /\ CircWindow \in Nat  BY RendezvousAssumption
<1> DEFINE K == Min({n, circ_package_window, clients[s].pkg})
           M == Min({n, K + 1})
           C == [i \in 1..n |-> [seq |-> clients[s].next + i - 1,
                                 nonce |-> e2e_send_nonce + i - 1]]
<1>u. /\ ClientActs /\ clients[s].st = "open"
      /\ c2rp' = c2rp \o [i \in 1..K |-> Cell("DATA", s, C[i])]
      /\ circ_package_window' = circ_package_window - K
      /\ clients' = [clients EXCEPT ![s].pkg = @ - K, ![s].next = @ + n, ![s].paused = K < n,
                                    ![s].kept = IF K < n THEN <<C[K + 1]>> ELSE @,
                                    ![s].lost = @ + n - M + Len(clients[s].kept),
                                    ![s].late = @ \/ clients[s].kept # <<>>]
      /\ e2e_send_nonce' = e2e_send_nonce + M
      /\ rp2c' = rp2c
  BY DEF ClientSend, Readable
<1>1. PICK k, m, chunk : k = K /\ m = M /\ chunk = C  OBVIOUS
<1>2. /\ ClientActs /\ ~closed /\ clients[s].st = "open"
      /\ c2rp' = c2rp \o [i \in 1..k |-> Cell("DATA", s, chunk[i])]
      /\ circ_package_window' = circ_package_window - k
      /\ clients' = [clients EXCEPT ![s].pkg = @ - k, ![s].next = @ + n, ![s].paused = k < n,
                                    ![s].kept = IF k < n THEN <<chunk[k + 1]>> ELSE @,
                                    ![s].lost = @ + n - m + Len(clients[s].kept),
                                    ![s].late = @ \/ clients[s].kept # <<>>]
      /\ e2e_send_nonce' = e2e_send_nonce + m
      /\ rp2c' = rp2c
  <2>1. ~closed  BY <1>u DEF ClientActs
  <2> HIDE DEF K, M, C
  <2> QED BY <1>u, <1>1, <2>1
<1>3. /\ InTypes
      /\ Core(clients, targets, rp2hs \o c2rp, Acks(hs2rp, rp2c), e2e_send_nonce, e2e_recv_nonce)
      /\ \A r \in Streams : Acks(hs2rp, rp2c)[r] \in Nat
  BY <1>2, InUsed
<1>4. /\ clients \in [Streams -> Client] /\ targets \in [Streams -> Target]
      /\ e2e_send_nonce \in Nat /\ e2e_recv_nonce \in Nat
      /\ c2rp \in Seq(FwdCell) /\ rp2hs \in Seq(FwdCell) /\ rp2c \in Seq(BackCell)
      /\ circ_package_window \in 0..CircWindow
  BY <1>3 DEF InTypes
<1>5. PICK c \in Client, send \in Nat : c = clients[s] /\ send = e2e_send_nonce  BY <1>4
<1>6. c.pkg \in Nat /\ c.next \in Nat /\ c.lost \in Nat /\ Kept(c) /\ c.st = "open"
      /\ c.kept \in Seq(Sealed) /\ Len(c.kept) \in Nat /\ c.late \in BOOLEAN
  <2>1. StreamOk(s, c, targets[s], rp2hs \o c2rp, Acks(hs2rp, rp2c)[s])  BY <1>3, <1>5 DEF Core
  <2>2. c.pkg \in 0..StreamWindow /\ Kept(c)  BY <2>1 DEF StreamOk, Bounded
  <2>3. /\ c.next \in Nat /\ c.lost \in Nat /\ c.kept \in Seq(Sealed) /\ Len(c.kept) \in Nat
        /\ c.late \in BOOLEAN
    BY DEF Client
  <2>4. StreamWindow \in Nat  BY RendezvousAssumption
  <2> QED BY <1>2, <1>5, <2>2, <2>3, <2>4
<1>7. k \in Nat /\ k <= n /\ k <= c.pkg /\ k <= circ_package_window
  <2>1. PICK x \in Nat, y \in Nat : x = circ_package_window /\ y = c.pkg
    <3>1. circ_package_window \in Nat  BY <1>0, <1>4
    <3> QED BY <1>6, <3>1
  <2>2. k = Min({n, x, y})  BY <1>1, <1>5, <2>1
  <2>3. k \in {n, x, y} /\ k <= n /\ k <= x /\ k <= y
    <3>1. n \in Int /\ x \in Int /\ y \in Int  BY <1>0
    <3>2. /\ Min({n, x, y}) \in {n, x, y} /\ Min({n, x, y}) <= n /\ Min({n, x, y}) <= x
          /\ Min({n, x, y}) <= y
      BY <3>1, MinOf
    <3> QED BY <2>2, <3>2
  <2> QED BY <1>0, <2>1, <2>3
<1>8. m = (IF k < n THEN k + 1 ELSE n) /\ m \in Nat /\ m <= n
  <2>1. k + 1 \in Int /\ n \in Int  BY <1>0, <1>7
  <2>2. m \in {n, k + 1} /\ m <= n /\ m <= k + 1  BY <1>1, <2>1, MinOf
  <2> QED BY <1>0, <1>7, <2>2
<1>9. \A i \in 1..n : /\ chunk[i] \in Sealed
                      /\ chunk[i].seq = c.next + i - 1 /\ chunk[i].nonce = send + i - 1
  <2> SUFFICES ASSUME NEW i \in 1..n
               PROVE  /\ chunk[i] \in Sealed
                      /\ chunk[i].seq = c.next + i - 1 /\ chunk[i].nonce = send + i - 1
    OBVIOUS
  <2>1. PICK a \in Nat, b \in Nat : a = c.next + i - 1 /\ b = send + i - 1  BY <1>0, <1>6
  <2>2. chunk[i] = [seq |-> a, nonce |-> b]  BY <1>1, <1>5, <2>1
  <2> QED BY <2>1, <2>2 DEF Sealed
<1>10. PICK R : R = [i \in 1..k |-> Cell("DATA", s, chunk[i])]  OBVIOUS
<1>11. /\ R \in Seq(FwdCell) /\ Len(R) = k
       /\ \A i \in 1..k : R[i].cmd = "DATA" /\ R[i].sid = s /\ R[i].data = chunk[i]
  <2>1. \A i \in 1..k : chunk[i] \in Sealed
    <3> TAKE i \in 1..k
    <3>1. i \in 1..n  BY <1>0, <1>7
    <3> QED BY <1>9, <3>1
  <2>2. k \in Nat  BY <1>7
  <2>3. Carries(R, s, k, chunk)  BY <1>10, <2>1, <2>2 DEF Carries
  <2> QED BY <2>3, SealedCells
<1>12. PICK p \in Int, q \in Nat, x \in BOOLEAN, y \in Seq(Sealed), l \in Nat,
            z \in BOOLEAN :
         /\ p = c.pkg - k /\ q = c.next + n /\ x = (k < n)
         /\ y = (IF k < n THEN <<chunk[k + 1]>> ELSE c.kept) /\ l = c.lost + n - m + Len(c.kept)
         /\ z = (c.late \/ c.kept # <<>>)
  <2>1. c.pkg - k \in Int /\ c.next + n \in Nat /\ c.lost + n - m + Len(c.kept) \in Nat
    BY <1>0, <1>6, <1>7, <1>8
  <2>2. (k < n) \in BOOLEAN /\ (c.late \/ c.kept # <<>>) \in BOOLEAN  OBVIOUS
  <2>3. (IF k < n THEN <<chunk[k + 1]>> ELSE c.kept) \in Seq(Sealed)
    <3>1. CASE k < n
      <4>1. k + 1 \in 1..n  BY <1>0, <1>7, <3>1
      <4>2. PICK d \in Sealed : d = chunk[k + 1]  BY <1>9, <4>1
      <4>3. <<d>> \in Seq(Sealed)  OBVIOUS
      <4> QED BY <3>1, <4>2, <4>3
    <3>2. CASE ~(k < n)
      BY <1>6, <3>2
    <3> QED BY <3>1, <3>2
  <2> QED BY <2>1, <2>2, <2>3
<1>13. clients' = Cut(clients, s, p, q, x, y, l, z)
  <2>1. clients' = [clients EXCEPT ![s].pkg = @ - k, ![s].next = @ + n, ![s].paused = x,
                                   ![s].kept = y,
                                   ![s].lost = @ + n - m + Len(clients[s].kept),
                                   ![s].late = @ \/ clients[s].kept # <<>>]
    BY <1>2, <1>5, <1>12
  <2>2. /\ p = clients[s].pkg - k /\ q = clients[s].next + n
        /\ l = clients[s].lost + n - m + Len(clients[s].kept)
        /\ z = (clients[s].late \/ clients[s].kept # <<>>)
    BY <1>5, <1>12
  <2> QED BY <1>4, <2>1, <2>2 DEF Cut, Client
<1>14. /\ clients' \in [Streams -> Client]
       /\ \A r \in Streams : r # s => clients'[r] = clients[r]
       /\ clients'[s].pkg = p /\ clients'[s].paused = x /\ clients'[s].kept = y
       /\ clients'[s].st = clients[s].st /\ clients'[s].next = q /\ clients'[s].lost = l
       /\ clients'[s].late = z
  <2>1. PICK cs \in [Streams -> Client] : cs = clients  BY <1>4
  <2>2. PICK cs2 : cs2 = clients'  OBVIOUS
  <2>3. cs2 = Cut(cs, s, p, q, x, y, l, z)  BY <1>13, <2>1, <2>2
  <2>4. /\ cs2 \in [Streams -> Client]
        /\ \A r \in Streams : r # s => cs2[r] = cs[r]
        /\ cs2[s].pkg = p /\ cs2[s].paused = x /\ cs2[s].kept = y
        /\ cs2[s].st = cs[s].st /\ cs2[s].next = q /\ cs2[s].lost = l
        /\ cs2[s].late = z
    <3>1. IsCut(cs, s, p, q, x, y, l, z, cs2)  BY <2>3 DEF IsCut
    <3> QED BY <3>1, ReadFields
  <2> QED BY <2>1, <2>2, <2>4
<1>15. PICK c2 \in Client : c2 = clients'[s]  BY <1>14
<1>16. Reads(s, c, c2, n, k, m, send, chunk, R)
  <2>1. \A i \in 1..n : chunk[i].seq = c.next + i - 1 /\ chunk[i].nonce = send + i - 1  BY <1>9
  <2>2. /\ c2.st = c.st /\ c2.pkg = c.pkg - k /\ c2.next = c.next + n /\ c2.paused = (k < n)
        /\ c2.kept = (IF k < n THEN <<chunk[k + 1]>> ELSE c.kept)
        /\ c2.lost = c.lost + n - m + Len(c.kept) /\ (c.late \/ c.kept # <<>> => c2.late)
    BY <1>5, <1>12, <1>14, <1>15
  <2>3. m = IF k < n THEN k + 1 ELSE n  BY <1>8
  <2> QED BY <1>0, <1>6, <1>7, <1>11, <2>1, <2>2, <2>3 DEF Reads
<1>17. Ships(s, c, c2, R) /\ (~c2.late => Seals(c, c2, R, send, send + m))  BY <1>16, ReadShips
<1>18. Sends(clients, clients', s, R)
  <2>1. /\ clients'[s].st = "open" /\ clients[s].st = "open"
        /\ clients[s].late => clients'[s].late
    BY <1>5, <1>6, <1>12, <1>14
  <2> QED BY <1>4, <1>11, <1>14, <2>1 DEF Sends
<1>19. PICK W \in Seq(FwdCell), W2 \in Seq(FwdCell) :
         W = rp2hs \o c2rp /\ W2 = rp2hs \o c2rp' /\ Joins(W2, W, R)
  <2>1. c2rp' = c2rp \o R  BY <1>2, <1>10
  <2> QED BY <1>4, <1>11, <2>1, WayLonger
<1>a. PICK A : A = Acks(hs2rp, rp2c)  OBVIOUS
<1>20. PICK send2 \in Nat : send2 = send + m  BY <1>8
<1>21. Core(clients, targets, W, A, send, e2e_recv_nonce) /\ A[s] \in Nat
  BY <1>3, <1>5, <1>19, <1>a
<1>22. Core(clients', targets, W2, A, send2, e2e_recv_nonce)
  <2>1. /\ Ships(s, clients[s], clients'[s], R)
        /\ ~clients'[s].late => Seals(clients[s], clients'[s], R, send, send2)
    BY <1>5, <1>15, <1>17, <1>20
  <2> QED BY <1>4, <1>18, <1>19, <1>21, <2>1, CoreShips
<1>23. circ_package_window' \in 0..CircWindow
  <2>1. k \in Nat /\ k <= circ_package_window  BY <1>7
  <2>2. circ_package_window' = circ_package_window - k  BY <1>2
  <2>3. circ_package_window \in 0..CircWindow /\ CircWindow \in Nat  BY <1>0, <1>4
  <2> QED BY <2>1, <2>2, <2>3
<1>24. e2e_send_nonce' = send2 /\ c2rp' = c2rp \o R  BY <1>2, <1>5, <1>10, <1>20
<1>25. /\ ClientActs /\ clients' \in [Streams -> Client] /\ R \in Seq(FwdCell)
       /\ W2 = rp2hs \o c2rp'
  BY <1>2, <1>11, <1>14, <1>19
<1>26. A = Acks(hs2rp, rp2c') /\ rp2c' \in Seq(BackCell)  BY <1>2, <1>4, <1>a
<1>27. Core(clients', targets, W2, A, e2e_send_nonce', e2e_recv_nonce) /\ e2e_send_nonce' \in Nat
  BY <1>22, <1>24
<1> HIDE DEF K, M, C
<1> QED BY <1>23, <1>24, <1>25, <1>26, <1>27, ClientShown

\* Whether clients are paused is no part of it.
LEMMA CorePaused ==
    ASSUME NEW cs, NEW cs2, NEW ts, NEW W, NEW A, NEW send, NEW recv, Core(cs, ts, W, A, send, recv),
           \A r \in Streams :
             /\ cs2[r].st = cs[r].st /\ cs2[r].pkg = cs[r].pkg /\ cs2[r].next = cs[r].next
             /\ cs2[r].kept = cs[r].kept /\ cs2[r].lost = cs[r].lost /\ cs2[r].late = cs[r].late,
           \A i \in DOMAIN W : W[i].sid \in Streams
    PROVE  Core(cs2, ts, W, A, send, recv)
<1>1. WayOk(cs2, W)  BY DEF Core, WayOk
<1>2. ASSUME NEW s \in Streams PROVE StreamOk(s, cs2[s], ts[s], W, A[s])
  <2>1. StreamOk(s, cs[s], ts[s], W, A[s])  BY DEF Core
  <2>2. Bounded(cs2[s], ts[s]) /\ Kept(cs2[s])  BY <2>1 DEF StreamOk, Bounded, Kept
  <2>3. Credit(cs2[s], ts[s], HasBegin(W, s), CellsOf(W, "DATA", s), A[s])
    BY <2>1 DEF StreamOk, Credit
  <2>4. Ordered(cs2[s], ts[s], HasBegin(W, s), DataOf(W, s), Seqs(W))
    BY <2>1 DEF StreamOk, Ordered
  <2> QED BY <2>2, <2>3, <2>4 DEF StreamOk
<1>3. NoncesOk(cs2, W, send, recv)
  <2>1. (Unused(cs2) <=> Unused(cs)) /\ (Alone(cs2) <=> Alone(cs))  BY DEF Unused, Alone
  <2>2. \A s \in Streams : Sealing(cs[s], W, send, recv) => Sealing(cs2[s], W, send, recv)
    BY DEF Sealing
  <2> QED BY <2>1, <2>2 DEF Core, NoncesOk
<1> QED BY <1>1, <1>2, <1>3 DEF Core

\* The guard link's queue pauses clients and lets them go on.
Pauses ==
    /\ ClientActs /\ clients' \in [Streams -> Client]
    /\ \A r \in Streams :
         /\ clients'[r].st = clients[r].st /\ clients'[r].pkg = clients[r].pkg
         /\ clients'[r].next = clients[r].next /\ clients'[r].kept = clients[r].kept
         /\ clients'[r].lost = clients[r].lost /\ clients'[r].late = clients[r].late
    /\ circ_package_window' = circ_package_window /\ e2e_send_nonce' = e2e_send_nonce
    /\ c2rp' = c2rp /\ rp2c' = rp2c

\* That keeps the invariant.
LEMMA PausesKeeps ==
    ASSUME InInv, Pauses
    PROVE  InInv'
<1>1. /\ ClientActs /\ ~closed /\ clients' \in [Streams -> Client]
      /\ circ_package_window' = circ_package_window /\ e2e_send_nonce' = e2e_send_nonce
      /\ c2rp' = c2rp /\ rp2c' = rp2c
  BY DEF Pauses, ClientActs
<1>2. /\ InTypes /\ Way = rp2hs \o c2rp /\ Way \in Seq(FwdCell)
      /\ Core(clients, targets, rp2hs \o c2rp, Acks(hs2rp, rp2c), e2e_send_nonce, e2e_recv_nonce)
  BY <1>1, InUsed
<1>3. /\ e2e_send_nonce \in Nat /\ c2rp \in Seq(FwdCell) /\ rp2c \in Seq(BackCell)
      /\ circ_package_window \in 0..CircWindow
  BY <1>2 DEF InTypes
<1>4. PICK W \in Seq(FwdCell) : W = rp2hs \o c2rp  BY <1>2
<1>a. PICK A : A = Acks(hs2rp, rp2c)  OBVIOUS
<1>5. \A i \in DOMAIN W : W[i].sid \in Streams
  <2>1. \A i \in DOMAIN W : W[i] \in FwdCell  OBVIOUS
  <2> QED BY <2>1 DEF FwdCell
<1>6. Core(clients, targets, W, A, e2e_send_nonce, e2e_recv_nonce)  BY <1>2, <1>4, <1>a
<1>7. Core(clients', targets, W, A, e2e_send_nonce, e2e_recv_nonce)
  <2>1. PICK cs, cs2 : cs = clients /\ cs2 = clients'  OBVIOUS
  <2>2. \A r \in Streams :
          /\ cs2[r].st = cs[r].st /\ cs2[r].pkg = cs[r].pkg /\ cs2[r].next = cs[r].next
          /\ cs2[r].kept = cs[r].kept /\ cs2[r].lost = cs[r].lost /\ cs2[r].late = cs[r].late
    BY <2>1 DEF Pauses
  <2>3. Core(cs, targets, W, A, e2e_send_nonce, e2e_recv_nonce)  BY <1>6, <2>1
  <2>4. Core(cs2, targets, W, A, e2e_send_nonce, e2e_recv_nonce)
    BY <1>5, <2>2, <2>3, CorePaused
  <2> QED BY <2>1, <2>4
<1>8. /\ W = rp2hs \o c2rp' /\ A = Acks(hs2rp, rp2c')
      /\ Core(clients', targets, W, A, e2e_send_nonce', e2e_recv_nonce)
  BY <1>1, <1>4, <1>a, <1>7
<1>9. /\ c2rp' \in Seq(FwdCell) /\ circ_package_window' \in 0..CircWindow
      /\ e2e_send_nonce' \in Nat /\ rp2c' \in Seq(BackCell)
  BY <1>1, <1>3
<1> QED BY <1>1, <1>8, <1>9, ClientShownAny

\* A field of every client may change.
LEMMA ClientPaused ==
    ASSUME NEW c \in Client, NEW x \in BOOLEAN, NEW c2, c2 = [c EXCEPT !.paused = x]
    PROVE  /\ c2 \in Client /\ c2.st = c.st /\ c2.pkg = c.pkg /\ c2.next = c.next
           /\ c2.kept = c.kept /\ c2.lost = c.lost /\ c2.late = c.late
BY DEF Client

\* ClientBackpressure keeps the invariant.
LEMMA ClientBackpressureKeeps ==
    ASSUME InInv, NEW s \in Streams, ClientBackpressure(s)
    PROVE  InInv'
<1>1. /\ ClientActs /\ clients' = [clients EXCEPT ![s].paused = TRUE]
      /\ circ_package_window' = circ_package_window /\ e2e_send_nonce' = e2e_send_nonce
      /\ c2rp' = c2rp /\ rp2c' = rp2c
  BY DEF ClientBackpressure
<1>2. clients \in [Streams -> Client]  BY DEF InInv, InTypes
<1>3. \A r \in Streams : r # s => clients'[r] = clients[r]  BY <1>1, <1>2
<1>4. clients'[s] = [clients[s] EXCEPT !.paused = TRUE] /\ clients[s] \in Client  BY <1>1, <1>2
<1>5. /\ clients'[s] \in Client /\ clients'[s].st = clients[s].st
      /\ clients'[s].pkg = clients[s].pkg /\ clients'[s].next = clients[s].next
      /\ clients'[s].kept = clients[s].kept /\ clients'[s].lost = clients[s].lost
      /\ clients'[s].late = clients[s].late
  <2>1. PICK x \in BOOLEAN : x = TRUE  OBVIOUS
  <2>3. PICK c, c2 : /\ c \in Client
          /\ c = clients[s] /\ c2 = clients'[s] /\ c2 = [c EXCEPT !.paused = x]
    BY <1>4, <2>1
  <2>2. /\ c2 \in Client /\ c2.st = c.st /\ c2.pkg = c.pkg /\ c2.next = c.next
        /\ c2.kept = c.kept /\ c2.lost = c.lost /\ c2.late = c.late
    BY <2>3, ClientPaused
  <2> QED BY <2>2, <2>3
<1>6. clients' \in [Streams -> Client]
  <2>1. DOMAIN clients' = Streams /\ clients' = [r \in Streams |-> clients'[r]]  BY <1>1, <1>2
  <2> QED BY <1>2, <1>3, <1>5, <2>1
<1>7. Pauses  BY <1>1, <1>3, <1>5, <1>6 DEF Pauses
<1> QED BY <1>7, PausesKeeps

\* LinkWritable keeps the invariant.
LEMMA LinkWritableKeeps ==
    ASSUME InInv, LinkWritable
    PROVE  InInv'
<1>1. /\ ClientActs
      /\ clients' = [s \in Streams |-> [clients[s] EXCEPT
                       !.paused = clients[s].paused /\ clients[s].st # "open"]]
      /\ circ_package_window' = circ_package_window /\ e2e_send_nonce' = e2e_send_nonce
      /\ c2rp' = c2rp /\ rp2c' = rp2c
  BY DEF LinkWritable
<1>2. clients \in [Streams -> Client]  BY DEF InInv, InTypes
<1>3. ASSUME NEW r \in Streams
      PROVE  /\ clients'[r] \in Client /\ clients'[r].st = clients[r].st
             /\ clients'[r].pkg = clients[r].pkg /\ clients'[r].next = clients[r].next
             /\ clients'[r].kept = clients[r].kept /\ clients'[r].lost = clients[r].lost
             /\ clients'[r].late = clients[r].late
  <2>1. PICK x \in BOOLEAN : x = (clients[r].paused /\ clients[r].st # "open")  OBVIOUS
  <2>2. PICK c, c2 : /\ c \in Client
          /\ c = clients[r] /\ c2 = clients'[r] /\ c2 = [c EXCEPT !.paused = x]
    BY <1>1, <1>2, <2>1
  <2>3. /\ c2 \in Client /\ c2.st = c.st /\ c2.pkg = c.pkg /\ c2.next = c.next
        /\ c2.kept = c.kept /\ c2.lost = c.lost /\ c2.late = c.late
    BY <2>2, ClientPaused
  <2> QED BY <2>2, <2>3
<1>4. clients' \in [Streams -> Client]
  <2>1. DOMAIN clients' = Streams /\ clients' = [r \in Streams |-> clients'[r]]  BY <1>1
  <2> QED BY <1>3, <2>1
<1>5. Pauses  BY <1>1, <1>3, <1>4 DEF Pauses
<1> QED BY <1>5, PausesKeeps

\* ClientTimeout keeps the invariant: nothing is on its way any more.
LEMMA ClientTimeoutKeeps ==
    ASSUME InInv, NEW s \in Streams, ClientTimeout(s)
    PROVE  InInv'
<1>1. /\ closed' = TRUE
      /\ clients' = [r \in Streams |-> [clients[r] EXCEPT
                       !.st = IF clients[r].st = "open" THEN "closed" ELSE clients[r].st,
                       !.paused = FALSE]]
      /\ c2rp' = <<>> /\ rp2hs' = <<>> /\ hs2rp' = <<>> /\ rp2c' = <<>>
      /\ circ_package_window' = circ_package_window /\ e2e_send_nonce' = e2e_send_nonce
      /\ rp_deliver_window' = rp_deliver_window /\ e2e_recv_nonce' = e2e_recv_nonce
      /\ targets' = targets
  BY DEF ClientTimeout
<1>2. InTypes /\ \A r \in Streams : Bounded(clients[r], targets[r])  BY DEF InInv
<1>3. clients \in [Streams -> Client]  BY <1>2 DEF InTypes
<1>4. ASSUME NEW r \in Streams
      PROVE  /\ clients'[r] \in Client /\ clients'[r].pkg = clients[r].pkg
             /\ clients'[r].lost = clients[r].lost
  <2>1. PICK c \in Client : c = clients[r]  BY <1>3
  <2>2. c.st \in {"unused", "open", "closed"}  BY DEF Client
  <2>3. PICK st \in {"unused", "open", "closed"} : st = IF c.st = "open" THEN "closed" ELSE c.st
    BY <2>2
  <2>4. clients'[r] = [c EXCEPT !.st = st, !.paused = FALSE]  BY <1>1, <2>1, <2>3
  <2> QED BY <2>1, <2>4 DEF Client
<1>5. clients' \in [Streams -> Client]
  <2>1. DOMAIN clients' = Streams /\ clients' = [r \in Streams |-> clients'[r]]  BY <1>1
  <2> QED BY <1>4, <2>1
<1>6. InTypes'
  <2>1. /\ <<>> \in Seq(FwdCell) /\ <<>> \in Seq(SvcCell) /\ <<>> \in Seq(BackCell)  OBVIOUS
  <2>2. closed' \in BOOLEAN  BY <1>1
  <2>3. /\ c2rp' \in Seq(FwdCell) /\ rp2hs' \in Seq(FwdCell)
        /\ hs2rp' \in Seq(SvcCell) /\ rp2c' \in Seq(BackCell)
    BY <1>1, <2>1
  <2> QED BY <1>1, <1>2, <1>5, <2>2, <2>3 DEF InTypes
<1>7. (\A r \in Streams : Bounded(clients[r], targets[r]))'
  <2> SUFFICES ASSUME NEW r \in Streams PROVE Bounded(clients'[r], targets'[r])
    OBVIOUS
  <2>1. Bounded(clients[r], targets[r])  BY <1>2
  <2> QED BY <1>1, <1>4, <2>1 DEF Bounded
<1>8. Way' = <<>>
  <2>1. rp2hs' = <<>> /\ c2rp' = <<>>  BY <1>1
  <2>2. <<>> \o <<>> = <<>>  OBVIOUS
  <2> QED BY <2>1, <2>2, Zenon DEF Way
<1>9. closed'  BY <1>1
<1>10. (closed => ~Alone(clients) \/ Way = <<>>)'  BY <1>8
<1> QED BY <1>6, <1>7, <1>9, <1>10 DEF InInv

\* A SENDME of a stream that is no longer open changes nothing.
LEMMA CoreLate ==
    ASSUME NEW cs, NEW s \in Streams, cs \in [Streams -> Client], cs[s].st # "open",
           NEW ts \in [Streams -> Target], NEW A, NEW A2,
           \A r \in Streams : r # s => A2[r] = A[r], A2[s] \in Nat, A[s] = A2[s] + 1,
           NEW send \in Nat, NEW recv \in Nat, NEW W \in Seq(FwdCell),
           Core(cs, ts, W, A, send, recv)
    PROVE  Core(cs, ts, W, A2, send, recv)
<1>1. /\ WayOk(cs, W) /\ NoncesOk(cs, W, send, recv)
      /\ \A r \in Streams : StreamOk(r, cs[r], ts[r], W, A[r])
  BY DEF Core
<1>2. /\ Bounded(cs[s], ts[s]) /\ Kept(cs[s])
      /\ Credit(cs[s], ts[s], HasBegin(W, s), CellsOf(W, "DATA", s), A[s])
      /\ Ordered(cs[s], ts[s], HasBegin(W, s), DataOf(W, s), Seqs(W))
  BY <1>1 DEF StreamOk
<1>3. A[s] # 0  OBVIOUS
<1>4. cs[s].st # "unused"  BY <1>2, <1>3 DEF Credit
<1>5. Credit(cs[s], ts[s], HasBegin(W, s), CellsOf(W, "DATA", s), A2[s])
  BY <1>2, <1>4 DEF Credit
<1>6. \A r \in Streams : StreamOk(r, cs[r], ts[r], W, A2[r])
  <2> TAKE r \in Streams
  <2>1. CASE r = s
    BY <1>2, <1>5, <2>1 DEF StreamOk
  <2>2. CASE r # s
    BY <1>1, <2>2
  <2> QED BY <2>1, <2>2
<1> QED BY <1>1, <1>6 DEF Core

\* The client takes a cell.
LEMMA ClientTook ==
    ASSUME InInv, NEW cmd, ClientTakes(cmd)
    PROVE  /\ ClientActs /\ ~closed /\ rp2c # <<>> /\ Head(rp2c).cmd = cmd /\ Head(rp2c) \in BackCell
           /\ rp2c' = Tail(rp2c) /\ e2e_send_nonce' = e2e_send_nonce
           /\ clients \in [Streams -> Client] /\ targets \in [Streams -> Target]
           /\ e2e_send_nonce \in Nat /\ e2e_recv_nonce \in Nat
           /\ c2rp \in Seq(FwdCell) /\ rp2hs \in Seq(FwdCell)
           /\ hs2rp \in Seq(SvcCell) /\ rp2c \in Seq(BackCell) /\ rp2c' \in Seq(BackCell)
           /\ circ_package_window \in 0..CircWindow
           /\ rp2hs \o c2rp \in Seq(FwdCell) /\ c2rp = c2rp \o <<>> /\ <<>> \in Seq(FwdCell)
           /\ Core(clients, targets, rp2hs \o c2rp, Acks(hs2rp, rp2c), e2e_send_nonce,
                   e2e_recv_nonce)
           /\ \A x \in Streams : Acks(hs2rp, rp2c)[x] \in Nat /\ Acks(hs2rp, rp2c')[x] \in Nat
           /\ Head(rp2c).cmd # "SENDME" => Acks(hs2rp, rp2c') = Acks(hs2rp, rp2c)
<1>1. /\ ClientActs /\ ~closed /\ rp2c # <<>> /\ Head(rp2c).cmd = cmd
      /\ rp2c' = Tail(rp2c) /\ e2e_send_nonce' = e2e_send_nonce
  BY DEF ClientTakes, ClientActs
<1>2. /\ InTypes /\ Way = rp2hs \o c2rp /\ Way \in Seq(FwdCell)
      /\ Core(clients, targets, rp2hs \o c2rp, Acks(hs2rp, rp2c), e2e_send_nonce, e2e_recv_nonce)
  BY <1>1, InUsed
<1>3. /\ clients \in [Streams -> Client] /\ targets \in [Streams -> Target]
      /\ e2e_send_nonce \in Nat /\ e2e_recv_nonce \in Nat
      /\ c2rp \in Seq(FwdCell) /\ rp2hs \in Seq(FwdCell)
      /\ hs2rp \in Seq(SvcCell) /\ rp2c \in Seq(BackCell)
      /\ circ_package_window \in 0..CircWindow
  BY <1>2 DEF InTypes
<1>4. Head(rp2c) \in BackCell /\ Tail(rp2c) \in Seq(BackCell)  BY <1>1, <1>3
<1>5. c2rp = c2rp \o <<>> /\ <<>> \in Seq(FwdCell)  BY <1>3
<1>6. /\ \A x \in Streams : Acks(hs2rp, rp2c)[x] \in Nat /\ Acks(hs2rp, Tail(rp2c))[x] \in Nat
      /\ Head(rp2c).cmd # "SENDME" => Acks(hs2rp, Tail(rp2c)) = Acks(hs2rp, rp2c)
  BY <1>1, <1>3, AcksTaken
<1>7. /\ \A x \in Streams : Acks(hs2rp, rp2c)[x] \in Nat /\ Acks(hs2rp, rp2c')[x] \in Nat
      /\ Head(rp2c).cmd # "SENDME" => Acks(hs2rp, rp2c') = Acks(hs2rp, rp2c)
  BY <1>1, <1>6
<1> QED BY <1>1, <1>2, <1>3, <1>4, <1>5, <1>7

\* ClientCircSendme and ClientConnected change nothing else.
LEMMA ClientIgnores ==
    ASSUME InInv, NEW cmd, cmd # "SENDME", ClientTakes(cmd),
           circ_package_window' = circ_package_window, clients' = clients, c2rp' = c2rp
    PROVE  InInv'
<1>1. /\ ClientActs /\ Head(rp2c).cmd = cmd /\ e2e_send_nonce' = e2e_send_nonce
      /\ clients \in [Streams -> Client] /\ e2e_send_nonce \in Nat
      /\ rp2c' \in Seq(BackCell) /\ circ_package_window \in 0..CircWindow
      /\ c2rp = c2rp \o <<>> /\ <<>> \in Seq(FwdCell)
      /\ Core(clients, targets, rp2hs \o c2rp, Acks(hs2rp, rp2c), e2e_send_nonce, e2e_recv_nonce)
      /\ Head(rp2c).cmd # "SENDME" => Acks(hs2rp, rp2c') = Acks(hs2rp, rp2c)
  BY ClientTook
<1>2. PICK R \in Seq(FwdCell) : R = <<>>  BY <1>1
<1>3. PICK W, A : W = rp2hs \o c2rp' /\ A = Acks(hs2rp, rp2c')  OBVIOUS
<1>4. A = Acks(hs2rp, rp2c) /\ W = rp2hs \o c2rp  BY <1>1, <1>3
<1>5. Core(clients', targets, W, A, e2e_send_nonce', e2e_recv_nonce)  BY <1>1, <1>4
<1>6. c2rp' = c2rp \o R  BY <1>1, <1>2
<1> QED BY <1>1, <1>3, <1>5, <1>6, ClientShown

\* ClientEnd keeps the invariant.
LEMMA ClientEndKeeps ==
    ASSUME InInv, ClientEnd
    PROVE  InInv'
<1>1. /\ ClientTakes("END") /\ circ_package_window' = circ_package_window /\ c2rp' = c2rp
      /\ clients' = [clients EXCEPT ![Head(rp2c).sid].st = "closed"]
  BY DEF ClientEnd
<1>2. /\ ClientActs /\ Head(rp2c).cmd = "END" /\ Head(rp2c) \in BackCell
      /\ e2e_send_nonce' = e2e_send_nonce
      /\ clients \in [Streams -> Client] /\ targets \in [Streams -> Target]
      /\ e2e_send_nonce \in Nat /\ e2e_recv_nonce \in Nat
      /\ rp2c' \in Seq(BackCell) /\ circ_package_window \in 0..CircWindow
      /\ rp2hs \o c2rp \in Seq(FwdCell) /\ c2rp = c2rp \o <<>> /\ <<>> \in Seq(FwdCell)
      /\ Core(clients, targets, rp2hs \o c2rp, Acks(hs2rp, rp2c), e2e_send_nonce, e2e_recv_nonce)
      /\ Head(rp2c).cmd # "SENDME" => Acks(hs2rp, rp2c') = Acks(hs2rp, rp2c)
  BY <1>1, ClientTook
<1>3. PICK s \in Streams : s = Head(rp2c).sid
  <2>1. PICK h \in BackCell : h = Head(rp2c)  BY <1>2
  <2>2. h \in SvcCell  BY <1>2, <2>1 DEF BackCell, Control, Cell
  <2>3. h.sid \in Streams  BY <2>2 DEF SvcCell
  <2> QED BY <2>1, <2>3
<1>4. /\ clients' \in [Streams -> Client]
      /\ \A r \in Streams : r # s => clients'[r] = clients[r]
      /\ SameBut(clients[s], clients'[s], "closed")
  <2>1. clients' = [clients EXCEPT ![s].st = "closed"] /\ clients \in [Streams -> Client]
    BY <1>1, <1>2, <1>3
  <2> QED BY <2>1, StateField
<1>5. PICK R \in Seq(FwdCell) : R = <<>> /\ Len(R) = 0  BY <1>2
<1>6. PICK W \in Seq(FwdCell) : W = rp2hs \o c2rp  BY <1>2
<1>7. Joins(W, W, R)  BY <1>5 DEF Joins, IsQueue
<1>8. Sends(clients, clients', s, R)
  <2>1. clients'[s].st = "closed"  BY <1>4 DEF SameBut
  <2>2. \A j \in 1..Len(R) : FALSE  BY <1>5
  <2>3. clients[s].late => clients'[s].late  BY <1>4 DEF SameBut
  <2> QED BY <1>2, <1>4, <2>1, <2>2, <2>3 DEF Sends
<1>9. PICK A : A = Acks(hs2rp, rp2c')  OBVIOUS
<1>10. Core(clients, targets, W, A, e2e_send_nonce, e2e_recv_nonce)  BY <1>2, <1>6, <1>9
<1>11. Core(clients', targets, W, A, e2e_send_nonce, e2e_recv_nonce)
  <2>1. \A j \in 1..Len(R) : R[j].cmd = "END"  BY <1>5
  <2>2. targets \in [Streams -> Target] /\ e2e_send_nonce \in Nat /\ e2e_recv_nonce \in Nat
    BY <1>2
  <2>3. SameBut(clients[s], clients'[s], "closed")  BY <1>4
  <2> QED BY <1>7, <1>8, <1>10, <2>1, <2>2, <2>3, CoreClose
<1>12. c2rp' = c2rp \o R /\ W = rp2hs \o c2rp'  BY <1>1, <1>2, <1>5, <1>6
<1>13. /\ circ_package_window' \in 0..CircWindow /\ e2e_send_nonce' \in Nat
       /\ Core(clients', targets, W, A, e2e_send_nonce', e2e_recv_nonce)
  BY <1>1, <1>2, <1>11
<1> QED BY <1>2, <1>4, <1>9, <1>12, <1>13, ClientShown

\* ClientStreamSendme keeps the invariant.
LEMMA ClientStreamSendmeKeeps ==
    ASSUME InInv, ClientStreamSendme
    PROVE  InInv'
<1> DEFINE h == Head(rp2c)
           C1 == [clients EXCEPT ![h.sid].pkg = @ + Increment]
<1>1. /\ ClientTakes("SENDME")
      /\ clients[h.sid].st = "open" => /\ clients' = ResumeReads(C1).clients
                                       /\ circ_package_window' = ResumeReads(C1).window
                                       /\ c2rp' = ResumeReads(C1).out
      /\ clients[h.sid].st # "open" => /\ clients' = clients
                                       /\ circ_package_window' = circ_package_window
                                       /\ c2rp' = c2rp
  BY DEF ClientStreamSendme
<1>2. /\ ClientActs /\ ~closed /\ h.cmd = "SENDME" /\ h \in BackCell /\ rp2c # <<>>
      /\ rp2c' = Tail(rp2c) /\ e2e_send_nonce' = e2e_send_nonce
      /\ clients \in [Streams -> Client] /\ targets \in [Streams -> Target]
      /\ e2e_send_nonce \in Nat /\ e2e_recv_nonce \in Nat
      /\ c2rp \in Seq(FwdCell) /\ rp2hs \in Seq(FwdCell)
      /\ hs2rp \in Seq(SvcCell) /\ rp2c \in Seq(BackCell) /\ rp2c' \in Seq(BackCell)
      /\ circ_package_window \in 0..CircWindow /\ rp2hs \o c2rp \in Seq(FwdCell)
      /\ Core(clients, targets, rp2hs \o c2rp, Acks(hs2rp, rp2c), e2e_send_nonce, e2e_recv_nonce)
      /\ \A x \in Streams : Acks(hs2rp, rp2c')[x] \in Nat
  BY <1>1, ClientTook
<1>3. PICK s \in Streams : s = h.sid
  <2>1. PICK g \in BackCell : g = h  BY <1>2
  <2>2. g \in SvcCell  BY <1>2, <2>1 DEF BackCell, Control, Cell
  <2>3. g.sid \in Streams  BY <2>2 DEF SvcCell
  <2> QED BY <2>1, <2>3
<1>4. PICK A, A2 : A = Acks(hs2rp, rp2c) /\ A2 = Acks(hs2rp, rp2c')  OBVIOUS
<1>5. /\ \A r \in Streams : r # s => A2[r] = A[r]
      /\ A2[s] \in Nat /\ A[s] = A2[s] + 1
      /\ \A r \in Streams : A2[r] \in Nat
  <2>1. \A x \in Streams :
          /\ x # h.sid => Acks(hs2rp, Tail(rp2c))[x] = Acks(hs2rp, rp2c)[x]
          /\ x = h.sid => Acks(hs2rp, rp2c)[x] = Acks(hs2rp, Tail(rp2c))[x] + 1
    BY <1>2, AcksTaken
  <2>2. A2 = Acks(hs2rp, Tail(rp2c))  BY <1>2, <1>4
  <2>3. \A x \in Streams : /\ x # s => A2[x] = A[x]
                           /\ x = s => A[x] = A2[x] + 1
    BY <1>3, <1>4, <2>1, <2>2
  <2>4. \A x \in Streams : A2[x] \in Nat  BY <1>2, <1>4
  <2> QED BY <2>3, <2>4
<1>6. PICK W \in Seq(FwdCell) : W = rp2hs \o c2rp  BY <1>2
<1>7. Core(clients, targets, W, A, e2e_send_nonce, e2e_recv_nonce)  BY <1>2, <1>4, <1>6
<1> HIDE DEF h, C1
<1>8. CASE clients[s].st # "open"
  <2>1. clients' = clients /\ circ_package_window' = circ_package_window /\ c2rp' = c2rp
    BY <1>1, <1>3, <1>8
  <2>t. /\ clients \in [Streams -> Client] /\ targets \in [Streams -> Target]
        /\ e2e_send_nonce \in Nat /\ e2e_recv_nonce \in Nat
    BY <1>2
  <2>a. /\ \A r \in Streams : r # s => A2[r] = A[r]
        /\ A2[s] \in Nat /\ A[s] = A2[s] + 1
    BY <1>5
  <2>2. Core(clients, targets, W, A2, e2e_send_nonce, e2e_recv_nonce)
    BY <1>7, <1>8, <2>t, <2>a, CoreLate
  <2>3. /\ c2rp' \in Seq(FwdCell) /\ circ_package_window' \in 0..CircWindow
        /\ clients' \in [Streams -> Client] /\ e2e_send_nonce' \in Nat /\ W = rp2hs \o c2rp'
        /\ Core(clients', targets, W, A2, e2e_send_nonce', e2e_recv_nonce)
    BY <1>2, <1>6, <2>1, <2>2
  <2>4. ClientActs /\ rp2c' \in Seq(BackCell)  BY <1>2
  <2> QED BY <1>4, <2>3, <2>4, ClientShownAny
<1>9. CASE clients[s].st = "open"
  <2>1. PICK cs2 : cs2 = [clients EXCEPT ![s].pkg = @ + Increment]  OBVIOUS
  <2>2. /\ clients' = ResumeReads(cs2).clients /\ circ_package_window' = ResumeReads(cs2).window
        /\ c2rp' = ResumeReads(cs2).out
    BY <1>1, <1>3, <1>9, <2>1 DEF C1
  <2>3. /\ cs2 \in [Streams -> Client]
        /\ \A r \in Streams : r # s => cs2[r] = clients[r]
        /\ Refilled(clients[s], cs2[s])
    <3>1. PICK k \in Int : k = Increment  BY RendezvousAssumption
    <3>2. PICK cs \in [Streams -> Client] : cs = clients  BY <1>2
    <3>3. cs[s] \in Client /\ cs[s].pkg \in Int /\ cs[s].st = "open"  BY <1>9, <3>2 DEF Client
    <3>4. PICK p \in Int : p = cs[s].pkg + k  BY <3>3
    <3>5. cs2 = [cs EXCEPT ![s].pkg = p]  BY <2>1, <3>1, <3>2, <3>4
    <3>6. /\ cs2 \in [Streams -> Client]
          /\ \A r \in Streams : r # s => cs2[r] = cs[r]
          /\ cs2[s].pkg = p /\ cs2[s].next = cs[s].next /\ cs2[s].paused = cs[s].paused
          /\ cs2[s].kept = cs[s].kept /\ cs2[s].lost = cs[s].lost /\ cs2[s].st = cs[s].st
          /\ cs2[s].late = cs[s].late
      BY <3>5 DEF Client
    <3>7. Refilled(cs[s], cs2[s])  BY <3>1, <3>3, <3>4, <3>6 DEF Refilled
    <3> QED BY <3>2, <3>6, <3>7
  <2>4. Sends(clients, cs2, s, <<>>)
    <3>1. cs2[s].st = "open" /\ cs2[s].late = clients[s].late  BY <2>3 DEF Refilled
    <3>2. clients \in [Streams -> Client]  BY <1>2
    <3>3. \A j \in 1..Len(<<>>) : FALSE  OBVIOUS
    <3> QED BY <1>9, <2>3, <3>1, <3>2, <3>3 DEF Sends
  <2>5. Core(cs2, targets, W, A2, e2e_send_nonce, e2e_recv_nonce)
    <3>1. targets \in [Streams -> Target] /\ e2e_send_nonce \in Nat /\ e2e_recv_nonce \in Nat
      BY <1>2
    <3>2. /\ \A r \in Streams : r # s => A2[r] = A[r]
          /\ A2[s] \in Nat /\ A[s] = A2[s] + 1
      BY <1>5
    <3>3. Refilled(clients[s], cs2[s])  BY <2>3
    <3> QED BY <1>7, <2>4, <3>1, <3>2, <3>3, CoreRefill
  <2>6. PICK m : m = [window |-> circ_package_window, clients |-> cs2, out |-> c2rp]  OBVIOUS
  <2>7. m.window = circ_package_window /\ m.clients = cs2 /\ m.out = c2rp  BY <2>6
  <2>8. Resuming(m, rp2hs, targets, A2, e2e_send_nonce, e2e_recv_nonce)
    <3>1. Core(m.clients, targets, rp2hs \o m.out, A2, e2e_send_nonce, e2e_recv_nonce)
      BY <1>6, <2>5, <2>7
    <3> QED BY <1>2, <1>5, <2>3, <2>7, <3>1 DEF Resuming
  <2>9. PICK r : r = ResumeReads(cs2)  OBVIOUS
  <2>10. Resuming(r, rp2hs, targets, A2, e2e_send_nonce, e2e_recv_nonce)
    BY <2>6, <2>8, <2>9, ResumeReadsKeeps
  <2>11. clients' = r.clients /\ circ_package_window' = r.window /\ c2rp' = r.out  BY <2>2, <2>9
  <2>12. PICK W2 : W2 = rp2hs \o c2rp'  OBVIOUS
  <2>13. /\ c2rp' \in Seq(FwdCell) /\ circ_package_window' \in 0..CircWindow
         /\ clients' \in [Streams -> Client]
         /\ Core(clients', targets, W2, A2, e2e_send_nonce, e2e_recv_nonce)
    BY <2>10, <2>11, <2>12 DEF Resuming
  <2>14. /\ e2e_send_nonce' \in Nat /\ ClientActs /\ rp2c' \in Seq(BackCell)
         /\ Core(clients', targets, W2, A2, e2e_send_nonce', e2e_recv_nonce)
    BY <1>2, <2>13
  <2> QED BY <1>4, <2>12, <2>13, <2>14, ClientShownAny
<1> QED BY <1>8, <1>9

\* A cell for the client is taken by one of its handlers.
LEMMA ClientCellKeeps ==
    ASSUME InInv, ClientCell
    PROVE  InInv'
<1>1. CASE ClientStreamSendme
  BY <1>1, ClientStreamSendmeKeeps
<1>2. CASE ClientCircSendme
  <2>1. PICK cmd : cmd = "CIRC_SENDME" /\ cmd # "SENDME"  OBVIOUS
  <2> QED BY <1>2, <2>1, ClientIgnores DEF ClientCircSendme
<1>3. CASE ClientConnected
  <2>1. PICK cmd : cmd = "CONNECTED" /\ cmd # "SENDME"  OBVIOUS
  <2> QED BY <1>3, <2>1, ClientIgnores DEF ClientConnected
<1>4. CASE ClientEnd
  BY <1>4, ClientEndKeeps
<1> QED BY <1>1, <1>2, <1>3, <1>4 DEF ClientCell

-----------------------------------------------------------------------------
(* The rendezvous point.                                                   *)

\* RpForwards keeps the invariant: the way does not change.
LEMMA RpForwardsKeeps ==
    ASSUME InInv, RpForwards
    PROVE  InInv'
<1>1. /\ ~closed /\ c2rp # <<>> /\ c2rp' = Tail(c2rp) /\ rp2hs' = Append(rp2hs, Head(c2rp))
      /\ circ_package_window' = circ_package_window /\ e2e_send_nonce' = e2e_send_nonce
      /\ clients' = clients /\ e2e_recv_nonce' = e2e_recv_nonce /\ targets' = targets
      /\ closed' = closed /\ hs2rp' = hs2rp
  BY DEF RpForwards, cvars, svars
<1>2. /\ InTypes /\ Way = rp2hs \o c2rp
      /\ Core(clients, targets, rp2hs \o c2rp, Acks(hs2rp, rp2c), e2e_send_nonce, e2e_recv_nonce)
  BY <1>1, InUsed
<1>3. /\ c2rp \in Seq(FwdCell) /\ rp2hs \in Seq(FwdCell) /\ hs2rp \in Seq(SvcCell)
      /\ rp2c \in Seq(BackCell)
      /\ rp_deliver_window \in (CircWindow - Increment + 1)..CircWindow
  BY <1>2 DEF InTypes
<1>4. c2rp' \in Seq(FwdCell) /\ rp2hs' \in Seq(FwdCell)
  <2>1. Head(c2rp) \in FwdCell /\ Tail(c2rp) \in Seq(FwdCell)  BY <1>1, <1>3
  <2>2. Append(rp2hs, Head(c2rp)) \in Seq(FwdCell)  BY <1>3, <2>1
  <2> QED BY <1>1, <2>1, <2>2
<1>5. rp2hs' \o c2rp' = rp2hs \o c2rp  BY <1>1, <1>3, WayMoves
<1>6. \/ /\ rp_deliver_window - 1 <= CircWindow - Increment
         /\ rp_deliver_window' = rp_deliver_window - 1 + Increment
         /\ rp2c' = Append(rp2c, Control("CIRC_SENDME", 0))
      \/ /\ ~(rp_deliver_window - 1 <= CircWindow - Increment)
         /\ rp_deliver_window' = rp_deliver_window - 1 /\ rp2c' = rp2c
      \/ rp_deliver_window' = rp_deliver_window /\ rp2c' = rp2c
  BY DEF RpForwards
<1>7. rp_deliver_window' \in (CircWindow - Increment + 1)..CircWindow
  BY <1>3, <1>6, RendezvousAssumption
<1>8. rp2c' \in Seq(BackCell) /\ Acks(hs2rp, rp2c') = Acks(hs2rp, rp2c)
  <2>1. Control("CIRC_SENDME", 0) \in BackCell  BY DEF BackCell
  <2>2. Append(rp2c, Control("CIRC_SENDME", 0)) \in Seq(BackCell)  BY <1>3, <2>1
  <2>3. Acks(hs2rp, Append(rp2c, Control("CIRC_SENDME", 0))) = Acks(hs2rp, rp2c)
    BY <1>3, AcksCirc
  <2> QED BY <1>3, <1>6, <2>2, <2>3
<1>9. InTypes'  BY <1>1, <1>2, <1>4, <1>7, <1>8 DEF InTypes
<1>10. PICK W, A : W = rp2hs' \o c2rp' /\ A = Acks(hs2rp', rp2c')  OBVIOUS
<1>11. W = rp2hs \o c2rp /\ A = Acks(hs2rp, rp2c) /\ ~closed'  BY <1>1, <1>5, <1>8, <1>10
<1>12. Core(clients', targets', W, A, e2e_send_nonce', e2e_recv_nonce')  BY <1>1, <1>2, <1>11
<1> QED BY <1>9, <1>10, <1>11, <1>12, InShown

\* RpReturns keeps the invariant: the SENDMEs on their way stay the same.
LEMMA RpReturnsKeeps ==
    ASSUME InInv, RpReturns
    PROVE  InInv'
<1>1. /\ ~closed /\ hs2rp # <<>> /\ hs2rp' = Tail(hs2rp) /\ rp2c' = Append(rp2c, Head(hs2rp))
      /\ circ_package_window' = circ_package_window /\ e2e_send_nonce' = e2e_send_nonce
      /\ clients' = clients /\ e2e_recv_nonce' = e2e_recv_nonce /\ targets' = targets
      /\ closed' = closed /\ rp_deliver_window' = rp_deliver_window
      /\ c2rp' = c2rp /\ rp2hs' = rp2hs
  BY DEF RpReturns, cvars, svars
<1>2. /\ InTypes
      /\ Core(clients, targets, rp2hs \o c2rp, Acks(hs2rp, rp2c), e2e_send_nonce, e2e_recv_nonce)
  BY <1>1, InUsed
<1>3. hs2rp \in Seq(SvcCell) /\ rp2c \in Seq(BackCell)  BY <1>2 DEF InTypes
<1>4. hs2rp' \in Seq(SvcCell) /\ rp2c' \in Seq(BackCell)
  <2>1. Head(hs2rp) \in SvcCell /\ Tail(hs2rp) \in Seq(SvcCell)  BY <1>1, <1>3
  <2>2. Head(hs2rp) \in BackCell  BY <2>1 DEF BackCell
  <2>3. Append(rp2c, Head(hs2rp)) \in Seq(BackCell)  BY <1>3, <2>2
  <2> QED BY <1>1, <2>1, <2>3
<1>5. Acks(hs2rp', rp2c') = Acks(hs2rp, rp2c)  BY <1>1, <1>3, AcksReturned
<1>6. InTypes'  BY <1>1, <1>2, <1>4 DEF InTypes
<1>7. PICK W, A : W = rp2hs' \o c2rp' /\ A = Acks(hs2rp', rp2c')  OBVIOUS
<1>8. W = rp2hs \o c2rp /\ A = Acks(hs2rp, rp2c) /\ ~closed'  BY <1>1, <1>5, <1>7
<1>9. Core(clients', targets', W, A, e2e_send_nonce', e2e_recv_nonce')  BY <1>1, <1>2, <1>8
<1> QED BY <1>6, <1>7, <1>8, <1>9, InShown

-----------------------------------------------------------------------------
(* The service takes a cell.                                               *)

\* What the service finds: the first cell h of the way W, and W2 behind it.
LEMMA ServiceTook ==
    ASSUME InInv, NEW cmd, ServiceTakes(cmd)
    PROVE  /\ ~closed /\ rp2hs # <<>> /\ Head(rp2hs).cmd = cmd /\ Head(rp2hs) \in FwdCell
           /\ rp2hs' = Tail(rp2hs) /\ e2e_send_nonce' = e2e_send_nonce
           /\ clients' = clients /\ circ_package_window' = circ_package_window
           /\ rp_deliver_window' = rp_deliver_window /\ c2rp' = c2rp /\ rp2c' = rp2c
           /\ InTypes /\ clients \in [Streams -> Client] /\ targets \in [Streams -> Target]
           /\ e2e_send_nonce \in Nat /\ e2e_recv_nonce \in Nat
           /\ hs2rp \in Seq(SvcCell) /\ rp2c \in Seq(BackCell) /\ rp2hs' \in Seq(FwdCell)
           /\ Core(clients, targets, rp2hs \o c2rp, Acks(hs2rp, rp2c), e2e_send_nonce,
                   e2e_recv_nonce)
           /\ \A x \in Streams : Acks(hs2rp, rp2c)[x] \in Nat
           /\ Joins(rp2hs \o c2rp, <<Head(rp2hs)>>, rp2hs' \o c2rp')
<1>1. /\ ~closed /\ rp2hs # <<>> /\ Head(rp2hs).cmd = cmd /\ rp2hs' = Tail(rp2hs)
      /\ e2e_send_nonce' = e2e_send_nonce
      /\ clients' = clients /\ circ_package_window' = circ_package_window
      /\ rp_deliver_window' = rp_deliver_window /\ c2rp' = c2rp /\ rp2c' = rp2c
  BY DEF ServiceTakes, cvars
<1>2. /\ InTypes /\ Way = rp2hs \o c2rp /\ Way \in Seq(FwdCell)
      /\ Core(clients, targets, rp2hs \o c2rp, Acks(hs2rp, rp2c), e2e_send_nonce, e2e_recv_nonce)
      /\ \A x \in Streams : Acks(hs2rp, rp2c)[x] \in Nat
  BY <1>1, InUsed
<1>3. /\ clients \in [Streams -> Client] /\ targets \in [Streams -> Target]
      /\ e2e_send_nonce \in Nat /\ e2e_recv_nonce \in Nat
      /\ c2rp \in Seq(FwdCell) /\ rp2hs \in Seq(FwdCell)
      /\ hs2rp \in Seq(SvcCell) /\ rp2c \in Seq(BackCell)
  BY <1>2 DEF InTypes
<1>4. Head(rp2hs) \in FwdCell /\ Tail(rp2hs) \in Seq(FwdCell)  BY <1>1, <1>3
<1>5. /\ rp2hs \o c2rp # <<>> /\ Head(rp2hs \o c2rp) = Head(rp2hs)
      /\ Tail(rp2hs \o c2rp) = Tail(rp2hs) \o c2rp
  BY <1>1, <1>3, WayEnds
<1>6. PICK W \in Seq(FwdCell) : W = rp2hs \o c2rp  BY <1>2
<1>7. W # <<>> /\ Head(W) = Head(rp2hs) /\ Tail(W) = Tail(rp2hs) \o c2rp  BY <1>5, <1>6
<1>8. Joins(W, <<Head(W)>>, Tail(W))  BY <1>7, JoinTail
<1>9. Joins(rp2hs \o c2rp, <<Head(rp2hs)>>, rp2hs' \o c2rp')  BY <1>1, <1>6, <1>7, <1>8
<1> QED BY <1>1, <1>2, <1>3, <1>4, <1>9

\* The service has the first cell h of the way W in hand, with W2 behind it.
Takes(W, h, W2) ==
    /\ Joins(W, <<h>>, W2) /\ W2 = rp2hs' \o c2rp' /\ h \in FwdCell /\ h.sid \in Streams
    /\ Core(clients, targets, W, Acks(hs2rp, rp2c), e2e_send_nonce, e2e_recv_nonce)
    /\ e2e_send_nonce' = e2e_send_nonce /\ clients' = clients
    /\ circ_package_window' = circ_package_window
    /\ rp_deliver_window' = rp_deliver_window /\ c2rp' = c2rp /\ rp2c' = rp2c
    /\ InTypes /\ rp2hs' \in Seq(FwdCell)

\* It does.
LEMMA ServiceHas ==
    ASSUME InInv, NEW cmd, ServiceTakes(cmd)
    PROVE  \E h \in FwdCell : h = Head(rp2hs) /\ h.cmd = cmd /\ \E W, W2 : Takes(W, h, W2)
<1>1. /\ Head(rp2hs).cmd = cmd /\ Head(rp2hs) \in FwdCell /\ InTypes /\ rp2hs' \in Seq(FwdCell)
      /\ e2e_send_nonce' = e2e_send_nonce /\ clients' = clients
      /\ circ_package_window' = circ_package_window
      /\ rp_deliver_window' = rp_deliver_window /\ c2rp' = c2rp /\ rp2c' = rp2c
      /\ Core(clients, targets, rp2hs \o c2rp, Acks(hs2rp, rp2c), e2e_send_nonce, e2e_recv_nonce)
      /\ Joins(rp2hs \o c2rp, <<Head(rp2hs)>>, rp2hs' \o c2rp')
  BY ServiceTook
<1>2. PICK h \in FwdCell : h = Head(rp2hs)  BY <1>1
<1>3. h.sid \in Streams  BY DEF FwdCell
<1>4. PICK W, W2 : W = rp2hs \o c2rp /\ W2 = rp2hs' \o c2rp'  OBVIOUS
<1>5. Takes(W, h, W2)  BY <1>1, <1>2, <1>3, <1>4 DEF Takes
<1> QED BY <1>1, <1>2, <1>5

\* Its stream sees the cell.
LEMMA ServiceFirst ==
    ASSUME NEW W, NEW h, NEW W2, Takes(W, h, W2)
    PROVE  First(h.sid, clients, clients[h.sid], targets[h.sid], W, h, W2,
                 Acks(hs2rp, rp2c)[h.sid])
<1>1. /\ Joins(W, <<h>>, W2) /\ h.sid \in Streams /\ InTypes
      /\ Core(clients, targets, W, Acks(hs2rp, rp2c), e2e_send_nonce, e2e_recv_nonce)
  BY DEF Takes
<1>2. /\ clients \in [Streams -> Client] /\ targets \in [Streams -> Target]
      /\ hs2rp \in Seq(SvcCell) /\ rp2c \in Seq(BackCell)
  BY <1>1 DEF InTypes
<1>3. clients[h.sid] \in Client /\ targets[h.sid] \in Target  BY <1>1, <1>2
<1>4. PICK A : A = Acks(hs2rp, rp2c)  OBVIOUS
<1>5. A[h.sid] \in Nat
  <2>1. CellsOf(hs2rp, "SENDME", h.sid) \in Nat  BY <1>2, CellsUniform
  <2>2. CellsOf(rp2c, "SENDME", h.sid) \in Nat  BY <1>2, CellsUniform
  <2> QED BY <1>1, <1>4, <2>1, <2>2 DEF Acks
<1>6. WayOk(clients, W) /\ StreamOk(h.sid, clients[h.sid], targets[h.sid], W, A[h.sid])
  BY <1>1, <1>4 DEF Core
<1> QED BY <1>1, <1>3, <1>4, <1>5, <1>6 DEF First

\* It leaves the cell's stream in order, with A2 the SENDMEs then on their way.
Served(h, W2, A2) ==
    /\ closed' = FALSE /\ targets' \in [Streams -> Target]
    /\ hs2rp' \in Seq(SvcCell) /\ e2e_recv_nonce' \in Nat
    /\ \A r \in Streams : r # h.sid => targets'[r] = targets[r]
    /\ A2 = Acks(hs2rp', rp2c)
    /\ \A r \in Streams : r # h.sid => A2[r] = Acks(hs2rp, rp2c)[r]
    /\ StreamOk(h.sid, clients[h.sid], targets'[h.sid], W2, A2[h.sid])
    /\ h.cmd = "DATA" => e2e_recv_nonce' = e2e_recv_nonce + 1
    /\ h.cmd # "DATA" => e2e_recv_nonce' = e2e_recv_nonce

\* What a step of the service has to show of the cell's stream.
LEMMA ServiceShown ==
    ASSUME NEW W, NEW h, NEW W2, Takes(W, h, W2), NEW A2, Served(h, W2, A2)
    PROVE  InInv'
<1>0. /\ closed' = FALSE /\ targets' \in [Streams -> Target]
      /\ hs2rp' \in Seq(SvcCell) /\ e2e_recv_nonce' \in Nat
      /\ \A r \in Streams : r # h.sid => targets'[r] = targets[r]
      /\ A2 = Acks(hs2rp', rp2c)
      /\ \A r \in Streams : r # h.sid => A2[r] = Acks(hs2rp, rp2c)[r]
      /\ StreamOk(h.sid, clients[h.sid], targets'[h.sid], W2, A2[h.sid])
      /\ h.cmd = "DATA" => e2e_recv_nonce' = e2e_recv_nonce + 1
      /\ h.cmd # "DATA" => e2e_recv_nonce' = e2e_recv_nonce
  BY DEF Served
<1>1. /\ Joins(W, <<h>>, W2) /\ W2 = rp2hs' \o c2rp' /\ h.sid \in Streams
      /\ Core(clients, targets, W, Acks(hs2rp, rp2c), e2e_send_nonce, e2e_recv_nonce)
      /\ e2e_send_nonce' = e2e_send_nonce /\ clients' = clients
      /\ circ_package_window' = circ_package_window
      /\ rp_deliver_window' = rp_deliver_window /\ c2rp' = c2rp /\ rp2c' = rp2c
      /\ InTypes /\ rp2hs' \in Seq(FwdCell)
  BY DEF Takes
<1>2. /\ clients \in [Streams -> Client] /\ targets \in [Streams -> Target]
      /\ e2e_send_nonce \in Nat /\ e2e_recv_nonce \in Nat
  BY <1>1 DEF InTypes
<1>3. InTypes'  BY <1>0, <1>1 DEF InTypes
<1>4. PICK A, s : A = Acks(hs2rp, rp2c) /\ s = h.sid  BY <1>1
<1>s. s \in Streams /\ h.sid = s  BY <1>1, <1>4
<1>5. PICK ts2, recv2 : ts2 = targets' /\ recv2 = e2e_recv_nonce'  OBVIOUS
<1>6. Core(clients, ts2, W2, A2, e2e_send_nonce, recv2)
  <2>1. /\ \A r \in Streams : r # s => ts2[r] = targets[r] /\ A2[r] = A[r]
        /\ StreamOk(s, clients[s], ts2[s], W2, A2[s])
        /\ h.cmd = "DATA" => recv2 = e2e_recv_nonce + 1
        /\ h.cmd # "DATA" => recv2 = e2e_recv_nonce
        /\ Core(clients, targets, W, A, e2e_send_nonce, e2e_recv_nonce)
    BY <1>0, <1>1, <1>4, <1>5
  <2>2. Joins(W, <<h>>, W2)  BY <1>1
  <2>3. PICK cs \in [Streams -> Client], ts \in [Streams -> Target] : cs = clients /\ ts = targets
    BY <1>2
  <2>4. PICK send \in Nat, recv \in Nat : send = e2e_send_nonce /\ recv = e2e_recv_nonce
    BY <1>2
  <2>5. /\ \A r \in Streams : r # s => ts2[r] = ts[r] /\ A2[r] = A[r]
        /\ StreamOk(s, cs[s], ts2[s], W2, A2[s])
        /\ h.cmd = "DATA" => recv2 = recv + 1
        /\ h.cmd # "DATA" => recv2 = recv
        /\ Core(cs, ts, W, A, send, recv)
    BY <2>1, <2>3, <2>4
  <2>6. Core(cs, ts2, W2, A2, send, recv2)
    <3>1. AtService(cs, ts, ts2, A, A2, s, W, h, W2, send, recv, recv2)
      BY <1>s, <2>2, <2>5 DEF AtService
    <3> QED BY <3>1, ServiceStep
  <2> QED BY <2>3, <2>4, <2>6
<1>7. Core(clients', targets', W2, A2, e2e_send_nonce', e2e_recv_nonce')  BY <1>1, <1>5, <1>6
<1>8. A2 = Acks(hs2rp', rp2c') /\ ~closed'  BY <1>0, <1>1
<1> QED BY <1>1, <1>3, <1>7, <1>8, InShown

\* What the types say at the service.
LEMMA ServiceTypes ==
    ASSUME NEW W, NEW h, NEW W2, Takes(W, h, W2)
    PROVE  /\ targets \in [Streams -> Target] /\ hs2rp \in Seq(SvcCell)
           /\ rp2c \in Seq(BackCell) /\ e2e_recv_nonce \in Nat
           /\ h.sid \in Streams /\ h.data.seq \in Nat /\ NoData \in Sealed
           /\ targets[h.sid].open \in BOOLEAN /\ targets[h.sid].del \in 0..StreamWindow
           /\ targets[h.sid].got \in Seq(Nat)
<1>1. InTypes /\ h \in FwdCell /\ h.sid \in Streams  BY DEF Takes
<1>2. /\ targets \in [Streams -> Target] /\ hs2rp \in Seq(SvcCell)
      /\ rp2c \in Seq(BackCell) /\ e2e_recv_nonce \in Nat
  BY <1>1 DEF InTypes
<1>3. h.data.seq \in Nat /\ NoData \in Sealed  BY <1>1 DEF FwdCell, Sealed, NoData
<1>4. targets[h.sid] \in Target  BY <1>1, <1>2
<1>5. targets[h.sid].open \in BOOLEAN /\ targets[h.sid].got \in Seq(Nat)  BY <1>4 DEF Target
<1>6. targets[h.sid].del \in 0..StreamWindow
  <2>1. Core(clients, targets, W, Acks(hs2rp, rp2c), e2e_send_nonce, e2e_recv_nonce)
    BY DEF Takes
  <2>2. Bounded(clients[h.sid], targets[h.sid])  BY <1>1, <2>1, CoreBounded
  <2> QED BY <2>2 DEF Bounded
<1> QED BY <1>1, <1>2, <1>3, <1>5, <1>6

\* A control cell of the service.
LEMMA ServiceControl ==
    ASSUME NEW s \in Streams, NEW cmd \in {"CONNECTED", "SENDME", "END"}
    PROVE  /\ Control(cmd, s) \in SvcCell /\ Control(cmd, s).cmd = cmd
           /\ Control(cmd, s).sid = s
BY DEF Control, Cell, NoData, SvcCell, Sealed

\* The service leaves the stream of the cell as StreamOk asks, and sends no SENDME.
LEMMA ServiceQuiet ==
    ASSUME NEW W, NEW h, NEW W2, Takes(W, h, W2), closed' = FALSE,
           targets' \in [Streams -> Target], e2e_recv_nonce' \in Nat,
           \A r \in Streams : r # h.sid => targets'[r] = targets[r],
           \/ hs2rp' = hs2rp
           \/ \E cmd \in {"CONNECTED", "END"} : hs2rp' = Append(hs2rp, Control(cmd, h.sid)),
           StreamOk(h.sid, clients[h.sid], targets'[h.sid], W2, Acks(hs2rp, rp2c)[h.sid]),
           h.cmd = "DATA" => e2e_recv_nonce' = e2e_recv_nonce + 1,
           h.cmd # "DATA" => e2e_recv_nonce' = e2e_recv_nonce
    PROVE  InInv'
<1>1. hs2rp \in Seq(SvcCell) /\ rp2c \in Seq(BackCell) /\ h.sid \in Streams  BY ServiceTypes
<1>2. hs2rp' \in Seq(SvcCell) /\ Acks(hs2rp', rp2c) = Acks(hs2rp, rp2c)
  <2>1. CASE hs2rp' = hs2rp
    BY <1>1, <2>1
  <2>2. ASSUME NEW cmd \in {"CONNECTED", "END"}, hs2rp' = Append(hs2rp, Control(cmd, h.sid))
        PROVE  hs2rp' \in Seq(SvcCell) /\ Acks(hs2rp', rp2c) = Acks(hs2rp, rp2c)
    <3>1. Control(cmd, h.sid) \in SvcCell /\ Control(cmd, h.sid).cmd # "SENDME"
      BY <1>1, ServiceControl
    <3>2. PICK c \in SvcCell : c = Control(cmd, h.sid) /\ c.cmd # "SENDME"  BY <3>1
    <3>3. Acks(Append(hs2rp, c), rp2c) = Acks(hs2rp, rp2c)  BY <1>1, <3>2, AcksSent
    <3>4. Append(hs2rp, c) \in Seq(SvcCell)  BY <1>1
    <3> QED BY <2>2, <3>2, <3>3, <3>4
  <2> QED BY <2>1, <2>2
<1>3. PICK A2 : A2 = Acks(hs2rp', rp2c) /\ A2 = Acks(hs2rp, rp2c)  BY <1>2
<1>4. \A r \in Streams : r # h.sid => A2[r] = Acks(hs2rp, rp2c)[r]  BY <1>3
<1>5. StreamOk(h.sid, clients[h.sid], targets'[h.sid], W2, A2[h.sid])  BY <1>3
<1>6. Served(h, W2, A2)  BY <1>2, <1>3, <1>4, <1>5 DEF Served
<1> QED BY <1>6, ServiceShown

\* ServiceBegin keeps the invariant.
LEMMA ServiceBeginKeeps ==
    ASSUME InInv, ServiceBegin
    PROVE  InInv'
<1>1. ServiceTakes("BEGIN") /\ e2e_recv_nonce' = e2e_recv_nonce /\ closed' = closed
  BY DEF ServiceBegin
<1>2. closed' = FALSE
  <2>1. ~closed /\ closed \in BOOLEAN  BY <1>1 DEF ServiceTakes, InInv, InTypes
  <2> QED BY <1>1, <2>1
<1>3. PICK h \in FwdCell : h = Head(rp2hs) /\ h.cmd = "BEGIN" /\ \E W, W2 : Takes(W, h, W2)
  BY <1>1, ServiceHas
<1>4. PICK W, W2 : Takes(W, h, W2)  BY <1>3
<1>5. /\ targets \in [Streams -> Target] /\ hs2rp \in Seq(SvcCell)
      /\ rp2c \in Seq(BackCell) /\ e2e_recv_nonce \in Nat
      /\ h.sid \in Streams /\ targets[h.sid].got \in Seq(Nat)
  BY <1>4, ServiceTypes
<1>6. PICK s, a : s = h.sid /\ s \in Streams /\ a = Acks(hs2rp, rp2c)[h.sid]  BY <1>5
<1>7. First(s, clients, clients[s], targets[s], W, h, W2, a)  BY <1>4, <1>6, ServiceFirst
<1>8. \/ /\ targets' = [targets EXCEPT ![s].open = TRUE, ![s].del = StreamWindow]
         /\ hs2rp' = Append(hs2rp, Control("CONNECTED", s))
      \/ /\ hs2rp' = Append(hs2rp, Control("END", s))
         /\ targets' = targets
      \/ hs2rp' = hs2rp /\ targets' = targets
  BY <1>3, <1>6 DEF ServiceBegin
<1>9. CASE /\ targets' = [targets EXCEPT ![s].open = TRUE, ![s].del = StreamWindow]
           /\ hs2rp' = Append(hs2rp, Control("CONNECTED", s))
  <2>1. /\ targets' \in [Streams -> Target]
        /\ \A r \in Streams : r # s => targets'[r] = targets[r]
        /\ targets'[s].open = TRUE /\ targets'[s].del = StreamWindow
        /\ targets'[s].got = targets[s].got
    <3>1. StreamWindow \in Nat /\ TRUE \in BOOLEAN  BY RendezvousAssumption
    <3> QED BY <1>5, <1>6, <1>9, <3>1 DEF Target
  <2>2. PICK t2 : t2 = targets'[s]  OBVIOUS
  <2>3. Opened(targets[s], t2)  BY <1>6, <2>1, <2>2 DEF Opened
  <2>4. StreamOk(s, clients[s], t2, W2, a)  BY <1>3, <1>7, <2>3, StreamAccepted
  <2>5. StreamOk(h.sid, clients[h.sid], targets'[h.sid], W2, Acks(hs2rp, rp2c)[h.sid])
    BY <1>6, <2>2, <2>4
  <2>6. \A r \in Streams : r # h.sid => targets'[r] = targets[r]  BY <1>6, <2>1
  <2>7. \E cmd \in {"CONNECTED", "END"} : hs2rp' = Append(hs2rp, Control(cmd, h.sid))
    BY <1>6, <1>9
  <2>8. e2e_recv_nonce' \in Nat  BY <1>1, <1>5
  <2> QED BY <1>1, <1>2, <1>3, <1>4, <2>1, <2>5, <2>6, <2>7, <2>8, ServiceQuiet
<1>10. CASE /\ hs2rp' = Append(hs2rp, Control("END", s)) \/ hs2rp' = hs2rp
            /\ targets' = targets
  <2>1. StreamOk(s, clients[s], targets[s], W2, a)  BY <1>3, <1>7, StreamDrops
  <2>2. StreamOk(h.sid, clients[h.sid], targets'[h.sid], W2, Acks(hs2rp, rp2c)[h.sid])
    BY <1>6, <1>10, <2>1
  <2>3. \A r \in Streams : r # h.sid => targets'[r] = targets[r]  BY <1>10
  <2>4. \/ hs2rp' = hs2rp
        \/ \E cmd \in {"CONNECTED", "END"} : hs2rp' = Append(hs2rp, Control(cmd, h.sid))
    BY <1>6, <1>10
  <2>5. e2e_recv_nonce' \in Nat /\ targets' \in [Streams -> Target]  BY <1>1, <1>5, <1>10
  <2> QED BY <1>1, <1>2, <1>3, <1>4, <2>2, <2>3, <2>4, <2>5, ServiceQuiet
<1> QED BY <1>8, <1>9, <1>10

\* ServiceEnd keeps the invariant.
LEMMA ServiceEndKeeps ==
    ASSUME InInv, ServiceEnd
    PROVE  InInv'
<1>1. /\ ServiceTakes("END") /\ e2e_recv_nonce' = e2e_recv_nonce /\ closed' = closed
      /\ hs2rp' = hs2rp /\ targets' = [targets EXCEPT ![Head(rp2hs).sid].open = FALSE]
  BY DEF ServiceEnd
<1>2. closed' = FALSE
  <2>1. ~closed /\ closed \in BOOLEAN  BY <1>1 DEF ServiceTakes, InInv, InTypes
  <2> QED BY <1>1, <2>1
<1>3. PICK h \in FwdCell : h = Head(rp2hs) /\ h.cmd = "END" /\ \E W, W2 : Takes(W, h, W2)
  BY <1>1, ServiceHas
<1>4. PICK W, W2 : Takes(W, h, W2)  BY <1>3
<1>5. /\ targets \in [Streams -> Target] /\ e2e_recv_nonce \in Nat
      /\ h.sid \in Streams /\ targets[h.sid].got \in Seq(Nat)
      /\ targets[h.sid].del \in 0..StreamWindow
  BY <1>4, ServiceTypes
<1>6. PICK s, a : s = h.sid /\ s \in Streams /\ a = Acks(hs2rp, rp2c)[h.sid]  BY <1>5
<1>7. First(s, clients, clients[s], targets[s], W, h, W2, a)  BY <1>4, <1>6, ServiceFirst
<1>8. /\ targets' \in [Streams -> Target]
      /\ \A r \in Streams : r # s => targets'[r] = targets[r]
      /\ targets'[s].open = FALSE /\ targets'[s].del = targets[s].del
      /\ targets'[s].got = targets[s].got
  <2>1. targets' = [targets EXCEPT ![s].open = FALSE] /\ FALSE \in BOOLEAN  BY <1>1, <1>3, <1>6
  <2> QED BY <1>5, <1>6, <2>1 DEF Target
<1>9. PICK t2 : t2 = targets'[s]  OBVIOUS
<1>10. Ended(targets[s], t2)  BY <1>6, <1>8, <1>9 DEF Ended
<1>11. StreamOk(s, clients[s], t2, W2, a)  BY <1>3, <1>7, <1>10, StreamEnded
<1>12. StreamOk(h.sid, clients[h.sid], targets'[h.sid], W2, Acks(hs2rp, rp2c)[h.sid])
  BY <1>6, <1>9, <1>11
<1>13. \A r \in Streams : r # h.sid => targets'[r] = targets[r]  BY <1>6, <1>8
<1>14. e2e_recv_nonce' \in Nat  BY <1>1, <1>5
<1> QED BY <1>1, <1>2, <1>3, <1>4, <1>8, <1>12, <1>13, <1>14, ServiceQuiet

\* ServiceData keeps the invariant.
LEMMA ServiceDataKeeps ==
    ASSUME InInv, ServiceData
    PROVE  InInv'
<1>1. /\ ServiceTakes("DATA") /\ e2e_recv_nonce' = e2e_recv_nonce + 1 /\ closed' = closed
  BY DEF ServiceData
<1>2. closed' = FALSE
  <2>1. ~closed /\ closed \in BOOLEAN  BY <1>1 DEF ServiceTakes, InInv, InTypes
  <2> QED BY <1>1, <2>1
<1>3. PICK h \in FwdCell : h = Head(rp2hs) /\ h.cmd = "DATA" /\ \E W, W2 : Takes(W, h, W2)
  BY <1>1, ServiceHas
<1>4. PICK W, W2 : Takes(W, h, W2)  BY <1>3
<1>5. /\ targets \in [Streams -> Target] /\ hs2rp \in Seq(SvcCell)
      /\ rp2c \in Seq(BackCell) /\ e2e_recv_nonce \in Nat
      /\ h.sid \in Streams /\ targets[h.sid].got \in Seq(Nat)
      /\ h.data.seq \in Nat /\ targets[h.sid].del \in 0..StreamWindow
      /\ targets[h.sid].open \in BOOLEAN
  BY <1>4, ServiceTypes
<1>6. PICK s, a : s = h.sid /\ s \in Streams /\ a = Acks(hs2rp, rp2c)[h.sid]  BY <1>5
<1>7. First(s, clients, clients[s], targets[s], W, h, W2, a)  BY <1>4, <1>6, ServiceFirst
<1>8. e2e_recv_nonce' \in Nat  BY <1>1, <1>5
<1>9. CASE ~targets[s].open
  <2>1. targets' = targets /\ hs2rp' = hs2rp  BY <1>3, <1>6, <1>9 DEF ServiceData
  <2>2. StreamOk(s, clients[s], targets[s], W2, a)  BY <1>3, <1>7, <1>9, StreamDrops
  <2>3. StreamOk(h.sid, clients[h.sid], targets'[h.sid], W2, Acks(hs2rp, rp2c)[h.sid])
    BY <1>6, <2>1, <2>2
  <2>4. \A r \in Streams : r # h.sid => targets'[r] = targets[r]  BY <2>1
  <2>5. targets' \in [Streams -> Target]  BY <1>5, <2>1
  <2> QED BY <1>1, <1>2, <1>3, <1>4, <1>8, <2>1, <2>3, <2>4, <2>5, ServiceQuiet
<1>10. CASE targets[s].open
  <2>1. PICK e \in Int, n \in Nat, g \in Seq(Nat) :
          e = targets[s].del - 1 /\ n = h.data.seq /\ g = Append(targets[s].got, n)
    <3>1. targets[s].del - 1 \in Int /\ h.data.seq \in Nat  BY <1>5, <1>6
    <3>2. Append(targets[s].got, h.data.seq) \in Seq(Nat)  BY <1>5, <1>6
    <3> QED BY <3>1, <3>2
  <2>2. \/ /\ e <= StreamWindow - Increment /\ hs2rp' = Append(hs2rp, Control("SENDME", s))
           /\ targets' = [targets EXCEPT ![s].del = e + Increment, ![s].got = g]
        \/ /\ e > StreamWindow - Increment /\ hs2rp' = hs2rp
           /\ targets' = [targets EXCEPT ![s].del = e, ![s].got = g]
    <3>1. LET due == e <= StreamWindow - Increment
          IN  /\ targets' = [targets EXCEPT ![s].del = IF due THEN e + Increment ELSE e,
                                            ![s].got = Append(@, n)]
              /\ hs2rp' = IF due THEN Append(hs2rp, Control("SENDME", s)) ELSE hs2rp
      BY <1>3, <1>6, <1>10, <2>1 DEF ServiceData
    <3>2. [targets EXCEPT ![s].del = e + Increment, ![s].got = Append(@, n)]
            = [targets EXCEPT ![s].del = e + Increment, ![s].got = g]
      BY <1>5, <1>6, <2>1 DEF Target
    <3>3. [targets EXCEPT ![s].del = e, ![s].got = Append(@, n)]
            = [targets EXCEPT ![s].del = e, ![s].got = g]
      BY <1>5, <1>6, <2>1 DEF Target
    <3>4. e > StreamWindow - Increment <=> ~(e <= StreamWindow - Increment)
      BY <2>1, RendezvousAssumption
    <3> QED BY <3>1, <3>2, <3>3, <3>4
  <2>3. PICK d \in Nat : /\ targets' = [targets EXCEPT ![s].del = d, ![s].got = g]
                         /\ \/ /\ e <= StreamWindow - Increment /\ d = e + Increment
                               /\ hs2rp' = Append(hs2rp, Control("SENDME", s))
                            \/ /\ e > StreamWindow - Increment /\ d = e
                               /\ hs2rp' = hs2rp
    <3>1. e + Increment \in Nat  BY <1>5, <1>6, <2>1, RendezvousAssumption
    <3>2. e > StreamWindow - Increment => e \in Nat  BY <2>1, RendezvousAssumption
    <3> QED BY <2>2, <3>1, <3>2
  <2>4. /\ targets' \in [Streams -> Target]
        /\ \A r \in Streams : r # s => targets'[r] = targets[r]
        /\ targets'[s].open = targets[s].open /\ targets'[s].del = d /\ targets'[s].got = g
    BY <1>5, <1>6, <2>1, <2>3 DEF Target
  <2>5. PICK t2 : t2 = targets'[s]  OBVIOUS
  <2>6. Delivered(targets[s], t2, n)  BY <1>6, <1>10, <2>1, <2>4, <2>5 DEF Delivered
  <2>7. PICK A2 : A2 = Acks(hs2rp', rp2c)  OBVIOUS
  <2>8. /\ hs2rp' \in Seq(SvcCell)
        /\ \A r \in Streams : r # s => A2[r] = Acks(hs2rp, rp2c)[r]
        /\ \/ e <= StreamWindow - Increment /\ d = e + Increment /\ A2[s] = a + 1
           \/ e > StreamWindow - Increment /\ d = e /\ A2[s] = a
    <3>1. CASE /\ e <= StreamWindow - Increment /\ d = e + Increment
               /\ hs2rp' = Append(hs2rp, Control("SENDME", s))
      <4>1. PICK c \in SvcCell : c = Control("SENDME", s) /\ c.cmd = "SENDME" /\ c.sid = s
        BY <1>6, ServiceControl
      <4>2. \A x \in Streams :
              /\ x # s => Acks(Append(hs2rp, c), rp2c)[x] = Acks(hs2rp, rp2c)[x]
              /\ x = s => Acks(Append(hs2rp, c), rp2c)[x] = Acks(hs2rp, rp2c)[x] + 1
        BY <1>5, <4>1, AcksSent
      <4>3. Append(hs2rp, c) \in Seq(SvcCell)  BY <1>5
      <4>4. hs2rp' = Append(hs2rp, c) /\ A2 = Acks(Append(hs2rp, c), rp2c)  BY <2>7, <3>1, <4>1
      <4> QED BY <1>6, <3>1, <4>2, <4>3, <4>4
    <3>2. CASE e > StreamWindow - Increment /\ d = e /\ hs2rp' = hs2rp
      BY <1>5, <1>6, <2>7, <3>2
    <3> QED BY <2>3, <3>1, <3>2
  <2>9. PICK a2 : a2 = A2[s]  OBVIOUS
  <2>10. StreamOk(s, clients[s], t2, W2, a2)
    <3>1. \/ /\ targets[s].del - 1 > StreamWindow - Increment
             /\ t2.del = targets[s].del - 1 /\ a2 = a
          \/ /\ targets[s].del - 1 <= StreamWindow - Increment
             /\ t2.del = targets[s].del - 1 + Increment /\ a2 = a + 1
      BY <2>1, <2>4, <2>5, <2>8, <2>9
    <3>2. h.cmd = "DATA" /\ h.data.seq = n /\ n \in Nat  BY <1>3, <2>1
    <3> QED BY <1>7, <2>6, <3>1, <3>2, StreamDelivers
  <2>11. /\ StreamOk(h.sid, clients[h.sid], targets'[h.sid], W2, A2[h.sid])
         /\ \A r \in Streams : r # h.sid => targets'[r] = targets[r]
         /\ \A r \in Streams : r # h.sid => A2[r] = Acks(hs2rp, rp2c)[r]
    BY <1>6, <2>4, <2>5, <2>8, <2>9, <2>10
  <2>12. hs2rp' \in Seq(SvcCell) /\ targets' \in [Streams -> Target]  BY <2>4, <2>8
  <2>13. /\ h.cmd = "DATA" => e2e_recv_nonce' = e2e_recv_nonce + 1
         /\ h.cmd # "DATA" => e2e_recv_nonce' = e2e_recv_nonce
    BY <1>1, <1>3
  <2>14. Served(h, W2, A2)  BY <1>2, <1>8, <2>7, <2>11, <2>12, <2>13 DEF Served
  <2> QED BY <1>4, <2>14, ServiceShown
<1> QED BY <1>9, <1>10

\* ServiceMacFailure keeps the invariant: it takes two streams.
LEMMA ServiceMacFailureKeeps ==
    ASSUME InInv, ServiceMacFailure
    PROVE  InInv'
<1>1. /\ ServiceTakes("DATA") /\ Head(rp2hs).data.nonce # e2e_recv_nonce /\ closed' = TRUE
      /\ e2e_recv_nonce' = e2e_recv_nonce /\ targets' = targets /\ hs2rp' = hs2rp
  BY DEF ServiceMacFailure
<1>2. PICK h \in FwdCell : h = Head(rp2hs) /\ h.cmd = "DATA" /\ \E W, W2 : Takes(W, h, W2)
  BY <1>1, ServiceHas
<1>3. PICK W, W2 : Takes(W, h, W2)  BY <1>2
<1>4. /\ Joins(W, <<h>>, W2) /\ h.sid \in Streams
      /\ Core(clients, targets, W, Acks(hs2rp, rp2c), e2e_send_nonce, e2e_recv_nonce)
      /\ e2e_send_nonce' = e2e_send_nonce /\ clients' = clients
      /\ circ_package_window' = circ_package_window
      /\ rp_deliver_window' = rp_deliver_window /\ c2rp' = c2rp /\ rp2c' = rp2c
      /\ InTypes /\ rp2hs' \in Seq(FwdCell)
  BY <1>3 DEF Takes
<1>5. /\ clients \in [Streams -> Client] /\ e2e_send_nonce \in Nat /\ e2e_recv_nonce \in Nat
  BY <1>4 DEF InTypes
<1>6. ~Alone(clients)
  <2>1. PICK A : A = Acks(hs2rp, rp2c)  OBVIOUS
  <2>2. Core(clients, targets, W, A, e2e_send_nonce, e2e_recv_nonce)  BY <1>4, <2>1
  <2>3. Alone(clients) => h.data.nonce = e2e_recv_nonce  BY <1>2, <1>4, <1>5, <2>2, OpensInStep
  <2> QED BY <1>1, <1>2, <2>3
<1>7. \A s \in Streams : Bounded(clients[s], targets[s])  BY DEF InInv
<1>8. InTypes'  BY <1>1, <1>4 DEF InTypes
<1>9. (\A s \in Streams : Bounded(clients[s], targets[s]))' /\ ~Alone(clients)'
  BY <1>1, <1>4, <1>6, <1>7
<1> QED BY <1>1, <1>8, <1>9 DEF InInv

-----------------------------------------------------------------------------
(* To the service: the invariant holds, and what it says.                  *)

\* A cell for the service is taken by one of its handlers.
LEMMA ServiceCellKeeps ==
    ASSUME InInv, ServiceCell
    PROVE  InInv'
BY ServiceBeginKeeps, ServiceDataKeeps, ServiceMacFailureKeeps, ServiceEndKeeps DEF ServiceCell

\* Every step keeps the invariant.
LEMMA InNext ==
    ASSUME InInv, Next
    PROVE  InInv'
<1>1. CASE \E s \in Streams : OpenStream(s) \/ CloseStream(s) \/ Read(s) \/ ClientBackpressure(s)
  <2>1. PICK s \in Streams : OpenStream(s) \/ CloseStream(s) \/ Read(s) \/ ClientBackpressure(s)
    BY <1>1
  <2>5. CASE ClientBackpressure(s)
    BY <2>5, ClientBackpressureKeeps
  <2>2. CASE OpenStream(s)
    BY <2>2, OpenStreamKeeps
  <2>3. CASE CloseStream(s)
    BY <2>3, CloseStreamKeeps
  <2>4. CASE Read(s)
    <3>1. PICK n \in 1..MaxRead : ClientSend(s, n)  BY <2>4 DEF Read
    <3> QED BY <3>1, ClientSendKeeps
  <2> QED BY <2>1, <2>2, <2>3, <2>4, <2>5
<1>6. CASE Timeout
  BY <1>6, ClientTimeoutKeeps DEF Timeout
<1>7. CASE LinkWritable
  BY <1>7, LinkWritableKeeps
<1>2. CASE ClientCell
  BY <1>2, ClientCellKeeps
<1>3. CASE RpForwards
  BY <1>3, RpForwardsKeeps
<1>4. CASE RpReturns
  BY <1>4, RpReturnsKeeps
<1>5. CASE ServiceCell
  BY <1>5, ServiceCellKeeps
<1> QED BY <1>1, <1>2, <1>3, <1>4, <1>5, <1>6, <1>7 DEF Next

\* The two lists of streams.
InLists == connected \subseteq Streams /\ held \subseteq Streams

\* They are lists of streams.
LEMMA ListsNext ==
    ASSUME InInv, InLists, Next
    PROVE  InLists'
<1>1. ASSUME NEW s \in Streams,
             OpenStream(s) \/ CloseStream(s) \/ Read(s) \/ ClientBackpressure(s)
      PROVE  InLists'
  BY <1>1 DEF InLists, OpenStream, CloseStream, Read, ClientSend, ClientBackpressure, lvars
<1>2. CASE Timeout \/ LinkWritable
  BY <1>2 DEF InLists, Timeout, ClientTimeout, LinkWritable
<1>3. CASE ClientCell
  <2>1. ASSUME ClientConnected PROVE Head(rp2c).sid \in Streams
    <3>1. /\ Head(rp2c).cmd = "CONNECTED" /\ Head(rp2c) \in BackCell
      BY <2>1, ClientTook DEF ClientConnected
    <3>2. PICK h \in BackCell : h = Head(rp2c) /\ h.cmd = "CONNECTED"  BY <3>1
    <3>3. h \in SvcCell  BY <3>2 DEF BackCell, Control, Cell
    <3> QED BY <3>2, <3>3 DEF SvcCell
  <2>2. CASE ClientConnected
    BY <2>1, <2>2 DEF InLists, ClientConnected
  <2>3. CASE ClientStreamSendme
    BY <2>3 DEF InLists, ClientStreamSendme
  <2>4. CASE ClientCircSendme \/ ClientEnd
    BY <2>4 DEF InLists, ClientCircSendme, ClientEnd, lvars
  <2> QED BY <1>3, <2>2, <2>3, <2>4 DEF ClientCell
<1>4. CASE RpForwards \/ RpReturns \/ ServiceCell
  BY <1>4 DEF InLists, RpForwards, RpReturns, ServiceCell, ServiceBegin, ServiceData,
              ServiceMacFailure, ServiceEnd, ServiceTakes, lvars
<1> QED BY <1>1, <1>2, <1>3, <1>4 DEF Next

\* A step that changes none of the variables.
LEMMA InStutters ==
    ASSUME InInv, UNCHANGED vars
    PROVE  InInv'
<1>1. /\ circ_package_window' = circ_package_window /\ e2e_send_nonce' = e2e_send_nonce
      /\ clients' = clients /\ rp_deliver_window' = rp_deliver_window
      /\ e2e_recv_nonce' = e2e_recv_nonce /\ targets' = targets /\ closed' = closed
      /\ c2rp' = c2rp /\ rp2hs' = rp2hs /\ hs2rp' = hs2rp /\ rp2c' = rp2c
  BY DEF vars, cvars, svars
<1>2. InTypes'  BY <1>1 DEF InInv, InTypes
<1>3. Way' = Way /\ Acks(hs2rp, rp2c)' = Acks(hs2rp, rp2c)  BY <1>1 DEF Way, Acks
<1> QED BY <1>1, <1>2, <1>3 DEF InInv

\* The invariant holds at first: nothing is on its way.
LEMMA InInit ==
    ASSUME Init
    PROVE  InInv
<1>1. /\ N \in Nat /\ CircWindow \in Nat /\ StreamWindow \in Nat /\ Increment \in Nat
      /\ 0 < Increment /\ Increment <= CircWindow /\ Increment <= StreamWindow
  BY RendezvousAssumption
<1>2. InTypes
  <2>1. /\ clients \in [Streams -> Client]  BY <1>1 DEF Init, Client
  <2>2. targets \in [Streams -> Target]  BY DEF Init, Target
  <2>3. rp_deliver_window \in (CircWindow - Increment + 1)..CircWindow  BY <1>1 DEF Init
  <2>4. /\ c2rp \in Seq(FwdCell) /\ rp2hs \in Seq(FwdCell)
        /\ hs2rp \in Seq(SvcCell) /\ rp2c \in Seq(BackCell)
    BY DEF Init
  <2>5. /\ circ_package_window \in 0..CircWindow /\ closed \in BOOLEAN
        /\ e2e_send_nonce \in Nat /\ e2e_recv_nonce \in Nat
    <3>1. /\ circ_package_window = CircWindow /\ closed = FALSE
          /\ e2e_send_nonce = 0 /\ e2e_recv_nonce = 0
      BY DEF Init
    <3>2. closed \in BOOLEAN  BY <3>1, Zenon
    <3>3. circ_package_window \in 0..CircWindow /\ e2e_send_nonce \in Nat /\ e2e_recv_nonce \in Nat
      BY <1>1, <3>1
    <3> QED BY <3>2, <3>3
  <2> QED BY <2>1, <2>2, <2>3, <2>4, <2>5 DEF InTypes
<1>3. PICK W \in Seq(FwdCell) : W = Way /\ W = <<>> /\ DOMAIN W = {} /\ Len(W) = 0
  <2>1. <<>> \in Seq(FwdCell) /\ Len(<<>>) = 0 /\ DOMAIN <<>> = {}  OBVIOUS
  <2>2. rp2hs = <<>> /\ c2rp = <<>>  BY DEF Init
  <2>3. Way = <<>>  BY <2>2 DEF Way
  <2> QED BY <2>1, <2>3
<1>4. \A s \in Streams :
        /\ clients[s].st = "unused" /\ clients[s].pkg = StreamWindow /\ clients[s].next = 1
        /\ clients[s].kept = <<>>
        /\ ~targets[s].open /\ targets[s].del = 0 /\ targets[s].got = <<>>
  BY DEF Init
<1>5. PICK A : A = Acks(hs2rp, rp2c)  OBVIOUS
<1>6. \A s \in Streams : A[s] = 0
  <2> TAKE s \in Streams
  <2>1. hs2rp \in Seq(SvcCell) /\ rp2c \in Seq(BackCell) /\ Len(hs2rp) = 0 /\ Len(rp2c) = 0
    BY DEF Init
  <2>2. CellsOf(hs2rp, "SENDME", s) = 0
    <3>1. \A i \in 1..Len(hs2rp) : hs2rp[i].cmd # "SENDME" \/ hs2rp[i].sid # s  BY <2>1
    <3> QED BY <2>1, <3>1, CellsUniform
  <2>3. CellsOf(rp2c, "SENDME", s) = 0
    <3>1. \A i \in 1..Len(rp2c) : rp2c[i].cmd # "SENDME" \/ rp2c[i].sid # s  BY <2>1
    <3> QED BY <2>1, <3>1, CellsUniform
  <2> QED BY <1>5, <2>2, <2>3 DEF Acks
<1>7. WayOk(clients, W)  BY <1>3 DEF WayOk
<1>8. ASSUME NEW s \in Streams PROVE StreamOk(s, clients[s], targets[s], W, A[s])
  <2>1. /\ Len(clients[s].kept) = 0 /\ Len(targets[s].got) = 0  BY <1>4
  <2>2. ~HasBegin(W, s) /\ DataOf(W, s) = {}  BY <1>3 DEF HasBegin, DataOf
  <2>3. Bounded(clients[s], targets[s])  BY <1>1, <1>4, <2>1 DEF Bounded
  <2>4. Kept(clients[s])  BY <1>4, <2>1 DEF Kept
  <2>5. Credit(clients[s], targets[s], HasBegin(W, s), CellsOf(W, "DATA", s), A[s])
    BY <1>4, <1>6, <2>2 DEF Credit
  <2>6. Ordered(clients[s], targets[s], HasBegin(W, s), DataOf(W, s), Seqs(W))
    <3>1. Line({}, Seqs(W), 1, 1)  BY LineEmpty
    <3>2. Len(targets[s].got) + 1 = 1 /\ clients[s].next - Len(clients[s].kept) = 1
      BY <1>4, <2>1
    <3> QED BY <2>1, <2>2, <3>1, <3>2 DEF Ordered
  <2> QED BY <2>3, <2>4, <2>5, <2>6 DEF StreamOk
<1>9. NoncesOk(clients, W, e2e_send_nonce, e2e_recv_nonce)
  <2>1. e2e_send_nonce = e2e_recv_nonce  BY DEF Init
  <2> QED BY <1>4, <2>1 DEF NoncesOk
<1>10. Core(clients, targets, W, A, e2e_send_nonce, e2e_recv_nonce)
  BY <1>7, <1>8, <1>9 DEF Core
<1>11. \A s \in Streams : Bounded(clients[s], targets[s])  BY <1>10, CoreBounded
<1>12. ~closed  BY DEF Init
<1> QED BY <1>2, <1>3, <1>5, <1>10, <1>11, <1>12 DEF InInv

\* At most one stream is used.
LEMMA AtMostOne ==
    ASSUME NEW cs, Cardinality({s \in Streams : cs[s].st # "unused"}) <= 1,
           \A s \in Streams : ~cs[s].late
    PROVE  Alone(cs)
<1> DEFINE U == {s \in Streams : cs[s].st # "unused"}
<1>1. IsFiniteSet(U)
  <2>1. IsFiniteSet(Streams)  BY FS_Interval, RendezvousAssumption DEF Streams
  <2> QED BY <2>1, FS_Subset
<1>2. ASSUME NEW s \in U, NEW r \in U, s # r PROVE FALSE
  <2>1. IsFiniteSet({s}) /\ Cardinality({s}) = 1  BY FS_Singleton
  <2>2. Cardinality({s} \cup {r}) = 2
    <3>1. r \notin {s}  BY <1>2
    <3>2. Cardinality({s} \cup {r}) = Cardinality({s}) + 1  BY <2>1, <3>1, FS_AddElement
    <3> QED BY <2>1, <3>2
  <2>3. Cardinality({s} \cup {r}) <= Cardinality(U)
    <3>1. ({s} \cup {r}) \in SUBSET U  OBVIOUS
    <3> HIDE DEF U
    <3> QED BY <1>1, <3>1, FS_Subset
  <2>4. Cardinality(U) \in Nat  BY <1>1, FS_CardinalityType
  <2>5. Cardinality(U) <= 1  OBVIOUS
  <2> HIDE DEF U
  <2> QED BY <2>2, <2>3, <2>4, <2>5
<1> QED BY <1>2 DEF Alone

\* In line, the sealed chunks are in step.
LEMMA LineInStep ==
    ASSUME NEW W, NEW recv \in Nat, NEW to \in Int, Line(DataAt(W), Nonces(W), recv, to),
           NEW i \in DataAt(W)
    PROVE  /\ \A j \in DataAt(W) : i < j => W[i].data.nonce < W[j].data.nonce
           /\ W[i].data.nonce >= recv
           /\ \A n \in recv..W[i].data.nonce : \E j \in DataAt(W) : W[j].data.nonce = n
<1>1. \A j \in DataAt(W) : Nonces(W)[j] = W[j].data.nonce  BY DEF DataAt, Nonces
<1>2. PICK v : v = Nonces(W)  OBVIOUS
<1>3. PICK I : I = DataAt(W)  OBVIOUS
<1>4. Line(I, v, recv, to) /\ i \in I  BY <1>2, <1>3
<1>5. /\ v[i] \in recv..(to - 1)
      /\ \A j \in I : i < j => v[i] < v[j]
      /\ \A n \in recv..(to - 1) : \E j \in I : v[j] = n
  BY <1>4 DEF Line
<1>6. \A n \in recv..v[i] : \E j \in I : v[j] = n  BY <1>5
<1> QED BY <1>1, <1>2, <1>3, <1>5, <1>6

\* The sealed chunks are in step as long as one stream is used.
LEMMA InNonces ==
    ASSUME InInv
    PROVE  NoncesInStepAlone
<1> SUFFICES ASSUME Cardinality({s \in Streams : clients[s].st # "unused"}) <= 1,
                    \A s \in Streams : ~clients[s].late
             PROVE  NoncesInStep
  BY DEF NoncesInStepAlone
<1>1. Alone(clients)  BY AtMostOne
<1>e. CASE Way = <<>>
  BY <1>e DEF NoncesInStep
<1>2. SUFFICES ASSUME ~closed PROVE NoncesInStep
  BY <1>1, <1>e DEF InInv
<1>3. /\ InTypes /\ Core(clients, targets, rp2hs \o c2rp, Acks(hs2rp, rp2c),
                         e2e_send_nonce, e2e_recv_nonce)
      /\ Way = rp2hs \o c2rp /\ Way \in Seq(FwdCell)
  BY <1>2, InUsed
<1>4. PICK W \in Seq(FwdCell) : W = Way  BY <1>3
<1>5. WayOk(clients, W) /\ NoncesOk(clients, W, e2e_send_nonce, e2e_recv_nonce)
  BY <1>3, <1>4 DEF Core
<1>6. e2e_recv_nonce \in Nat /\ e2e_send_nonce \in Nat /\ clients \in [Streams -> Client]
  BY <1>3 DEF InTypes
<1>7. ASSUME NEW i \in DataAt(W)
      PROVE  /\ \A j \in DataAt(W) : i < j => W[i].data.nonce < W[j].data.nonce
             /\ W[i].data.nonce >= e2e_recv_nonce
             /\ \A n \in e2e_recv_nonce..W[i].data.nonce :
                  \E j \in DataAt(W) : W[j].data.nonce = n
  <2>1. i \in DOMAIN W /\ W[i] \in FwdCell  BY <1>7 DEF DataAt
  <2>2. PICK s \in Streams : s = W[i].sid  BY <2>1 DEF FwdCell
  <2>3. clients[s].st # "unused"  BY <1>5, <2>1, <2>2 DEF WayOk
  <2>4. Sealing(clients[s], W, e2e_send_nonce, e2e_recv_nonce)  BY <1>1, <1>5, <2>3 DEF NoncesOk
  <2>5. PICK to \in Int : to = e2e_send_nonce - Len(clients[s].kept)
    <3>1. Len(clients[s].kept) \in Nat  BY <1>6 DEF Client
    <3>2. e2e_send_nonce - Len(clients[s].kept) \in Int  BY <1>6, <3>1
    <3> QED BY <3>2
  <2>6. Line(DataAt(W), Nonces(W), e2e_recv_nonce, to)  BY <2>4, <2>5 DEF Sealing
  <2> QED BY <1>6, <2>6, LineInStep
<1>8. DataAt(W) = {i \in DOMAIN Way : Way[i].cmd = "DATA"}  BY <1>4 DEF DataAt
<1> QED BY <1>4, <1>7, <1>8 DEF NoncesInStep

\* What the invariant says of the way to the service.
LEMMA InMeans ==
    ASSUME InInv, InLists
    PROVE  TypeOK /\ StreamCreditConserved /\ NoncesInStepAlone /\ DeliveredInOrder
<1>1. /\ InTypes /\ \A s \in Streams : Bounded(clients[s], targets[s])  BY DEF InInv
<1>2. TypeOK  BY <1>1 DEF InTypes, Bounded, TypeOK, InLists
<1>3. DeliveredInOrder  BY <1>1 DEF Bounded, DeliveredInOrder
<1>4. NoncesInStepAlone  BY InNonces
<1>5. StreamCreditConserved
  <2> SUFFICES ASSUME NEW s \in Streams, clients[s].st = "open", targets[s].open, ~closed
               PROVE  clients[s].pkg + CellsOf(Way, "DATA", s) + (StreamWindow - targets[s].del)
                        + Increment * (CellsOf(hs2rp, "SENDME", s) + CellsOf(rp2c, "SENDME", s))
                      = StreamWindow
    BY DEF StreamCreditConserved
  <2>1. PICK W, A : W = Way /\ A = Acks(hs2rp, rp2c)  OBVIOUS
  <2>2. Core(clients, targets, W, A, e2e_send_nonce, e2e_recv_nonce)  BY <2>1 DEF InInv
  <2>3. Credit(clients[s], targets[s], HasBegin(W, s), CellsOf(W, "DATA", s), A[s])
    BY <2>2 DEF Core, StreamOk
  <2>4. clients[s].pkg + CellsOf(W, "DATA", s) + (StreamWindow - targets[s].del) + Times(A[s])
          = StreamWindow
    BY <2>3 DEF Credit
  <2>5. Times(A[s])
          = Increment * (CellsOf(hs2rp, "SENDME", s) + CellsOf(rp2c, "SENDME", s))
    BY <2>1 DEF Times, Acks
  <2> QED BY <2>1, <2>4, <2>5
<1> QED BY <1>2, <1>3, <1>4, <1>5

-----------------------------------------------------------------------------
(* From the service: the inductive invariant.                              *)

OutCell == [cmd : {"DATA", "END"}, sid : Streams, nonce : Nat]
RetCell == [cmd : {"SENDME", "END"}, sid : Streams, nonce : Nat]
           \cup {Out!Cell("CIRC_SENDME", 0, 0)}
OutTarget == [open : BOOLEAN, pkg : 0..StreamWindow, reading : BOOLEAN]
OutClient == [open : BOOLEAN, del : (StreamWindow - Increment + 1)..StreamWindow,
              dropped : BOOLEAN]
OutNonces(W) == [i \in DOMAIN W |-> W[i].nonce]

OutTypes ==
    /\ circ_package_window \in 0..CircWindow
    /\ targets \in [Streams -> OutTarget] /\ clients \in [Streams -> OutClient]
    /\ todo \in [Streams -> 0..MaxData]
    /\ rp_deliver_window \in (CircWindow - Increment + 1)..CircWindow
    /\ circ_deliver_window \in (CircWindow - Increment + 1)..CircWindow
    /\ e2e_send_nonce \in Nat /\ e2e_recv_nonce \in Nat
    /\ hs2rp \in Seq(OutCell) /\ rp2c \in Seq(OutCell)
    /\ c2rp \in Seq(RetCell) /\ rp2hs \in Seq(RetCell)

\* The sealed cells of queue W carry the nonces from recv up to send, in order.
OutLine(W, recv, send) == Line(DataAt(W), OutNonces(W), recv, send)

OutInv == OutTypes /\ OutLine(rp2c \o hs2rp, e2e_recv_nonce, e2e_send_nonce)


\* A cell is put behind the queue: a sealed one carries the next nonce.
LEMMA OutGrows ==
    ASSUME NEW W \in Seq(OutCell), NEW recv \in Nat, NEW send \in Nat, OutLine(W, recv, send),
           NEW c \in OutCell
    PROVE  /\ c.cmd = "DATA" /\ c.nonce = send => OutLine(Append(W, c), recv, send + 1)
           /\ c.cmd # "DATA" => OutLine(Append(W, c), recv, send)
<1>1. PICK W2 \in Seq(OutCell), m \in Nat :
        /\ W2 = Append(W, c) /\ m = Len(W) /\ Len(W2) = m + 1 /\ W2[m + 1] = c
        /\ \A i \in 1..m : W2[i] = W[i]
  <2>1. Append(W, c) \in Seq(OutCell) /\ Len(W) \in Nat  OBVIOUS
  <2>2. /\ Len(Append(W, c)) = Len(W) + 1 /\ Append(W, c)[Len(W) + 1] = c
        /\ \A i \in 1..Len(W) : Append(W, c)[i] = W[i]
    OBVIOUS
  <2> QED BY <2>1, <2>2
<1>2. DOMAIN W = 1..m /\ DOMAIN W2 = 1..(m + 1)  BY <1>1
<1>3. PICK I, v, J, u : I = DataAt(W) /\ v = OutNonces(W) /\ J = DataAt(W2) /\ u = OutNonces(W2)
  OBVIOUS
<1>4. /\ I \in SUBSET (1..m) /\ J \in SUBSET (1..(m + 1))
      /\ \A i \in 1..m : (i \in J <=> i \in I) /\ u[i] = v[i]
      /\ u[m + 1] = c.nonce /\ (m + 1 \in J <=> c.cmd = "DATA")
  BY <1>1, <1>2, <1>3 DEF DataAt, OutNonces
<1>5. Line(I, v, recv, send) /\ 1 \in Nat /\ send \in Int  BY <1>3 DEF OutLine
<1>6. /\ (\A j \in 1..1 : m + j \in J /\ u[m + j] = send + j - 1) => Line(J, u, recv, send + 1)
      /\ (\A j \in 1..1 : m + j \notin J) => Line(J, u, recv, send)
  BY <1>4, <1>5, LineGrows
<1>7. c.cmd = "DATA" /\ c.nonce = send => Line(J, u, recv, send + 1)  BY <1>4, <1>6
<1>8. c.cmd # "DATA" => Line(J, u, recv, send)  BY <1>4, <1>6
<1> QED BY <1>1, <1>3, <1>7, <1>8 DEF OutLine

\* The first cell of the queue is taken: a sealed one carries the nonce expected.
LEMMA OutTaken ==
    ASSUME NEW W \in Seq(OutCell), W # <<>>, NEW recv \in Nat, NEW send \in Nat,
           OutLine(W, recv, send)
    PROVE  /\ Head(W).cmd = "DATA" => Head(W).nonce = recv /\ OutLine(Tail(W), recv + 1, send)
           /\ Head(W).cmd # "DATA" => OutLine(Tail(W), recv, send)
<1>1. PICK W2 \in Seq(OutCell), m \in Nat :
        /\ W2 = Tail(W) /\ m = Len(W2) /\ Len(W) = m + 1 /\ Head(W) = W[1]
        /\ \A i \in 1..m : W2[i] = W[i + 1]
  <2>1. Tail(W) \in Seq(OutCell) /\ Len(Tail(W)) \in Nat  OBVIOUS
  <2>2. /\ Len(W) = Len(Tail(W)) + 1 /\ Head(W) = W[1]
        /\ \A i \in 1..Len(Tail(W)) : Tail(W)[i] = W[i + 1]
    OBVIOUS
  <2> QED BY <2>1, <2>2
<1>2. DOMAIN W = 1..(m + 1) /\ DOMAIN W2 = 1..m  BY <1>1
<1>3. PICK I, v, J, u : I = DataAt(W) /\ v = OutNonces(W) /\ J = DataAt(W2) /\ u = OutNonces(W2)
  OBVIOUS
<1>4. /\ I \in SUBSET (1..(m + 1)) /\ J \in SUBSET (1..m)
      /\ \A i \in 1..m : (i \in J <=> i + 1 \in I) /\ u[i] = v[i + 1]
      /\ v[1] = Head(W).nonce /\ (1 \in I <=> Head(W).cmd = "DATA")
  BY <1>1, <1>2, <1>3 DEF DataAt, OutNonces
<1>5. Line(I, v, recv, send) /\ send \in Int  BY <1>3 DEF OutLine
<1>6. /\ 1 \in I => v[1] = recv /\ Line(J, u, recv + 1, send)
      /\ 1 \notin I => Line(J, u, recv, send)
  <2>1. \A i \in 1..m : (i \in J <=> i + 1 \in I) /\ u[i] = v[i + 1]  BY <1>4
  <2>2. I \in SUBSET (1..(m + 1)) /\ J \in SUBSET (1..m)  BY <1>4
  <2> QED BY <1>5, <2>1, <2>2, LineTaken
<1> QED BY <1>1, <1>3, <1>4, <1>6 DEF OutLine

\* What a step has to show.
LEMMA OutShown ==
    ASSUME OutTypes', NEW W, W = rp2c' \o hs2rp', OutLine(W, e2e_recv_nonce', e2e_send_nonce')
    PROVE  OutInv'
<1>1. W = (rp2c \o hs2rp)'  OBVIOUS
<1> QED BY <1>1 DEF OutInv, OutLine

\* A step that leaves the sealed cells and the nonces alone.
LEMMA OutSame ==
    ASSUME OutInv, OutTypes', rp2c' = rp2c, hs2rp' = hs2rp, e2e_recv_nonce' = e2e_recv_nonce,
           e2e_send_nonce' = e2e_send_nonce
    PROVE  OutInv'
BY DEF OutInv, OutLine

\* What the constants are.
LEMMA OutConstants ==
    /\ CircWindow \in Nat /\ StreamWindow \in Nat /\ Increment \in Nat /\ MaxData \in Nat
    /\ 0 < Increment /\ Increment <= CircWindow /\ Increment <= StreamWindow
BY OutAssumption DEF Out!RendezvousAssumption

\* A cell put behind the last queue is behind the way.
LEMMA OutAppend ==
    ASSUME NEW q \in Seq(OutCell), NEW r \in Seq(OutCell), NEW c \in OutCell
    PROVE  q \o Append(r, c) = Append(q \o r, c)
OBVIOUS

-----------------------------------------------------------------------------
(* From the service: every step.                                           *)

\* The cells of the service and those of the client.
LEMMA OutCells ==
    ASSUME NEW s \in Streams
    PROVE  /\ \A n \in Nat : /\ Out!Cell("DATA", s, n) \in OutCell
                             /\ Out!Cell("DATA", s, n).cmd = "DATA"
                             /\ Out!Cell("DATA", s, n).nonce = n
           /\ Out!Cell("END", s, 0) \in OutCell /\ Out!Cell("END", s, 0).cmd = "END"
           /\ Out!Cell("END", s, 0) \in RetCell /\ Out!Cell("SENDME", s, 0) \in RetCell
           /\ Out!Cell("CIRC_SENDME", Out!NoStream, 0) \in RetCell
<1>1. ASSUME NEW n \in Nat
      PROVE  /\ Out!Cell("DATA", s, n) \in OutCell /\ Out!Cell("DATA", s, n).cmd = "DATA"
             /\ Out!Cell("DATA", s, n).nonce = n
  BY DEF Out!Cell, OutCell
<1>2. Out!Cell("END", s, 0) \in OutCell /\ Out!Cell("END", s, 0).cmd = "END"
  BY DEF Out!Cell, OutCell
<1>3. Out!Cell("END", s, 0) \in RetCell /\ Out!Cell("SENDME", s, 0) \in RetCell
  BY DEF Out!Cell, RetCell
<1>4. Out!Cell("CIRC_SENDME", Out!NoStream, 0) \in RetCell  BY DEF Out!NoStream, RetCell
<1> QED BY <1>1, <1>2, <1>3, <1>4

\* The service reads a local connection.
LEMMA OutServiceReads ==
    ASSUME OutInv, NEW s \in Streams, Out!ServiceReads(s)
    PROVE  OutInv'
<1>1. OutTypes /\ OutLine(rp2c \o hs2rp, e2e_recv_nonce, e2e_send_nonce)  BY DEF OutInv
<1>2. /\ targets[s].pkg > 0 /\ circ_package_window > 0 /\ todo[s] > 0
      /\ todo' = [todo EXCEPT ![s] = @ - 1]
      /\ hs2rp' = Append(hs2rp, Out!Cell("DATA", s, e2e_send_nonce))
      /\ e2e_send_nonce' = e2e_send_nonce + 1
      /\ targets' = [targets EXCEPT ![s].pkg = @ - 1]
      /\ circ_package_window' = circ_package_window - 1
      /\ rp_deliver_window' = rp_deliver_window /\ circ_deliver_window' = circ_deliver_window
      /\ e2e_recv_nonce' = e2e_recv_nonce /\ clients' = clients
      /\ rp2c' = rp2c /\ c2rp' = c2rp /\ rp2hs' = rp2hs
  BY DEF Out!ServiceReads, Out!HasCredit, Out!cvars
<1>3. PICK c \in OutCell : /\ c = Out!Cell("DATA", s, e2e_send_nonce)
                           /\ c.cmd = "DATA" /\ c.nonce = e2e_send_nonce
  <2>1. e2e_send_nonce \in Nat  BY <1>1 DEF OutTypes
  <2> QED BY <2>1, OutCells
<1>4. /\ hs2rp \in Seq(OutCell) /\ rp2c \in Seq(OutCell)
      /\ e2e_recv_nonce \in Nat /\ e2e_send_nonce \in Nat
  BY <1>1 DEF OutTypes
<1>5. hs2rp' \in Seq(OutCell) /\ hs2rp' = Append(hs2rp, c)  BY <1>2, <1>3, <1>4
<1>6. todo' \in [Streams -> 0..MaxData]
  <2>1. todo \in [Streams -> 0..MaxData] /\ MaxData \in Nat  BY <1>1, OutConstants DEF OutTypes
  <2>2. todo[s] > 0 /\ todo' = [todo EXCEPT ![s] = @ - 1]  BY <1>2
  <2>3. todo[s] - 1 \in 0..MaxData  BY <2>1, <2>2
  <2> QED BY <2>1, <2>2, <2>3
<1>7. targets' \in [Streams -> OutTarget]
  <2>1. targets \in [Streams -> OutTarget] /\ StreamWindow \in Nat
    BY <1>1, OutConstants DEF OutTypes
  <2>2. targets[s].pkg > 0 /\ targets' = [targets EXCEPT ![s].pkg = @ - 1]  BY <1>2
  <2>3. PICK p \in 0..StreamWindow : p = targets[s].pkg - 1  BY <2>1, <2>2 DEF OutTarget
  <2>4. targets' = [targets EXCEPT ![s].pkg = p]  BY <2>2, <2>3
  <2> QED BY <2>1, <2>4 DEF OutTarget
<1>8. circ_package_window' \in 0..CircWindow
  <2>1. circ_package_window \in 0..CircWindow /\ CircWindow \in Nat
    BY <1>1, OutConstants DEF OutTypes
  <2>2. circ_package_window > 0 /\ circ_package_window' = circ_package_window - 1  BY <1>2
  <2> QED BY <2>1, <2>2
<1>9. OutTypes'
  <2>1. e2e_send_nonce' \in Nat  BY <1>2, <1>4
  <2> QED BY <1>1, <1>2, <1>5, <1>6, <1>7, <1>8, <2>1 DEF OutTypes
<1>10. PICK W \in Seq(OutCell) : W = rp2c \o hs2rp  BY <1>4, JoinConcat
<1>11. rp2c' \o hs2rp' = Append(W, c)
  <2>1. rp2c \o Append(hs2rp, c) = Append(rp2c \o hs2rp, c)  BY <1>4, OutAppend
  <2> QED BY <1>2, <1>5, <1>10, <2>1
<1>12. OutLine(Append(W, c), e2e_recv_nonce, e2e_send_nonce + 1)
  BY <1>1, <1>3, <1>4, <1>10, OutGrows
<1> QED BY <1>2, <1>9, <1>11, <1>12, OutShown

\* A local connection without credit is no longer read.
LEMMA OutServicePaused ==
    ASSUME OutInv, NEW s \in Streams, Out!ServicePaused(s)
    PROVE  OutInv'
<1>1. OutTypes  BY DEF OutInv
<1>2. /\ targets' = [targets EXCEPT ![s].reading = FALSE]
      /\ circ_package_window' = circ_package_window /\ e2e_send_nonce' = e2e_send_nonce
      /\ todo' = todo
      /\ rp_deliver_window' = rp_deliver_window /\ circ_deliver_window' = circ_deliver_window
      /\ e2e_recv_nonce' = e2e_recv_nonce /\ clients' = clients
      /\ hs2rp' = hs2rp /\ rp2c' = rp2c /\ c2rp' = c2rp /\ rp2hs' = rp2hs
  BY DEF Out!ServicePaused, Out!cvars
<1>3. targets' \in [Streams -> OutTarget]  BY <1>1, <1>2 DEF OutTypes, OutTarget
<1>4. OutTypes'  BY <1>1, <1>2, <1>3 DEF OutTypes
<1> QED BY <1>2, <1>4, OutSame

\* A local connection is closed.
LEMMA OutTargetClosed ==
    ASSUME OutInv, NEW s \in Streams, Out!ServiceTargetClosed(s)
    PROVE  OutInv'
<1>1. OutTypes /\ OutLine(rp2c \o hs2rp, e2e_recv_nonce, e2e_send_nonce)  BY DEF OutInv
<1>2. /\ hs2rp' = Append(hs2rp, Out!Cell("END", s, 0))
      /\ targets' = [targets EXCEPT ![s].open = FALSE, ![s].reading = FALSE]
      /\ circ_package_window' = circ_package_window /\ e2e_send_nonce' = e2e_send_nonce
      /\ todo' = todo
      /\ rp_deliver_window' = rp_deliver_window /\ circ_deliver_window' = circ_deliver_window
      /\ e2e_recv_nonce' = e2e_recv_nonce /\ clients' = clients
      /\ rp2c' = rp2c /\ c2rp' = c2rp /\ rp2hs' = rp2hs
  BY DEF Out!ServiceTargetClosed, Out!cvars
<1>3. PICK c \in OutCell : c = Out!Cell("END", s, 0) /\ c.cmd # "DATA"  BY OutCells
<1>4. /\ hs2rp \in Seq(OutCell) /\ rp2c \in Seq(OutCell)
      /\ e2e_recv_nonce \in Nat /\ e2e_send_nonce \in Nat
  BY <1>1 DEF OutTypes
<1>5. hs2rp' \in Seq(OutCell) /\ hs2rp' = Append(hs2rp, c)  BY <1>2, <1>3, <1>4
<1>6. targets' \in [Streams -> OutTarget]  BY <1>1, <1>2 DEF OutTypes, OutTarget
<1>7. OutTypes'  BY <1>1, <1>2, <1>5, <1>6 DEF OutTypes
<1>8. PICK W \in Seq(OutCell) : W = rp2c \o hs2rp  BY <1>4, JoinConcat
<1>9. rp2c' \o hs2rp' = Append(W, c)
  <2>1. rp2c \o Append(hs2rp, c) = Append(rp2c \o hs2rp, c)  BY <1>4, OutAppend
  <2> QED BY <1>2, <1>5, <1>8, <2>1
<1>10. OutLine(Append(W, c), e2e_recv_nonce, e2e_send_nonce)
  BY <1>1, <1>3, <1>4, <1>8, OutGrows
<1> QED BY <1>2, <1>7, <1>9, <1>10, OutShown

\* The service takes a SENDME, which refills a capped window, or an END.
LEMMA OutServiceCell ==
    ASSUME OutInv, Out!ServiceCell
    PROVE  OutInv'
<1>1. OutTypes  BY DEF OutInv
<1>2. PICK cmd : /\ cmd \in {"CIRC_SENDME", "SENDME", "END"} /\ Out!ServiceTakes(cmd)
                 /\ cmd = "CIRC_SENDME" => Out!ServiceCircSendme
                 /\ cmd = "SENDME" => Out!ServiceStreamSendme
                 /\ cmd = "END" => Out!ServiceEnd
  BY DEF Out!ServiceCell, Out!ServiceCircSendme, Out!ServiceStreamSendme, Out!ServiceEnd
<1>3. /\ rp2hs # <<>> /\ Head(rp2hs).cmd = cmd /\ rp2hs' = Tail(rp2hs)
      /\ e2e_send_nonce' = e2e_send_nonce /\ todo' = todo
      /\ rp_deliver_window' = rp_deliver_window /\ circ_deliver_window' = circ_deliver_window
      /\ e2e_recv_nonce' = e2e_recv_nonce /\ clients' = clients
      /\ hs2rp' = hs2rp /\ rp2c' = rp2c /\ c2rp' = c2rp
  BY <1>2 DEF Out!ServiceTakes, Out!cvars
<1>4. rp2hs' \in Seq(RetCell) /\ Head(rp2hs) \in RetCell  BY <1>1, <1>3 DEF OutTypes
<1>5. cmd # "CIRC_SENDME" => Head(rp2hs).sid \in Streams  BY <1>3, <1>4 DEF RetCell, Out!Cell
<1>6. circ_package_window' \in 0..CircWindow
  <2>1. circ_package_window \in 0..CircWindow  BY <1>1 DEF OutTypes
  <2>2. CASE cmd = "CIRC_SENDME"
    <3>1. circ_package_window' = Out!Min({CircWindow, circ_package_window + Increment})
      BY <1>2, <2>2 DEF Out!ServiceCircSendme
    <3>2. PICK x \in Nat, y \in Nat : x = CircWindow /\ y = circ_package_window + Increment
      BY <2>1, OutConstants
    <3>3. Out!Min({x, y}) \in {x, y} /\ Out!Min({x, y}) <= x  BY DEF Out!Min
    <3>4. Out!Min({x, y}) \in 0..x  BY <3>3
    <3> QED BY <3>1, <3>2, <3>4
  <2>3. CASE cmd # "CIRC_SENDME"
    <3>1. circ_package_window' = circ_package_window
      BY <1>2, <2>3 DEF Out!ServiceStreamSendme, Out!ServiceEnd
    <3> QED BY <2>1, <3>1
  <2> QED BY <2>2, <2>3
<1>7. targets' \in [Streams -> OutTarget]
  <2>1. targets \in [Streams -> OutTarget]  BY <1>1 DEF OutTypes
  <2>2. CASE cmd = "CIRC_SENDME"
    BY <1>2, <2>1, <2>2 DEF Out!ServiceCircSendme
  <2>3. CASE cmd = "SENDME"
    <3>1. PICK s \in Streams : s = Head(rp2hs).sid  BY <1>5, <2>3
    <3>2. PICK p \in 0..StreamWindow : p = Out!Min({StreamWindow, targets[s].pkg + Increment})
      <4>1. PICK x \in Nat, y \in Nat : x = StreamWindow /\ y = targets[s].pkg + Increment
        BY <2>1, OutConstants DEF OutTarget
      <4>2. Out!Min({x, y}) \in {x, y} /\ Out!Min({x, y}) <= x  BY DEF Out!Min
      <4>3. Out!Min({x, y}) \in 0..x  BY <4>2
      <4> QED BY <4>1, <4>3
    <3>3. \/ targets' = targets
          \/ targets' = [targets EXCEPT ![s].pkg = p, ![s].reading = TRUE]
      <4>1. targets' = IF targets[s].open
                       THEN [targets EXCEPT ![s].pkg = Out!Min({StreamWindow, @ + Increment}),
                                            ![s].reading = TRUE]
                       ELSE targets
        BY <1>2, <2>3, <3>1 DEF Out!ServiceStreamSendme
      <4>2. [targets EXCEPT ![s].pkg = Out!Min({StreamWindow, @ + Increment}),
                            ![s].reading = TRUE]
              = [targets EXCEPT ![s].pkg = p, ![s].reading = TRUE]
        BY <2>1, <3>2
      <4> QED BY <4>1, <4>2
    <3> QED BY <2>1, <3>1, <3>2, <3>3 DEF OutTarget
  <2>4. CASE cmd = "END"
    <3>1. PICK s \in Streams : s = Head(rp2hs).sid  BY <1>5, <2>4
    <3>2. targets' = [targets EXCEPT ![s].open = FALSE, ![s].reading = FALSE]
      BY <1>2, <2>4, <3>1 DEF Out!ServiceEnd
    <3> QED BY <2>1, <3>2 DEF OutTarget
  <2> QED BY <1>2, <2>2, <2>3, <2>4
<1>8. OutTypes'  BY <1>1, <1>3, <1>4, <1>6, <1>7 DEF OutTypes
<1> QED BY <1>3, <1>8, OutSame

\* The rendezvous point forwards a cell of the service: its window never runs
\* out, so that it drops none.
LEMMA OutRpForwards ==
    ASSUME OutInv, Out!RpForwards
    PROVE  OutInv'
<1>1. OutTypes /\ OutLine(rp2c \o hs2rp, e2e_recv_nonce, e2e_send_nonce)  BY DEF OutInv
<1>2. /\ hs2rp # <<>> /\ hs2rp' = Tail(hs2rp)
      /\ circ_package_window' = circ_package_window /\ e2e_send_nonce' = e2e_send_nonce
      /\ targets' = targets /\ todo' = todo /\ circ_deliver_window' = circ_deliver_window
      /\ e2e_recv_nonce' = e2e_recv_nonce /\ clients' = clients /\ c2rp' = c2rp
  BY DEF Out!RpForwards, Out!cvars, Out!svars
<1>3. /\ hs2rp \in Seq(OutCell) /\ rp2c \in Seq(OutCell) /\ rp2hs \in Seq(RetCell)
      /\ rp_deliver_window \in (CircWindow - Increment + 1)..CircWindow
  BY <1>1 DEF OutTypes
<1>4. ~(rp_deliver_window <= 0)  BY <1>3, OutConstants
<1>5. /\ rp2c' = Append(rp2c, Head(hs2rp))
      /\ \/ rp_deliver_window' = rp_deliver_window /\ rp2hs' = rp2hs
         \/ /\ rp_deliver_window - 1 <= CircWindow - Increment
            /\ rp_deliver_window' = rp_deliver_window - 1 + Increment
            /\ rp2hs' = Append(rp2hs, Out!Cell("CIRC_SENDME", Out!NoStream, 0))
         \/ /\ ~(rp_deliver_window - 1 <= CircWindow - Increment)
            /\ rp_deliver_window' = rp_deliver_window - 1 /\ rp2hs' = rp2hs
  BY <1>4 DEF Out!RpForwards
<1>6. rp_deliver_window' \in (CircWindow - Increment + 1)..CircWindow
  BY <1>3, <1>5, OutConstants
<1>7. rp2hs' \in Seq(RetCell)
  <2>1. Out!Cell("CIRC_SENDME", Out!NoStream, 0) \in RetCell  BY DEF Out!NoStream, RetCell
  <2>2. Append(rp2hs, Out!Cell("CIRC_SENDME", Out!NoStream, 0)) \in Seq(RetCell)  BY <1>3, <2>1
  <2>3. \/ rp2hs' = rp2hs
        \/ rp2hs' = Append(rp2hs, Out!Cell("CIRC_SENDME", Out!NoStream, 0))
    BY <1>5
  <2> QED BY <1>3, <2>2, <2>3
<1>8. hs2rp' \in Seq(OutCell) /\ rp2c' \in Seq(OutCell)
  <2>1. Head(hs2rp) \in OutCell /\ Tail(hs2rp) \in Seq(OutCell)  BY <1>2, <1>3
  <2>2. Append(rp2c, Head(hs2rp)) \in Seq(OutCell)  BY <1>3, <2>1
  <2> QED BY <1>2, <1>5, <2>1, <2>2
<1>9. OutTypes'  BY <1>1, <1>2, <1>6, <1>7, <1>8 DEF OutTypes
<1>10. rp2c' \o hs2rp' = rp2c \o hs2rp
  <2>1. Append(rp2c, Head(hs2rp)) \o Tail(hs2rp) = rp2c \o hs2rp  BY <1>2, <1>3, WayMoves
  <2> QED BY <1>2, <1>5, <2>1
<1>11. PICK W : W = rp2c' \o hs2rp'  OBVIOUS
<1>12. OutLine(W, e2e_recv_nonce', e2e_send_nonce')  BY <1>1, <1>2, <1>10, <1>11
<1> QED BY <1>9, <1>11, <1>12, OutShown

\* The rendezvous point forwards a cell of the client.
LEMMA OutRpReturns ==
    ASSUME OutInv, Out!RpReturns
    PROVE  OutInv'
<1>1. OutTypes  BY DEF OutInv
<1>2. /\ c2rp # <<>> /\ c2rp' = Tail(c2rp) /\ rp2hs' = Append(rp2hs, Head(c2rp))
      /\ circ_package_window' = circ_package_window /\ e2e_send_nonce' = e2e_send_nonce
      /\ targets' = targets /\ todo' = todo /\ rp_deliver_window' = rp_deliver_window
      /\ circ_deliver_window' = circ_deliver_window
      /\ e2e_recv_nonce' = e2e_recv_nonce /\ clients' = clients
      /\ hs2rp' = hs2rp /\ rp2c' = rp2c
  BY DEF Out!RpReturns, Out!cvars, Out!svars
<1>3. c2rp \in Seq(RetCell) /\ rp2hs \in Seq(RetCell)  BY <1>1 DEF OutTypes
<1>4. Head(c2rp) \in RetCell /\ Tail(c2rp) \in Seq(RetCell)  BY <1>2, <1>3
<1>5. c2rp' \in Seq(RetCell) /\ rp2hs' \in Seq(RetCell)  BY <1>2, <1>3, <1>4
<1>6. OutTypes'  BY <1>1, <1>2, <1>5 DEF OutTypes
<1> QED BY <1>2, <1>6, OutSame

\* The client closes a stream.
LEMMA OutCloseStream ==
    ASSUME OutInv, NEW s \in Streams, Out!CloseStream(s)
    PROVE  OutInv'
<1>1. OutTypes  BY DEF OutInv
<1>2. /\ clients' = [clients EXCEPT ![s].open = FALSE]
      /\ c2rp' = Append(c2rp, Out!Cell("END", s, 0))
      /\ circ_package_window' = circ_package_window /\ e2e_send_nonce' = e2e_send_nonce
      /\ targets' = targets /\ todo' = todo /\ rp_deliver_window' = rp_deliver_window
      /\ circ_deliver_window' = circ_deliver_window
      /\ e2e_recv_nonce' = e2e_recv_nonce
      /\ hs2rp' = hs2rp /\ rp2c' = rp2c /\ rp2hs' = rp2hs
  BY DEF Out!CloseStream, Out!svars
<1>3. c2rp' \in Seq(RetCell)
  <2>1. c2rp \in Seq(RetCell)  BY <1>1 DEF OutTypes
  <2>2. Out!Cell("END", s, 0) \in RetCell  BY OutCells
  <2> QED BY <1>2, <2>1, <2>2
<1>4. clients' \in [Streams -> OutClient]
  <2>1. clients \in [Streams -> OutClient]  BY <1>1 DEF OutTypes
  <2> QED BY <1>2, <2>1 DEF OutClient
<1>5. OutTypes'  BY <1>1, <1>2, <1>3, <1>4 DEF OutTypes
<1> QED BY <1>2, <1>5, OutSame

\* The client takes a cell off the way.
LEMMA OutClientTakes ==
    ASSUME OutInv, NEW cmd, Out!ClientTakes(cmd)
    PROVE  /\ rp2c # <<>> /\ Head(rp2c).cmd = cmd /\ Head(rp2c) \in OutCell
           /\ Head(rp2c).sid \in Streams /\ rp2c' \in Seq(OutCell)
           /\ circ_package_window' = circ_package_window /\ e2e_send_nonce' = e2e_send_nonce
           /\ targets' = targets /\ todo' = todo /\ rp_deliver_window' = rp_deliver_window
           /\ hs2rp' = hs2rp /\ rp2hs' = rp2hs
           /\ cmd = "DATA" => /\ Head(rp2c).nonce = e2e_recv_nonce
                              /\ OutLine(rp2c' \o hs2rp', e2e_recv_nonce + 1, e2e_send_nonce)
           /\ cmd # "DATA" => OutLine(rp2c' \o hs2rp', e2e_recv_nonce, e2e_send_nonce)
<1>1. OutTypes /\ OutLine(rp2c \o hs2rp, e2e_recv_nonce, e2e_send_nonce)  BY DEF OutInv
<1>2. /\ rp2c # <<>> /\ Head(rp2c).cmd = cmd /\ rp2c' = Tail(rp2c)
      /\ circ_package_window' = circ_package_window /\ e2e_send_nonce' = e2e_send_nonce
      /\ targets' = targets /\ todo' = todo /\ rp_deliver_window' = rp_deliver_window
      /\ hs2rp' = hs2rp /\ rp2hs' = rp2hs
  BY DEF Out!ClientTakes, Out!svars
<1>3. /\ hs2rp \in Seq(OutCell) /\ rp2c \in Seq(OutCell)
      /\ e2e_send_nonce \in Nat /\ e2e_recv_nonce \in Nat
  BY <1>1 DEF OutTypes
<1>4. Head(rp2c) \in OutCell /\ Tail(rp2c) \in Seq(OutCell)  BY <1>2, <1>3
<1>5. Head(rp2c).sid \in Streams  BY <1>4 DEF OutCell
<1>6. PICK W \in Seq(OutCell) : W = rp2c \o hs2rp  BY <1>3, JoinConcat
<1>7. W # <<>> /\ Head(W) = Head(rp2c) /\ Tail(W) = Tail(rp2c) \o hs2rp
  BY <1>2, <1>3, <1>6, WayEnds
<1>8. /\ Head(W).cmd = "DATA" => /\ Head(W).nonce = e2e_recv_nonce
                                 /\ OutLine(Tail(W), e2e_recv_nonce + 1, e2e_send_nonce)
      /\ Head(W).cmd # "DATA" => OutLine(Tail(W), e2e_recv_nonce, e2e_send_nonce)
  BY <1>1, <1>3, <1>6, <1>7, OutTaken
<1>9. Tail(W) = rp2c' \o hs2rp'  BY <1>2, <1>7
<1> QED BY <1>2, <1>4, <1>5, <1>7, <1>8, <1>9

\* The client takes a sealed cell, and acknowledges to the stream and to the circuit.
LEMMA OutClientData ==
    ASSUME OutInv, Out!ClientData
    PROVE  OutInv'
<1>1. OutTypes  BY DEF OutInv
<1>2. Out!ClientTakes("DATA") /\ e2e_recv_nonce' = e2e_recv_nonce + 1  BY DEF Out!ClientData
<1>3. /\ Head(rp2c).sid \in Streams /\ rp2c' \in Seq(OutCell)
      /\ circ_package_window' = circ_package_window /\ e2e_send_nonce' = e2e_send_nonce
      /\ targets' = targets /\ todo' = todo /\ rp_deliver_window' = rp_deliver_window
      /\ hs2rp' = hs2rp /\ rp2hs' = rp2hs
      /\ OutLine(rp2c' \o hs2rp', e2e_recv_nonce + 1, e2e_send_nonce)
  BY <1>2, OutClientTakes
<1>4. /\ clients \in [Streams -> OutClient] /\ c2rp \in Seq(RetCell) /\ e2e_recv_nonce \in Nat
      /\ circ_deliver_window \in (CircWindow - Increment + 1)..CircWindow
  BY <1>1 DEF OutTypes
<1>5. PICK s \in Streams : s = Head(rp2c).sid  BY <1>3
<1>6. circ_deliver_window' \in (CircWindow - Increment + 1)..CircWindow
  <2>1. circ_deliver_window' = IF circ_deliver_window - 1 <= CircWindow - Increment
                               THEN circ_deliver_window - 1 + Increment
                               ELSE circ_deliver_window - 1
    BY DEF Out!ClientData
  <2> QED BY <1>4, <2>1, OutConstants
<1>7. clients' \in [Streams -> OutClient]
  <2>1. PICK e \in Int : /\ e = clients[s].del - 1
                         /\ StreamWindow - Increment <= e /\ e <= StreamWindow
    BY <1>4, OutConstants DEF OutClient
  <2>2. PICK d \in (StreamWindow - Increment + 1)..StreamWindow :
          d = IF e <= StreamWindow - Increment THEN e + Increment ELSE e
    BY <2>1, OutConstants
  <2>3. \/ clients' = clients
        \/ clients' = [clients EXCEPT ![s].del = d]
        \/ clients' = [clients EXCEPT ![s].open = FALSE, ![s].dropped = TRUE]
    <3>1. PICK refused \in BOOLEAN :
            clients' = IF refused
                       THEN [clients EXCEPT ![s].open = FALSE, ![s].dropped = TRUE]
                       ELSE IF clients[s].open
                       THEN [clients EXCEPT
                               ![s].del = IF ~refused /\ clients[s].open
                                             /\ e <= StreamWindow - Increment
                                          THEN e + Increment ELSE e]
                       ELSE clients
      BY <1>5, <2>1 DEF Out!ClientData
    <3> QED BY <2>2, <3>1
  <2>4. CASE clients' = [clients EXCEPT ![s].open = FALSE, ![s].dropped = TRUE]
    BY <1>4, <2>4 DEF OutClient
  <2> QED BY <1>4, <2>3, <2>4 DEF OutClient
<1>8. c2rp' \in Seq(RetCell)
  <2>1. PICK q \in Seq(RetCell), r \in Seq(RetCell) : c2rp' = (c2rp \o q) \o r
    <3>1. /\ Out!Cell("SENDME", s, 0) \in RetCell
          /\ Out!Cell("CIRC_SENDME", Out!NoStream, 0) \in RetCell
      BY OutCells
    <3>2. /\ <<>> \in Seq(RetCell) /\ <<Out!Cell("SENDME", s, 0)>> \in Seq(RetCell)
          /\ <<Out!Cell("CIRC_SENDME", Out!NoStream, 0)>> \in Seq(RetCell)
      BY <3>1
    <3>3. \E q \in {<<>>, <<Out!Cell("SENDME", s, 0)>>},
             r \in {<<>>, <<Out!Cell("CIRC_SENDME", Out!NoStream, 0)>>} : c2rp' = (c2rp \o q) \o r
      BY <1>5 DEF Out!ClientData
    <3> QED BY <3>2, <3>3
  <2>2. c2rp \o q \in Seq(RetCell)  BY <1>4, JoinConcat
  <2>3. (c2rp \o q) \o r \in Seq(RetCell)  BY <2>2, JoinConcat
  <2> QED BY <2>1, <2>3
<1>9. OutTypes'
  <2>1. e2e_recv_nonce' \in Nat  BY <1>2, <1>4
  <2> QED BY <1>1, <1>3, <1>6, <1>7, <1>8, <2>1 DEF OutTypes
<1>10. PICK W : W = rp2c' \o hs2rp'  OBVIOUS
<1>11. OutLine(W, e2e_recv_nonce', e2e_send_nonce')  BY <1>2, <1>3, <1>10
<1> QED BY <1>9, <1>10, <1>11, OutShown

\* The client takes an END.
LEMMA OutClientEnd ==
    ASSUME OutInv, Out!ClientEnd
    PROVE  OutInv'
<1>1. OutTypes  BY DEF OutInv
<1>2. /\ Out!ClientTakes("END") /\ clients' = [clients EXCEPT ![Head(rp2c).sid].open = FALSE]
      /\ circ_deliver_window' = circ_deliver_window /\ e2e_recv_nonce' = e2e_recv_nonce
      /\ c2rp' = c2rp
  BY DEF Out!ClientEnd
<1>3. /\ Head(rp2c).sid \in Streams /\ rp2c' \in Seq(OutCell)
      /\ circ_package_window' = circ_package_window /\ e2e_send_nonce' = e2e_send_nonce
      /\ targets' = targets /\ todo' = todo /\ rp_deliver_window' = rp_deliver_window
      /\ hs2rp' = hs2rp /\ rp2hs' = rp2hs
      /\ OutLine(rp2c' \o hs2rp', e2e_recv_nonce, e2e_send_nonce)
  BY <1>2, OutClientTakes
<1>4. clients' \in [Streams -> OutClient]
  <2>1. clients \in [Streams -> OutClient]  BY <1>1 DEF OutTypes
  <2> QED BY <1>2, <1>3, <2>1 DEF OutClient
<1>5. OutTypes'  BY <1>1, <1>2, <1>3, <1>4 DEF OutTypes
<1>6. PICK W : W = rp2c' \o hs2rp'  OBVIOUS
<1>7. OutLine(W, e2e_recv_nonce', e2e_send_nonce')  BY <1>2, <1>3, <1>6
<1> QED BY <1>5, <1>6, <1>7, OutShown

-----------------------------------------------------------------------------
(* From the service: the invariant holds, and what it says.                *)

\* Every step keeps the invariant.
LEMMA OutNext ==
    ASSUME OutInv, Out!Next
    PROVE  OutInv'
<1>1. CASE \E s \in Streams :
             Out!ServiceRead(s) \/ Out!ServiceTargetClosed(s) \/ Out!CloseStream(s)
  <2>1. PICK s \in Streams :
             Out!ServiceRead(s) \/ Out!ServiceTargetClosed(s) \/ Out!CloseStream(s)
    BY <1>1
  <2>2. CASE Out!ServicePaused(s)
    BY <2>2, OutServicePaused
  <2>3. CASE Out!ServiceReads(s)
    BY <2>3, OutServiceReads
  <2>4. CASE Out!ServiceTargetClosed(s)
    BY <2>4, OutTargetClosed
  <2>5. CASE Out!CloseStream(s)
    BY <2>5, OutCloseStream
  <2> QED BY <2>1, <2>2, <2>3, <2>4, <2>5 DEF Out!ServiceRead
<1>2. CASE Out!ServiceCell
  BY <1>2, OutServiceCell
<1>3. CASE Out!RpForwards
  BY <1>3, OutRpForwards
<1>4. CASE Out!RpReturns
  BY <1>4, OutRpReturns
<1>5. CASE Out!ClientCell
  BY <1>5, OutClientData, OutClientEnd DEF Out!ClientCell
<1> QED BY <1>1, <1>2, <1>3, <1>4, <1>5 DEF Out!Next

\* A step that changes none of the variables.
LEMMA OutStutters ==
    ASSUME OutInv, UNCHANGED <<vars, outOnly>>
    PROVE  OutInv'
<1>1. /\ circ_package_window' = circ_package_window /\ e2e_send_nonce' = e2e_send_nonce
      /\ clients' = clients /\ rp_deliver_window' = rp_deliver_window
      /\ e2e_recv_nonce' = e2e_recv_nonce /\ targets' = targets
      /\ c2rp' = c2rp /\ rp2hs' = rp2hs /\ hs2rp' = hs2rp /\ rp2c' = rp2c
      /\ todo' = todo /\ circ_deliver_window' = circ_deliver_window
  BY DEF vars, cvars, svars, outOnly
<1>2. OutTypes'  BY <1>1 DEF OutInv, OutTypes
<1> QED BY <1>1, <1>2, OutSame

\* The invariant holds at first.
LEMMA OutInit ==
    ASSUME Out!Init
    PROVE  OutInv
<1>1. targets \in [Streams -> OutTarget]
  <2>1. targets = [s \in Streams |-> [open |-> TRUE, pkg |-> StreamWindow, reading |-> TRUE]]
    BY DEF Out!Init
  <2>2. StreamWindow \in 0..StreamWindow  BY OutConstants
  <2> QED BY <2>1, <2>2 DEF OutTarget
<1>2. clients \in [Streams -> OutClient]
  <2>1. clients = [s \in Streams |-> [open |-> TRUE, del |-> StreamWindow,
                                     dropped |-> FALSE]]
    BY DEF Out!Init
  <2>2. StreamWindow \in (StreamWindow - Increment + 1)..StreamWindow  BY OutConstants
  <2> QED BY <2>1, <2>2 DEF OutClient
<1>3. todo \in [Streams -> 0..MaxData]  BY DEF Out!Init
<1>4. /\ circ_package_window = CircWindow /\ rp_deliver_window = CircWindow
      /\ circ_deliver_window = CircWindow /\ e2e_send_nonce = 0 /\ e2e_recv_nonce = 0
      /\ hs2rp = <<>> /\ rp2c = <<>> /\ c2rp = <<>> /\ rp2hs = <<>>
  BY DEF Out!Init
<1>5. /\ hs2rp \in Seq(OutCell) /\ rp2c \in Seq(OutCell)
      /\ c2rp \in Seq(RetCell) /\ rp2hs \in Seq(RetCell)
  BY <1>4
<1>6. OutTypes  BY <1>1, <1>2, <1>3, <1>4, <1>5, OutConstants DEF OutTypes
<1>7. PICK W : W = rp2c \o hs2rp /\ W = <<>> /\ DOMAIN W = {}  BY <1>4
<1>8. DataAt(W) = {}  BY <1>7 DEF DataAt
<1>9. OutLine(W, 0, 0)  BY <1>8, LineEmpty DEF OutLine
<1> QED BY <1>4, <1>6, <1>7, <1>9 DEF OutInv

\* What the invariant says of the way from the service.
LEMMA OutMeans ==
    ASSUME OutInv
    PROVE  Out!TypeOK /\ Out!NoncesInStep
<1>1. OutTypes /\ OutLine(rp2c \o hs2rp, e2e_recv_nonce, e2e_send_nonce)  BY DEF OutInv
<1>2. Out!TypeOK
  <2>1. /\ circ_package_window \in 0..CircWindow /\ todo \in [Streams -> 0..MaxData]
        /\ e2e_send_nonce \in Nat /\ e2e_recv_nonce \in Nat
    BY <1>1 DEF OutTypes
  <2>2. rp_deliver_window \in 1..CircWindow /\ circ_deliver_window \in 1..CircWindow
    BY <1>1, OutConstants DEF OutTypes
  <2>3. ASSUME NEW s \in Streams
        PROVE  targets[s].pkg \in 0..StreamWindow /\ clients[s].del \in 1..StreamWindow
    <3>1. targets[s] \in OutTarget /\ clients[s] \in OutClient  BY <1>1 DEF OutTypes
    <3>2. targets[s].pkg \in 0..StreamWindow  BY <3>1 DEF OutTarget
    <3>3. clients[s].del \in (StreamWindow - Increment + 1)..StreamWindow  BY <3>1 DEF OutClient
    <3> QED BY <3>2, <3>3, OutConstants
  <2> QED BY <2>1, <2>2, <2>3 DEF Out!TypeOK
<1>3. Out!NoncesInStep
  <2>1. PICK W, I, v : W = rp2c \o hs2rp /\ I = DataAt(W) /\ v = OutNonces(W)  OBVIOUS
  <2>2. Line(I, v, e2e_recv_nonce, e2e_send_nonce)  BY <1>1, <2>1 DEF OutLine
  <2>3. \A i \in I : v[i] = W[i].nonce  BY <2>1 DEF DataAt, OutNonces
  <2>4. /\ \A i \in I : W[i].nonce \in e2e_recv_nonce..(e2e_send_nonce - 1)
        /\ \A i, j \in I : i < j => W[i].nonce < W[j].nonce
        /\ \A n \in e2e_recv_nonce..(e2e_send_nonce - 1) : \E i \in I : W[i].nonce = n
    BY <2>2, <2>3 DEF Line
  <2>5. {W[i].nonce : i \in I} = e2e_recv_nonce..(e2e_send_nonce - 1)  BY <2>4
  <2>6. I = {i \in DOMAIN W : W[i].cmd = "DATA"}  BY <2>1 DEF DataAt
  <2> QED BY <2>1, <2>4, <2>5, <2>6 DEF Out!NoncesInStep
<1> QED BY <1>2, <1>3

-----------------------------------------------------------------------------
(* Both directions.                                                        *)

\* The inductive invariant of the run.
RvInv == (component = "in" => InInv /\ InLists) /\ (component = "out" => OutInv)

\* For any number of streams and any sizes of windows and increments with the
\* increment within the windows, every state of both directions is as
\* RendezvousSound says: to the service (forward_to_circuit, the relay's
\* splice, hs_rp_read_cb) each stream's credit is conserved, a lone stream's
\* chunks are opened with the nonces they were sealed with and arrive without
\* a gap until the guard link's write event lets the client read past a chunk
\* it keeps; from it (hs_target_read_cb) no window runs over or out and every
\* cell is opened with its own nonce.
THEOREM RendezvousFlowSound == BothSpec => []RendezvousSound
<1>1. BothInit => RvInv
  <2>1. ASSUME component = "in", Init PROVE RvInv
    <3>1. InLists  BY <2>1 DEF Init, InLists
    <3> QED BY <2>1, <3>1, InInit DEF RvInv
  <2>2. ASSUME component = "out", Out!Init PROVE RvInv
    BY <2>2, OutInit DEF RvInv
  <2> QED BY <2>1, <2>2 DEF BothInit
<1>2. RvInv /\ [BothNext]_all => RvInv'
  <2> SUFFICES ASSUME RvInv, [BothNext]_all PROVE RvInv'
    OBVIOUS
  <2>1. CASE component = "in" /\ Next /\ UNCHANGED <<component, outOnly>>
    <3>1. InInv /\ InLists /\ component' = "in"  BY <2>1 DEF RvInv
    <3>2. InInv' /\ InLists'  BY <2>1, <3>1, InNext, ListsNext
    <3> QED BY <3>1, <3>2 DEF RvInv
  <2>2. CASE component = "out" /\ Out!Next /\ UNCHANGED <<component, lvars, closed>>
    <3>1. OutInv /\ component' = "out"  BY <2>2 DEF RvInv
    <3>2. OutInv'  BY <2>2, <3>1, OutNext
    <3> QED BY <3>1, <3>2 DEF RvInv
  <2>3. CASE UNCHANGED all
    <3>1. component' = component /\ UNCHANGED vars /\ UNCHANGED outOnly  BY <2>3 DEF all
    <3>2. CASE component = "in"
      <4>1. InLists'  BY <3>1, <3>2 DEF RvInv, InLists, vars, lvars
      <4> QED BY <3>1, <3>2, <4>1, InStutters DEF RvInv
    <3>3. CASE component = "out"
      BY <3>1, <3>3, OutStutters DEF RvInv
    <3>4. CASE component # "in" /\ component # "out"
      BY <3>1, <3>4 DEF RvInv
    <3> QED BY <3>2, <3>3, <3>4
  <2> QED BY <2>1, <2>2, <2>3 DEF BothNext
<1>3. RvInv => RendezvousSound  BY InMeans, OutMeans DEF RvInv, RendezvousSound
<1> QED BY <1>1, <1>2, <1>3, PTL DEF BothSpec
=============================================================================
