---------------------------- MODULE ConfluxProofs ----------------------------
(***************************************************************************)
(* Proofs about Conflux, for any number of circuits, any reorder buffer    *)
(* and any timeout.                                                        *)
(*                                                                         *)
(* CfInOrder needs that a cell put aside is never received again: the      *)
(* receiver does not look at its buffer when a cell is in turn.  CfInv     *)
(* adds that the numbers on the way are sent ones, all different, and none *)
(* of those held.                                                          *)
(*                                                                         *)
(* Fragments, the other place where an end of a circuit puts cells back    *)
(* together, follows: FgReassembled needs that the slots held by messages  *)
(* already read are those of messages cut short, so that a new message     *)
(* can only be refused a slot by the messages FgHolding names.             *)
(*                                                                         *)
(* Last comes the link under both (LinkProtocol): LinkAnswered is all but  *)
(* inductive, LnInv adds the types of what it counts and the clock's being *)
(* past 0, the value of a stamp that is not set.                           *)
(***************************************************************************)
EXTENDS Conflux, Fragments, LinkProtocol, FiniteSetTheorems, SequenceTheorems,
        WellFoundedInduction, TLAPS

CfLegRec == [circ : CfCircs \cup {CfNone}, active : BOOLEAN, sent : Nat, rtt : Nat]
CfEntry == [seq : Nat, at : Nat]

CfTypeOK ==
  /\ cfLegs \in Seq(CfLegRec) /\ cfOwns \subseteq CfCircs
  /\ cfSeq \in Nat /\ cfNext \in Nat /\ cfTime \in Nat
  /\ cfNet \in [CfCircs -> Seq(Nat)]
  /\ cfHeld \subseteq CfEntry /\ IsFiniteSet(cfHeld)
  /\ cfGot \in Seq(Nat)

Increasing(s) == \A i, j \in DOMAIN s : i < j => s[i] < s[j]
Below(s, n) == \A i \in DOMAIN s : s[i] < n

\* What was delivered is in order and before the number expected next.
CfGotSound == Increasing(cfGot) /\ Below(cfGot, cfNext)

\* A set of held cells: due, sent, one for each number.
CfSound(held, next) ==
  /\ \A e \in held : e.seq >= next /\ e.seq < cfSeq
  /\ \A e, f \in held : f.seq = e.seq => f = e
  /\ Cardinality(held) <= CfBuf

\* A number is on the way at most once, and not when its cell is held.
CfNetSound ==
  /\ \A c \in CfCircs : \A i \in DOMAIN cfNet[c] :
       cfNet[c][i] < cfSeq /\ \A e \in cfHeld : e.seq # cfNet[c][i]
  /\ \A c, d \in CfCircs : \A i \in DOMAIN cfNet[c], j \in DOMAIN cfNet[d] :
       cfNet[c][i] = cfNet[d][j] => c = d /\ i = j

\* The active legs that lead to a circuit.
CfLegsOf(c) == {i \in DOMAIN cfLegs : cfLegs[i].circ = c /\ cfLegs[i].active}

CfOneLeg == \A c \in CfCircs : IF c \in cfOwns THEN \E i : CfLegsOf(c) = {i}
                               ELSE CfLegsOf(c) = {}

\* The inductive invariant.
CfInv == CfTypeOK /\ CfGotSound /\ CfSound(cfHeld, cfNext) /\ CfNetSound /\ CfOneLeg

\* A nonempty set of naturals has a least element, and a largest one when it
\* is bounded.
LEMMA NatMin ==
  ASSUME NEW T \in SUBSET Nat, T # {}
  PROVE  \E x \in T : \A y \in T : x <= y
<1> DEFINE R == {ss \in Nat \X Nat : ss[1] < ss[2]}
<1>0. IsWellFoundedOn(R, Nat)  BY NatLessThanWellFounded, Zenon DEF OpToRel
<1> HIDE DEF R
<1>1. PICK x \in T : \A y \in T : ~(<<y, x>> \in R)  BY <1>0, WFMin
<1>2. \A y \in T : ~(y < x)  BY <1>1 DEF R
<1> QED BY <1>2

\* A nonempty set of naturals has a least element.
LEMMA MinIn ==
  ASSUME NEW T \in SUBSET Nat, T # {}
  PROVE  Min(T) \in T /\ \A y \in T : Min(T) <= y
BY NatMin DEF Min

\* A nonempty bounded set of naturals has a greatest element.
LEMMA MaxIn ==
  ASSUME NEW n \in Nat, NEW T \in SUBSET (0..n), T # {}
  PROVE  Max(T) \in T
<1> DEFINE U == {u \in 0..n : n - u \in T}
<1>1. U \in SUBSET Nat  OBVIOUS
<1>2. \A x \in T : n - x \in U
  <2> TAKE x \in T
  <2>1. x \in 0..n /\ n - (n - x) = x  OBVIOUS
  <2> QED BY <2>1
<1>3. PICK u \in U : \A v \in U : u <= v  BY <1>1, <1>2, NatMin
<1>4. n - u \in T /\ \A y \in T : n - u >= y  BY <1>2, <1>3
<1> QED BY <1>4 DEF Max

\* A sequence of larger numbers put after an increasing one.
LEMMA IncreasingConcat ==
  ASSUME NEW a \in Seq(Nat), NEW b \in Seq(Nat), NEW n \in Nat, NEW m \in Nat, n <= m,
         Increasing(a), Below(a, n), Increasing(b), Below(b, m),
         \A i \in DOMAIN b : b[i] >= n
  PROVE  a \o b \in Seq(Nat) /\ Increasing(a \o b) /\ Below(a \o b, m)
<1> DEFINE s == a \o b
<1>1. /\ s \in Seq(Nat) /\ Len(a) \in Nat /\ Len(b) \in Nat
      /\ DOMAIN s = 1..(Len(a) + Len(b)) /\ DOMAIN a = 1..Len(a) /\ DOMAIN b = 1..Len(b)
  OBVIOUS
<1>2. \A i \in DOMAIN s : IF i <= Len(a) THEN i \in DOMAIN a /\ s[i] = a[i]
                          ELSE i - Len(a) \in DOMAIN b /\ s[i] = b[i - Len(a)]
  OBVIOUS
<1> HIDE DEF s
<1>3. Increasing(s)
  <2> SUFFICES ASSUME NEW i \in DOMAIN s, NEW j \in DOMAIN s, i < j PROVE s[i] < s[j]
    BY DEF Increasing
  <2>1. i \in Nat /\ j \in Nat /\ s[i] \in Nat /\ s[j] \in Nat  BY <1>1
  <2>2. CASE j <= Len(a)
    BY <1>1, <1>2, <2>1, <2>2 DEF Increasing
  <2>3. CASE i <= Len(a) /\ ~(j <= Len(a))
    BY <1>1, <1>2, <2>1, <2>3 DEF Below
  <2>4. CASE ~(i <= Len(a)) /\ ~(j <= Len(a))
    <3>1. /\ i - Len(a) \in DOMAIN b /\ j - Len(a) \in DOMAIN b /\ i - Len(a) < j - Len(a)
          /\ s[i] = b[i - Len(a)] /\ s[j] = b[j - Len(a)]
      BY <1>1, <1>2, <2>1, <2>4
    <3> QED BY <3>1 DEF Increasing
  <2> QED BY <1>1, <2>1, <2>2, <2>3, <2>4
<1>4. Below(s, m)
  <2> SUFFICES ASSUME NEW i \in DOMAIN s PROVE s[i] < m
    BY DEF Below
  <2>1. i \in Nat /\ s[i] \in Nat  BY <1>1
  <2>2. CASE i <= Len(a)
    BY <1>1, <1>2, <2>1, <2>2 DEF Below
  <2>3. CASE ~(i <= Len(a))
    BY <1>1, <1>2, <2>1, <2>3 DEF Below
  <2> QED BY <1>1, <2>1, <2>2, <2>3
<1> QED BY <1>1, <1>3, <1>4 DEF s

-----------------------------------------------------------------------------
\* What expiry leaves is due.
LEMMA CfExpireFacts ==
  ASSUME CfInv
  PROVE  /\ CfExpire.held \subseteq cfHeld
         /\ CfExpire.next \in Nat /\ CfExpire.next >= cfNext
         /\ \A e \in CfExpire.held : e.seq >= CfExpire.next
<1>t. /\ cfHeld \subseteq CfEntry /\ cfNext \in Nat
      /\ \A e \in cfHeld : e.seq >= cfNext
  BY DEF CfInv, CfTypeOK, CfSound
<1> DEFINE kept == {e \in cfHeld : cfTime - e.at <= CfTimeout}
           seqs == {e.seq : e \in kept}
<1>1. CfExpire.held = kept  BY DEF CfExpire
<1>2. seqs \in SUBSET Nat  BY <1>t DEF CfEntry
<1>3. CASE CfExpire.next = cfNext
  BY <1>t, <1>1, <1>3
<1>4. CASE seqs # {} /\ Min(seqs) > cfNext /\ CfExpire.next = Min(seqs)
  <2>1. Min(seqs) \in seqs /\ \A y \in seqs : Min(seqs) <= y  BY <1>2, <1>4, MinIn
  <2>2. PICK m \in Nat : m = Min(seqs)  BY <1>2, <2>1
  <2>3. \A e \in kept : e.seq \in Nat /\ e.seq >= m  BY <1>t, <2>1, <2>2 DEF CfEntry
  <2> QED BY <1>t, <1>1, <1>4, <2>2, <2>3
<1> QED BY <1>3, <1>4 DEF CfExpire

\* A cell received that is not held: it is in turn, put aside or dropped.
LEMMA CfReceiveFacts ==
  ASSUME CfInv, NEW c \in CfCircs, NEW seq \in Nat, seq < cfSeq,
         \A e \in cfHeld : e.seq # seq
  PROVE  LET r == CfReceive(c, seq)
         IN  /\ r.held \subseteq CfEntry /\ IsFiniteSet(r.held) /\ r.next \in Nat
             /\ r.next >= cfNext /\ CfSound(r.held, r.next)
             /\ \A e \in r.held : e \in cfHeld \/ e.seq = seq
             /\ r.ret = 1 => seq >= cfNext /\ r.next = seq + 1
<1>t. /\ cfHeld \subseteq CfEntry /\ cfNext \in Nat /\ cfTime \in Nat /\ IsFiniteSet(cfHeld)
      /\ CfBuf \in Nat /\ cfSeq \in Nat
  BY CfAssumption DEF CfInv, CfTypeOK
<1>s. CfSound(cfHeld, cfNext)  BY DEF CfInv
<1> DEFINE r == CfReceive(c, seq)
           leg == \E i \in DOMAIN cfLegs : cfLegs[i].circ = c /\ cfLegs[i].active
<1>1. PICK h, n : h = CfExpire.held /\ n = CfExpire.next  OBVIOUS
<1>2. /\ h \subseteq cfHeld /\ n \in Nat /\ n >= cfNext /\ h \subseteq CfEntry
      /\ \A e \in h : e.seq >= n /\ e.seq \in Nat
  BY <1>t, <1>1, CfExpireFacts DEF CfEntry
<1>3. IsFiniteSet(h) /\ Cardinality(h) <= Cardinality(cfHeld) /\ Cardinality(h) \in Nat
  BY <1>t, <1>2, FS_Subset, FS_CardinalityType
<1>4. CfSound(h, n)
  <2>1. Cardinality(cfHeld) <= CfBuf /\ Cardinality(cfHeld) \in Nat
    BY <1>s, <1>t, FS_CardinalityType DEF CfSound
  <2> QED BY <1>s, <1>t, <1>2, <1>3, <2>1 DEF CfSound
<1>5. CASE leg /\ seq = n
  <2>1. r = [ret |-> 1, held |-> h, next |-> n + 1]  BY <1>1, <1>5 DEF CfReceive
  <2>2. \A e \in h : e.seq >= n + 1  BY <1>2, <1>5
  <2>3. r.held = h /\ r.next = n + 1 /\ r.ret = 1  BY <2>1
  <2>4. CfSound(h, n + 1)  BY <1>4, <2>2 DEF CfSound
  <2> QED BY <1>2, <1>3, <1>5, <1>t, <2>3, <2>4
<1>6. CASE leg /\ seq # n /\ ~CfDropped(CfExpire, seq)
  <2> DEFINE new == [seq |-> seq, at |-> cfTime]
  <2>1. r = [ret |-> 0, held |-> h \cup {new}, next |-> n]  BY <1>1, <1>6 DEF CfReceive
  <2>2. new \in CfEntry /\ new.seq = seq  BY <1>t DEF CfEntry
  <2>3. seq >= n /\ Cardinality(h) < CfBuf  BY <1>1, <1>2, <1>3, <1>t, <1>6 DEF CfDropped
  <2> HIDE DEF new
  <2>4. IsFiniteSet(h \cup {new}) /\ Cardinality(h \cup {new}) <= CfBuf
    <3>1. /\ IsFiniteSet(h \cup {new})
          /\ Cardinality(h \cup {new}) = IF new \in h THEN Cardinality(h) ELSE Cardinality(h) + 1
      BY <1>3, FS_AddElement
    <3> QED BY <1>3, <1>t, <2>3, <3>1
  <2>5. CfSound(h \cup {new}, n)  BY <1>2, <1>4, <2>2, <2>3, <2>4 DEF CfSound
  <2> QED BY <1>2, <2>1, <2>2, <2>4, <2>5
<1>7. CASE ~leg \/ (seq # n /\ CfDropped(CfExpire, seq))
  <2>1. r = [ret |-> -1, held |-> h, next |-> n]  BY <1>1, <1>7 DEF CfReceive
  <2> QED BY <1>2, <1>3, <1>4, <2>1
<1> QED BY <1>5, <1>6, <1>7

\* moor_conflux_deliver goes on without a gap.
LEMMA CfDrainedFacts ==
  ASSUME NEW held, NEW next \in Nat
  PROVE  CfDrained(held, next) \in Nat /\ CfDrained(held, next) >= next
<1> DEFINE run == {n \in 0..CfBuf : \A k \in next..(next + n - 1) : \E e \in held : e.seq = k}
<1>1. CfBuf \in Nat  BY CfAssumption
<1>2. 0 \in run  BY <1>1
<1>3. Max(run) \in run  BY <1>1, <1>2, MaxIn
<1>n. run \subseteq Nat  BY <1>1
<1>4. PICK n \in Nat : n = Max(run)
  <2> HIDE DEF run
  <2> QED BY <1>n, <1>3
<1>5. CfDrained(held, next) = next + n  BY <1>4 DEF CfDrained
<1> QED BY <1>5

\* CfRead: what is delivered goes on from what was, and the cell read is not
\* on the way any more.
LEMMA CfReadInv ==
  ASSUME CfInv, NEW c \in CfCircs, CfRead(c)
  PROVE  CfInv'
<1>t. /\ cfNet \in [CfCircs -> Seq(Nat)] /\ cfNext \in Nat /\ cfGot \in Seq(Nat)
      /\ cfSeq \in Nat /\ cfNet[c] \in Seq(Nat)
  BY DEF CfInv, CfTypeOK
<1>f. /\ cfNet[c] # <<>> /\ cfNet' = [cfNet EXCEPT ![c] = Tail(@)]
      /\ UNCHANGED <<cfLegs, cfOwns, cfSeq, cfTime>>
  BY DEF CfRead
<1>1. PICK seq \in Nat : seq = Head(cfNet[c])  BY <1>t, <1>f
<1>2. /\ 1 \in DOMAIN cfNet[c] /\ seq = cfNet[c][1]
      /\ seq < cfSeq /\ \A e \in cfHeld : e.seq # seq
  <2>1. 1 \in DOMAIN cfNet[c] /\ seq = cfNet[c][1]  BY <1>t, <1>f, <1>1
  <2> QED BY <2>1 DEF CfInv, CfNetSound
<1>3. PICK r : r = CfReceive(c, seq)  OBVIOUS
<1>4. PICK h, n : h = r.held /\ n = r.next  OBVIOUS
<1>5. /\ h \subseteq CfEntry /\ IsFiniteSet(h) /\ n \in Nat
      /\ n >= cfNext /\ CfSound(h, n)
      /\ \A e \in h : e \in cfHeld \/ e.seq = seq
      /\ r.ret = 1 => seq >= cfNext /\ n = seq + 1
  BY <1>2, <1>3, <1>4, CfReceiveFacts
<1>6. PICK upto : upto = IF r.ret = -1 THEN n ELSE CfDrained(h, n)  OBVIOUS
<1>7. upto \in Nat /\ upto >= n  BY <1>5, <1>6, CfDrainedFacts
<1> DEFINE first == IF r.ret = 1 THEN <<seq>> ELSE <<>>
           run == [i \in 1..(upto - n) |-> n + i - 1]
<1>8. /\ cfNext' = upto /\ cfHeld' = {e \in h : e.seq \notin n..(upto - 1)}
      /\ cfGot' = cfGot \o first \o run
  BY <1>1, <1>3, <1>4, <1>6 DEF CfRead
<1>9. cfHeld' \subseteq h /\ \A e \in cfHeld' : e.seq >= upto
  BY <1>5, <1>7, <1>8 DEF CfSound, CfEntry
<1>10. cfHeld' \subseteq CfEntry /\ IsFiniteSet(cfHeld') /\ CfSound(cfHeld, cfNext)'
  <2>1. IsFiniteSet(cfHeld') /\ Cardinality(cfHeld') <= Cardinality(h)
        /\ Cardinality(cfHeld') \in Nat /\ Cardinality(h) \in Nat
    BY <1>5, <1>9, FS_Subset, FS_CardinalityType
  <2>2. CfBuf \in Nat  BY CfAssumption
  <2>3. Cardinality(cfHeld') <= CfBuf  BY <1>5, <2>1, <2>2 DEF CfSound
  <2>4. cfHeld' \subseteq CfEntry  BY <1>5, <1>9
  <2>5. CfSound(cfHeld, cfNext)'  BY <1>5, <1>8, <1>9, <1>f, <2>3 DEF CfSound
  <2> QED BY <2>1, <2>4, <2>5
<1>11. cfGot' \in Seq(Nat) /\ CfGotSound'
  <2>1. first \in Seq(Nat) /\ Increasing(first) /\ Below(first, n)
        /\ \A i \in DOMAIN first : first[i] >= cfNext
    <3>1. CASE r.ret = 1
      <4>1. first = <<seq>> /\ seq >= cfNext /\ n = seq + 1  BY <1>5, <3>1
      <4>2. <<seq>> \in Seq(Nat) /\ Len(<<seq>>) = 1 /\ <<seq>>[1] = seq  OBVIOUS
      <4> QED BY <4>1, <4>2 DEF Increasing, Below
    <3>2. CASE r.ret # 1
      <4>1. first = <<>>  BY <3>2
      <4> QED BY <4>1 DEF Increasing, Below
    <3> QED BY <3>1, <3>2
  <2> HIDE DEF first
  <2>2. Increasing(cfGot) /\ Below(cfGot, cfNext)  BY DEF CfInv, CfGotSound
  <2>3. cfGot \o first \in Seq(Nat) /\ Increasing(cfGot \o first) /\ Below(cfGot \o first, n)
    BY <1>t, <1>5, <2>1, <2>2, IncreasingConcat
  <2>4. PICK m \in Nat : m = upto - n  BY <1>5, <1>7
  <2>5. run \in Seq(Nat) /\ DOMAIN run = 1..m /\ \A i \in 1..m : run[i] = n + i - 1
    BY <1>5, <2>4
  <2> HIDE DEF run
  <2>6. Increasing(run) /\ Below(run, upto) /\ \A i \in DOMAIN run : run[i] >= n
    BY <1>5, <1>7, <2>4, <2>5 DEF Increasing, Below
  <2>7. PICK g \in Seq(Nat) : g = cfGot \o first  BY <2>3
  <2>8. g \o run \in Seq(Nat) /\ Increasing(g \o run) /\ Below(g \o run, upto)
    BY <1>5, <1>7, <2>3, <2>5, <2>6, <2>7, IncreasingConcat
  <2> QED BY <1>8, <2>7, <2>8 DEF CfGotSound
<1>12. /\ cfNet' \in [CfCircs -> Seq(Nat)]
       /\ \A d \in CfCircs : \A i \in DOMAIN cfNet'[d] :
            \E j \in DOMAIN cfNet[d] : /\ cfNet'[d][i] = cfNet[d][j]
                                       /\ j = IF d = c THEN i + 1 ELSE i
                                       /\ i \in Nat \ {0}
  <2>1. /\ Tail(cfNet[c]) \in Seq(Nat)
        /\ \A i \in DOMAIN Tail(cfNet[c]) : /\ i \in Nat \ {0} /\ i + 1 \in DOMAIN cfNet[c]
                                            /\ Tail(cfNet[c])[i] = cfNet[c][i + 1]
    BY <1>t, <1>f
  <2>2. \A d \in CfCircs : cfNet'[d] = IF d = c THEN Tail(cfNet[c]) ELSE cfNet[d]  BY <1>t, <1>f
  <2>3. cfNet' \in [CfCircs -> Seq(Nat)]  BY <1>t, <1>f, <2>1
  <2>4. \A d \in CfCircs : \A i \in DOMAIN cfNet[d] : i \in Nat \ {0}  BY <1>t
  <2> QED BY <2>1, <2>2, <2>3, <2>4
<1>13. CfNetSound'
  <2>0. CfNetSound  BY DEF CfInv
  <2>1. \A d \in CfCircs : \A i \in DOMAIN cfNet'[d] : cfNet'[d][i] # seq
    <3> SUFFICES ASSUME NEW d \in CfCircs, NEW i \in DOMAIN cfNet'[d], cfNet'[d][i] = seq
                 PROVE  FALSE
      OBVIOUS
    <3>1. PICK j \in DOMAIN cfNet[d] : /\ cfNet'[d][i] = cfNet[d][j]
                                       /\ j = IF d = c THEN i + 1 ELSE i
                                       /\ i \in Nat \ {0}
      BY <1>12
    <3>2. d = c /\ j = 1  BY <1>2, <2>0, <3>1 DEF CfNetSound
    <3> QED BY <3>1, <3>2
  <2>2. \A e \in cfHeld' : e \in cfHeld \/ e.seq = seq  BY <1>5, <1>9
  <2>3. \A d \in CfCircs : \A i \in DOMAIN cfNet'[d] :
          cfNet'[d][i] < cfSeq /\ \A e \in cfHeld' : e.seq # cfNet'[d][i]
    BY <1>12, <2>0, <2>1, <2>2 DEF CfNetSound
  <2>4. ASSUME NEW d \in CfCircs, NEW b \in CfCircs, NEW i \in DOMAIN cfNet'[d],
               NEW k \in DOMAIN cfNet'[b], cfNet'[d][i] = cfNet'[b][k]
        PROVE  d = b /\ i = k
    <3>1. PICK j \in DOMAIN cfNet[d] : /\ cfNet'[d][i] = cfNet[d][j]
                                       /\ j = IF d = c THEN i + 1 ELSE i
                                       /\ i \in Nat \ {0}
      BY <1>12
    <3>2. PICK l \in DOMAIN cfNet[b] : /\ cfNet'[b][k] = cfNet[b][l]
                                       /\ l = IF b = c THEN k + 1 ELSE k
                                       /\ k \in Nat \ {0}
      BY <1>12
    <3>3. d = b /\ j = l
      <4>1. cfNet[d][j] = cfNet[b][l]  BY <2>4, <3>1, <3>2
      <4> QED BY <2>0, <4>1 DEF CfNetSound
    <3> QED BY <3>1, <3>2, <3>3
  <2> QED BY <1>f, <2>3, <2>4 DEF CfNetSound
<1>14. CfTypeOK'  BY <1>f, <1>7, <1>8, <1>10, <1>11, <1>12 DEF CfInv, CfTypeOK
<1>15. CfOneLeg'  BY <1>f DEF CfInv, CfOneLeg, CfLegsOf
<1> QED BY <1>10, <1>11, <1>13, <1>14, <1>15 DEF CfInv

-----------------------------------------------------------------------------
\* The legs keep their circuits.
LEMMA CfSameLegs ==
  ASSUME CfOneLeg, UNCHANGED cfOwns, DOMAIN cfLegs' = DOMAIN cfLegs,
         \A i \in DOMAIN cfLegs : /\ cfLegs'[i].circ = cfLegs[i].circ
                                  /\ cfLegs'[i].active = cfLegs[i].active
  PROVE  CfOneLeg'
<1>1. \A c \in CfCircs : CfLegsOf(c)' = CfLegsOf(c)  BY DEF CfLegsOf
<1> QED BY <1>1 DEF CfOneLeg

\* CfSend: the number sent is a new one.
LEMMA CfSendInv ==
  ASSUME CfInv, NEW ok \in BOOLEAN, CfSend(ok)
  PROVE  CfInv'
<1>t. /\ cfNet \in [CfCircs -> Seq(Nat)] /\ cfLegs \in Seq(CfLegRec) /\ cfSeq \in Nat
      /\ cfHeld \subseteq CfEntry
  BY DEF CfInv, CfTypeOK
<1>f. cfSeq' = cfSeq + 1 /\ UNCHANGED <<cfOwns, cfNext, cfHeld, cfGot, cfTime>>  BY DEF CfSend
<1>s. CfSound(cfHeld, cfNext)'
  <2>1. CfSound(cfHeld, cfNext)  BY DEF CfInv
  <2> QED BY <1>f, <1>t, <2>1 DEF CfSound, CfEntry
<1>g. CfGotSound'  BY <1>f DEF CfInv, CfGotSound
<1>1. PICK i : i = CfSelectLeg  OBVIOUS
<1>2. i \in DOMAIN cfLegs /\ CfUsable(i)
  <2> DEFINE usable == {k \in DOMAIN cfLegs : CfUsable(k)}
             timed == {k \in usable : cfLegs[k].rtt > 0}
             key(k) == IF timed # {} THEN cfLegs[k].rtt ELSE cfLegs[k].sent
             among == IF timed # {} THEN timed ELSE usable
             best == {k \in among : \A j \in among : key(k) <= key(j)}
  <2>1. i = IF best = {} THEN 0 ELSE Min(best)  BY <1>1 DEF CfSelectLeg
  <2>2. i # 0  BY <1>1 DEF CfSend
  <2>3. best \subseteq usable /\ usable \subseteq Nat /\ usable \subseteq DOMAIN cfLegs  BY <1>t
  <2>4. best # {} /\ i = Min(best)  BY <2>1, <2>2
  <2> HIDE DEF best
  <2>5. i \in best  BY <2>3, <2>4, MinIn
  <2> QED BY <2>3, <2>5
<1>3. PICK c \in CfCircs : c = cfLegs[i].circ
  <2>1. cfLegs[i] \in CfLegRec /\ cfLegs[i].circ # CfNone  BY <1>t, <1>2 DEF CfUsable
  <2> QED BY <2>1 DEF CfLegRec
<1>4. CASE /\ cfLegs' = [cfLegs EXCEPT ![i].sent = @ + 1]
           /\ cfNet' = [cfNet EXCEPT ![c] = Append(@, cfSeq)]
  <2>1. /\ cfLegs' \in Seq(CfLegRec) /\ DOMAIN cfLegs' = DOMAIN cfLegs
        /\ \A k \in DOMAIN cfLegs : /\ cfLegs'[k].circ = cfLegs[k].circ
                                    /\ cfLegs'[k].active = cfLegs[k].active
    <3>1. cfLegs[i] \in CfLegRec  BY <1>t, <1>2
    <3>2. PICK n \in Nat : n = cfLegs[i].sent + 1  BY <3>1 DEF CfLegRec
    <3> DEFINE g == [cfLegs[i] EXCEPT !.sent = n]
    <3>3. cfLegs' = [cfLegs EXCEPT ![i] = g]  BY <1>4, <3>2
    <3>4. g \in CfLegRec /\ g.circ = cfLegs[i].circ /\ g.active = cfLegs[i].active
      BY <3>1, <3>2 DEF CfLegRec
    <3> HIDE DEF g
    <3> QED BY <1>t, <1>2, <3>3, <3>4
  <2>2. CfOneLeg'  BY <1>f, <2>1, CfSameLegs DEF CfInv
  <2>3. /\ cfNet' \in [CfCircs -> Seq(Nat)]
        /\ \A d \in CfCircs : \A k \in DOMAIN cfNet'[d] :
             \/ k \in DOMAIN cfNet[d] /\ cfNet'[d][k] = cfNet[d][k]
             \/ d = c /\ k = Len(cfNet[c]) + 1 /\ cfNet'[d][k] = cfSeq
    <3>1. PICK s \in Seq(Nat) : s = cfNet[c]  BY <1>t
    <3>2. /\ Append(s, cfSeq) \in Seq(Nat)
          /\ \A k \in DOMAIN Append(s, cfSeq) : \/ k \in DOMAIN s /\ Append(s, cfSeq)[k] = s[k]
                                                \/ k = Len(s) + 1 /\ Append(s, cfSeq)[k] = cfSeq
      BY <1>t
    <3>3. \A d \in CfCircs : cfNet'[d] = IF d = c THEN Append(s, cfSeq) ELSE cfNet[d]
      BY <1>t, <1>4, <3>1
    <3>4. cfNet' \in [CfCircs -> Seq(Nat)]  BY <1>t, <1>4, <3>1, <3>2
    <3> QED BY <3>1, <3>2, <3>3, <3>4
  <2>4. CfNetSound'
    <3>0. CfNetSound /\ CfSound(cfHeld, cfNext)  BY DEF CfInv
    <3>1. \A d \in CfCircs : \A k \in DOMAIN cfNet[d] : cfNet[d][k] \in Nat /\ cfNet[d][k] < cfSeq
      BY <1>t, <3>0 DEF CfNetSound
    <3>2. \A e \in cfHeld : e.seq \in Nat /\ e.seq < cfSeq  BY <1>t, <3>0 DEF CfSound, CfEntry
    <3>3. \A d \in CfCircs : \A k \in DOMAIN cfNet'[d] :
            cfNet'[d][k] < cfSeq + 1 /\ \A e \in cfHeld : e.seq # cfNet'[d][k]
      <4> SUFFICES ASSUME NEW d \in CfCircs, NEW k \in DOMAIN cfNet'[d]
                   PROVE  cfNet'[d][k] < cfSeq + 1 /\ \A e \in cfHeld : e.seq # cfNet'[d][k]
        OBVIOUS
      <4>1. CASE k \in DOMAIN cfNet[d] /\ cfNet'[d][k] = cfNet[d][k]
        BY <1>t, <3>0, <3>1, <4>1 DEF CfNetSound
      <4>2. CASE cfNet'[d][k] = cfSeq
        BY <1>t, <3>2, <4>2
      <4> QED BY <2>3, <4>1, <4>2
    <3>4. \A d, b \in CfCircs : \A k \in DOMAIN cfNet'[d], l \in DOMAIN cfNet'[b] :
            cfNet'[d][k] = cfNet'[b][l] => d = b /\ k = l
      <4> SUFFICES ASSUME NEW d \in CfCircs, NEW b \in CfCircs, NEW k \in DOMAIN cfNet'[d],
                          NEW l \in DOMAIN cfNet'[b], cfNet'[d][k] = cfNet'[b][l]
                   PROVE  d = b /\ k = l
        OBVIOUS
      <4>1. CASE cfNet'[d][k] = cfSeq
        <5>1. ~(l \in DOMAIN cfNet[b] /\ cfNet'[b][l] = cfNet[b][l])  BY <1>t, <3>1, <4>1
        <5>2. ~(k \in DOMAIN cfNet[d] /\ cfNet'[d][k] = cfNet[d][k])  BY <1>t, <3>1, <4>1
        <5> QED BY <2>3, <5>1, <5>2
      <4>2. CASE cfNet'[d][k] # cfSeq
        <5>1. /\ k \in DOMAIN cfNet[d] /\ cfNet'[d][k] = cfNet[d][k]
              /\ l \in DOMAIN cfNet[b] /\ cfNet'[b][l] = cfNet[b][l]
          BY <2>3, <4>2
        <5>2. cfNet[d][k] = cfNet[b][l]  BY <5>1
        <5> QED BY <3>0, <5>1, <5>2 DEF CfNetSound
      <4> QED BY <4>1, <4>2
    <3> QED BY <1>f, <3>3, <3>4 DEF CfNetSound
  <2>5. CfTypeOK'  BY <1>f, <1>t, <2>1, <2>3 DEF CfInv, CfTypeOK
  <2> QED BY <1>s, <1>g, <2>2, <2>4, <2>5 DEF CfInv
<1>5. CASE UNCHANGED <<cfLegs, cfNet>>
  <2>1. CfTypeOK'  BY <1>f, <1>t, <1>5 DEF CfInv, CfTypeOK
  <2>2. CfNetSound'
    <3>1. \A d \in CfCircs : \A k \in DOMAIN cfNet[d] : cfNet[d][k] \in Nat  BY <1>t
    <3> QED BY <1>f, <1>t, <1>5, <3>1 DEF CfInv, CfNetSound
  <2>3. CfOneLeg'  BY <1>f, <1>5, CfSameLegs DEF CfInv
  <2> QED BY <1>s, <1>g, <2>1, <2>2, <2>3 DEF CfInv
<1> QED BY <1>1, <1>3, <1>4, <1>5 DEF CfSend

\* A leg is added in an inactive slot or a new one.
LEMMA CfAddLegInv ==
  ASSUME CfInv, NEW c \in CfCircs, CfAddLeg(c)
  PROVE  CfInv'
<1>t. cfLegs \in Seq(CfLegRec) /\ cfOwns \subseteq CfCircs  BY DEF CfInv, CfTypeOK
<1>f. /\ c \notin cfOwns /\ cfOwns' = cfOwns \cup {c}
      /\ UNCHANGED <<cfSeq, cfNet, cfNext, cfHeld, cfGot, cfTime>>
  BY DEF CfAddLeg
<1>1. CfLeg(c) \in CfLegRec /\ CfLeg(c).circ = c /\ CfLeg(c).active  BY DEF CfLeg, CfLegRec
<1>2. PICK k \in Nat :
        /\ cfLegs' \in Seq(CfLegRec) /\ DOMAIN cfLegs' = DOMAIN cfLegs \cup {k}
        /\ cfLegs'[k] = CfLeg(c) /\ (k \in DOMAIN cfLegs => ~cfLegs[k].active)
        /\ \A i \in DOMAIN cfLegs : i # k => cfLegs'[i] = cfLegs[i]
  <2> DEFINE idle == {i \in DOMAIN cfLegs : ~cfLegs[i].active}
  <2>1. CASE idle # {} /\ cfLegs' = [cfLegs EXCEPT ![Min(idle)] = CfLeg(c)]
    <3>1. idle \in SUBSET Nat  BY <1>t
    <3>2. PICK k \in idle : k = Min(idle)  BY <2>1, <3>1, MinIn
    <3>3. k \in DOMAIN cfLegs /\ k \in Nat /\ ~cfLegs[k].active
          /\ cfLegs' = [cfLegs EXCEPT ![k] = CfLeg(c)]
      BY <2>1, <3>1, <3>2
    <3>4. PICK n \in Nat : DOMAIN cfLegs = 1..n /\ cfLegs \in [1..n -> CfLegRec]  BY <1>t
    <3>5. PICK g \in CfLegRec : g = CfLeg(c)  BY <1>1
    <3>6. cfLegs' \in [1..n -> CfLegRec] /\ cfLegs'[k] = g
          /\ \A i \in DOMAIN cfLegs : i # k => cfLegs'[i] = cfLegs[i]
      BY <3>3, <3>4, <3>5
    <3>7. cfLegs' \in Seq(CfLegRec) /\ DOMAIN cfLegs' = DOMAIN cfLegs \cup {k}
      BY <3>3, <3>4, <3>6
    <3> QED BY <3>3, <3>5, <3>6, <3>7
  <2>2. CASE cfLegs' = Append(cfLegs, CfLeg(c))
    <3>1. PICK k \in Nat : k = Len(cfLegs) + 1  BY <1>t
    <3>2. PICK g \in CfLegRec : g = CfLeg(c)  BY <1>1
    <3>3. /\ cfLegs' \in Seq(CfLegRec) /\ Len(cfLegs') = k /\ cfLegs'[k] = g
          /\ \A i \in 1..Len(cfLegs) : cfLegs'[i] = cfLegs[i]
      BY <1>t, <2>2, <3>1, <3>2
    <3>4. DOMAIN cfLegs' = 1..k /\ DOMAIN cfLegs = 1..Len(cfLegs) /\ Len(cfLegs) \in Nat
      BY <1>t, <3>3
    <3>5. DOMAIN cfLegs' = DOMAIN cfLegs \cup {k} /\ k \notin DOMAIN cfLegs  BY <3>1, <3>4
    <3> QED BY <3>2, <3>3, <3>4, <3>5
  <2> QED BY <2>1, <2>2 DEF CfAddLeg
<1>3. CfOneLeg'
  <2>0. CfOneLeg  BY DEF CfInv
  <2>1. CfLegsOf(c)' = {k}
    <3>1. CfLegsOf(c) = {}  BY <1>f, <2>0 DEF CfOneLeg
    <3> QED BY <1>1, <1>2, <3>1 DEF CfLegsOf
  <2>2. \A d \in CfCircs : d # c => CfLegsOf(d)' = CfLegsOf(d)  BY <1>1, <1>2 DEF CfLegsOf
  <2> QED BY <1>f, <2>0, <2>1, <2>2 DEF CfOneLeg
<1>4. CfTypeOK'  BY <1>f, <1>t, <1>2 DEF CfInv, CfTypeOK
<1> QED BY <1>f, <1>3, <1>4 DEF CfInv, CfGotSound, CfSound, CfNetSound

\* CfUpdateRtt leaves the legs' circuits alone.
LEMMA CfUpdateRttInv ==
  ASSUME CfInv, NEW i \in DOMAIN cfLegs, NEW sample \in CfRtts, CfUpdateRtt(i, sample)
  PROVE  CfInv'
<1>t. cfLegs \in Seq(CfLegRec) /\ cfLegs[i] \in CfLegRec /\ sample \in Nat
  BY CfAssumption DEF CfInv, CfTypeOK
<1>f. /\ cfLegs' = [cfLegs EXCEPT ![i].rtt = IF @ = 0 THEN sample ELSE (@ * 7 + sample) \div 8]
      /\ UNCHANGED <<cfOwns, cfSeq, cfNet, cfNext, cfHeld, cfGot, cfTime>>
  BY DEF CfUpdateRtt
<1>1. PICK n \in Nat : n = IF cfLegs[i].rtt = 0 THEN sample ELSE (cfLegs[i].rtt * 7 + sample) \div 8
  <2>1. PICK a \in Nat : a = cfLegs[i].rtt  BY <1>t DEF CfLegRec
  <2>2. (a * 7 + sample) \div 8 \in Nat  BY <1>t
  <2> QED BY <1>t, <2>1, <2>2
<1> DEFINE g == [cfLegs[i] EXCEPT !.rtt = n]
<1>2. cfLegs' = [cfLegs EXCEPT ![i] = g]  BY <1>f, <1>1
<1>3. g \in CfLegRec /\ g.circ = cfLegs[i].circ /\ g.active = cfLegs[i].active
  BY <1>t, <1>1 DEF CfLegRec
<1> HIDE DEF g
<1>4. /\ cfLegs' \in Seq(CfLegRec) /\ DOMAIN cfLegs' = DOMAIN cfLegs
      /\ \A k \in DOMAIN cfLegs : /\ cfLegs'[k].circ = cfLegs[k].circ
                                  /\ cfLegs'[k].active = cfLegs[k].active
  BY <1>t, <1>2, <1>3
<1>5. CfOneLeg'  BY <1>f, <1>4, CfSameLegs DEF CfInv
<1>6. CfTypeOK'  BY <1>f, <1>4 DEF CfInv, CfTypeOK
<1> QED BY <1>f, <1>5, <1>6 DEF CfInv, CfGotSound, CfSound, CfNetSound

\* CfLegFailed: no leg leads to the circuit any more.
LEMMA CfLegFailedInv ==
  ASSUME CfInv, NEW c \in CfCircs, CfLegFailed(c)
  PROVE  CfInv'
<1>t. /\ cfLegs \in Seq(CfLegRec) /\ cfOwns \subseteq CfCircs
      /\ cfNet \in [CfCircs -> Seq(Nat)]
  BY DEF CfInv, CfTypeOK
<1>f. /\ cfLegs' = [i \in DOMAIN cfLegs |->
                      IF cfLegs[i].circ = c THEN [cfLegs[i] EXCEPT !.active = FALSE, !.circ = CfNone]
                      ELSE cfLegs[i]]
      /\ cfOwns' = cfOwns \ {c} /\ cfNet' = [cfNet EXCEPT ![c] = <<>>]
      /\ UNCHANGED <<cfSeq, cfNext, cfHeld, cfGot, cfTime>>
  BY DEF CfLegFailed
<1>1. /\ cfLegs' \in Seq(CfLegRec) /\ DOMAIN cfLegs' = DOMAIN cfLegs
      /\ \A i \in DOMAIN cfLegs : IF cfLegs[i].circ = c THEN ~cfLegs'[i].active
                                  ELSE cfLegs'[i] = cfLegs[i]
  <2>1. \A i \in DOMAIN cfLegs : cfLegs[i] \in CfLegRec  BY <1>t
  <2>2. \A i \in DOMAIN cfLegs :
          /\ [cfLegs[i] EXCEPT !.active = FALSE, !.circ = CfNone] \in CfLegRec
          /\ ~[cfLegs[i] EXCEPT !.active = FALSE, !.circ = CfNone].active
    BY <2>1 DEF CfLegRec
  <2>3. \A i \in DOMAIN cfLegs : /\ cfLegs'[i] \in CfLegRec
                                 /\ IF cfLegs[i].circ = c THEN ~cfLegs'[i].active
                                    ELSE cfLegs'[i] = cfLegs[i]
    BY <1>f, <2>1, <2>2
  <2>4. PICK n \in Nat : DOMAIN cfLegs = 1..n  BY <1>t
  <2>5. cfLegs' \in [1..n -> CfLegRec]  BY <1>f, <2>3, <2>4
  <2> QED BY <2>3, <2>4, <2>5
<1>2. CfOneLeg'
  <2>0. CfOneLeg  BY DEF CfInv
  <2>1. CfLegsOf(c)' = {}  BY <1>1 DEF CfLegsOf
  <2>2. \A d \in CfCircs : d # c => CfLegsOf(d)' = CfLegsOf(d)  BY <1>1 DEF CfLegsOf
  <2> QED BY <1>f, <2>0, <2>1, <2>2 DEF CfOneLeg
<1>3. cfNet' \in [CfCircs -> Seq(Nat)]
      /\ \A d \in CfCircs : \A i \in DOMAIN cfNet'[d] : d # c /\ cfNet'[d] = cfNet[d]
  <2>1. <<>> \in Seq(Nat) /\ DOMAIN <<>> = {}  OBVIOUS
  <2> QED BY <1>t, <1>f, <2>1
<1>4. CfNetSound'
  <2>0. CfNetSound  BY DEF CfInv
  <2>1. \A d \in CfCircs : \A i \in DOMAIN cfNet'[d] :
          cfNet'[d][i] < cfSeq /\ \A e \in cfHeld : e.seq # cfNet'[d][i]
    <3> TAKE d \in CfCircs
    <3> TAKE i \in DOMAIN cfNet'[d]
    <3>1. cfNet'[d] = cfNet[d]  BY <1>3
    <3>2. i \in DOMAIN cfNet[d] /\ cfNet'[d][i] = cfNet[d][i]  BY <3>1
    <3> QED BY <2>0, <3>2 DEF CfNetSound
  <2>2. ASSUME NEW d \in CfCircs, NEW b \in CfCircs, NEW k \in DOMAIN cfNet'[d],
               NEW l \in DOMAIN cfNet'[b], cfNet'[d][k] = cfNet'[b][l]
        PROVE  d = b /\ k = l
    <3>1. cfNet'[d] = cfNet[d] /\ cfNet'[b] = cfNet[b]  BY <1>3
    <3>2. k \in DOMAIN cfNet[d] /\ l \in DOMAIN cfNet[b] /\ cfNet[d][k] = cfNet[b][l]
      BY <2>2, <3>1
    <3> QED BY <2>0, <3>2 DEF CfNetSound
  <2>3. UNCHANGED <<cfSeq, cfHeld>>  BY <1>f
  <2> QED BY <2>1, <2>2, <2>3 DEF CfNetSound
<1>5. CfTypeOK'  BY <1>f, <1>t, <1>1, <1>3 DEF CfInv, CfTypeOK
<1> QED BY <1>f, <1>2, <1>4, <1>5 DEF CfInv, CfGotSound, CfSound

-----------------------------------------------------------------------------
\* An unlinked set satisfies the invariant.
LEMMA CfInitInv == CfInit => CfInv
<1> SUFFICES ASSUME CfInit PROVE CfInv
  OBVIOUS
<1>1. PICK c \in CfCircs : cfLegs = <<CfLeg(c)>> /\ cfOwns = {c}  BY DEF CfInit
<1>2. CfLeg(c) \in CfLegRec /\ CfLeg(c).circ = c /\ CfLeg(c).active  BY DEF CfLeg, CfLegRec
<1>3. cfLegs \in Seq(CfLegRec) /\ DOMAIN cfLegs = {1} /\ cfLegs[1] = CfLeg(c)  BY <1>1, <1>2
<1>4. CfOneLeg
  <2>1. CfLegsOf(c) = {1} /\ \A d \in CfCircs : d # c => CfLegsOf(d) = {}
    BY <1>2, <1>3 DEF CfLegsOf
  <2> QED BY <1>1, <2>1 DEF CfOneLeg
<1>5. IsFiniteSet(cfHeld) /\ Cardinality(cfHeld) = 0 /\ CfBuf \in Nat
  BY FS_EmptySet, CfAssumption DEF CfInit
<1>6. CfTypeOK
  <2>1. <<>> \in Seq(Nat)  OBVIOUS
  <2> QED BY <1>1, <1>3, <1>5, <2>1 DEF CfInit, CfTypeOK
<1>7. CfSound(cfHeld, cfNext)  BY <1>5 DEF CfSound, CfInit
<1>8. CfGotSound  BY DEF CfGotSound, CfInit, Increasing, Below
<1>9. CfNetSound
  <2>1. \A d \in CfCircs : DOMAIN cfNet[d] = {}  BY DEF CfInit
  <2> QED BY <2>1 DEF CfNetSound
<1> QED BY <1>4, <1>6, <1>7, <1>8, <1>9 DEF CfInv

\* Every step keeps the invariant.
LEMMA CfNextInv == CfInv /\ [CfNext]_cfVars => CfInv'
<1> SUFFICES ASSUME CfInv, [CfNext]_cfVars PROVE CfInv'
  OBVIOUS
<1>1. ASSUME NEW c \in CfCircs, CfAddLeg(c) \/ CfRead(c) \/ CfLegFailed(c)
      PROVE  CfInv'
  BY <1>1, CfAddLegInv, CfReadInv, CfLegFailedInv
<1>2. ASSUME NEW i \in DOMAIN cfLegs, NEW sample \in CfRtts, CfUpdateRtt(i, sample)
      PROVE  CfInv'
  BY <1>2, CfUpdateRttInv
<1>3. ASSUME NEW ok \in BOOLEAN, CfSend(ok)
      PROVE  CfInv'
  BY <1>3, CfSendInv
<1>4. CASE CfTick \/ UNCHANGED cfVars
  <2>1. /\ UNCHANGED <<cfLegs, cfOwns, cfSeq, cfNet, cfNext, cfHeld, cfGot>>
        /\ cfTime' \in Nat
    BY <1>4 DEF CfTick, cfVars, CfInv, CfTypeOK
  <2>2. CfTypeOK'  BY <2>1 DEF CfInv, CfTypeOK
  <2>3. CfGotSound' /\ CfSound(cfHeld, cfNext)'  BY <2>1 DEF CfInv, CfGotSound, CfSound
  <2>4. CfNetSound'  BY <2>1 DEF CfInv, CfNetSound
  <2>5. CfOneLeg'  BY <2>1, CfSameLegs DEF CfInv
  <2> QED BY <2>2, <2>3, <2>4, <2>5 DEF CfInv
<1> QED BY <1>1, <1>2, <1>3, <1>4 DEF CfNext

\* The invariant gives the property.
LEMMA CfInvInOrder == CfInv => CfInOrder
<1> SUFFICES ASSUME CfInv PROVE CfInOrder
  OBVIOUS
<1>1. \A c \in CfCircs : Cardinality(CfLegsOf(c)) = IF c \in cfOwns THEN 1 ELSE 0
  BY FS_EmptySet, FS_Singleton DEF CfInv, CfOneLeg
<1>2. \A c \in CfCircs :
        Cardinality({i \in DOMAIN cfLegs : cfLegs[i].circ = c /\ cfLegs[i].active})
          = IF c \in cfOwns THEN 1 ELSE 0
  BY <1>1 DEF CfLegsOf
<1> QED BY <1>2 DEF CfInv, CfInOrder, CfGotSound, Increasing, CfSound

\* For any number of legs, any buffer and any timeout, whatever the legs
\* delay or lose and whatever expires, the stream gets each cell at most once
\* and in order, the buffer holds cells that are still due, once each and
\* within its size, and circuits and active legs point to each other
\* (conflux.c, moor_conflux_receive and moor_conflux_deliver; socks5.c,
\* circuit_read_cb).
THEOREM ConfluxInOrder == CfSpec => []CfInOrder
<1>1. CfInit => CfInv  BY CfInitInv
<1>2. CfInv /\ [CfNext]_cfVars => CfInv'  BY CfNextInv
<1>3. CfInv => CfInOrder  BY CfInvInOrder
<1> QED BY <1>1, <1>2, <1>3, PTL DEF CfSpec

-----------------------------------------------------------------------------
(* Fragments of messages.                                                  *)

FgMsgRec == [id : FgIds, len : Nat, out : Nat]
FgCellRec == [msg : Nat, id : FgIds, seq : Nat, total : Nat, kind : {"whole", "end", "more"}]

\* A cell of message m says what m is, and where in m it stands.
FgCellOk(c, sent) ==
  /\ c.msg \in DOMAIN sent
  /\ c.id = sent[c.msg].id /\ c.total = sent[c.msg].len
  /\ c.seq < sent[c.msg].out
  /\ c.kind = "whole" <=> c.total = 1
  /\ c.kind = "end" <=> c.total # 1 /\ c.seq = c.total - 1

\* Cell q of message m is not before cell c.
FgFrom(c, m, q) == c.msg < m \/ (c.msg = m /\ c.seq <= q)

FgHas(net, m, q) == \E i \in DOMAIN net : net[i].msg = m /\ net[i].seq = q

\* Cells are in order, and from any of them on all that went out are there.
FgInLine(net, sent) ==
  /\ \A i, j \in DOMAIN net : i < j => ~FgFrom(net[j], net[i].msg, net[i].seq)
  /\ \A i \in DOMAIN net : \A m \in DOMAIN sent : \A q \in Nat :
       FgFrom(net[i], m, q) /\ q < sent[m].out => FgHas(net, m, q)

FgNetInv ==
  /\ fgSent \in Seq(FgMsgRec) /\ fgNet \in Seq(FgCellRec)
  /\ \A m \in DOMAIN fgSent : /\ fgSent[m].out <= fgSent[m].len
                              /\ 0 < fgSent[m].len /\ fgSent[m].len <= FgMaxLen
  /\ \A i \in DOMAIN fgNet : FgCellOk(fgNet[i], fgSent)
  /\ FgInLine(fgNet, fgSent)

\* Every cell of message m that went out has been read.
FgDone(m) == fgNet = <<>> \/ m < fgNet[1].msg

\* The first cell of message m has been read, if it went out.
FgReached(m) == FgDone(m) \/ (m = fgNet[1].msg /\ fgNet[1].seq > 0)

\* What moor_fragment_send puts on the circuit.
LEMMA FgSendEffect ==
    ASSUME FgNetInv, NEW id \in FgIds, NEW len \in FgLens, NEW out \in 0 .. len, FgSend(id, len, out)
    PROVE  /\ fgSent' \in Seq(FgMsgRec) /\ Len(fgSent') = Len(fgSent) + 1
           /\ Len(fgSent) \in Nat /\ DOMAIN fgSent = 1 .. Len(fgSent)
           /\ DOMAIN fgSent' = 1 .. Len(fgSent) + 1
           /\ \A m \in DOMAIN fgSent : fgSent'[m] = fgSent[m]
           /\ fgSent'[Len(fgSent) + 1] = [id |-> id, len |-> len, out |-> out]
           /\ fgNet' \in Seq(FgCellRec)
           /\ Len(fgNet) \in Nat /\ DOMAIN fgNet = 1 .. Len(fgNet)
           /\ DOMAIN fgNet' = 1 .. Len(fgNet) + out
           /\ \A i \in 1 .. Len(fgNet) : fgNet'[i] = fgNet[i]
           /\ \A i \in 1 .. out : fgNet'[Len(fgNet) + i] = FgCells(Len(fgSent) + 1, id, len)[i]
<1> DEFINE r == [id |-> id, len |-> len, out |-> out]
           cs == FgCells(Len(fgSent) + 1, id, len)
           new == SubSeq(cs, 1, out)
<1>1. len \in Nat \ {0} /\ out \in Nat /\ out <= len  BY FgAssumption
<1>2. r \in FgMsgRec  BY <1>1 DEF FgMsgRec
<1>3. fgSent \in Seq(FgMsgRec) /\ fgNet \in Seq(FgCellRec)  BY DEF FgNetInv
<1>4. fgSent' = Append(fgSent, r) /\ fgNet' = fgNet \o new  BY DEF FgSend
<1> HIDE DEF r
<1>5. /\ fgSent' \in Seq(FgMsgRec) /\ Len(fgSent') = Len(fgSent) + 1
      /\ Len(fgSent) \in Nat /\ DOMAIN fgSent = 1 .. Len(fgSent)
      /\ DOMAIN fgSent' = 1 .. Len(fgSent) + 1
      /\ \A m \in DOMAIN fgSent : fgSent'[m] = fgSent[m]
      /\ fgSent'[Len(fgSent) + 1] = r
  BY <1>2, <1>3, <1>4
<1>6. cs \in [1 .. len -> FgCellRec]  BY <1>1, <1>5 DEF FgCells, FgCellRec
<1> HIDE DEF cs
<1>7. cs \in Seq(FgCellRec) /\ Len(cs) = len
  <2>1. cs \in Seq(FgCellRec)  BY <1>1, <1>6
  <2>2. DOMAIN cs = 1 .. len /\ DOMAIN cs = 1 .. Len(cs) /\ Len(cs) \in Nat  BY <1>6, <2>1
  <2>3. QED  BY <1>1, <2>1, <2>2
<1>8. new \in Seq(FgCellRec) /\ Len(new) = out /\ \A i \in 1 .. out : new[i] = cs[i]
  BY <1>1, <1>7, SubSeqProperties
<1> HIDE DEF new
<1>9. /\ fgNet' \in Seq(FgCellRec)
      /\ Len(fgNet) \in Nat /\ DOMAIN fgNet = 1 .. Len(fgNet)
      /\ Len(fgNet') = Len(fgNet) + out
      /\ DOMAIN fgNet' = 1 .. Len(fgNet')
      /\ \A i \in 1 .. Len(fgNet) : fgNet'[i] = fgNet[i]
      /\ \A i \in 1 .. out : fgNet'[Len(fgNet) + i] = new[i]
  <2>1. /\ fgNet \o new \in Seq(FgCellRec)
        /\ Len(fgNet \o new) = Len(fgNet) + Len(new)
        /\ Len(fgNet) \in Nat /\ DOMAIN fgNet = 1 .. Len(fgNet)
    BY <1>3, <1>8, ConcatProperties, LenProperties
  <2>2. \A i \in 1 .. Len(fgNet) : (fgNet \o new)[i] = fgNet[i]  BY <1>1, <1>3, <1>8
  <2>3. \A i \in 1 .. out : (fgNet \o new)[Len(fgNet) + i] = new[i]  BY <1>1, <1>3, <1>8
  <2>4. DOMAIN (fgNet \o new) = 1 .. Len(fgNet \o new)  BY <2>1, LenProperties
  <2>5. QED  BY <1>4, <1>8, <2>1, <2>2, <2>3, <2>4
<1>10. QED  BY <1>5, <1>8, <1>9 DEF r, cs

\* A cell of a message, field by field.
LEMMA FgCellFields ==
    ASSUME NEW m \in Nat, NEW id, NEW len \in Nat \ {0}, NEW i \in 1 .. len
    PROVE  LET c == FgCells(m, id, len)[i]
           IN  /\ c.msg = m /\ c.id = id /\ c.seq = i - 1 /\ c.total = len
               /\ c.kind = "whole" <=> len = 1
               /\ c.kind = "end" <=> len # 1 /\ i = len
BY DEF FgCells


\* A message sent keeps the cells in line.
LEMMA FgNetSend ==
    ASSUME FgNetInv, NEW id \in FgIds, NEW len \in FgLens, NEW out \in 0 .. len, FgSend(id, len, out)
    PROVE  FgNetInv'
<1> DEFINE n == Len(fgSent) + 1
           L == Len(fgNet)
<1>0. len \in Nat \ {0} /\ out \in Nat /\ out <= len /\ len <= FgMaxLen
  BY FgAssumption DEF FgSend
<1>1. /\ fgSent' \in Seq(FgMsgRec)
      /\ n \in Nat \ {0} /\ DOMAIN fgSent = 1 .. n - 1 /\ DOMAIN fgSent' = 1 .. n
      /\ \A m \in DOMAIN fgSent : fgSent'[m] = fgSent[m]
      /\ fgSent'[n] = [id |-> id, len |-> len, out |-> out]
      /\ fgNet' \in Seq(FgCellRec)
      /\ L \in Nat /\ DOMAIN fgNet = 1 .. L /\ DOMAIN fgNet' = 1 .. L + out
      /\ \A i \in 1 .. L : fgNet'[i] = fgNet[i]
      /\ \A i \in 1 .. out : fgNet'[L + i] = FgCells(n, id, len)[i]
  <2>1. Len(fgSent) \in Nat /\ DOMAIN fgSent = 1 .. Len(fgSent) /\ DOMAIN fgSent' = 1 .. Len(fgSent) + 1
    BY FgSendEffect
  <2>2. n \in Nat \ {0} /\ DOMAIN fgSent = 1 .. n - 1 /\ DOMAIN fgSent' = 1 .. n  BY <2>1
  <2>3. QED  BY <2>2, FgSendEffect
<1>2. \A i \in 1 .. out : /\ fgNet'[L + i].msg = n /\ fgNet'[L + i].seq = i - 1
                          /\ fgNet'[L + i].id = id /\ fgNet'[L + i].total = len
                          /\ fgNet'[L + i].kind = "whole" <=> len = 1
                          /\ fgNet'[L + i].kind = "end" <=> len # 1 /\ i = len
  BY <1>0, <1>1, FgCellFields
<1>3. \A i \in 1 .. L : FgCellOk(fgNet[i], fgSent) /\ fgNet[i].msg \in 1 .. n - 1
                        /\ fgNet[i].seq \in Nat
  <2>1. \A i \in 1 .. L : fgNet[i] \in FgCellRec  BY <1>1, ElementOfSeq DEF FgNetInv
  <2>2. QED  BY <1>1, <2>1 DEF FgNetInv, FgCellOk, FgCellRec
<1> HIDE DEF n, L
<1>4. \A m \in DOMAIN fgSent' : /\ fgSent'[m].out <= fgSent'[m].len
                                /\ 0 < fgSent'[m].len /\ fgSent'[m].len <= FgMaxLen
  <2> TAKE m \in DOMAIN fgSent'
  <2>1. CASE m = n
    BY <1>0, <1>1, <2>1
  <2>2. CASE m # n
    BY <1>1, <2>2 DEF FgNetInv
  <2>3. QED  BY <2>1, <2>2
<1>5. \A i \in DOMAIN fgNet' : i \in 1 .. L \/ \E j \in 1 .. out : i = L + j
  <2> TAKE i \in DOMAIN fgNet'
  <2>1. i \in 1 .. L \/ (i - L \in 1 .. out /\ i = L + (i - L))  BY <1>0, <1>1
  <2>2. QED  BY <2>1
<1>6. \A i \in DOMAIN fgNet' : FgCellOk(fgNet'[i], fgSent')
  <2> SUFFICES ASSUME NEW i \in DOMAIN fgNet' PROVE FgCellOk(fgNet'[i], fgSent')
    OBVIOUS
  <2>1. CASE i \in 1 .. L
    <3>1. FgCellOk(fgNet[i], fgSent) /\ fgNet[i].msg \in DOMAIN fgSent  BY <1>1, <1>3, <2>1
    <3>2. fgSent'[fgNet[i].msg] = fgSent[fgNet[i].msg] /\ fgNet'[i] = fgNet[i]
          /\ fgNet[i].msg \in DOMAIN fgSent'
      BY <1>1, <2>1, <3>1
    <3>3. QED  BY <3>1, <3>2 DEF FgCellOk
  <2>2. CASE \E j \in 1 .. out : i = L + j
    <3>1. PICK j \in 1 .. out : i = L + j  BY <2>2
    <3>2. n \in DOMAIN fgSent' /\ fgSent'[n].id = id /\ fgSent'[n].len = len /\ fgSent'[n].out = out
      BY <1>1
    <3>3. j = len <=> j - 1 = len - 1  BY <1>0
    <3>4. QED  BY <1>0, <1>2, <3>1, <3>2, <3>3 DEF FgCellOk
  <2>3. QED  BY <1>5, <2>1, <2>2
<1>7. ASSUME NEW i \in DOMAIN fgNet', NEW j \in DOMAIN fgNet', i < j
      PROVE  ~FgFrom(fgNet'[j], fgNet'[i].msg, fgNet'[i].seq)
  <2>1. CASE i \in 1 .. L /\ j \in 1 .. L
    BY <1>1, <1>7, <2>1 DEF FgNetInv, FgInLine
  <2>2. CASE i \in 1 .. L /\ j \notin 1 .. L
    <3>0. PICK b \in 1 .. out : j = L + b  BY <1>5, <2>2
    <3>1. fgNet'[j].msg = n /\ fgNet'[i].msg \in 1 .. n - 1
      <4>1. fgNet'[j].msg = n  BY <1>2, <3>0
      <4>2. fgNet'[i] = fgNet[i]  BY <1>1, <2>2
      <4> QED BY <1>3, <2>2, <4>1, <4>2
    <3>2. QED  BY <1>1, <3>1 DEF FgFrom
  <2>3. CASE i \notin 1 .. L
    <3>1. PICK a \in 1 .. out : i = L + a  BY <1>5, <2>3
    <3>2. PICK b \in 1 .. out : j = L + b
      <4>1. i \in Int /\ j \in Int /\ L \in Nat /\ a \in Nat \ {0}  BY <1>0, <1>1, <3>1
      <4>2. j \notin 1 .. L  BY <1>7, <3>1, <4>1
      <4>3. QED  BY <1>5, <4>2
    <3>3. a < b  BY <1>1, <1>7, <3>1, <3>2
    <3>4. fgNet'[i].msg = n /\ fgNet'[i].seq = a - 1 /\ fgNet'[j].msg = n /\ fgNet'[j].seq = b - 1
      BY <1>2, <3>1, <3>2
    <3>5. QED  BY <1>1, <3>3, <3>4 DEF FgFrom
  <2>4. QED  BY <2>1, <2>2, <2>3
<1>8. ASSUME NEW i \in DOMAIN fgNet', NEW m \in DOMAIN fgSent', NEW q \in Nat,
             FgFrom(fgNet'[i], m, q), q < fgSent'[m].out
      PROVE  FgHas(fgNet', m, q)
  <2>1. CASE m = n
    <3>1. q + 1 \in 1 .. out /\ L + (q + 1) \in DOMAIN fgNet'  BY <1>0, <1>1, <1>8, <2>1
    <3>2. fgNet'[L + (q + 1)].msg = n /\ fgNet'[L + (q + 1)].seq = (q + 1) - 1  BY <1>2, <3>1
    <3>3. QED  BY <2>1, <3>1, <3>2 DEF FgHas
  <2>2. CASE m # n
    <3>1. m \in DOMAIN fgSent /\ fgSent'[m] = fgSent[m] /\ m < n  BY <1>1, <2>2
    <3>2. i \in 1 .. L  BY <1>1, <1>2, <1>5, <1>8, <3>1 DEF FgFrom
    <3>3. FgHas(fgNet, m, q)  BY <1>1, <1>8, <3>1, <3>2 DEF FgNetInv, FgInLine
    <3>4. QED  BY <1>0, <1>1, <3>3 DEF FgHas
  <2>3. QED  BY <2>1, <2>2
<1>9. FgInLine(fgNet', fgSent')  BY <1>7, <1>8 DEF FgInLine
<1>10. QED  BY <1>1, <1>4, <1>6, <1>9 DEF FgNetInv

\* Reading a cell keeps the others in line.
LEMMA FgNetRead ==
    ASSUME FgNetInv, fgNet # <<>>, fgNet' = Tail(fgNet), fgSent' = fgSent
    PROVE  /\ FgNetInv'
           /\ Len(fgNet) \in Nat \ {0} /\ DOMAIN fgNet = 1 .. Len(fgNet)
           /\ Len(fgNet') = Len(fgNet) - 1 /\ DOMAIN fgNet' = 1 .. Len(fgNet) - 1
           /\ \A i \in 1 .. Len(fgNet) - 1 : fgNet'[i] = fgNet[i + 1]
<1> DEFINE L == Len(fgNet)
<1>1. fgNet \in Seq(FgCellRec)  BY DEF FgNetInv
<1>2. /\ L \in Nat \ {0} /\ DOMAIN fgNet = 1 .. L
      /\ fgNet' \in Seq(FgCellRec) /\ Len(fgNet') = L - 1 /\ DOMAIN fgNet' = 1 .. L - 1
      /\ \A i \in 1 .. L - 1 : fgNet'[i] = fgNet[i + 1]
  BY <1>1
<1> HIDE DEF L
<1>3. \A i \in DOMAIN fgNet' : i + 1 \in DOMAIN fgNet /\ fgNet'[i] = fgNet[i + 1]  BY <1>2
<1>4. \A i \in DOMAIN fgNet' : FgCellOk(fgNet'[i], fgSent')  BY <1>3 DEF FgNetInv
<1>5. ASSUME NEW i \in DOMAIN fgNet', NEW j \in DOMAIN fgNet', i < j
      PROVE  ~FgFrom(fgNet'[j], fgNet'[i].msg, fgNet'[i].seq)
  <2>1. i + 1 \in DOMAIN fgNet /\ j + 1 \in DOMAIN fgNet /\ i + 1 < j + 1  BY <1>2, <1>3, <1>5
  <2>2. ~FgFrom(fgNet[j + 1], fgNet[i + 1].msg, fgNet[i + 1].seq)
    BY <2>1 DEF FgNetInv, FgInLine
  <2>3. QED  BY <1>3, <2>2
<1>6. ASSUME NEW i \in DOMAIN fgNet', NEW m \in DOMAIN fgSent', NEW q \in Nat,
             FgFrom(fgNet'[i], m, q), q < fgSent'[m].out
      PROVE  FgHas(fgNet', m, q)
  <2>1. i + 1 \in DOMAIN fgNet /\ FgFrom(fgNet[i + 1], m, q)  BY <1>3, <1>6
  <2>2. FgHas(fgNet, m, q)  BY <1>6, <2>1 DEF FgNetInv, FgInLine
  <2>3. PICK k \in DOMAIN fgNet : fgNet[k].msg = m /\ fgNet[k].seq = q  BY <2>2 DEF FgHas
  <2>4. k # 1
    <3>1. 1 < i + 1 /\ 1 \in DOMAIN fgNet  BY <1>2
    <3>2. ~FgFrom(fgNet[i + 1], fgNet[1].msg, fgNet[1].seq)
      BY <2>1, <3>1 DEF FgNetInv, FgInLine
    <3>3. QED  BY <2>1, <2>3, <3>2
  <2>5. k - 1 \in DOMAIN fgNet' /\ fgNet'[k - 1] = fgNet[k]  BY <1>2, <2>4
  <2>6. QED  BY <2>3, <2>5 DEF FgHas
<1>7. FgInLine(fgNet', fgSent')  BY <1>5, <1>6 DEF FgInLine
<1>8. FgNetInv'  BY <1>2, <1>4, <1>7 DEF FgNetInv
<1>9. QED  BY <1>2, <1>8 DEF L


\* After a cell comes the next one of its message, or the first cell of the
\* next message of which any went out.
LEMMA FgHead ==
    ASSUME FgNetInv, fgNet # <<>>, fgNet' = Tail(fgNet), fgSent' = fgSent
    PROVE  /\ FgCellOk(fgNet[1], fgSent) /\ fgNet[1].msg \in Nat /\ fgNet[1].seq \in Nat
           /\ fgNet[1].seq + 1 < fgSent[fgNet[1].msg].out =>
                /\ fgNet' # <<>> /\ fgNet'[1].msg = fgNet[1].msg
                /\ fgNet'[1].seq = fgNet[1].seq + 1
           /\ ~(fgNet[1].seq + 1 < fgSent[fgNet[1].msg].out) /\ fgNet' # <<>> =>
                fgNet'[1].msg > fgNet[1].msg /\ fgNet'[1].seq = 0 /\ fgNet'[1].msg \in Nat
           /\ \A m \in DOMAIN fgSent : m > fgNet[1].msg /\ fgSent[m].out > 0 =>
                fgNet' # <<>> /\ fgNet'[1].msg <= m
<1> DEFINE L == Len(fgNet)
           h == fgNet[1]
<1>1. /\ L \in Nat \ {0} /\ DOMAIN fgNet = 1 .. L /\ DOMAIN fgNet' = 1 .. L - 1 /\ Len(fgNet') = L - 1
      /\ \A i \in 1 .. L - 1 : fgNet'[i] = fgNet[i + 1]
  BY FgNetRead
<1>2. \A i \in DOMAIN fgNet : /\ FgCellOk(fgNet[i], fgSent)
                              /\ fgNet[i].msg \in Nat /\ fgNet[i].seq \in Nat
                              /\ fgNet[i].msg \in DOMAIN fgSent
                              /\ fgNet[i].seq < fgSent[fgNet[i].msg].out
  <2>1. \A i \in DOMAIN fgNet : fgNet[i] \in FgCellRec  BY <1>1, ElementOfSeq DEF FgNetInv
  <2>2. QED  BY <2>1 DEF FgNetInv, FgCellRec, FgCellOk
<1>3. \A m \in DOMAIN fgSent : fgSent[m].out \in Nat
  <2>1. fgSent \in Seq(FgMsgRec)  BY DEF FgNetInv
  <2>2. \A m \in DOMAIN fgSent : fgSent[m] \in FgMsgRec  BY <2>1, ElementOfSeq, LenProperties
  <2>3. QED  BY <2>2 DEF FgMsgRec
<1>4. 1 \in DOMAIN fgNet  BY <1>1
<1>5. \A i \in DOMAIN fgNet : i # 1 => ~FgFrom(fgNet[i], h.msg, h.seq)
  BY <1>1, <1>4 DEF FgNetInv, FgInLine
\* Any later cell is at or after the second.
<1>6. ASSUME NEW m \in DOMAIN fgSent, NEW q \in Nat, q < fgSent[m].out, FgFrom(h, m, q),
             ~(m = h.msg /\ q = h.seq)
      PROVE  /\ 2 \in DOMAIN fgNet /\ fgNet' # <<>> /\ fgNet'[1] = fgNet[2]
             /\ FgFrom(fgNet[2], m, q)
  <2>1. PICK k \in DOMAIN fgNet : fgNet[k].msg = m /\ fgNet[k].seq = q
    BY <1>4, <1>6 DEF FgNetInv, FgInLine, FgHas
  <2>2. k # 1  BY <1>6, <2>1
  <2>3. 2 \in DOMAIN fgNet /\ fgNet' # <<>> /\ fgNet'[1] = fgNet[2]
    <3>1. 2 \in DOMAIN fgNet /\ 1 \in 1 .. L - 1 /\ L - 1 > 0  BY <1>1, <2>1, <2>2
    <3>2. fgNet'[1] = fgNet[1 + 1]  BY <1>1, <3>1
    <3>3. fgNet' # <<>>
      <4> SUFFICES ASSUME fgNet' = <<>> PROVE FALSE
        OBVIOUS
      <4>1. DOMAIN fgNet' = DOMAIN <<>>  BY Zenon
      <4>2. DOMAIN <<>> = {}  OBVIOUS
      <4>3. 1 \in DOMAIN fgNet'  BY <1>1, <3>1
      <4>4. QED  BY <4>1, <4>2, <4>3, Zenon
    <3>4. QED  BY <3>1, <3>2, <3>3
  <2>4. FgFrom(fgNet[2], m, q)
    <3>1. CASE k = 2
      BY <1>2, <2>1, <2>3, <3>1 DEF FgFrom
    <3>2. CASE k # 2
      <4>1. ~FgFrom(fgNet[k], fgNet[2].msg, fgNet[2].seq)
        <5>1. 2 < k  BY <1>1, <2>1, <2>2, <3>2
        <5>2. QED  BY <2>1, <2>3, <5>1 DEF FgNetInv, FgInLine
      <4>2. QED  BY <1>2, <2>1, <2>3, <4>1 DEF FgFrom
    <3>3. QED  BY <3>1, <3>2
  <2>5. QED  BY <2>3, <2>4
<1>7. fgNet' # <<>> => 2 \in DOMAIN fgNet /\ fgNet'[1] = fgNet[2]
  <2> SUFFICES ASSUME fgNet' # <<>> PROVE 2 \in DOMAIN fgNet /\ fgNet'[1] = fgNet[2]
    OBVIOUS
  <2>1. fgNet' \in Seq(FgCellRec)  BY FgNetRead DEF FgNetInv
  <2>2. Len(fgNet') # 0  BY <2>1
  <2>3. 1 \in 1 .. L - 1 /\ 2 \in DOMAIN fgNet  BY <1>1, <2>2
  <2>4. fgNet'[1] = fgNet[1 + 1]  BY <1>1, <2>3
  <2>5. QED  BY <2>3, <2>4
<1>8. ASSUME h.seq + 1 < fgSent[h.msg].out
      PROVE  fgNet' # <<>> /\ fgNet'[1].msg = h.msg /\ fgNet'[1].seq = h.seq + 1
  <2>1. h.msg \in DOMAIN fgSent /\ h.seq \in Nat /\ h.msg \in Nat  BY <1>2, <1>4
  <2>2. FgFrom(h, h.msg, h.seq + 1)  BY <2>1 DEF FgFrom
  <2>3. /\ 2 \in DOMAIN fgNet /\ fgNet' # <<>> /\ fgNet'[1] = fgNet[2]
        /\ FgFrom(fgNet[2], h.msg, h.seq + 1)
    BY <1>6, <1>8, <2>1, <2>2
  <2>4. ~FgFrom(fgNet[2], h.msg, h.seq) /\ fgNet[2].msg \in Nat /\ fgNet[2].seq \in Nat
    BY <1>2, <1>5, <2>3
  <2>5. fgNet[2].msg = h.msg /\ fgNet[2].seq = h.seq + 1  BY <2>1, <2>3, <2>4 DEF FgFrom
  <2>6. QED  BY <2>3, <2>5
<1>9. ASSUME ~(h.seq + 1 < fgSent[h.msg].out), fgNet' # <<>>
      PROVE  fgNet'[1].msg > h.msg /\ fgNet'[1].seq = 0 /\ fgNet'[1].msg \in Nat
  <2>1. 2 \in DOMAIN fgNet /\ fgNet'[1] = fgNet[2]  BY <1>7, <1>9
  <2>2. /\ h.msg \in DOMAIN fgSent /\ h.seq \in Nat /\ h.msg \in Nat
        /\ fgNet[2].msg \in Nat /\ fgNet[2].seq \in Nat /\ fgNet[2].msg \in DOMAIN fgSent
        /\ fgNet[2].seq < fgSent[fgNet[2].msg].out /\ ~FgFrom(fgNet[2], h.msg, h.seq)
        /\ fgSent[fgNet[2].msg].out \in Nat
    BY <1>2, <1>3, <1>4, <1>5, <2>1
  <2>3. fgNet[2].msg > h.msg
    <3>1. fgNet[2].msg >= h.msg  BY <2>2 DEF FgFrom
    <3>2. fgNet[2].msg # h.msg
      <4> SUFFICES ASSUME fgNet[2].msg = h.msg PROVE FALSE
        OBVIOUS
      <4>1. fgNet[2].seq > h.seq  BY <2>2 DEF FgFrom
      <4>2. QED  BY <1>9, <2>2, <4>1
    <3>3. QED  BY <2>2, <3>1, <3>2
  <2>4. fgNet[2].seq = 0
    <3>1. 0 < fgSent[fgNet[2].msg].out /\ FgFrom(h, fgNet[2].msg, 0)  BY <2>2, <2>3 DEF FgFrom
    <3>2. FgFrom(fgNet[2], fgNet[2].msg, 0)  BY <1>6, <2>2, <2>3, <3>1
    <3>3. QED  BY <2>2, <3>2 DEF FgFrom
  <2>5. QED  BY <2>1, <2>2, <2>3, <2>4
<1>10. ASSUME NEW m \in DOMAIN fgSent, m > h.msg, fgSent[m].out > 0
       PROVE  fgNet' # <<>> /\ fgNet'[1].msg <= m
  <2>1. h.msg \in Nat /\ m \in Nat  BY <1>2, <1>4, LenProperties DEF FgNetInv
  <2>2. FgFrom(h, m, 0) /\ m # h.msg  BY <1>10, <2>1 DEF FgFrom
  <2>3. 2 \in DOMAIN fgNet /\ fgNet' # <<>> /\ fgNet'[1] = fgNet[2] /\ FgFrom(fgNet[2], m, 0)
    BY <1>3, <1>6, <1>10, <2>2
  <2>4. fgNet[2].msg \in Nat  BY <1>2, <2>3
  <2>5. QED  BY <2>1, <2>3, <2>4 DEF FgFrom
<1>11. QED  BY <1>2, <1>4, <1>8, <1>9, <1>10


\* Which messages have been seen, and when.
FgSeenInv ==
  /\ fgTime \in Nat
  /\ DOMAIN fgSeen = {m \in DOMAIN fgSent : fgSent[m].out > 0 /\ FgReached(m)}
  /\ \A m \in DOMAIN fgSeen : /\ fgSeen[m].first \in Nat /\ fgSeen[m].last \in Nat
                              /\ fgSeen[m].first <= fgSeen[m].last /\ fgSeen[m].last <= fgTime

\* A slot was opened by the message of its first part, when that message was
\* first seen.  It has every cell of it that was read; once they all are, the
\* message was cut short.
FgSlotOk(s) ==
  /\ s = [id |-> s.id, total |-> s.total, next |-> s.next, parts |-> s.parts, at |-> s.at]
  /\ s.parts \in Seq(Nat) /\ s.next = Len(s.parts) /\ s.next > 0
  /\ \A i \in DOMAIN s.parts : s.parts[i] \in DOMAIN fgSent /\ fgSent[s.parts[i]].id = s.id
  /\ s.parts[1] \in DOMAIN fgSeen
  /\ s.at = fgSeen[s.parts[1]].first /\ s.total = fgSent[s.parts[1]].len
  /\ fgNet # <<>> /\ fgNet[1].msg = s.parts[1] => fgNet[1].seq = s.next
  /\ FgDone(s.parts[1]) => fgSent[s.parts[1]].out < fgSent[s.parts[1]].len

FgSlotsInv ==
  /\ IsFiniteSet(fgSlots)
  /\ \A s \in fgSlots : FgSlotOk(s)
  /\ \A s, t \in fgSlots : s.id = t.id => s = t

\* What was handed on is made of messages of one identifier.
FgGotInv ==
  \A p \in fgGot : \A i \in DOMAIN p : /\ p[i] \in DOMAIN fgSent /\ p[1] \in DOMAIN fgSent
                                       /\ fgSent[p[i]].id = fgSent[p[1]].id

\* A message that nothing disturbs has its slot until it is handed on.
FgUndisturbed(m) ==
  /\ ~FgCollides(m) /\ Cardinality(FgHolding(m)) < FgSlots
  /\ fgSeen[m].last - fgSeen[m].first <= FgTimeout
FgWay(m) ==
  FgUndisturbed(m) =>
    IF FgDone(m) THEN fgSent[m].out = fgSent[m].len => [i \in 1 .. fgSent[m].len |-> m] \in fgGot
    ELSE \E s \in fgSlots : s.parts[1] = m
FgWayInv == \A m \in DOMAIN fgSeen : FgWay(m)

FgInv == FgNetInv /\ FgSeenInv /\ FgSlotsInv /\ FgGotInv /\ FgWayInv

\* The slots that are not too old.
FgLive == fgSlots \ FgExpired(fgSlots)

\* A slot with one more part.
FgMore(s, c) == [s EXCEPT !.next = @ + 1, !.parts = Append(@, c.msg)]

\* The three things moor_fragment_receive does with cell c: nothing, a part
\* for a slot, or a new slot.
FgTook(c) ==
  \/ /\ fgSlots' = FgLive /\ fgGot' = fgGot
     /\ \A s \in FgLive : s.id = c.id => ~FgFits(s, c)
     /\ (\A s \in FgLive : s.id # c.id) => ~(c.seq = 0 /\ Cardinality(FgLive) < FgSlots)
  \/ \E s \in FgLive :
       /\ s.id = c.id /\ FgFits(s, c)
       /\ fgSlots' = (FgLive \ {s}) \cup (IF c.kind = "end" THEN {} ELSE {FgMore(s, c)})
       /\ fgGot' = fgGot \cup (IF c.kind = "end" /\ Len(FgMore(s, c).parts) = FgMore(s, c).total
                               THEN {FgMore(s, c).parts} ELSE {})
  \/ /\ \A s \in FgLive : s.id # c.id
     /\ c.seq = 0 /\ c.kind # "end"
     /\ fgSlots' = FgLive \cup {FgMore(FgNewSlot(c), c)} /\ fgGot' = fgGot

\* What FgFilled returns.
LEMMA FgFilledIs ==
    ASSUME NEW slots, NEW s, NEW c
    PROVE  /\ FgFilled(slots, s, c).slots =
                (slots \ {s}) \cup (IF c.kind = "end" THEN {} ELSE {FgMore(s, c)})
           /\ FgFilled(slots, s, c).done =
                (IF c.kind = "end" /\ Len(FgMore(s, c).parts) = FgMore(s, c).total
                 THEN {FgMore(s, c).parts} ELSE {})
<1> DEFINE t == [s EXCEPT !.next = @ + 1, !.parts = Append(@, c.msg)]
<1>1. t = FgMore(s, c)  BY DEF FgMore
<1>2. FgFilled(slots, s, c) = IF c.kind = "end"
        THEN [slots |-> slots \ {s}, done |-> IF Len(t.parts) = t.total THEN {t.parts} ELSE {}]
        ELSE [slots |-> (slots \ {s}) \cup {t}, done |-> {}]
  BY DEF FgFilled
<1> HIDE DEF t
<1>3. QED  BY <1>1, <1>2

\* moor_fragment_receive.
LEMMA FgReceives ==
    ASSUME FgInv, fgNet # <<>>, fgNet[1].kind # "whole", FgRead
    PROVE  FgTook(fgNet[1])
<1> DEFINE c == fgNet[1]
           live == FgLive
           same == {s \in live : s.id = c.id}
           slot == CHOOSE s \in same : TRUE
           none == [slots |-> live, done |-> {}]
<1>1. FgReceive(c) =
        IF same # {}
        THEN IF FgFits(slot, c) THEN FgFilled(live, slot, c) ELSE none
        ELSE IF c.seq = 0 /\ Cardinality(live) < FgSlots
        THEN FgFilled(live, FgNewSlot(c), c) ELSE none
  BY DEF FgReceive, FgLive
<1>2. Head(fgNet) = c  BY DEF FgInv, FgNetInv
<1>3. fgSlots' = FgReceive(c).slots /\ fgGot' = fgGot \cup FgReceive(c).done  BY <1>2 DEF FgRead
<1>4. \A s \in live : s.id = c.id => same = {s} /\ slot = s
  <2> SUFFICES ASSUME NEW s \in live, s.id = c.id PROVE same = {s} /\ slot = s
    OBVIOUS
  <2>1. same = {s}  BY DEF FgLive, FgInv, FgSlotsInv
  <2>2. QED  BY <2>1
<1> HIDE DEF c, live, same, slot
<1>5. none.slots = live /\ none.done = {}  OBVIOUS
<1> HIDE DEF none
<1>6. CASE same # {}
  <2>1. slot \in same /\ slot \in live /\ slot.id = c.id  BY <1>6 DEF slot, same
  <2>2. CASE FgFits(slot, c)
    <3>1. FgReceive(c) = FgFilled(live, slot, c)  BY <1>1, <1>6, <2>2
    <3>2. /\ fgSlots' = (live \ {slot}) \cup (IF c.kind = "end" THEN {} ELSE {FgMore(slot, c)})
          /\ fgGot' = fgGot \cup (IF c.kind = "end" /\ Len(FgMore(slot, c).parts) = FgMore(slot, c).total
                                  THEN {FgMore(slot, c).parts} ELSE {})
      <4>1. /\ FgFilled(live, slot, c).slots =
                 (live \ {slot}) \cup (IF c.kind = "end" THEN {} ELSE {FgMore(slot, c)})
            /\ FgFilled(live, slot, c).done =
                 (IF c.kind = "end" /\ Len(FgMore(slot, c).parts) = FgMore(slot, c).total
                  THEN {FgMore(slot, c).parts} ELSE {})
        BY FgFilledIs, Zenon
      <4>2. QED  BY <1>3, <3>1, <4>1, Zenon
    <3>3. FgTook(c)  BY <2>1, <2>2, <3>2 DEF FgTook, live
    <3>4. QED  BY <3>3 DEF c
  <2>3. CASE ~FgFits(slot, c)
    <3>1. fgSlots' = live /\ fgGot' = fgGot  BY <1>1, <1>3, <1>5, <1>6, <2>3
    <3>2. FgTook(c)  BY <1>4, <2>1, <2>3, <3>1 DEF FgTook, live
    <3>3. QED  BY <3>2 DEF c
  <2>4. QED  BY <2>2, <2>3
<1>7. CASE same = {}
  <2>1. \A s \in live : s.id # c.id  BY <1>7 DEF same
  <2>2. CASE c.seq = 0 /\ Cardinality(live) < FgSlots
    <3>1. FgReceive(c) = FgFilled(live, FgNewSlot(c), c)  BY <1>1, <1>7, <2>2
    <3>2. c.kind # "end"
      <4>1. FgCellOk(c, fgSent) /\ c.total \in Nat /\ c.kind # "whole"
        <5>1. 1 \in DOMAIN fgNet /\ fgNet[1] \in FgCellRec  BY ElementOfSeq DEF FgInv, FgNetInv
        <5>2. QED  BY <5>1 DEF FgInv, FgNetInv, FgCellRec, c
      <4>2. QED  BY <2>2, <4>1 DEF FgCellOk
    <3>3. FgNewSlot(c) \notin live
      <4>1. FgNewSlot(c).id = c.id  BY DEF FgNewSlot
      <4>2. QED  BY <2>1, <4>1
    <3>4. fgSlots' = live \cup {FgMore(FgNewSlot(c), c)} /\ fgGot' = fgGot
      <4> DEFINE n == FgNewSlot(c)
      <4>1. /\ FgFilled(live, n, c).slots =
                 (live \ {n}) \cup (IF c.kind = "end" THEN {} ELSE {FgMore(n, c)})
            /\ FgFilled(live, n, c).done =
                 (IF c.kind = "end" /\ Len(FgMore(n, c).parts) = FgMore(n, c).total
                  THEN {FgMore(n, c).parts} ELSE {})
        BY FgFilledIs, Zenon
      <4> HIDE DEF n
      <4>2. FgFilled(live, n, c).slots = live \cup {FgMore(n, c)} /\ FgFilled(live, n, c).done = {}
        BY <3>2, <3>3, <4>1 DEF n
      <4>3. QED  BY <1>3, <3>1, <4>2 DEF n
    <3>5. FgTook(c)  BY <2>1, <2>2, <3>2, <3>4 DEF FgTook, live
    <3>6. QED  BY <3>5 DEF c
  <2>3. CASE ~(c.seq = 0 /\ Cardinality(live) < FgSlots)
    <3>1. fgSlots' = live /\ fgGot' = fgGot  BY <1>1, <1>3, <1>5, <1>7, <2>3
    <3>2. FgTook(c)  BY <2>1, <2>3, <3>1 DEF FgTook, live
    <3>3. QED  BY <3>2 DEF c
  <2>4. QED  BY <2>2, <2>3
<1>8. QED  BY <1>6, <1>7


\* The typed fields of what was sent.
LEMMA FgSentTyped ==
    ASSUME FgNetInv
    PROVE  /\ Len(fgSent) \in Nat /\ DOMAIN fgSent = 1 .. Len(fgSent)
           /\ \A m \in DOMAIN fgSent : /\ fgSent[m].len \in Nat /\ fgSent[m].out \in Nat
                                       /\ fgSent[m].out <= fgSent[m].len
                                       /\ 0 < fgSent[m].len /\ fgSent[m].len <= FgMaxLen
<1>1. fgSent \in Seq(FgMsgRec)  BY DEF FgNetInv
<1>2. Len(fgSent) \in Nat /\ DOMAIN fgSent = 1 .. Len(fgSent)  BY <1>1, LenProperties
<1>3. \A m \in DOMAIN fgSent : fgSent[m] \in FgMsgRec  BY <1>1, <1>2, ElementOfSeq
<1>4. QED  BY <1>2, <1>3 DEF FgNetInv, FgMsgRec

\* The first cell of the circuit.
LEMMA FgFirst ==
    ASSUME FgNetInv, fgNet # <<>>
    PROVE  /\ fgNet[1].msg \in DOMAIN fgSent /\ fgNet[1].msg \in Nat /\ fgNet[1].seq \in Nat
           /\ fgNet[1].seq < fgSent[fgNet[1].msg].out
           /\ fgNet[1].id = fgSent[fgNet[1].msg].id /\ fgNet[1].total = fgSent[fgNet[1].msg].len
           /\ fgNet[1].kind = "whole" <=> fgNet[1].total = 1
           /\ fgNet[1].kind = "end" <=> fgNet[1].total # 1 /\ fgNet[1].seq = fgNet[1].total - 1
<1>1. 1 \in DOMAIN fgNet /\ fgNet[1] \in FgCellRec  BY ElementOfSeq DEF FgNetInv
<1>2. FgCellOk(fgNet[1], fgSent)  BY <1>1 DEF FgNetInv
<1>3. QED  BY <1>1, <1>2 DEF FgCellOk, FgCellRec

\* Messages seen come before the first cell, or are its own.
LEMMA FgSeenBefore ==
    ASSUME FgNetInv, FgSeenInv, fgNet # <<>>, NEW m \in DOMAIN fgSeen
    PROVE  /\ m \in DOMAIN fgSent /\ m \in Nat /\ m <= fgNet[1].msg
           /\ m # fgNet[1].msg => FgDone(m)
           /\ m = fgNet[1].msg => fgNet[1].seq > 0 /\ ~FgDone(m)
<1>1. fgNet[1].msg \in Nat /\ m \in DOMAIN fgSent /\ FgReached(m)  BY FgFirst DEF FgSeenInv
<1>2. m \in Nat  BY <1>1, FgSentTyped
<1>3. QED  BY <1>1, <1>2 DEF FgReached, FgDone

\* What reading the first cell does to the position and to what was seen.
LEMMA FgReadMoves ==
    ASSUME FgNetInv, FgSeenInv, FgRead, NEW c, c = fgNet[1]
    PROVE  /\ fgNet # <<>> /\ UNCHANGED <<fgSent, fgTime>> /\ FgNetInv' /\ FgSeenInv'
           /\ DOMAIN fgSeen' = DOMAIN fgSeen \cup {c.msg}
           /\ \A m \in DOMAIN fgSeen : m # c.msg => fgSeen'[m] = fgSeen[m]
           /\ fgSeen'[c.msg].last = fgTime
           /\ fgSeen'[c.msg].first =
                IF c.seq = 0 THEN fgTime ELSE fgSeen[c.msg].first
           /\ \A m \in DOMAIN fgSeen : m # c.msg => FgDone(m) /\ FgDone(m)'
           /\ FgDone(c.msg)' <=> ~(c.seq + 1 < fgSent[c.msg].out)
           /\ fgNet' # <<>> /\ fgNet'[1].msg = c.msg => fgNet'[1].seq = c.seq + 1
<1>1. fgNet # <<>> /\ fgNet' = Tail(fgNet) /\ UNCHANGED <<fgSent, fgTime>>  BY DEF FgRead
<1>2. FgNetInv'  BY <1>1, FgNetRead
<1>3. /\ c.msg \in DOMAIN fgSent /\ c.msg \in Nat /\ c.seq \in Nat /\ c.seq < fgSent[c.msg].out
      /\ fgSent[c.msg].out \in Nat
  BY <1>1, FgFirst, FgSentTyped
<1>4. /\ c.seq + 1 < fgSent[c.msg].out =>
           fgNet' # <<>> /\ fgNet'[1].msg = c.msg /\ fgNet'[1].seq = c.seq + 1
      /\ ~(c.seq + 1 < fgSent[c.msg].out) /\ fgNet' # <<>> =>
           fgNet'[1].msg > c.msg /\ fgNet'[1].seq = 0 /\ fgNet'[1].msg \in Nat
      /\ \A m \in DOMAIN fgSent : m > c.msg /\ fgSent[m].out > 0 =>
           fgNet' # <<>> /\ fgNet'[1].msg <= m
  BY <1>1, FgHead
<1>5. /\ fgSeen' = [m \in DOMAIN fgSeen \cup {c.msg} |->
             IF m # c.msg THEN fgSeen[m]
             ELSE [first |-> IF c.seq = 0 THEN fgTime ELSE fgSeen[m].first, last |-> fgTime]]
  <2>1. Head(fgNet) = c  BY DEF FgNetInv
  <2>2. QED  BY <2>1 DEF FgRead
<1>6. /\ DOMAIN fgSeen' = DOMAIN fgSeen \cup {c.msg}
      /\ \A m \in DOMAIN fgSeen : m # c.msg => fgSeen'[m] = fgSeen[m]
      /\ fgSeen'[c.msg].last = fgTime
      /\ fgSeen'[c.msg].first = IF c.seq = 0 THEN fgTime ELSE fgSeen[c.msg].first
  BY <1>5
<1>7. FgDone(c.msg)' <=> ~(c.seq + 1 < fgSent[c.msg].out)  BY <1>3, <1>4 DEF FgDone
<1>8. \A m \in DOMAIN fgSeen : m # c.msg => FgDone(m) /\ FgDone(m)'
  <2> SUFFICES ASSUME NEW m \in DOMAIN fgSeen, m # c.msg PROVE FgDone(m) /\ FgDone(m)'
    OBVIOUS
  <2>1. m \in Nat /\ m <= c.msg /\ FgDone(m)  BY <1>1, FgSeenBefore
  <2>2. FgDone(m)'  BY <1>3, <1>4, <2>1 DEF FgDone
  <2>3. QED  BY <2>1, <2>2
<1>9. fgNet' # <<>> /\ fgNet'[1].msg = c.msg => fgNet'[1].seq = c.seq + 1  BY <1>3, <1>4
<1>10. FgSeenInv'
  <2>1. DOMAIN fgSeen' = {m \in DOMAIN fgSent' : fgSent'[m].out > 0 /\ FgReached(m)'}
    <3>1. ASSUME NEW m \in DOMAIN fgSeen'
          PROVE  m \in DOMAIN fgSent /\ fgSent[m].out > 0 /\ FgReached(m)'
      <4>1. CASE m = c.msg
        <5>1. FgReached(m)'  BY <1>3, <1>4, <1>7, <4>1 DEF FgReached
        <5>2. QED  BY <1>3, <4>1, <5>1
      <4>2. CASE m # c.msg
        <5>1. m \in DOMAIN fgSeen /\ FgDone(m)'  BY <1>6, <1>8, <4>2
        <5>2. QED  BY <5>1 DEF FgSeenInv, FgReached
      <4>3. QED  BY <4>1, <4>2
    <3>2. ASSUME NEW m \in DOMAIN fgSent, fgSent[m].out > 0, FgReached(m)'
          PROVE  m \in DOMAIN fgSeen'
      <4>0. m \in Nat  BY FgSentTyped
      <4>1. CASE m = c.msg
        BY <1>6, <4>1
      <4>2. CASE m < c.msg
        <5>1. FgReached(m)  BY <4>2 DEF FgReached, FgDone
        <5>2. QED  BY <1>6, <3>2, <5>1 DEF FgSeenInv
      <4>3. CASE m > c.msg
        <5>1. fgNet' # <<>> /\ fgNet'[1].msg <= m  BY <1>4, <3>2, <4>3
        <5>2. fgNet'[1].msg \in Nat /\ (fgNet'[1].msg = m => fgNet'[1].seq = 0)
          BY <1>3, <1>4, <4>0, <4>3, <5>1
        <5>3. QED  BY <3>2, <4>0, <5>1, <5>2 DEF FgReached, FgDone
      <4>4. QED  BY <1>3, <4>0, <4>1, <4>2, <4>3
    <3>3. QED  BY <1>1, <3>1, <3>2
  <2>2. ASSUME NEW m \in DOMAIN fgSeen'
        PROVE  /\ fgSeen'[m].first \in Nat /\ fgSeen'[m].last \in Nat
               /\ fgSeen'[m].first <= fgSeen'[m].last /\ fgSeen'[m].last <= fgTime
    <3>1. CASE m # c.msg
      BY <1>6, <3>1 DEF FgSeenInv
    <3>2. CASE m = c.msg /\ c.seq = 0
      BY <1>6, <3>2 DEF FgSeenInv
    <3>3. CASE m = c.msg /\ c.seq # 0
      <4>1. c.msg \in DOMAIN fgSeen  BY <1>3, <3>3 DEF FgSeenInv, FgReached
      <4>2. fgSeen[c.msg].first \in Nat /\ fgSeen[c.msg].first <= fgTime /\ fgTime \in Nat
        BY <4>1 DEF FgSeenInv
      <4>3. QED  BY <1>6, <3>3, <4>2
    <3>4. QED  BY <3>1, <3>2, <3>3
  <2>3. QED  BY <1>1, <2>1, <2>2 DEF FgSeenInv
<1>11. QED  BY <1>1, <1>2, <1>6, <1>7, <1>8, <1>9, <1>10


\* A slot with one more part, field by field.
LEMMA FgMoreIs ==
    ASSUME NEW id, NEW total, NEW next, NEW parts, NEW at, NEW c
    PROVE  FgMore([id |-> id, total |-> total, next |-> next, parts |-> parts, at |-> at], c) =
             [id |-> id, total |-> total, next |-> next + 1, parts |-> Append(parts, c.msg), at |-> at]
<1> DEFINE s == [id |-> id, total |-> total, next |-> next, parts |-> parts, at |-> at]
           x == [s EXCEPT !.next = next + 1]
           y == [x EXCEPT !.parts = Append(parts, c.msg)]
<1>1. s.next = next /\ s.parts = parts  OBVIOUS
<1>2. FgMore(s, c) = [s EXCEPT !.next = s.next + 1, !.parts = Append(s.parts, c.msg)]
  BY DEF FgMore
<1> HIDE DEF s
<1>3. FgMore(s, c) = [s EXCEPT !.next = next + 1, !.parts = Append(parts, c.msg)]
  BY <1>1, <1>2, Zenon
<1>4. FgMore(s, c) = y  BY <1>3
<1>5. x = [id |-> id, total |-> total, next |-> next + 1, parts |-> parts, at |-> at]  BY DEF s
<1> HIDE DEF x
<1>6. y = [id |-> id, total |-> total, next |-> next + 1, parts |-> Append(parts, c.msg), at |-> at]
  BY <1>5
<1> HIDE DEF y
<1>7. QED  BY <1>4, <1>6 DEF s

\* A slot that the cell is not for.
LEMMA FgSlotStays ==
    ASSUME FgInv, FgRead, NEW c, c = fgNet[1], NEW s \in fgSlots, s.parts[1] # c.msg
    PROVE  FgSlotOk(s)'
<1>1. FgSlotOk(s)  BY DEF FgInv, FgSlotsInv
<1>2. FgNetInv /\ FgSeenInv  BY DEF FgInv
<1> DEFINE o == s.parts[1]
<1>3. o \in DOMAIN fgSeen /\ s.at = fgSeen[o].first  BY <1>1 DEF FgSlotOk
<1>4. /\ UNCHANGED fgSent /\ o \in DOMAIN fgSeen' /\ fgSeen'[o] = fgSeen[o]
      /\ FgDone(o) /\ FgDone(o)'
  BY <1>2, <1>3, FgReadMoves
<1>5. FgNetInv'  BY <1>2, FgReadMoves
<1>6. ~(fgNet' # <<>> /\ fgNet'[1].msg = o)
  <2>1. o \in Nat  BY <1>2, <1>3, FgSeenBefore, FgReadMoves
  <2>2. QED  BY <1>4, <2>1 DEF FgDone
<1>7. QED  BY <1>1, <1>3, <1>4, <1>6 DEF FgSlotOk

\* A slot that takes the cell, and not the last one.
LEMMA FgSlotGrows ==
    ASSUME FgInv, FgRead, NEW c, c = fgNet[1], c.kind \notin {"whole", "end"}, NEW s \in fgSlots,
           s.id = c.id, FgFits(s, c), NEW t, t = FgMore(s, c)
    PROVE  FgSlotOk(t)' /\ t.id = s.id /\ t.parts[1] = s.parts[1]
<1>1. FgSlotOk(s)  BY DEF FgInv, FgSlotsInv
<1>2. FgNetInv /\ FgSeenInv /\ fgNet # <<>>  BY FgReadMoves DEF FgInv
<1>3. /\ c.msg \in DOMAIN fgSent /\ c.msg \in Nat /\ c.seq \in Nat /\ c.id = fgSent[c.msg].id
      /\ c.total = fgSent[c.msg].len /\ c.seq < fgSent[c.msg].out
      /\ c.kind = "whole" <=> c.total = 1
      /\ c.kind = "end" <=> c.total # 1 /\ c.seq = c.total - 1
  BY <1>2, FgFirst
<1>4. t = [id |-> s.id, total |-> s.total, next |-> s.next + 1, parts |-> Append(s.parts, c.msg),
           at |-> s.at]
  <2>1. PICK a, b, d, e, f : s = [id |-> a, total |-> b, next |-> d, parts |-> e, at |-> f]
    BY <1>1 DEF FgSlotOk
  <2>2. t = [id |-> a, total |-> b, next |-> d + 1, parts |-> Append(e, c.msg), at |-> f]
    BY <2>1, FgMoreIs
  <2>3. QED  BY <2>1, <2>2
<1>5. /\ t.id = s.id /\ t.total = s.total /\ t.next = s.next + 1
      /\ t.parts = Append(s.parts, c.msg) /\ t.at = s.at
      /\ t = [id |-> t.id, total |-> t.total, next |-> t.next, parts |-> t.parts, at |-> t.at]
  BY <1>4
<1>6. s.parts \in Seq(Nat) /\ s.next = Len(s.parts) /\ s.next > 0 /\ s.next \in Nat
  BY <1>1 DEF FgSlotOk
<1>7. /\ t.parts \in Seq(Nat) /\ t.next = Len(t.parts) /\ t.next > 0
      /\ t.parts[1] = s.parts[1] /\ DOMAIN t.parts = 1 .. s.next + 1
      /\ \A i \in 1 .. s.next : t.parts[i] = s.parts[i]
      /\ t.parts[s.next + 1] = c.msg
  BY <1>3, <1>5, <1>6
<1>8. \A i \in DOMAIN t.parts : t.parts[i] \in DOMAIN fgSent /\ fgSent[t.parts[i]].id = t.id
  <2> TAKE i \in DOMAIN t.parts
  <2>1. CASE i = s.next + 1
    BY <1>3, <1>5, <1>7, <2>1
  <2>2. CASE i # s.next + 1
    <3>1. i \in 1 .. s.next /\ i \in DOMAIN s.parts  BY <1>6, <1>7, <2>2
    <3>2. QED  BY <1>1, <1>5, <1>7, <3>1 DEF FgSlotOk
  <2>3. QED  BY <2>1, <2>2
<1> DEFINE o == s.parts[1]
<1>9. /\ o \in DOMAIN fgSeen /\ s.at = fgSeen[o].first /\ s.total = fgSent[o].len
      /\ c.msg = o => c.seq = s.next
  BY <1>1, <1>2 DEF FgSlotOk
<1>10. /\ UNCHANGED fgSent /\ DOMAIN fgSeen' = DOMAIN fgSeen \cup {c.msg}
       /\ o # c.msg => fgSeen'[o] = fgSeen[o] /\ FgDone(o) /\ FgDone(o)'
       /\ fgSeen'[c.msg].first = IF c.seq = 0 THEN fgTime ELSE fgSeen[c.msg].first
       /\ FgDone(c.msg)' <=> ~(c.seq + 1 < fgSent[c.msg].out)
       /\ fgNet' # <<>> /\ fgNet'[1].msg = c.msg => fgNet'[1].seq = c.seq + 1
       /\ FgNetInv'
  BY <1>2, <1>9, FgReadMoves
<1>11. o \in DOMAIN fgSeen' /\ s.at = fgSeen'[o].first  BY <1>6, <1>9, <1>10
<1>12. fgNet' # <<>> /\ fgNet'[1].msg = o => fgNet'[1].seq = t.next
  <2>1. CASE o = c.msg
    BY <1>5, <1>9, <1>10, <2>1
  <2>2. CASE o # c.msg
    <3>1. o \in Nat  BY <1>2, <1>9, FgSeenBefore
    <3>2. QED  BY <1>10, <2>2, <3>1 DEF FgDone
  <2>3. QED  BY <2>1, <2>2
<1>13. FgDone(o)' => fgSent[o].out < fgSent[o].len
  <2>1. CASE o = c.msg
    <3>1. c.seq # c.total - 1 /\ fgSent[c.msg].out \in Nat /\ c.total \in Nat
          /\ fgSent[c.msg].out <= c.total
      BY <1>2, <1>3, FgSentTyped
    <3>2. QED  BY <1>3, <1>10, <2>1, <3>1
  <2>2. CASE o # c.msg
    BY <1>1, <1>10, <2>2 DEF FgSlotOk
  <2>3. QED  BY <2>1, <2>2
<1>14. FgSlotOk(t)'
  <2>1. fgSent' = fgSent /\ t.parts[1] = o  BY <1>7, <1>10
  <2> HIDE DEF o
  <2>2. QED  BY <1>5, <1>7, <1>8, <1>9, <1>11, <1>12, <1>13, <2>1 DEF FgSlotOk
<1>15. QED  BY <1>5, <1>7, <1>14

\* A new slot.
LEMMA FgSlotNew ==
    ASSUME FgInv, FgRead, NEW c, c = fgNet[1], c.kind \notin {"whole", "end"}, c.seq = 0,
           NEW t, t = FgMore(FgNewSlot(c), c)
    PROVE  FgSlotOk(t)' /\ t.id = c.id /\ t.parts[1] = c.msg
<1>2. FgNetInv /\ FgSeenInv /\ fgNet # <<>>  BY FgReadMoves DEF FgInv
<1>3. /\ c.msg \in DOMAIN fgSent /\ c.msg \in Nat /\ c.id = fgSent[c.msg].id
      /\ c.total = fgSent[c.msg].len /\ c.seq < fgSent[c.msg].out
      /\ c.kind = "whole" <=> c.total = 1
  BY <1>2, FgFirst
<1>4. t = [id |-> c.id, total |-> c.total, next |-> 0 + 1, parts |-> Append(<<>>, c.msg), at |-> fgTime]
  <2>1. PICK a, b, d, e, f : a = c.id /\ b = c.total /\ d = 0 /\ e = <<>> /\ f = fgTime  OBVIOUS
  <2>2. FgNewSlot(c) = [id |-> a, total |-> b, next |-> d, parts |-> e, at |-> f]
    BY <2>1 DEF FgNewSlot
  <2>3. FgMore(FgNewSlot(c), c)
          = [id |-> a, total |-> b, next |-> d + 1, parts |-> Append(e, c.msg), at |-> f]
    BY <2>2, FgMoreIs
  <2>4. QED  BY <2>1, <2>3
<1>5. /\ t.id = c.id /\ t.total = c.total /\ t.next = 1
      /\ t.parts = <<c.msg>> /\ t.at = fgTime
      /\ t = [id |-> t.id, total |-> t.total, next |-> t.next, parts |-> t.parts, at |-> t.at]
  <2>1. Append(<<>>, c.msg) = <<c.msg>>  BY <1>3
  <2>2. QED  BY <1>4, <2>1
<1>6. /\ UNCHANGED fgSent /\ c.msg \in DOMAIN fgSeen' /\ fgSeen'[c.msg].first = fgTime
      /\ FgDone(c.msg)' <=> ~(c.seq + 1 < fgSent[c.msg].out)
      /\ fgNet' # <<>> /\ fgNet'[1].msg = c.msg => fgNet'[1].seq = c.seq + 1
  BY <1>2, FgReadMoves
<1>7. FgDone(c.msg)' => fgSent[c.msg].out < fgSent[c.msg].len  BY <1>2, <1>3, <1>6, FgSentTyped
<1>8. t.parts \in Seq(Nat) /\ Len(t.parts) = 1 /\ DOMAIN t.parts = {1} /\ t.parts[1] = c.msg
  BY <1>3, <1>5
<1>9. FgSlotOk(t)'  BY <1>3, <1>5, <1>6, <1>7, <1>8 DEF FgSlotOk
<1>10. QED  BY <1>5, <1>8, <1>9


\* Fewer slots are a finite set of sound slots.
LEMMA FgLiveSound ==
    ASSUME FgInv
    PROVE  /\ IsFiniteSet(FgLive) /\ FgLive \subseteq fgSlots
           /\ \A s \in FgLive : FgSlotOk(s) /\ fgTime - s.at <= FgTimeout
           /\ \A s, t \in FgLive : s.id = t.id => s = t
<1>1. FgLive \subseteq fgSlots  BY DEF FgLive
<1>2. IsFiniteSet(FgLive)  BY <1>1, FS_Subset DEF FgInv, FgSlotsInv
<1>3. \A s \in FgLive : FgSlotOk(s)  BY <1>1 DEF FgInv, FgSlotsInv
<1>4. \A s \in FgLive : fgTime - s.at <= FgTimeout
  <2> SUFFICES ASSUME NEW s \in FgLive PROVE fgTime - s.at <= FgTimeout
    OBVIOUS
  <2>1. ~(fgTime - s.at > FgTimeout)  BY DEF FgLive, FgExpired
  <2>2. s.at \in Nat /\ fgTime \in Nat  BY <1>3 DEF FgSlotOk, FgInv, FgSeenInv
  <2>3. QED  BY <2>1, <2>2, FgAssumption
<1>5. QED  BY <1>1, <1>2, <1>3, <1>4 DEF FgInv, FgSlotsInv

\* Reading a cell keeps the slots sound.
LEMMA FgSlotsRead ==
    ASSUME FgInv, FgRead
    PROVE  FgSlotsInv'
<1>1. PICK c : c = fgNet[1]  OBVIOUS
<1>2. FgNetInv /\ FgSeenInv /\ fgNet # <<>>  BY FgReadMoves DEF FgInv
<1>3. /\ c.msg \in DOMAIN fgSent /\ c.seq \in Nat /\ c.id = fgSent[c.msg].id
      /\ c.total = fgSent[c.msg].len /\ (c.kind = "whole" <=> c.total = 1)
      /\ c.seq < c.total /\ c.total <= FgMaxLen /\ c.total \in Nat
  BY <1>1, <1>2, FgFirst, FgSentTyped
<1>4. CASE c.kind = "whole"
  <2>1. fgSlots' = fgSlots
    <3>1. Head(fgNet) = c  BY <1>1, <1>2 DEF FgNetInv
    <3>2. QED  BY <1>4, <3>1 DEF FgRead
  <2>2. \A s \in fgSlots : s.parts[1] # c.msg
    <3> SUFFICES ASSUME NEW s \in fgSlots, s.parts[1] = c.msg PROVE FALSE
      OBVIOUS
    <3>1. FgSlotOk(s)  BY DEF FgInv, FgSlotsInv
    <3>2. c.seq = s.next /\ s.next > 0  BY <1>1, <1>2, <3>1 DEF FgSlotOk
    <3>3. QED  BY <1>3, <1>4, <3>2
  <2>3. \A s \in fgSlots' : FgSlotOk(s)'  BY <1>1, <2>1, <2>2, FgSlotStays
  <2>4. QED  BY <2>1, <2>3 DEF FgInv, FgSlotsInv
<1>5. CASE c.kind # "whole"
  <2>1. FgTook(c)  BY <1>1, <1>2, <1>5, FgReceives
  <2>2. /\ IsFiniteSet(FgLive) /\ FgLive \subseteq fgSlots
        /\ \A s \in FgLive : FgSlotOk(s)
        /\ \A s, t \in FgLive : s.id = t.id => s = t
    BY FgLiveSound
\* A slot its own message opened takes the message's cell.
  <2>3. \A s \in FgLive : s.parts[1] = c.msg => s.id = c.id /\ FgFits(s, c)
    <3> SUFFICES ASSUME NEW s \in FgLive, s.parts[1] = c.msg PROVE s.id = c.id /\ FgFits(s, c)
      OBVIOUS
    <3>1. FgSlotOk(s)  BY <2>2
    <3>2. /\ c.seq = s.next /\ s.total = c.total /\ s.next = Len(s.parts)
          /\ s.next > 0 /\ s.next \in Nat
      BY <1>1, <1>2, <1>3, <3>1 DEF FgSlotOk
    <3>3. s.id = c.id
      <4>1. 1 \in DOMAIN s.parts  BY <3>1 DEF FgSlotOk
      <4>2. QED  BY <1>3, <3>1, <4>1 DEF FgSlotOk
    <3>4. QED  BY <1>3, <3>2, <3>3, FgAssumption DEF FgFits
  <2>4. CASE /\ fgSlots' = FgLive
             /\ \A s \in FgLive : s.id = c.id => ~FgFits(s, c)
    <3>1. \A s \in FgLive : s.parts[1] # c.msg  BY <2>3, <2>4
    <3>2. \A s \in fgSlots' : FgSlotOk(s)'  BY <1>1, <2>2, <2>4, <3>1, FgSlotStays
    <3>3. QED  BY <2>2, <2>4, <3>2 DEF FgSlotsInv
  <2>5. ASSUME NEW s \in FgLive, s.id = c.id, FgFits(s, c),
               fgSlots' = (FgLive \ {s}) \cup (IF c.kind = "end" THEN {} ELSE {FgMore(s, c)})
        PROVE  FgSlotsInv'
    <3>1. \A x \in FgLive \ {s} : FgSlotOk(x)' /\ x.id # c.id
      <4> SUFFICES ASSUME NEW x \in FgLive, x # s PROVE FgSlotOk(x)' /\ x.id # c.id
        OBVIOUS
      <4>1. x.id # c.id  BY <2>2, <2>5
      <4>2. x.parts[1] # c.msg  BY <2>3, <4>1
      <4>3. QED  BY <1>1, <2>2, <4>1, <4>2, FgSlotStays
    <3>2. IsFiniteSet(FgLive \ {s}) /\ IsFiniteSet({FgMore(s, c)})
      BY <2>2, FS_Subset, FS_Singleton
    <3>3. CASE c.kind = "end"
      <4>1. fgSlots' = FgLive \ {s}  BY <2>5, <3>3
      <4>2. QED  BY <2>2, <3>1, <3>2, <4>1 DEF FgSlotsInv
    <3>4. CASE c.kind # "end"
      <4>1. PICK t : t = FgMore(s, c)  OBVIOUS
      <4>2. fgSlots' = (FgLive \ {s}) \cup {t}  BY <2>5, <3>4, <4>1
      <4>3. FgSlotOk(t)' /\ t.id = c.id  BY <1>1, <1>5, <2>2, <2>5, <3>4, <4>1, FgSlotGrows
      <4>4. IsFiniteSet(fgSlots')  BY <3>2, <4>1, <4>2, FS_Union
      <4>5. QED  BY <2>2, <3>1, <4>2, <4>3, <4>4 DEF FgSlotsInv
    <3>5. QED  BY <3>3, <3>4
  <2>6. CASE /\ \A s \in FgLive : s.id # c.id
             /\ c.seq = 0 /\ c.kind # "end"
             /\ fgSlots' = FgLive \cup {FgMore(FgNewSlot(c), c)}
    <3>1. PICK t : t = FgMore(FgNewSlot(c), c)  OBVIOUS
    <3>2. fgSlots' = FgLive \cup {t}  BY <2>6, <3>1
    <3>3. FgSlotOk(t)' /\ t.id = c.id  BY <1>1, <1>5, <2>6, <3>1, FgSlotNew
    <3>4. \A s \in FgLive : FgSlotOk(s)'  BY <1>1, <2>2, <2>3, <2>6, FgSlotStays
    <3>5. IsFiniteSet(fgSlots')  BY <2>2, <3>2, FS_Singleton, FS_Union
    <3>6. QED  BY <2>2, <2>6, <3>2, <3>3, <3>4, <3>5 DEF FgSlotsInv
  <2>7. QED  BY <2>1, <2>4, <2>5, <2>6 DEF FgTook
<1>6. QED  BY <1>4, <1>5


\* What is handed on is of one identifier.
LEMMA FgGotRead ==
    ASSUME FgInv, FgRead
    PROVE  FgGotInv'
<1>1. PICK c : c = fgNet[1]  OBVIOUS
<1>2. FgNetInv /\ FgSeenInv /\ fgNet # <<>> /\ fgSent' = fgSent  BY FgReadMoves DEF FgInv
<1>3. c.msg \in DOMAIN fgSent /\ c.id = fgSent[c.msg].id /\ c.msg \in Nat
  BY <1>1, <1>2, FgFirst
<1>4. ASSUME NEW p \in fgGot', p \notin fgGot
      PROVE  \A i \in DOMAIN p : /\ p[i] \in DOMAIN fgSent /\ p[1] \in DOMAIN fgSent
                                 /\ fgSent[p[i]].id = fgSent[p[1]].id
  <2>1. CASE c.kind = "whole"
    <3>1. Head(fgNet) = c  BY <1>1, <1>2 DEF FgNetInv
    <3>2. p = <<c.msg>>  BY <1>4, <2>1, <3>1 DEF FgRead
    <3>3. QED  BY <1>3, <3>2
  <2>2. CASE c.kind # "whole"
    <3>1. FgTook(c)  BY <1>1, <1>2, <2>2, FgReceives
    <3>2. PICK s \in FgLive : s.id = c.id /\ p = FgMore(s, c).parts  BY <1>4, <3>1 DEF FgTook
    <3>3. FgSlotOk(s)  BY FgLiveSound
    <3>4. p = Append(s.parts, c.msg)
      <4>1. PICK a, b, d, e, f : s = [id |-> a, total |-> b, next |-> d, parts |-> e, at |-> f]
        BY <3>3 DEF FgSlotOk
      <4>2. FgMore(s, c) = [id |-> a, total |-> b, next |-> d + 1, parts |-> Append(e, c.msg), at |-> f]
        BY <4>1, FgMoreIs
      <4>3. QED  BY <3>2, <4>1, <4>2
    <3>5. s.parts \in Seq(Nat) /\ Len(s.parts) \in Nat /\ Len(s.parts) > 0
          /\ DOMAIN s.parts = 1 .. Len(s.parts)
      BY <3>3 DEF FgSlotOk
    <3>6. /\ DOMAIN p = 1 .. Len(s.parts) + 1 /\ p[Len(s.parts) + 1] = c.msg
          /\ \A i \in 1 .. Len(s.parts) : p[i] = s.parts[i]
      BY <1>3, <3>4, <3>5
    <3>7. \A i \in DOMAIN p : p[i] \in DOMAIN fgSent /\ fgSent[p[i]].id = c.id
      <4> TAKE i \in DOMAIN p
      <4>1. CASE i = Len(s.parts) + 1
        BY <1>3, <3>6, <4>1
      <4>2. CASE i # Len(s.parts) + 1
        <5>1. i \in DOMAIN s.parts /\ p[i] = s.parts[i]  BY <3>5, <3>6, <4>2
        <5>2. QED  BY <3>2, <3>3, <5>1 DEF FgSlotOk
      <4>3. QED  BY <4>1, <4>2
    <3>8. 1 \in DOMAIN p  BY <3>5, <3>6
    <3>9. QED  BY <3>7, <3>8
  <2>3. QED  BY <2>1, <2>2
<1>5. QED  BY <1>2, <1>4 DEF FgInv, FgGotInv

\* The unfinished messages that hold slots against m are those before it.
LEMMA FgHoldingKept ==
    ASSUME FgInv, FgRead, NEW c, c = fgNet[1], NEW m \in DOMAIN fgSeen,
           fgSeen'[m].first = fgSeen[m].first
    PROVE  FgHolding(m)' = FgHolding(m)
<1>1. FgNetInv /\ FgSeenInv /\ fgNet # <<>> /\ fgSent' = fgSent  BY FgReadMoves DEF FgInv
<1>2. /\ DOMAIN fgSeen' = DOMAIN fgSeen \cup {c.msg}
      /\ \A k \in DOMAIN fgSeen : k # c.msg => fgSeen'[k] = fgSeen[k]
  BY <1>1, FgReadMoves
<1>3. m \in Nat /\ m <= c.msg /\ c.msg \in Nat  BY <1>1, FgSeenBefore, FgFirst
<1>4. \A k \in 1 .. m - 1 : k # c.msg  BY <1>3
<1>5. \A k \in 1 .. m - 1 : /\ k \in DOMAIN fgSeen' <=> k \in DOMAIN fgSeen
                            /\ k \in DOMAIN fgSeen => fgSeen'[k] = fgSeen[k]
  BY <1>2, <1>4
<1>6. QED  BY <1>1, <1>5 DEF FgHolding

\* An undisturbed message stays on its way.
LEMMA FgWayOther ==
    ASSUME FgInv, FgRead, NEW c, c = fgNet[1], NEW m \in DOMAIN fgSeen', m # c.msg
    PROVE  FgWay(m)'
<1>1. FgNetInv /\ FgSeenInv /\ fgNet # <<>> /\ fgSent' = fgSent  BY FgReadMoves DEF FgInv
<1>2. m \in DOMAIN fgSeen /\ fgSeen'[m] = fgSeen[m] /\ FgDone(m) /\ FgDone(m)'
  BY <1>1, FgReadMoves
<1>3. FgHolding(m)' = FgHolding(m)  BY <1>2, FgHoldingKept
<1>4. fgGot \subseteq fgGot'  BY DEF FgRead
<1>5. FgWay(m)  BY <1>2 DEF FgInv, FgWayInv
<1>6. FgUndisturbed(m)' => FgUndisturbed(m)  BY <1>1, <1>2, <1>3 DEF FgUndisturbed, FgCollides
<1>7. QED  BY <1>1, <1>2, <1>4, <1>5, <1>6 DEF FgWay


\* The slots in use when a message starts are held by unfinished ones.
LEMMA FgRoom ==
    ASSUME FgInv, FgRead, NEW c, c = fgNet[1], c.seq = 0
    PROVE  /\ \A s \in FgLive : s.parts[1] # c.msg
           /\ Cardinality(FgLive) <= Cardinality(FgHolding(c.msg)')
           /\ Cardinality(FgLive) \in Nat /\ Cardinality(FgHolding(c.msg)') \in Nat
<1>1. FgNetInv /\ FgSeenInv /\ fgNet # <<>> /\ fgSent' = fgSent  BY FgReadMoves DEF FgInv
<1>2. /\ DOMAIN fgSeen' = DOMAIN fgSeen \cup {c.msg}
      /\ \A k \in DOMAIN fgSeen : k # c.msg => fgSeen'[k] = fgSeen[k]
      /\ fgSeen'[c.msg].first = fgTime
  BY <1>1, FgReadMoves
<1>3. /\ IsFiniteSet(FgLive)
      /\ \A s \in FgLive : FgSlotOk(s) /\ fgTime - s.at <= FgTimeout
      /\ \A s, t \in FgLive : s.id = t.id => s = t
  BY FgLiveSound
<1>4. c.msg \in Nat  BY <1>1, FgFirst
<1>5. \A s \in FgLive : s.parts[1] # c.msg  BY <1>1, <1>3 DEF FgSlotOk
<1> DEFINE H == FgHolding(c.msg)'
           f == [s \in FgLive |-> s.parts[1]]
<1>6. IsFiniteSet(H)
  <2>1. H \subseteq 1 .. c.msg - 1  BY DEF FgHolding
  <2>2. IsFiniteSet(1 .. c.msg - 1)  BY <1>4, FS_Interval
  <2> HIDE DEF H
  <2>3. QED  BY <2>1, <2>2, FS_Subset
<1>7. \A s \in FgLive : s.parts[1] \in H
  <2> SUFFICES ASSUME NEW s \in FgLive PROVE s.parts[1] \in H
    OBVIOUS
  <2> DEFINE k == s.parts[1]
  <2>1. FgSlotOk(s) /\ fgTime - s.at <= FgTimeout /\ k # c.msg  BY <1>3, <1>5
  <2>2. k \in DOMAIN fgSeen /\ s.at = fgSeen[k].first /\ (FgDone(k) => fgSent[k].out < fgSent[k].len)
    BY <2>1 DEF FgSlotOk
  <2>3. k \in DOMAIN fgSent /\ k \in Nat /\ k <= c.msg /\ FgDone(k)
    BY <1>1, <2>1, <2>2, FgSeenBefore
  <2>4. k \in 1 .. c.msg - 1  BY <1>1, <1>4, <2>1, <2>3, FgSentTyped
  <2>5. k \in DOMAIN fgSeen' /\ fgSeen'[k].first = s.at  BY <1>2, <2>1, <2>2
  <2> HIDE DEF k
  <2>6. k \in H  BY <1>1, <1>2, <2>1, <2>2, <2>3, <2>4, <2>5 DEF FgHolding
  <2>7. QED  BY <2>6 DEF k
<1>8. f \in Injection(FgLive, H)
  <2>1. f \in [FgLive -> H]  BY <1>7
  <2>2. ASSUME NEW s \in FgLive, NEW t \in FgLive, s.parts[1] = t.parts[1]
        PROVE  s = t
    <3>1. FgSlotOk(s) /\ FgSlotOk(t)  BY <1>3
    <3>2. 1 \in DOMAIN s.parts /\ 1 \in DOMAIN t.parts  BY <3>1 DEF FgSlotOk
    <3>3. s.id = t.id  BY <2>2, <3>1, <3>2 DEF FgSlotOk
    <3>4. QED  BY <1>3, <3>3
  <2>3. \A a, b \in FgLive : f[a] = f[b] => a = b  BY <2>2
  <2>4. QED  BY <2>1, <2>3 DEF Injection, IsInjective
<1> HIDE DEF f, H
<1>9. Cardinality(FgLive) <= Cardinality(H)  BY <1>6, <1>8, FS_Injection
<1>10. Cardinality(FgLive) \in Nat /\ Cardinality(H) \in Nat  BY <1>3, <1>6, FS_CardinalityType
<1>11. QED  BY <1>5, <1>9, <1>10 DEF H

\* The message of the cell that is read.
LEMMA FgWayOwn ==
    ASSUME FgInv, FgRead, NEW c, c = fgNet[1], NEW m, m = c.msg
    PROVE  FgWay(m)'
<1>1. FgNetInv /\ FgSeenInv /\ fgNet # <<>> /\ fgSent' = fgSent /\ fgTime' = fgTime
  BY FgReadMoves DEF FgInv
<1>2. /\ m \in DOMAIN fgSeen' /\ fgSeen'[m].last = fgTime
      /\ fgSeen'[m].first = IF c.seq = 0 THEN fgTime ELSE fgSeen[m].first
      /\ FgDone(m)' <=> ~(c.seq + 1 < fgSent[m].out)
  BY <1>1, FgReadMoves
<1>3. /\ m \in DOMAIN fgSent /\ m \in Nat /\ c.seq \in Nat /\ c.seq < fgSent[m].out
      /\ c.id = fgSent[m].id /\ c.total = fgSent[m].len
      /\ c.kind = "whole" <=> c.total = 1
      /\ c.kind = "end" <=> c.total # 1 /\ c.seq = c.total - 1
  BY <1>1, FgFirst
<1>4. /\ fgSent[m].len \in Nat /\ fgSent[m].out \in Nat /\ fgSent[m].out <= fgSent[m].len
      /\ fgSent[m].len <= FgMaxLen
  BY <1>1, <1>3, FgSentTyped
<1> SUFFICES ASSUME FgUndisturbed(m)'
             PROVE  IF FgDone(m)'
                    THEN fgSent[m].out = fgSent[m].len => [i \in 1 .. fgSent[m].len |-> m] \in fgGot'
                    ELSE \E s \in fgSlots' : s.parts[1] = m
  BY <1>1 DEF FgWay
<1>5. /\ ~FgCollides(m) /\ Cardinality(FgHolding(m)') < FgSlots
      /\ fgTime - fgSeen'[m].first <= FgTimeout
  BY <1>1, <1>2 DEF FgUndisturbed, FgCollides
<1>6. \A k \in DOMAIN fgSent : fgSent[k].id = c.id => k = m  BY <1>3, <1>5 DEF FgCollides
<1>7. \A s \in FgLive : s.id = c.id => s.parts[1] = m
  <2> SUFFICES ASSUME NEW s \in FgLive, s.id = c.id PROVE s.parts[1] = m
    OBVIOUS
  <2>1. FgSlotOk(s)  BY FgLiveSound
  <2>2. 1 \in DOMAIN s.parts  BY <2>1 DEF FgSlotOk
  <2>3. QED  BY <1>6, <2>1, <2>2 DEF FgSlotOk
<1>8. CASE c.kind = "whole"
  <2>1. Head(fgNet) = c  BY <1>1 DEF FgNetInv
  <2>2. <<m>> \in fgGot'  BY <1>8, <2>1 DEF FgRead
  <2>3. fgSent[m].len = 1 /\ FgDone(m)'  BY <1>2, <1>3, <1>4, <1>8
  <2>4. [i \in 1 .. 1 |-> m] = <<m>>  OBVIOUS
  <2>5. QED  BY <2>2, <2>3, <2>4
<1>9. CASE c.kind # "whole" /\ c.seq = 0
  <2>1. FgTook(c)  BY <1>1, <1>9, FgReceives
  <2>2. /\ \A s \in FgLive : s.parts[1] # m
        /\ Cardinality(FgLive) <= Cardinality(FgHolding(m)')
        /\ Cardinality(FgLive) \in Nat /\ Cardinality(FgHolding(m)') \in Nat
    BY <1>9, FgRoom
  <2>3. Cardinality(FgLive) < FgSlots  BY <1>5, <2>2, FgAssumption
  <2>4. \A s \in FgLive : s.id # c.id  BY <1>7, <2>2
  <2>5. c.kind # "end" /\ fgSlots' = FgLive \cup {FgMore(FgNewSlot(c), c)}
    BY <1>9, <2>1, <2>3, <2>4 DEF FgTook
  <2>6. FgMore(FgNewSlot(c), c) \in fgSlots' /\ FgMore(FgNewSlot(c), c).parts[1] = m
    BY <1>9, <2>5, FgSlotNew
  <2>7. FgDone(m)' => fgSent[m].out # fgSent[m].len  BY <1>2, <1>3, <1>4, <1>9
  <2>8. QED  BY <2>6, <2>7
<1>10. CASE c.kind # "whole" /\ c.seq # 0
  <2>1. m \in DOMAIN fgSeen /\ ~FgDone(m)
    <3>1. m \in DOMAIN fgSeen
      <4>1. c.seq > 0 /\ fgSent[m].out > 0  BY <1>3, <1>4, <1>10
      <4>2. FgReached(m)  BY <4>1 DEF FgReached
      <4>3. QED  BY <1>1, <1>3, <4>1, <4>2 DEF FgSeenInv
    <3>2. QED  BY <1>1, <3>1, FgSeenBefore
  <2>2. FgHolding(m)' = FgHolding(m) /\ fgSeen'[m].first = fgSeen[m].first
    BY <1>2, <1>10, <2>1, FgHoldingKept
  <2>3. /\ fgSeen[m].first \in Nat /\ fgSeen[m].last \in Nat /\ fgSeen[m].last <= fgTime
        /\ fgTime \in Nat
    BY <1>1, <2>1 DEF FgSeenInv
  <2>4. FgUndisturbed(m)
    <3>1. fgSeen[m].last - fgSeen[m].first <= FgTimeout  BY <1>5, <2>2, <2>3, FgAssumption
    <3>2. QED  BY <1>5, <2>2, <3>1 DEF FgUndisturbed
  <2>5. PICK s \in fgSlots : s.parts[1] = m  BY <2>1, <2>4 DEF FgInv, FgWayInv, FgWay
  <2>6. FgSlotOk(s)  BY DEF FgInv, FgSlotsInv
  <2>7. /\ s.at = fgSeen[m].first /\ c.seq = s.next /\ s.total = fgSent[m].len
        /\ s.parts \in Seq(Nat) /\ s.next = Len(s.parts) /\ s.next \in Nat /\ s.next > 0
        /\ DOMAIN s.parts = 1 .. s.next
        /\ \A i \in DOMAIN s.parts : s.parts[i] \in DOMAIN fgSent /\ fgSent[s.parts[i]].id = s.id
    BY <1>1, <2>5, <2>6 DEF FgSlotOk
  <2>8. s.id = c.id /\ FgFits(s, c)
    <3>1. 1 \in DOMAIN s.parts  BY <2>7
    <3>2. s.id = c.id  BY <1>3, <2>5, <2>7, <3>1
    <3>3. Len(s.parts) < FgMaxLen  BY <1>3, <1>4, <2>7, FgAssumption
    <3>4. QED  BY <1>3, <2>7, <3>2, <3>3 DEF FgFits
  <2>9. s \in FgLive  BY <1>5, <2>2, <2>3, <2>7, FgAssumption DEF FgLive, FgExpired
  <2>10. /\ fgSlots' = (FgLive \ {s}) \cup (IF c.kind = "end" THEN {} ELSE {FgMore(s, c)})
         /\ fgGot' = fgGot \cup (IF c.kind = "end" /\ Len(FgMore(s, c).parts) = FgMore(s, c).total
                                 THEN {FgMore(s, c).parts} ELSE {})
    <3>1. FgTook(c)  BY <1>1, <1>10, FgReceives
    <3>2. \A x \in FgLive : x.id = c.id => x = s  BY <2>8, <2>9, FgLiveSound
    <3>3. QED  BY <2>8, <2>9, <3>1, <3>2 DEF FgTook
  <2>11. CASE c.kind # "end"
    <3>1. FgMore(s, c) \in fgSlots'  BY <2>10, <2>11
    <3>2. FgMore(s, c).parts[1] = m  BY <1>10, <2>5, <2>8, <2>11, FgSlotGrows
    <3>3. FgDone(m)' => fgSent[m].out # fgSent[m].len  BY <1>2, <1>3, <1>4, <1>10, <2>11
    <3>4. QED  BY <3>1, <3>2, <3>3
  <2>12. CASE c.kind = "end"
    <3>1. FgMore(s, c).parts = Append(s.parts, m) /\ FgMore(s, c).total = s.total
      <4>1. PICK a, b, d, e, f : s = [id |-> a, total |-> b, next |-> d, parts |-> e, at |-> f]
        BY <2>6 DEF FgSlotOk
      <4>2. FgMore(s, c) = [id |-> a, total |-> b, next |-> d + 1, parts |-> Append(e, c.msg), at |-> f]
        BY <4>1, FgMoreIs
      <4>3. QED  BY <4>1, <4>2
    <3>2. s.next + 1 = fgSent[m].len  BY <1>3, <1>4, <2>7, <2>12
    <3>3. /\ Len(Append(s.parts, m)) = s.next + 1 /\ DOMAIN Append(s.parts, m) = 1 .. s.next + 1
          /\ \A i \in 1 .. s.next : Append(s.parts, m)[i] = s.parts[i]
          /\ Append(s.parts, m)[s.next + 1] = m
          /\ Append(s.parts, m) \in Seq(Nat)
      BY <1>3, <2>7
    <3>4. Append(s.parts, m) \in fgGot'  BY <2>7, <2>10, <2>12, <3>1, <3>2, <3>3
    <3>5. \A i \in 1 .. s.next + 1 : Append(s.parts, m)[i] = m
      <4> TAKE i \in 1 .. s.next + 1
      <4>1. CASE i = s.next + 1
        BY <3>3, <4>1
      <4>2. CASE i # s.next + 1
        <5>1. i \in 1 .. s.next  BY <2>7, <4>2
        <5>2. s.parts[i] = m  BY <1>6, <2>7, <2>8, <5>1
        <5>3. QED  BY <3>3, <5>1, <5>2
      <4>3. QED  BY <4>1, <4>2
    <3>6. Append(s.parts, m) = [i \in 1 .. fgSent[m].len |-> m]
      <4> DEFINE p == Append(s.parts, m)
      <4>1. p = [i \in DOMAIN p |-> p[i]]
        <5>1. p \in Seq(Nat)  BY <3>3
        <5> HIDE DEF p
        <5>2. p \in [1 .. Len(p) -> Nat]  BY <5>1
        <5>3. QED  BY <5>2
      <4> HIDE DEF p
      <4>2. QED  BY <3>2, <3>3, <3>5, <4>1 DEF p
    <3>7. FgDone(m)'  BY <1>2, <1>3, <1>4, <2>12
    <3>8. QED  BY <3>4, <3>6, <3>7
  <2>13. QED  BY <2>11, <2>12
<1>11. QED  BY <1>8, <1>9, <1>10


\* Reading a cell.
LEMMA FgReadKeeps ==
    ASSUME FgInv, FgRead
    PROVE  FgInv'
<1>1. PICK c : c = fgNet[1]  OBVIOUS
<1>2. FgNetInv' /\ FgSeenInv'  BY <1>1, FgReadMoves DEF FgInv
<1>3. FgSlotsInv' /\ FgGotInv'  BY FgSlotsRead, FgGotRead
<1>4. \A m \in DOMAIN fgSeen' : FgWay(m)'  BY <1>1, FgWayOther, FgWayOwn
<1>5. QED  BY <1>2, <1>3, <1>4 DEF FgInv, FgWayInv

\* Sending a message.
LEMMA FgSendKeeps ==
    ASSUME FgInv, NEW id \in FgIds, NEW len \in FgLens, NEW out \in 0 .. len, FgSend(id, len, out)
    PROVE  FgInv'
<1>n. PICK n, L : n = Len(fgSent) + 1 /\ L = Len(fgNet)  OBVIOUS
<1>0. FgNetInv /\ FgSeenInv /\ FgSlotsInv /\ FgGotInv /\ FgWayInv  BY DEF FgInv
<1>1. len \in Nat \ {0} /\ out \in Nat /\ UNCHANGED <<fgSlots, fgSeen, fgGot, fgTime>>
  BY FgAssumption DEF FgSend
<1>2. /\ Len(fgSent) \in Nat /\ DOMAIN fgSent = 1 .. Len(fgSent) /\ DOMAIN fgSent' = 1 .. Len(fgSent) + 1
      /\ \A m \in DOMAIN fgSent : fgSent'[m] = fgSent[m]
      /\ fgSent'[n] = [id |-> id, len |-> len, out |-> out]
      /\ L \in Nat /\ DOMAIN fgNet = 1 .. L /\ DOMAIN fgNet' = 1 .. L + out
      /\ \A i \in 1 .. L : fgNet'[i] = fgNet[i]
      /\ \A i \in 1 .. out : fgNet'[L + i] = FgCells(n, id, len)[i]
      /\ fgNet \in Seq(FgCellRec) /\ fgNet' \in Seq(FgCellRec)
  BY <1>n, <1>0, FgSendEffect DEF FgNetInv
<1>3. FgNetInv'  BY <1>0, FgNetSend
<1>4. fgNet # <<>> => L # 0 /\ fgNet' # <<>> /\ fgNet'[1] = fgNet[1]
  <2> SUFFICES ASSUME fgNet # <<>> PROVE L # 0 /\ fgNet' # <<>> /\ fgNet'[1] = fgNet[1]
    OBVIOUS
  <2>1. L # 0  BY <1>n, <1>2
  <2>2. 1 \in 1 .. L /\ 1 \in DOMAIN fgNet'  BY <1>1, <1>2, <2>1
  <2>3. fgNet' # <<>>
    <3> SUFFICES ASSUME fgNet' = <<>> PROVE FALSE
      OBVIOUS
    <3>1. DOMAIN fgNet' = DOMAIN <<>>  BY Zenon
    <3>2. DOMAIN <<>> = {}  OBVIOUS
    <3>3. QED  BY <2>2, <3>1, <3>2, Zenon
  <2>4. QED  BY <1>2, <2>1, <2>2, <2>3
<1>5. fgNet = <<>> /\ fgNet' # <<>> => fgNet'[1].msg = n /\ fgNet'[1].seq = 0
  <2> SUFFICES ASSUME fgNet = <<>>, fgNet' # <<>> PROVE fgNet'[1].msg = n /\ fgNet'[1].seq = 0
    OBVIOUS
  <2>1. L = 0  BY <1>n
  <2>2. 1 \in 1 .. out
    <3>1. Len(fgNet') # 0  BY <1>2
    <3>2. DOMAIN fgNet' = 1 .. Len(fgNet') /\ Len(fgNet') \in Nat  BY <1>2, LenProperties
    <3>3. 1 \in 1 .. L + out  BY <1>2, <3>1, <3>2
    <3>4. QED  BY <1>1, <2>1, <3>3
  <2>3. fgNet'[1] = FgCells(n, id, len)[1]  BY <1>2, <2>1, <2>2
  <2>4. n \in Nat /\ 1 \in 1 .. len  BY <1>n, <1>1, <1>2
  <2>5. FgCells(n, id, len)[1].msg = n /\ FgCells(n, id, len)[1].seq = 1 - 1
    BY <2>4 DEF FgCells
  <2>6. QED  BY <2>3, <2>5
<1>6. \A m \in DOMAIN fgSent : (FgDone(m)' <=> FgDone(m)) /\ (FgReached(m)' <=> FgReached(m))
                               /\ m # n /\ m \in Nat
  <2> SUFFICES ASSUME NEW m \in DOMAIN fgSent
               PROVE  (FgDone(m)' <=> FgDone(m)) /\ (FgReached(m)' <=> FgReached(m))
                      /\ m # n /\ m \in Nat
    OBVIOUS
  <2>1. m \in Nat /\ m < n  BY <1>n, <1>2
  <2>2. CASE fgNet # <<>>
    <3>1. fgNet' # <<>> /\ fgNet'[1] = fgNet[1]  BY <1>4, <2>2
    <3>2. QED  BY <2>1, <2>2, <3>1 DEF FgDone, FgReached
  <2>3. CASE fgNet = <<>>
    BY <1>5, <2>1, <2>3 DEF FgDone, FgReached
  <2>4. QED  BY <2>2, <2>3
<1>7. FgSeenInv'
  <2>1. DOMAIN fgSeen = {m \in DOMAIN fgSent : fgSent[m].out > 0 /\ FgReached(m)}
    BY <1>0 DEF FgSeenInv
  <2>2. n \in DOMAIN fgSent' /\ DOMAIN fgSent' = DOMAIN fgSent \cup {n}  BY <1>n, <1>2
  <2>3. fgSent'[n].out > 0 => ~FgReached(n)'
    <3> SUFFICES ASSUME out > 0 PROVE ~FgReached(n)'
      BY <1>2
    <3>1. fgNet' # <<>>
      <4> SUFFICES ASSUME fgNet' = <<>> PROVE FALSE
        OBVIOUS
      <4>1. DOMAIN fgNet' = DOMAIN <<>>  BY Zenon
      <4>2. DOMAIN <<>> = {}  OBVIOUS
      <4>3. 1 \in DOMAIN fgNet'  BY <1>1, <1>2
      <4>4. QED  BY <4>1, <4>2, <4>3, Zenon
    <3>2. CASE fgNet = <<>>
      <4>1. fgNet'[1].msg = n /\ fgNet'[1].seq = 0 /\ n \in Nat  BY <1>n, <1>2, <1>5, <3>1, <3>2
      <4>2. QED  BY <3>1, <4>1 DEF FgReached, FgDone
    <3>3. CASE fgNet # <<>>
      <4>1. fgNet'[1].msg \in 1 .. Len(fgSent)  BY <1>0, <1>2, <1>4, <3>3, FgFirst
      <4>2. QED  BY <1>n, <1>2, <3>1, <4>1 DEF FgReached, FgDone
    <3>4. QED  BY <3>2, <3>3
  <2>4. DOMAIN fgSeen' = {m \in DOMAIN fgSent' : fgSent'[m].out > 0 /\ FgReached(m)'}
    <3>1. ASSUME NEW m \in DOMAIN fgSeen
          PROVE  m \in DOMAIN fgSent' /\ fgSent'[m].out > 0 /\ FgReached(m)'
      BY <1>2, <1>6, <2>1, <2>2
    <3>2. ASSUME NEW m \in DOMAIN fgSent', fgSent'[m].out > 0, FgReached(m)'
          PROVE  m \in DOMAIN fgSeen
      <4>1. m # n  BY <2>3, <3>2
      <4>2. m \in DOMAIN fgSent  BY <2>2, <4>1
      <4>3. QED  BY <1>2, <1>6, <2>1, <3>2, <4>2
    <3>3. QED  BY <1>1, <3>1, <3>2
  <2>5. QED  BY <1>0, <1>1, <2>4 DEF FgSeenInv
<1>8. \A m \in DOMAIN fgSeen : m \in DOMAIN fgSent  BY <1>0 DEF FgSeenInv
<1>9. \A s \in fgSlots' : FgSlotOk(s)'
  <2> SUFFICES ASSUME NEW s \in fgSlots PROVE FgSlotOk(s)'
    BY <1>1
  <2>1. FgSlotOk(s)  BY <1>0 DEF FgSlotsInv
  <2> DEFINE o == s.parts[1]
  <2>2. o \in DOMAIN fgSeen /\ o \in DOMAIN fgSent /\ o # n /\ fgSent'[o] = fgSent[o]
        /\ (FgDone(o)' <=> FgDone(o))
    BY <1>2, <1>6, <1>8, <2>1 DEF FgSlotOk
  <2>3. fgNet' # <<>> /\ fgNet'[1].msg = o => fgNet'[1].seq = s.next
    <3>1. CASE fgNet = <<>>
      BY <1>5, <2>2, <3>1
    <3>2. CASE fgNet # <<>>
      BY <1>4, <2>1, <3>2 DEF FgSlotOk
    <3>3. QED  BY <3>1, <3>2
  <2>4. \A i \in DOMAIN s.parts : s.parts[i] \in DOMAIN fgSent' /\ fgSent'[s.parts[i]].id = s.id
    BY <1>2, <2>1 DEF FgSlotOk
  <2>5. QED  BY <1>1, <2>1, <2>2, <2>3, <2>4 DEF FgSlotOk
<1>10. FgSlotsInv'  BY <1>0, <1>1, <1>9 DEF FgSlotsInv
<1>11. FgGotInv'
  <2>1. \A m \in DOMAIN fgSent : m \in DOMAIN fgSent'  BY <1>2
  <2>2. QED  BY <1>0, <1>1, <1>2, <2>1 DEF FgGotInv
<1>12. ASSUME NEW m \in DOMAIN fgSeen'
       PROVE  FgWay(m)'
  <2>1. m \in DOMAIN fgSeen /\ m \in DOMAIN fgSent /\ m \in Nat /\ fgSent'[m] = fgSent[m]
        /\ (FgDone(m)' <=> FgDone(m))
    BY <1>1, <1>2, <1>6, <1>8
  <2>2. FgHolding(m)' = FgHolding(m)
    <3>1. \A k \in DOMAIN fgSeen : fgSent'[k] = fgSent[k]  BY <1>2, <1>8
    <3>2. QED  BY <1>1, <3>1 DEF FgHolding
  <2>3. FgCollides(m) => FgCollides(m)'
    <3>1. \A k \in DOMAIN fgSent : k \in DOMAIN fgSent' /\ fgSent'[k] = fgSent[k]  BY <1>2
    <3>2. QED  BY <2>1, <3>1 DEF FgCollides
  <2>4. FgUndisturbed(m)' => FgUndisturbed(m)  BY <1>1, <2>2, <2>3 DEF FgUndisturbed
  <2>5. FgWay(m)  BY <1>0, <2>1 DEF FgWayInv
  <2>6. QED  BY <1>1, <2>1, <2>4, <2>5 DEF FgWay
<1>13. FgWayInv'  BY <1>12 DEF FgWayInv
<1>14. QED  BY <1>3, <1>7, <1>10, <1>11, <1>13 DEF FgInv

\* Time passes.
LEMMA FgTickKeeps ==
    ASSUME FgInv, FgTick
    PROVE  FgInv'
<1>1. fgTime' = fgTime + 1 /\ UNCHANGED <<fgSent, fgNet, fgSlots, fgSeen, fgGot>>  BY DEF FgTick
<1>2. FgNetInv'  BY <1>1 DEF FgInv, FgNetInv
<1>3. FgSeenInv'
  <2>1. fgTime \in Nat /\ \A m \in DOMAIN fgSeen : fgSeen[m].last \in Nat /\ fgSeen[m].last <= fgTime
    BY DEF FgInv, FgSeenInv
  <2>2. fgTime' \in Nat /\ \A m \in DOMAIN fgSeen : fgSeen[m].last <= fgTime'  BY <1>1, <2>1
  <2>3. QED  BY <1>1, <2>2 DEF FgInv, FgSeenInv, FgReached, FgDone
<1>4. FgSlotsInv' /\ FgGotInv'  BY <1>1 DEF FgInv, FgSlotsInv, FgSlotOk, FgGotInv, FgDone
<1>5. FgWayInv'
  BY <1>1 DEF FgInv, FgWayInv, FgWay, FgUndisturbed, FgCollides, FgHolding, FgDone
<1>6. QED  BY <1>2, <1>3, <1>4, <1>5 DEF FgInv

\* Nothing is on the way at first.
LEMMA FgInitInv == FgInit => FgInv
<1> SUFFICES ASSUME FgInit PROVE FgInv
  OBVIOUS
<1>1. /\ fgSent = <<>> /\ fgNet = <<>> /\ fgSlots = {} /\ fgSeen = <<>> /\ fgGot = {} /\ fgTime = 0
  BY DEF FgInit
<1>2. DOMAIN fgSent = {} /\ DOMAIN fgNet = {} /\ DOMAIN fgSeen = {}  BY <1>1
<1>3. FgNetInv  BY <1>1, <1>2 DEF FgNetInv, FgInLine
<1>4. FgSeenInv  BY <1>1, <1>2 DEF FgSeenInv
<1>5. FgSlotsInv /\ FgGotInv /\ FgWayInv
  BY <1>1, <1>2, FS_EmptySet DEF FgSlotsInv, FgGotInv, FgWayInv
<1>6. QED  BY <1>3, <1>4, <1>5 DEF FgInv

\* Every step keeps the invariant.
LEMMA FgNextInv == FgInv /\ [FgNext]_fgVars => FgInv'
<1> SUFFICES ASSUME FgInv, [FgNext]_fgVars PROVE FgInv'
  OBVIOUS
<1>1. CASE UNCHANGED fgVars
  <2>1. UNCHANGED <<fgSent, fgNet, fgSlots, fgSeen, fgGot, fgTime>>  BY <1>1 DEF fgVars
  <2>2. FgNetInv' /\ FgSeenInv'  BY <2>1 DEF FgInv, FgNetInv, FgSeenInv, FgReached, FgDone
  <2>3. FgSlotsInv' /\ FgGotInv'  BY <2>1 DEF FgInv, FgSlotsInv, FgSlotOk, FgGotInv, FgDone
  <2>4. FgWayInv'
    BY <2>1 DEF FgInv, FgWayInv, FgWay, FgUndisturbed, FgCollides, FgHolding, FgDone
  <2>5. QED  BY <2>2, <2>3, <2>4 DEF FgInv
<1>2. CASE FgNext
  BY <1>2, FgSendKeeps, FgReadKeeps, FgTickKeeps DEF FgNext
<1>3. QED  BY <1>1, <1>2

\* The invariant says what the property says.
LEMMA FgInvReassembled == FgInv => FgReassembled
<1> SUFFICES ASSUME FgInv PROVE FgReassembled
  OBVIOUS
<1>0. FgNetInv /\ FgSeenInv  BY DEF FgInv
<1>1. ASSUME NEW m \in DOMAIN fgSent, FgArrived(m), ~FgCollides(m),
             Cardinality(FgHolding(m)) < FgSlots
      PROVE  [i \in 1 .. fgSent[m].len |-> m] \in fgGot
  <2>1. /\ m \in Nat /\ fgSent[m].len \in Nat /\ fgSent[m].out \in Nat /\ 0 < fgSent[m].len
        /\ fgSent[m].out = fgSent[m].len
    BY <1>0, <1>1, FgSentTyped DEF FgArrived
  <2>2. FgDone(m)
    <3> SUFFICES ASSUME fgNet # <<>>, ~(m < fgNet[1].msg) PROVE FALSE
      BY DEF FgDone
    <3>1. fgNet[1].msg \in Nat /\ 1 \in DOMAIN fgNet  BY <1>0, FgFirst DEF FgNetInv
    <3>2. m # fgNet[1].msg  BY <1>1, <3>1 DEF FgArrived
    <3>3. FgFrom(fgNet[1], m, 0)  BY <2>1, <3>1, <3>2 DEF FgFrom
    <3>4. FgHas(fgNet, m, 0)  BY <1>0, <2>1, <3>1, <3>3 DEF FgNetInv, FgInLine
    <3>5. QED  BY <1>1, <3>4 DEF FgHas, FgArrived
  <2>3. m \in DOMAIN fgSeen  BY <1>0, <2>1, <2>2 DEF FgSeenInv, FgReached
  <2>4. FgUndisturbed(m)  BY <1>1 DEF FgUndisturbed, FgArrived
  <2>5. QED  BY <2>1, <2>2, <2>3, <2>4 DEF FgInv, FgWayInv, FgWay
<1>2. ASSUME NEW p \in fgGot, NEW i \in DOMAIN p, p[i] # p[1]
      PROVE  FgCollides(p[i]) /\ FgCollides(p[1])
  <2>1. p[i] \in DOMAIN fgSent /\ p[1] \in DOMAIN fgSent /\ fgSent[p[i]].id = fgSent[p[1]].id
    BY DEF FgInv, FgGotInv
  <2>2. QED  BY <1>2, <2>1 DEF FgCollides
<1>3. QED  BY <1>1, <1>2 DEF FgReassembled

\* Whatever messages are cut short, a message whose fragments all arrive in
\* time, whose identifier is no other's and which finds a slot is handed on
\* whole, and only messages that share an identifier are ever mixed, for any
\* number of slots, messages and fragments (moor_fragment_receive).
THEOREM FragmentsReassembled == FgSpec => []FgReassembled
<1>1. QED  BY FgInitInv, FgNextInv, FgInvReassembled, PTL DEF FgSpec

-----------------------------------------------------------------------------
(* The link protocol (LinkProtocol): who waits for a link hears of it.     *)

LnStates == Handshaking \cup {"NONE", "HANDSHAKING", "OPEN", "DEAD", "CLOSED"}
LnDone == {"OPEN", "DEAD", "CLOSED"}
LnPieces == [cmd : {"CELL"}, mix : 0..2, epoch : Nat, nonce : Nat, part : {"whole", "tail"}]
LnSendRec == [nonce : Nat, epoch : Nat, records : Nat, start : Nat]

\* The initiator's state, its answers and its timer, each side's queue and
\* stamp, and what LinkAnswered says of them.
LnEnds == <<conn_state, hs_timer, on_complete, stuck_since, link_outq>>
LnEndsOk ==
    /\ conn_state \in [Side -> LnStates]
    /\ hs_timer \in BOOLEAN
    /\ on_complete \in Seq(Int)
    /\ stuck_since \in [Side -> Nat]
    /\ link_outq \in [Side -> Seq(LnPieces)]
    /\ LinkAnswered

\* What the pieces of a queue and its stamp are made of.
LnRestOk ==
    /\ keymix \in [Side -> 0..2]
    /\ lnFault \in [Side -> {"none", "overtaken", "ahead", "key"}]
    /\ lnNow \in Nat \ {0}
    /\ sendst \in [Side -> LnSendRec]

LnInv == LnEndsOk /\ LnRestOk

\* A step that touches none of it keeps it.
LEMMA LnSame ==
  ASSUME LnEndsOk, UNCHANGED LnEnds
  PROVE  LnEndsOk'
BY DEF LnEndsOk, LinkAnswered, LnEnds

\* The sides are two.
LEMMA LnSides == "c" \in Side /\ "s" \in Side /\ \A x \in Side : x = "c" \/ x = "s"
BY DEF Side

\* LinkAnswered of the initiator: before the end no answer, then one.
LEMMA LnUnanswered ==
  ASSUME LnEndsOk, conn_state["c"] \notin LnDone
  PROVE  on_complete = <<>>
BY DEF LnEndsOk, LinkAnswered, LnDone

\* A queue is emptied and its stamp cleared.
LEMMA LnEmptied ==
  ASSUME LnEndsOk, NEW x \in Side, CloseSide(x)
  PROVE  /\ conn_state' \in [Side -> LnStates] /\ conn_state'[x] = "CLOSED"
         /\ \A y \in Side : y # x => conn_state'[y] = conn_state[y]
         /\ stuck_since' \in [Side -> Nat] /\ link_outq' \in [Side -> Seq(LnPieces)]
         /\ \A y \in Side : (stuck_since'[y] # 0) = (link_outq'[y] # <<>>)
<1>1. /\ conn_state' = [conn_state EXCEPT ![x] = "CLOSED"]
      /\ link_outq' = [link_outq EXCEPT ![x] = <<>>]
      /\ stuck_since' = [stuck_since EXCEPT ![x] = 0]
  BY DEF CloseSide
<1>2. "CLOSED" \in LnStates /\ 0 \in Nat /\ <<>> \in Seq(LnPieces)  BY DEF LnStates
<1>3. \A y \in Side : (stuck_since'[y] # 0) = (link_outq'[y] # <<>>)
  BY <1>1 DEF LnEndsOk, LinkAnswered
<1>4. conn_state' \in [Side -> LnStates] /\ conn_state'[x] = "CLOSED"
  BY <1>1, <1>2 DEF LnEndsOk
<1>5. \A y \in Side : y # x => conn_state'[y] = conn_state[y]  BY <1>1 DEF LnEndsOk
<1>6. stuck_since' \in [Side -> Nat]  BY <1>1, <1>2 DEF LnEndsOk
<1>7. link_outq' \in [Side -> Seq(LnPieces)]  BY <1>1, <1>2 DEF LnEndsOk
<1> QED BY <1>3, <1>4, <1>5, <1>6, <1>7

\* A connect fails: its caller hears, the timer goes.
LEMMA LnFailed ==
  ASSUME LnEndsOk, NEW status \in Int, HsAsyncFail(status),
         conn_state["c"] \notin LnDone
  PROVE  LnEndsOk'
<1>1. CloseSide("c") /\ hs_timer' = FALSE /\ on_complete' = Append(on_complete, status)
  BY DEF HsAsyncFail
<1>2. on_complete' \in Seq(Int) /\ Len(on_complete') = 1  BY <1>1, LnUnanswered
<1> QED BY <1>1, <1>2, LnSides, LnEmptied DEF LnEndsOk, LinkAnswered

\* A side that closes for another reason: the responder, or an open link.
LEMMA LnClosed ==
  ASSUME LnEndsOk, NEW x \in Side, CloseSide(x), UNCHANGED <<hs_timer, on_complete>>,
         x = "s" \/ conn_state[x] \in {"OPEN", "DEAD"}
  PROVE  LnEndsOk'
<1>1. CASE x = "s"
  <2>1. conn_state'["c"] = conn_state["c"]  BY <1>1, LnEmptied, LnSides
  <2> QED BY <2>1, LnEmptied DEF LnEndsOk, LinkAnswered
<1>2. CASE x = "c"
  <2>1. conn_state'["c"] = "CLOSED" /\ conn_state["c"] \in {"OPEN", "DEAD"} /\ ~hs_timer
    BY <1>2, LnEmptied, LnSides DEF LnEndsOk, LinkAnswered, Handshaking
  <2> QED BY <2>1, LnEmptied DEF LnEndsOk, LinkAnswered
<1> QED BY <1>1, <1>2, LnSides

\* The initiator goes on with its handshake.
LEMMA LnGoesOn ==
  ASSUME LnEndsOk, NEW state \in Handshaking,
         conn_state["c"] \notin LnDone,
         conn_state' = [conn_state EXCEPT !["c"] = state], hs_timer' \in BOOLEAN,
         UNCHANGED <<on_complete, stuck_since, link_outq>>
  PROVE  LnEndsOk'
<1>1. conn_state' \in [Side -> LnStates] /\ conn_state'["c"] = state
  BY LnSides DEF LnEndsOk, LnStates
<1>2. state \notin LnDone  BY DEF Handshaking, LnDone
<1> QED BY <1>1, <1>2 DEF LnEndsOk, LinkAnswered, LnDone

\* The responder goes on with its own.
LEMMA LnServes ==
  ASSUME LnEndsOk, NEW state \in LnStates,
         conn_state' = [conn_state EXCEPT !["s"] = state],
         UNCHANGED <<hs_timer, on_complete, stuck_since, link_outq>>
  PROVE  LnEndsOk'
<1>1. conn_state' \in [Side -> LnStates] /\ conn_state'["c"] = conn_state["c"]
  BY LnSides DEF LnEndsOk
<1> QED BY <1>1 DEF LnEndsOk, LinkAnswered

\* What the steps write into the state of a sender.
LEMMA LnRecs ==
  ASSUME NEW st \in LnSendRec
  PROVE  /\ st.nonce \in Nat /\ st.epoch \in Nat /\ st.records \in Nat /\ st.start \in Nat
         /\ st.nonce + 1 \in Nat /\ st.epoch + 1 \in Nat /\ st.records + 1 \in Nat
         /\ \A n \in Nat : [st EXCEPT !.nonce = n] \in LnSendRec
         /\ \A n, m \in Nat : [st EXCEPT !.nonce = n, !.records = m] \in LnSendRec
         /\ \A n, m \in Nat : [st EXCEPT !.epoch = n, !.records = 0, !.start = m] \in LnSendRec
<1>1. st.nonce \in Nat /\ st.epoch \in Nat /\ st.records \in Nat /\ st.start \in Nat
  BY DEF LnSendRec
<1>2. \A n \in Nat : [st EXCEPT !.nonce = n] \in LnSendRec  BY DEF LnSendRec
<1>3. \A n, m \in Nat : [st EXCEPT !.nonce = n, !.records = m] \in LnSendRec  BY DEF LnSendRec
<1>4. \A n, m \in Nat : [st EXCEPT !.epoch = n, !.records = 0, !.start = m] \in LnSendRec
  BY DEF LnSendRec
<1>5. st.nonce + 1 \in Nat /\ st.epoch + 1 \in Nat /\ st.records + 1 \in Nat  BY <1>1
<1> QED BY <1>1, <1>2, <1>3, <1>4, <1>5, Zenon

\* A sender whose state changes.
LEMMA LnSends ==
  ASSUME LnRestOk, NEW x \in Side, NEW st \in LnSendRec, UNCHANGED <<lnFault, lnNow>>,
         sendst' = [sendst EXCEPT ![x] = st], keymix' \in [Side -> 0..2]
  PROVE  LnRestOk'
BY DEF LnRestOk

\* The state of each sender, and the clock.
LEMMA LnSender ==
  ASSUME LnRestOk
  PROVE  /\ sendst["c"] \in LnSendRec /\ sendst["s"] \in LnSendRec
         /\ \A x \in Side : sendst[x] \in LnSendRec
         /\ lnNow \in Nat /\ 0 \in Nat
         /\ \A x \in Side : [keymix EXCEPT ![x] = 1] \in [Side -> 0..2]
         /\ \A x \in Side : [keymix EXCEPT ![x] = 2] \in [Side -> 0..2]
BY LnSides DEF LnRestOk

\* The handshake of the initiator keeps all of it.
LEMMA LnInitiatorKeeps ==
  ASSUME LnInv,
         \/ LnConnectAsync \/ LnTcpConnected \/ LnHsSending \/ LnHsReceiving
         \/ LnPqSending \/ LnPqReceiving \/ LnHsTimeout
         \/ LnConnectBlocking \/ LnBlockingMsg2
  PROVE  LnInv'
<1> USE DEF LnInv, lnHistory
<1>0. /\ -1 \in Int /\ -2 \in Int
      /\ \A v \in Handshaking \cup {"NONE"} : v \notin LnDone
      /\ {"TCP_CONNECTING", "HS_SENDING", "HS_RECEIVING", "PQ_SENDING",
          "PQ_RECEIVING"} \subseteq Handshaking
  BY DEF Handshaking, LnDone
<1>1. CASE LnConnectAsync
  <2>1. LnEndsOk'  BY <1>0, <1>1, LnGoesOn DEF LnConnectAsync, LnEndsOk
  <2> QED BY <2>1, <1>1 DEF LnConnectAsync, LnRestOk
<1>2. CASE LnTcpConnected
  <2>1. LnEndsOk'  BY <1>0, <1>2, LnGoesOn, LnFailed DEF LnTcpConnected
  <2> QED BY <2>1, <1>2 DEF LnTcpConnected, LnRestOk
<1>3. CASE LnHsSending
  <2>1. LnEndsOk'  BY <1>0, <1>3, LnGoesOn, LnFailed DEF LnHsSending, LnEndsOk
  <2> QED BY <2>1, <1>3 DEF LnHsSending, LnRestOk
<1>4. CASE LnHsReceiving
  <2>1. LnEndsOk'  BY <1>0, <1>4, LnGoesOn, LnFailed DEF LnHsReceiving, LnEndsOk
  <2>2. LnRestOk'  BY <1>4 DEF LnHsReceiving, LnRestOk
  <2> QED BY <2>1, <2>2
<1>5. CASE LnPqSending
  <2>1. LnEndsOk'
    <3>1. CASE HsAsyncFail(-1)
      BY <1>0, <1>5, <3>1, LnFailed DEF LnPqSending
    <3>2. CASE UNCHANGED LnEnds
      BY <3>2, LnSame
    <3>3. CASE /\ conn_state' = [conn_state EXCEPT !["c"] = "PQ_RECEIVING"]
               /\ UNCHANGED <<hs_timer, on_complete, stuck_since, link_outq>>
      BY <1>0, <1>5, <3>3, LnGoesOn DEF LnPqSending, LnEndsOk
    <3> QED BY <1>5, <3>1, <3>2, <3>3 DEF LnPqSending, LnEnds
  <2>2. LnRestOk'
    <3>1. CASE UNCHANGED sendst
      BY <1>5, <3>1 DEF LnPqSending, LnRestOk
    <3>2. CASE sendst' = [sendst EXCEPT !["c"].nonce = @ + 1]
      <4> DEFINE st == [sendst["c"] EXCEPT !.nonce = sendst["c"].nonce + 1]
      <4>1. st \in LnSendRec  BY LnSender, LnRecs
      <4>3. sendst' = [sendst EXCEPT !["c"] = st]  BY <3>2
      <4> HIDE DEF st
      <4>2. UNCHANGED <<lnFault, lnNow, keymix>> /\ keymix \in [Side -> 0..2]
        BY <1>5 DEF LnPqSending, LnRestOk
      <4> QED BY <4>1, <4>2, <4>3, LnSends, LnSides
    <3> QED BY <1>5, <3>1, <3>2 DEF LnPqSending
  <2> QED BY <2>1, <2>2
<1>6. CASE LnPqReceiving
  <2>0. conn_state["c"] \notin LnDone  BY <1>0, <1>6 DEF LnPqReceiving
  <2>1. CASE HsAsyncFail(-1) /\ UNCHANGED <<keymix, sendst>>
    <3>1. LnEndsOk'  BY <1>0, <2>0, <2>1, LnFailed
    <3> QED BY <3>1, <2>1, <1>6 DEF LnRestOk, LnPqReceiving
  <2>2. CASE UNCHANGED LnEnds /\ UNCHANGED <<keymix, sendst>>
    <3>1. LnEndsOk'  BY <2>2, LnSame
    <3> QED BY <3>1, <2>2, <1>6 DEF LnRestOk, LnPqReceiving
  <2>3. CASE /\ keymix' = [keymix EXCEPT !["c"] = 2]
             /\ sendst' = [sendst EXCEPT !["c"] = RekeyInit(@)]
             /\ conn_state' = [conn_state EXCEPT !["c"] = "OPEN"]
             /\ hs_timer' = FALSE
             /\ on_complete' = Append(on_complete, 0)
             /\ UNCHANGED <<link_outq, stuck_since>>
    <3>1. on_complete' = <<0>> /\ on_complete' \in Seq(Int) /\ Len(on_complete') = 1
      BY <2>0, <2>3, LnUnanswered
    <3>2. conn_state' \in [Side -> LnStates] /\ conn_state'["c"] = "OPEN"
      BY <2>3, LnSides DEF LnEndsOk, LnStates
    <3>3. LnEndsOk'  BY <2>3, <3>1, <3>2 DEF LnEndsOk, LinkAnswered
    <3>4. LnRestOk'
      <4>1. RekeyInit(sendst["c"]) \in LnSendRec  BY LnSender, LnRecs DEF RekeyInit
      <4> QED BY <2>3, <1>6, <4>1, LnSides, LnSender, LnSends DEF LnPqReceiving
    <3> QED BY <3>3, <3>4
  <2> QED BY <1>6, <2>1, <2>2, <2>3 DEF LnPqReceiving, LnEnds
<1>7. CASE LnHsTimeout
  <2>1. LnEndsOk'  BY <1>0, <1>7, LnFailed DEF LnHsTimeout
  <2> QED BY <2>1, <1>7 DEF LnHsTimeout, LnRestOk
<1>8. CASE LnConnectBlocking
  <2>1. LnEndsOk'  BY <1>0, <1>8, LnGoesOn, LnFailed DEF LnConnectBlocking
  <2> QED BY <2>1, <1>8 DEF LnConnectBlocking, LnRestOk
<1>9. CASE LnBlockingMsg2
  <2>1. LnEndsOk'  BY <1>0, <1>9, LnGoesOn, LnFailed DEF LnBlockingMsg2, LnEndsOk
  <2>2. LnRestOk'
    <3>1. CASE UNCHANGED <<sendst, keymix>>
      BY <1>9, <3>1 DEF LnBlockingMsg2, LnRestOk
    <3>2. CASE /\ sendst' = [sendst EXCEPT !["c"] = [@ EXCEPT !.nonce = LnPkCells]]
               /\ keymix' = [keymix EXCEPT !["c"] = 1]
      <4>1. [sendst["c"] EXCEPT !.nonce = LnPkCells] \in LnSendRec
        BY LnSender, LnRecs, LnAssumption
      <4> QED BY <1>9, <3>2, <4>1, LnSides, LnSender, LnSends DEF LnBlockingMsg2
    <3> QED BY <1>9, <3>1, <3>2 DEF LnBlockingMsg2
  <2> QED BY <2>1, <2>2
<1> QED BY <1>1, <1>2, <1>3, <1>4, <1>5, <1>6, <1>7, <1>8, <1>9

\* So does the responder's.
LEMMA LnResponderKeeps ==
  ASSUME LnInv, LnServerMsg1 \/ LnServerPk \/ LnServerTimeout
  PROVE  LnInv'
<1> USE DEF LnInv, lnHistory
<1>0. "PQ_RECEIVING" \in LnStates /\ "OPEN" \in LnStates  BY DEF LnStates, Handshaking
<1>1. CASE LnServerMsg1
  <2>1. LnEndsOk'  BY <1>0, <1>1, LnServes, LnClosed, LnSides DEF LnServerMsg1
  <2>2. LnRestOk'  BY <1>1, LnSides DEF LnServerMsg1, LnRestOk
  <2> QED BY <2>1, <2>2
<1>2. CASE LnServerPk
  <2>1. CASE ServerKem
    <3>1. LnEndsOk'  BY <1>0, <1>2, <2>1, LnServes DEF LnServerPk, ServerKem
    <3>2. LnRestOk'
      <4>1. [sendst["s"] EXCEPT !.nonce = LnCtCells] \in LnSendRec
        BY LnSender, LnRecs, LnAssumption
      <4>2. RekeyInit([sendst["s"] EXCEPT !.nonce = LnCtCells]) \in LnSendRec
        BY <4>1, LnSender, LnRecs DEF RekeyInit
      <4> QED BY <1>2, <2>1, <4>2, LnSides, LnSender, LnSends DEF LnServerPk, ServerKem
    <3> QED BY <3>1, <3>2
  <2>2. CASE UNCHANGED LnEnds /\ UNCHANGED <<keymix, sendst>>
    <3>1. LnEndsOk'  BY <2>2, LnSame
    <3> QED BY <3>1, <2>2, <1>2 DEF LnServerPk, LnRestOk
  <2>3. CASE CloseSide("s") /\ UNCHANGED <<keymix, sendst>>
    <3>1. LnEndsOk'  BY <1>2, <2>3, LnClosed, LnSides DEF LnServerPk
    <3> QED BY <3>1, <2>3, <1>2 DEF LnServerPk, LnRestOk
  <2> QED BY <1>2, <2>1, <2>2, <2>3 DEF LnServerPk, LnEnds
<1>3. CASE LnServerTimeout
  <2>1. LnEndsOk'  BY <1>3, LnClosed, LnSides DEF LnServerTimeout
  <2> QED BY <2>1, <1>3 DEF LnServerTimeout, LnRestOk
<1> QED BY <1>1, <1>2, <1>3

\* What the record layer queues, flushes and closes keeps it too: a queue is
\* never empty behind a stamp, nor filled without one.
LEMMA LnRecordsKeep ==
  ASSUME LnInv, NEW x \in Side,
         LnSendCell(x) \/ LnFlush(x) \/ LnRecvCell(x) \/ LnReap(x) \/ LnDeadClosed(x)
  PROVE  LnInv'
<1> USE DEF LnInv, lnHistory
<1>1. CASE LnSendCell(x)
  <2> DEFINE st == SendRotated(sendst[x])
             r == Record(x, "CELL", st)
  <2>1. st \in LnSendRec  BY LnSender, LnRecs DEF SendRotated
  <2>2. r \in LnPieces /\ [r EXCEPT !.part = "tail"] \in LnPieces
    BY <2>1 DEF LnRestOk, LnSendRec, LnPieces, Record
  <2>3. LnRestOk'
    <3>1. [st EXCEPT !.nonce = @ + 1, !.records = @ + 1] \in LnSendRec  BY <2>1, LnRecs
    <3>2. keymix' \in [Side -> 0..2] /\ UNCHANGED <<lnFault, lnNow>>
      BY <1>1 DEF LnSendCell, LnRestOk
    <3>3. sendst' = [sendst EXCEPT ![x] = [st EXCEPT !.nonce = @ + 1, !.records = @ + 1]]
      BY <1>1 DEF LnSendCell
    <3> QED BY <3>1, <3>2, <3>3, LnSends
  <2>4. CASE UNCHANGED <<conn_state, link_outq, stuck_since>>
    <3>1. UNCHANGED LnEnds  BY <1>1, <2>4 DEF LnSendCell, LnEnds
    <3> QED BY <3>1, <2>3, LnSame
  <2>5. ASSUME NEW p \in LnPieces, link_outq' = [link_outq EXCEPT ![x] = Append(@, p)],
               stuck_since' = [stuck_since EXCEPT ![x] = IF @ = 0 THEN lnNow ELSE @],
               UNCHANGED conn_state
        PROVE  LnInv'
    <3>1. stuck_since' \in [Side -> Nat] /\ stuck_since'[x] # 0  BY <2>5 DEF LnEndsOk, LnRestOk
    <3>2. PICK q : q = link_outq[x] /\ q \in Seq(LnPieces)  BY DEF LnEndsOk
    <3>3. Append(q, p) \in Seq(LnPieces) /\ Append(q, p) # <<>>  BY <3>2
    <3>4. link_outq' \in [Side -> Seq(LnPieces)] /\ link_outq'[x] # <<>>
      BY <2>5, <3>2, <3>3 DEF LnEndsOk
    <3>5. \A y \in Side : y # x => stuck_since'[y] = stuck_since[y] /\ link_outq'[y] = link_outq[y]
      BY <2>5 DEF LnEndsOk
    <3>6. UNCHANGED <<conn_state, hs_timer, on_complete>>  BY <1>1, <2>5 DEF LnSendCell
    <3>7. LnEndsOk'  BY <3>1, <3>4, <3>5, <3>6 DEF LnEndsOk, LinkAnswered
    <3> QED BY <3>7, <2>3
  <2>6. CASE /\ conn_state' = [conn_state EXCEPT ![x] = "DEAD"]
             /\ UNCHANGED <<link_outq, stuck_since>>
    <3>1. conn_state' \in [Side -> LnStates] /\ conn_state'[x] = "DEAD" /\ conn_state[x] = "OPEN"
      BY <1>1, <2>6 DEF LnEndsOk, LnStates, LnSendCell
    <3>2. \A y \in Side : y # x => conn_state'[y] = conn_state[y]  BY <2>6 DEF LnEndsOk
    <3>3. \/ conn_state'["c"] = conn_state["c"]
          \/ conn_state'["c"] = "DEAD" /\ conn_state["c"] = "OPEN"
      BY <3>1, <3>2, LnSides
    <3>4. UNCHANGED <<hs_timer, on_complete, link_outq, stuck_since>>
      BY <1>1, <2>6 DEF LnSendCell
    <3>5. LnEndsOk'  BY <3>1, <3>3, <3>4 DEF LnEndsOk, LinkAnswered, Handshaking
    <3> QED BY <3>5, <2>3
  <2> QED BY <1>1, <2>2, <2>4, <2>5, <2>6 DEF LnSendCell
<1>2. CASE LnFlush(x)
  <2>1. PICK q : q = link_outq[x] /\ q \in Seq(LnPieces) /\ q # <<>>
    BY <1>2 DEF LnEndsOk, LnFlush
  <2>2. Tail(q) \in Seq(LnPieces) /\ (Tail(q) = <<>>) = (Len(q) = 1)
    <3>1. Tail(q) \in Seq(LnPieces) /\ Len(Tail(q)) = Len(q) - 1 /\ Len(q) \in Nat  BY <2>1
    <3>2. (Len(Tail(q)) = 0) = (Tail(q) = <<>>)  BY <3>1, EmptySeq
    <3> QED BY <3>1, <3>2
  <2>3. /\ link_outq' = [link_outq EXCEPT ![x] = Tail(q)]
        /\ stuck_since' = [stuck_since EXCEPT ![x] = IF Len(q) = 1 THEN 0 ELSE lnNow]
    BY <1>2, <2>1 DEF LnFlush
  <2>4. link_outq' \in [Side -> Seq(LnPieces)] /\ link_outq'[x] = Tail(q)
    BY <2>2, <2>3 DEF LnEndsOk
  <2>5. /\ stuck_since' \in [Side -> Nat]
        /\ (stuck_since'[x] # 0) = (Len(q) # 1)
    BY <2>3 DEF LnEndsOk, LnRestOk
  <2>6. \A y \in Side : y # x => stuck_since'[y] = stuck_since[y] /\ link_outq'[y] = link_outq[y]
    BY <2>3 DEF LnEndsOk
  <2>7. UNCHANGED <<conn_state, hs_timer, on_complete>> /\ LnRestOk'
    BY <1>2 DEF LnFlush, LnRestOk
  <2>8. \A y \in Side : (stuck_since'[y] # 0) = (link_outq'[y] # <<>>)
    BY <2>2, <2>4, <2>5, <2>6 DEF LnEndsOk, LinkAnswered
  <2> QED BY <2>4, <2>5, <2>7, <2>8 DEF LnEndsOk, LinkAnswered
<1>3. CASE LnRecvCell(x)
  <2>1. LnRestOk'  BY <1>3 DEF LnRecvCell, LnRestOk
  <2>2. CASE CloseSide(x)
    BY <1>3, <2>1, <2>2, LnClosed DEF LnRecvCell
  <2>3. CASE UNCHANGED LnEnds
    BY <2>1, <2>3, LnSame
  <2> QED BY <1>3, <2>2, <2>3 DEF LnRecvCell, LnEnds
<1>4. CASE LnReap(x)
  <2>1. LnEndsOk'  BY <1>4, LnClosed DEF LnReap
  <2> QED BY <2>1, <1>4 DEF LnReap, LnRestOk
<1>5. CASE LnDeadClosed(x)
  <2>1. LnEndsOk'  BY <1>5, LnClosed DEF LnDeadClosed
  <2> QED BY <2>1, <1>5 DEF LnDeadClosed, LnRestOk
<1> QED BY <1>1, <1>2, <1>3, <1>4, <1>5

\* For any number of cells and records, at any rate of rekeying and however
\* long it runs: the callback of a connect (hs_async_fail, hs_async_complete)
\* hears exactly one answer, 0 exactly when the link opens, the handshake timer
\* is armed during the handshake only, and stuck_since is set exactly while
\* bytes are queued.
THEOREM LinkAlwaysAnswered == LnSpec => []LinkAnswered
<1>1. LnInit => LnInv
  <2> SUFFICES ASSUME LnInit PROVE LnInv
    OBVIOUS
  <2> USE DEF LnInit
  <2>1. conn_state \in [Side -> LnStates] /\ conn_state["c"] = "NONE"  BY LnSides DEF LnStates
  <2>2. on_complete \in Seq(Int) /\ Len(on_complete) = 0  OBVIOUS
  <2>3. /\ stuck_since \in [Side -> Nat] /\ link_outq \in [Side -> Seq(LnPieces)]
        /\ \A x \in Side : (stuck_since[x] # 0) = (link_outq[x] # <<>>)
    OBVIOUS
  <2>4. LnRestOk  BY DEF LnRestOk, LnSendRec
  <2>5. LinkAnswered  BY <2>1, <2>2, <2>3 DEF LinkAnswered
  <2>6. hs_timer \in BOOLEAN  OBVIOUS
  <2> HIDE DEF LnInit
  <2> QED BY <2>1, <2>2, <2>3, <2>4, <2>5, <2>6 DEF LnInv, LnEndsOk
<1>2. LnInv /\ [LnNext]_lnVars => LnInv'
  <2> SUFFICES ASSUME LnInv, [LnNext]_lnVars PROVE LnInv'
    OBVIOUS
  <2>1. CASE LnClock
    <3>1. UNCHANGED LnEnds /\ LnRestOk'  BY <2>1 DEF LnClock, LnEnds, LnInv, LnRestOk, lnHistory
    <3> QED BY <3>1, LnSame DEF LnInv
  <2>2. CASE UNCHANGED lnVars
    <3>1. UNCHANGED LnEnds /\ LnRestOk'  BY <2>2 DEF lnVars, LnEnds, LnInv, LnRestOk
    <3> QED BY <3>1, LnSame DEF LnInv
  <2> QED BY <2>1, <2>2, LnInitiatorKeeps, LnResponderKeeps, LnRecordsKeep DEF LnNext
<1>3. LnInv => LinkAnswered  BY DEF LnInv, LnEndsOk
<1> QED BY <1>1, <1>2, <1>3, PTL DEF LnSpec
=============================================================================
