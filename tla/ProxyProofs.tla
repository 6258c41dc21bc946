----------------------------- MODULE ProxyProofs -----------------------------
(***************************************************************************)
(* Proofs about the proxy's front: AddressMap, DnsServer and SocksClient,  *)
(* for every size of their tables.                                         *)
(***************************************************************************)
EXTENDS AddressMap, DnsServer, SocksClient, SequenceTheorems, FiniteSetTheorems,
        WellFoundedInduction, TLAPS

\* The least element of a nonempty set of naturals is in the set.
LEMMA MinIn ==
  ASSUME NEW T \in SUBSET Nat, T # {}
  PROVE  Min(T) \in T /\ \A y \in T : Min(T) <= y
<1> DEFINE R == {ss \in Nat \X Nat : ss[1] < ss[2]}
<1>0. IsWellFoundedOn(R, Nat)  BY NatLessThanWellFounded, Zenon DEF OpToRel
<1> HIDE DEF R
<1>1. PICK x \in T : \A y \in T : ~(<<y, x>> \in R)  BY <1>0, WFMin
<1>2. \A y \in T : ~(y < x)  BY <1>1 DEF R
<1>3. \E z \in T : \A y \in T : z <= y  BY <1>2
<1> QED BY <1>3 DEF Min

\* The greatest of some numbers up to n is one of them.
LEMMA MaxIn ==
  ASSUME NEW n \in Nat, NEW T \in SUBSET (1..n), T # {}
  PROVE  Max(T) \in T
<1> DEFINE U == {n - x : x \in T}
<1>0. \A x \in T : x \in Nat /\ n - x \in Nat  OBVIOUS
<1>1. U \in SUBSET Nat /\ U # {}  BY <1>0
<1>2. Min(U) \in U /\ \A y \in U : Min(U) <= y  BY <1>1, MinIn
<1>3. PICK x \in T : Min(U) = n - x  BY <1>2
<1>4. \A y \in T : n - x <= n - y  BY <1>2, <1>3
<1>5. \A y \in T : x >= y  BY <1>0, <1>4
<1> QED BY <1>5 DEF Max

\* A set that holds 0 and every successor up to n holds all numbers up to n.
LEMMA UpTo ==
    ASSUME NEW n \in Nat, NEW P \in SUBSET Nat, 0 \in P,
           \A k \in 0..(n - 1) : k \in P => k + 1 \in P
    PROVE  n \in P
<1> SUFFICES ASSUME n \notin P PROVE FALSE
  OBVIOUS
<1> DEFINE T == {k \in 0..n : k \notin P}
<1>1. T \in SUBSET Nat /\ T # {}  OBVIOUS
<1>2. PICK x \in T : \A y \in T : x <= y  BY <1>1, MinIn
<1>3. x # 0 /\ x - 1 \in 0..(n - 1) /\ x - 1 \notin T  BY <1>2
<1>4. x - 1 \in P  BY <1>3
<1> QED BY <1>2, <1>3, <1>4

-----------------------------------------------------------------------------
(* AddressMap.  NpOneToOne is inductive once the table is known to be a    *)
(* sequence of mappings.                                                   *)
NpRec == [ip : Int, name : NpMoor, at : Nat]

NpDistinct(m) ==
  \A i, j \in DOMAIN m : m[i].ip = m[j].ip \/ m[i].name = m[j].name => i = j

NpInv ==
  /\ npMap \in Seq(NpRec) /\ npNext \in Int /\ npTime \in Nat
  /\ Len(npMap) <= NpMapMax /\ NpDistinct(npMap)

\* An offset is a number.
LEMMA NpOffsetType ==
  ASSUME npNext \in Int, NEW k \in Nat
  PROVE  NpOffset(k) \in Int
<1>1. NpSpace \in Nat \ {0}  BY NpAssumption
<1>2. PICK x \in Int : x = npNext - 1 + k  OBVIOUS
<1>3. x % NpSpace \in Int  BY <1>1
<1> QED BY <1>2, <1>3 DEF NpOffset

\* The oldest mapping makes room.
LEMMA NpTail ==
  ASSUME NEW m \in Seq(NpRec), NpDistinct(m), Len(m) > 0
  PROVE  /\ Tail(m) \in Seq(NpRec) /\ Len(Tail(m)) = Len(m) - 1
         /\ NpDistinct(Tail(m))
         /\ \A i \in DOMAIN Tail(m) : i + 1 \in DOMAIN m /\ Tail(m)[i] = m[i + 1]
<1>1. m # <<>> /\ Tail(m) \in Seq(NpRec) /\ Len(Tail(m)) = Len(m) - 1
      /\ \A i \in 1..(Len(m) - 1) : Tail(m)[i] = m[i + 1]
  OBVIOUS
<1>2. \A i \in DOMAIN Tail(m) : i \in Nat /\ i + 1 \in DOMAIN m /\ Tail(m)[i] = m[i + 1]
  BY <1>1
<1>3. NpDistinct(Tail(m))  BY <1>2 DEF NpDistinct
<1> QED BY <1>1, <1>2, <1>3

\* A mapping with a new address and a new name is added.
LEMMA NpAppend ==
  ASSUME NEW m \in Seq(NpRec), NpDistinct(m), NEW r \in NpRec,
         \A i \in DOMAIN m : m[i].ip # r.ip /\ m[i].name # r.name
  PROVE  Append(m, r) \in Seq(NpRec) /\ NpDistinct(Append(m, r))
         /\ Len(Append(m, r)) = Len(m) + 1
<1> DEFINE a == Append(m, r)
<1>1. a \in Seq(NpRec) /\ Len(a) = Len(m) + 1 /\ a[Len(m) + 1] = r
      /\ \A i \in 1..Len(m) : a[i] = m[i]
  OBVIOUS
<1>2. DOMAIN a = 1..(Len(m) + 1) /\ DOMAIN m = 1..Len(m) /\ Len(m) \in Nat  BY <1>1
<1> HIDE DEF a
<1>3. \A i \in DOMAIN a : i = Len(m) + 1 \/ (i \in DOMAIN m /\ a[i] = m[i])  BY <1>1, <1>2
<1>4. NpDistinct(a)  BY <1>1, <1>3 DEF NpDistinct
<1> QED BY <1>1, <1>4 DEF a

\* A mapping past its life is removed.
LEMMA NpRemove ==
  ASSUME NEW m \in Seq(NpRec), NpDistinct(m), NEW i \in DOMAIN m
  PROVE  /\ SubSeq(m, 1, i - 1) \o SubSeq(m, i + 1, Len(m)) \in Seq(NpRec)
         /\ NpDistinct(SubSeq(m, 1, i - 1) \o SubSeq(m, i + 1, Len(m)))
         /\ Len(SubSeq(m, 1, i - 1) \o SubSeq(m, i + 1, Len(m))) = Len(m) - 1
<1> DEFINE a == SubSeq(m, 1, i - 1)
           b == SubSeq(m, i + 1, Len(m))
           r == a \o b
<1>0. i \in 1..Len(m) /\ Len(m) \in Nat  OBVIOUS
<1>1. a \in Seq(NpRec) /\ Len(a) = i - 1 /\ \A k \in 1..(i - 1) : a[k] = m[k]  BY <1>0
<1>2. b \in Seq(NpRec) /\ Len(b) = Len(m) - i /\ \A k \in 1..(Len(m) - i) : b[k] = m[k + i]
  BY <1>0
<1> HIDE DEF a, b
<1>3. r \in Seq(NpRec) /\ Len(r) = Len(m) - 1  BY <1>0, <1>1, <1>2
<1>4. \A k \in 1..(Len(m) - 1) : r[k] = IF k < i THEN m[k] ELSE m[k + 1]  BY <1>0, <1>1, <1>2
<1> HIDE DEF r
<1>5. DOMAIN r = 1..(Len(m) - 1) /\ DOMAIN m = 1..Len(m)  BY <1>3
<1>6. NpDistinct(r)
  <2> DEFINE from(k) == IF k < i THEN k ELSE k + 1
  <2>1. \A k \in DOMAIN r : from(k) \in DOMAIN m /\ r[k] = m[from(k)]  BY <1>0, <1>4, <1>5
  <2>2. \A j, k \in DOMAIN r : from(j) = from(k) => j = k  BY <1>0, <1>5
  <2> HIDE DEF from
  <2> QED BY <2>1, <2>2 DEF NpDistinct
<1> QED BY <1>3, <1>6 DEF r, a, b

\* moor_addressmap_assign keeps the table one to one.
LEMMA NpAssignInv ==
  ASSUME NpInv, NEW n \in NpMoor
  PROVE  /\ NpAssign(n).map \in Seq(NpRec) /\ NpAssign(n).next \in Int
         /\ Len(NpAssign(n).map) <= NpMapMax /\ NpDistinct(NpAssign(n).map)
<1>t. /\ npMap \in Seq(NpRec) /\ npNext \in Int /\ npTime \in Nat
      /\ Len(npMap) <= NpMapMax /\ NpDistinct(npMap)
  BY DEF NpInv
<1>a. NpTries \in Nat /\ NpMapMax \in Nat \ {0}  BY NpAssumption
<1> DEFINE good == {k \in 0..(NpTries - 1) : NpFree(NpOffset(k))}
           room == IF Len(npMap) >= NpMapMax THEN Tail(npMap) ELSE npMap
           new == [ip |-> NpOffset(Min(good)), name |-> n, at |-> npTime]
<1>1. CASE NpMapped(n) # {}
  <2>1. NpAssign(n).map = npMap /\ NpAssign(n).next = npNext  BY <1>1 DEF NpAssign
  <2> QED BY <1>t, <2>1
<1>2. CASE NpMapped(n) = {} /\ good = {}
  <2>1. NpAssign(n).map = npMap /\ NpAssign(n).next = NpOffset(NpTries)  BY <1>2 DEF NpAssign
  <2> QED BY <1>t, <1>a, <2>1, NpOffsetType
<1>3. CASE NpMapped(n) = {} /\ good # {}
  <2>1. Min(good) \in good /\ Min(good) \in Nat  BY <1>3, <1>a, MinIn
  <2>2. PICK k \in Nat : k = Min(good) /\ NpFree(NpOffset(k))  BY <2>1
  <2>3. NpAssign(n).map = Append(room, new) /\ NpAssign(n).next = NpOffset(k + 1)
    BY <1>3, <2>2 DEF NpAssign
  <2>4. /\ room \in Seq(NpRec) /\ NpDistinct(room) /\ Len(room) < NpMapMax
        /\ \A i \in DOMAIN room : \E j \in DOMAIN npMap : room[i] = npMap[j]
    <3>1. CASE Len(npMap) >= NpMapMax
      <4>1. room = Tail(npMap) /\ Len(npMap) > 0 /\ Len(npMap) \in Nat  BY <1>t, <1>a, <3>1
      <4> QED BY <1>t, <1>a, <4>1, NpTail
    <3>2. CASE ~(Len(npMap) >= NpMapMax)
      BY <1>t, <1>a, <3>2
    <3> QED BY <3>1, <3>2
  <2>5. new \in NpRec /\ new.ip = NpOffset(k) /\ new.name = n
    BY <1>t, <2>2, NpOffsetType DEF NpRec
  <2>6. \A i \in DOMAIN room : room[i].ip # new.ip /\ room[i].name # new.name
    BY <1>3, <2>2, <2>4, <2>5 DEF NpFree, NpMapped
  <2> HIDE DEF room, new
  <2>7. /\ Append(room, new) \in Seq(NpRec) /\ NpDistinct(Append(room, new))
        /\ Len(Append(room, new)) = Len(room) + 1
    BY <2>4, <2>5, <2>6, NpAppend
  <2>8. NpOffset(k + 1) \in Int  BY <1>t, NpOffsetType
  <2> QED BY <1>a, <2>3, <2>4, <2>7, <2>8
<1> QED BY <1>1, <1>2, <1>3

\* moor_addressmap_reverse keeps the table one to one.
LEMMA NpReverseInv ==
  ASSUME NpInv, NEW ip
  PROVE  /\ NpReverse(ip) \in Seq(NpRec) /\ Len(NpReverse(ip)) <= NpMapMax
         /\ NpDistinct(NpReverse(ip))
<1>t. /\ npMap \in Seq(NpRec) /\ Len(npMap) <= NpMapMax /\ NpDistinct(npMap)
      /\ NpMapMax \in Nat
  BY NpAssumption DEF NpInv
<1> DEFINE at == {i \in DOMAIN npMap : npMap[i].ip = ip}
<1>1. CASE NpReverse(ip) = npMap
  BY <1>t, <1>1
<1>2. CASE at # {} /\ NpReverse(ip) = SubSeq(npMap, 1, Min(at) - 1)
                                       \o SubSeq(npMap, Min(at) + 1, Len(npMap))
  <2>1. at \in SUBSET Nat  BY <1>t
  <2>2. PICK i \in DOMAIN npMap : i = Min(at)  BY <1>2, <2>1, MinIn
  <2>3. NpReverse(ip) = SubSeq(npMap, 1, i - 1) \o SubSeq(npMap, i + 1, Len(npMap))
    BY <1>2, <2>2
  <2> HIDE DEF at
  <2>4. /\ NpReverse(ip) \in Seq(NpRec) /\ NpDistinct(NpReverse(ip))
        /\ Len(NpReverse(ip)) = Len(npMap) - 1 /\ Len(npMap) \in Nat
    BY <1>t, <2>2, <2>3, NpRemove
  <2> QED BY <1>t, <2>4
<1> QED BY <1>1, <1>2 DEF NpReverse

\* Every step keeps the invariant.
LEMMA NpNextInv == NpInv /\ [NpNext]_npVars => NpInv'
<1> SUFFICES ASSUME NpInv, [NpNext]_npVars PROVE NpInv'
  OBVIOUS
<1>1. ASSUME NEW n \in NpMoor, NEW type \in {"A", "AAAA"}, NpDnsRead(n, type)
      PROVE  NpInv'
  <2>1. npMap' = NpAssign(n).map /\ npNext' = NpAssign(n).next /\ npTime' = npTime
    BY <1>1 DEF NpDnsRead
  <2> QED BY <2>1, NpAssignInv DEF NpInv
<1>2. CASE NpTransAccept
  <2>1. npMap' = NpReverse(npHeld.ip) /\ npNext' = npNext /\ npTime' = npTime
    BY <1>2 DEF NpTransAccept
  <2> QED BY <2>1, NpReverseInv DEF NpInv
<1>3. CASE NpTick
  BY <1>3 DEF NpTick, NpInv
<1>4. CASE UNCHANGED npVars
  BY <1>4 DEF npVars, NpInv
<1> QED BY <1>1, <1>2, <1>3, <1>4 DEF NpNext

\* The map of virtual addresses is one to one and bounded whatever names are
\* asked for, however often the range wraps around, and whichever mappings
\* are evicted or expire (addressmap.c, moor_addressmap_assign and
\* moor_addressmap_reverse).
THEOREM AddressesOneToOne == NpSpec => []NpOneToOne
<1>1. NpInit => NpInv
  <2> SUFFICES ASSUME NpInit PROVE NpInv
    OBVIOUS
  <2>1. npMap = <<>> /\ npNext = 1 /\ npTime = 0  BY DEF NpInit
  <2>2. NpMapMax \in Nat  BY NpAssumption
  <2> QED BY <2>1, <2>2 DEF NpInv, NpDistinct
<1>2. NpInv /\ [NpNext]_npVars => NpInv'  BY NpNextInv
<1>3. NpInv => NpOneToOne  BY DEF NpInv, NpOneToOne, NpDistinct
<1> QED BY <1>1, <1>2, <1>3, PTL DEF NpSpec

-----------------------------------------------------------------------------
(* DnsServer.  DsOwnAnswer is inductive with the types of the connections  *)
(* and of the cache.                                                       *)
DsQs == DsQuestions \cup {DsNone}
DsIds == DsTxids \cup {0}
DsResp == [q : DsQs, id : DsIds, ttl : Nat, at : Nat]
DsConnRec == [state : {"none", "length", "body", "connecting", "asking", "waiting", "writing"},
              q : DsQs, id : DsIds, have : Int, buf : DsIds, resp : DsResp]
DsSlotRec == [key : DsQs, resp : DsResp, expires : Nat, used : Nat]

DsTypeOK ==
  /\ dsConn \in [DsConns -> DsConnRec]
  /\ dsCache \in [1..DsSize -> DsSlotRec]
  /\ dsTime \in Nat

DsStaged == \A c \in DsConns : dsConn[c].state = "writing" =>
              dsConn[c].resp.q = dsConn[c].q /\ dsConn[c].resp.id = dsConn[c].id

DsKept == \A k \in 1..DsSize : dsCache[k].key # DsNone =>
            /\ dsCache[k].resp.q = dsCache[k].key
            /\ dsCache[k].expires <= dsCache[k].resp.at + dsCache[k].resp.ttl
            /\ \A j \in 1..DsSize : dsCache[j].key = dsCache[k].key => j = k

DsInv == DsTypeOK /\ DsStaged /\ DsKept

\* min_answer_ttl returns a number of seconds.
LEMMA DsTtlType ==
  ASSUME NEW r \in DsReplies
  PROVE  DsTtl(r) \in Nat
<1>1. r.ttls \in SUBSET Nat /\ DsTtlNx \in Nat /\ DsTtlMin \in Nat /\ DsTtlMax \in Nat
  BY DsAssumption
<1>2. CASE r.rcode = 3 \/ r.rcode # 0 \/ r.ttls = {}
  BY <1>1, <1>2 DEF DsTtl
<1>3. CASE r.rcode = 0 /\ r.ttls # {}
  <2>1. PICK a \in Nat : a = Min(r.ttls)  BY <1>1, <1>3, MinIn
  <2>2. PICK b \in Nat : b = Min({DsTtlMax, a})  BY <1>1, MinIn
  <2>3. PICK d \in {DsTtlMin, b} : \A y \in {DsTtlMin, b} : d >= y  BY <1>1
  <2>4. Max({DsTtlMin, b}) \in {DsTtlMin, b}  BY <2>3 DEF Max
  <2> QED BY <1>1, <1>3, <2>1, <2>2, <2>4 DEF DsTtl
<1> QED BY <1>2, <1>3

\* A step that changes one connection, not to one that answers.
LEMMA DsConnStep ==
  ASSUME DsInv, NEW c \in DsConns, NEW r \in DsConnRec,
         dsConn' = [dsConn EXCEPT ![c] = r],
         r.state = "writing" => r.resp.q = r.q /\ r.resp.id = r.id
  PROVE  dsConn' \in [DsConns -> DsConnRec] /\ DsStaged'
<1>1. /\ dsConn' \in [DsConns -> DsConnRec] /\ dsConn'[c] = r
      /\ \A d \in DsConns : d # c => dsConn'[d] = dsConn[d]
  BY DEF DsInv, DsTypeOK
<1>2. DsStaged'  BY <1>1 DEF DsInv, DsStaged
<1> QED BY <1>1, <1>2

\* A response put in the cache takes its question's slot when there is one.
LEMMA DsInsertInv ==
  ASSUME DsInv, NEW q \in DsQuestions, q # DsNone, NEW resp \in DsResp, resp.q = q,
         resp.at = dsTime, dsCache' = DsInsert(q, resp)
  PROVE  dsCache' \in [1..DsSize -> DsSlotRec] /\ DsKept'
<1>t. dsCache \in [1..DsSize -> DsSlotRec] /\ dsTime \in Nat /\ DsKept  BY DEF DsInv, DsTypeOK
<1>1. CASE resp.ttl = 0
  <2>1. dsCache' = dsCache  BY <1>1 DEF DsInsert
  <2> QED BY <1>t, <2>1 DEF DsKept
<1>2. CASE resp.ttl # 0
  <2>1. PICK until \in Nat : until = dsTime + resp.ttl  BY <1>t DEF DsResp
  <2> DEFINE e == [key |-> q, resp |-> resp, expires |-> until, used |-> dsTime]
             own == {k \in 1..DsSize : dsCache[k].key = q}
  <2>2. /\ e \in DsSlotRec /\ e.key = q /\ e.resp = resp /\ e.expires = until
    BY <1>t DEF DsSlotRec, DsQs
  <2>3. dsCache' = [dsCache EXCEPT ![DsSlot(q)] = e]  BY <1>2, <2>1 DEF DsInsert
  <2>4. own # {} => DsSlot(q) \in own
    <3>1. own \in SUBSET Nat  BY DsAssumption
    <3>2. own # {} => DsSlot(q) = Min(own)  BY DEF DsSlot
    <3> HIDE DEF own
    <3> QED BY <3>1, <3>2, MinIn
  <2> HIDE DEF e
  <2>5. /\ dsCache' \in [1..DsSize -> DsSlotRec]
        /\ \A k \in 1..DsSize : \/ dsCache'[k] = dsCache[k] /\ k # DsSlot(q)
                                \/ dsCache'[k] = e /\ k = DsSlot(q)
    BY <1>t, <2>2, <2>3
  <2>6. e.expires <= e.resp.at + e.resp.ttl  BY <2>1, <2>2
  <2>7. DsKept'
    <3>1. \A k \in 1..DsSize : dsCache'[k].key = q => k = DsSlot(q)
      BY <2>4, <2>5, <1>t DEF DsKept
    <3> SUFFICES ASSUME NEW k \in 1..DsSize, dsCache'[k].key # DsNone
                 PROVE  /\ dsCache'[k].resp.q = dsCache'[k].key
                        /\ dsCache'[k].expires <= dsCache'[k].resp.at + dsCache'[k].resp.ttl
                        /\ \A j \in 1..DsSize : dsCache'[j].key = dsCache'[k].key => j = k
      BY DEF DsKept
    <3>2. CASE dsCache'[k] = e /\ k = DsSlot(q)
      BY <2>2, <2>5, <2>6, <3>1, <3>2
    <3>3. CASE dsCache'[k] = dsCache[k] /\ k # DsSlot(q)
      BY <1>t, <2>2, <2>5, <3>1, <3>3 DEF DsKept
    <3> QED BY <2>5, <3>2, <3>3
  <2> QED BY <2>5, <2>7
<1> QED BY <1>1, <1>2

\* DsReadBody: the response kept under the question is staged, or the
\* question goes upstream.
LEMMA DsReadBodyInv ==
  ASSUME DsInv, NEW c \in DsConns, NEW q \in DsQs, NEW id \in DsTxids, NEW up \in DsTxids,
         DsReadBody(c, q, id, up)
  PROVE  DsInv'
<1>t. /\ dsConn \in [DsConns -> DsConnRec] /\ dsCache \in [1..DsSize -> DsSlotRec]
      /\ dsTime \in Nat /\ DsKept /\ dsConn[c] \in DsConnRec
  BY DEF DsInv, DsTypeOK
<1>u. dsTime' = dsTime  BY DEF DsReadBody
<1> DEFINE hits == IF q = DsNone THEN {} ELSE DsHits(q)
<1>1. CASE hits # {} /\ dsCache' = [dsCache EXCEPT ![Min(hits)].used = dsTime]
                     /\ dsConn' = [[dsConn EXCEPT ![c].q = q, ![c].id = id, ![c].buf = id]
                          EXCEPT ![c].state = "writing",
                                 ![c].resp = [dsCache[Min(hits)].resp EXCEPT !.id = id]]
  <2>1. hits = DsHits(q) /\ q # DsNone /\ DsHits(q) \subseteq 1..DsSize  BY <1>1 DEF DsHits
  <2>2. PICK k \in 1..DsSize : k = Min(hits) /\ k \in hits
    <3>1. hits \in SUBSET Nat  BY <2>1, DsAssumption
    <3> QED BY <1>1, <2>1, <3>1, MinIn
  <2>3. dsCache[k].key = q  BY <2>1, <2>2 DEF DsHits
  <2>r. PICK old \in DsResp : old = dsCache[k].resp  BY <1>t DEF DsSlotRec
  <2> DEFINE resp == [old EXCEPT !.id = id]
  <2>4. resp \in DsResp /\ resp.q = q /\ resp.id = id
    <3>1. old.q = q  BY <1>t, <2>1, <2>3, <2>r DEF DsKept
    <3> QED BY <3>1 DEF DsResp, DsIds
  <2> DEFINE r == [dsConn[c] EXCEPT !.q = q, !.id = id, !.buf = id, !.state = "writing",
                                    !.resp = resp]
  <2>5. dsConn' = [dsConn EXCEPT ![c] = r]  BY <1>1, <1>t, <2>2, <2>r
  <2> HIDE DEF resp
  <2>6. r \in DsConnRec /\ r.resp = resp /\ r.q = q /\ r.id = id
    BY <1>t, <2>4 DEF DsConnRec, DsIds
  <2> HIDE DEF r
  <2>7. dsConn' \in [DsConns -> DsConnRec] /\ DsStaged'  BY <2>4, <2>5, <2>6, DsConnStep
  <2>8. /\ dsCache' \in [1..DsSize -> DsSlotRec]
        /\ \A j \in 1..DsSize : /\ dsCache'[j].key = dsCache[j].key
                                /\ dsCache'[j].resp = dsCache[j].resp
                                /\ dsCache'[j].expires = dsCache[j].expires
    <3>1. dsCache' = [dsCache EXCEPT ![k].used = dsTime]  BY <1>1, <2>2
    <3> QED BY <1>t, <3>1 DEF DsSlotRec
  <2>9. DsKept'  BY <1>t, <2>8 DEF DsKept
  <2> QED BY <1>t, <1>u, <2>7, <2>8, <2>9 DEF DsInv, DsTypeOK
<1>2. CASE dsCache' = dsCache /\ dsConn' = [[dsConn EXCEPT ![c].q = q, ![c].id = id, ![c].buf = id]
                                   EXCEPT ![c].state = "connecting", ![c].buf = up]
  <2> DEFINE r == [dsConn[c] EXCEPT !.q = q, !.id = id, !.buf = up, !.state = "connecting"]
  <2>1. dsConn' = [dsConn EXCEPT ![c] = r]  BY <1>2, <1>t
  <2>2. r \in DsConnRec /\ r.state = "connecting"  BY <1>t DEF DsConnRec, DsIds
  <2> HIDE DEF r
  <2>3. dsConn' \in [DsConns -> DsConnRec] /\ DsStaged'  BY <2>1, <2>2, DsConnStep
  <2> QED BY <1>2, <1>t, <1>u, <2>3 DEF DsInv, DsTypeOK, DsKept
<1>3. CASE dsCache' = dsCache /\ dsConn' = DsFree(c)
  <2>1. DsClosed \in DsConnRec /\ DsClosed.state = "none"
    BY DEF DsClosed, DsNoReply, DsConnRec, DsResp, DsIds, DsQs
  <2>2. dsConn' \in [DsConns -> DsConnRec] /\ DsStaged'  BY <1>3, <2>1, DsConnStep DEF DsFree
  <2> QED BY <1>3, <1>t, <1>u, <2>2 DEF DsInv, DsTypeOK, DsKept
<1> QED BY <1>1, <1>2, <1>3 DEF DsReadBody

\* DsUpRead: the reply is cached and staged under the client's own question.
LEMMA DsUpReadInv ==
  ASSUME DsInv, NEW c \in DsConns, NEW r \in DsReplies, DsUpRead(c, r)
  PROVE  DsInv'
<1>t. /\ dsConn \in [DsConns -> DsConnRec] /\ dsCache \in [1..DsSize -> DsSlotRec]
      /\ dsTime \in Nat /\ DsKept /\ dsConn[c] \in DsConnRec
  BY DEF DsInv, DsTypeOK
<1>1. PICK ttl \in Nat : ttl = DsTtl(r)  BY DsTtlType
<1>2. PICK q \in DsQs : q = dsConn[c].q  BY <1>t DEF DsConnRec
<1>3. PICK id \in DsIds, buf \in DsIds : id = dsConn[c].id /\ buf = dsConn[c].buf
  BY <1>t DEF DsConnRec
<1> DEFINE resp == [q |-> q, id |-> buf, ttl |-> ttl, at |-> dsTime]
<1>4. resp \in DsResp /\ resp.q = q /\ resp.at = dsTime  BY <1>t, <1>1, <1>2, <1>3 DEF DsResp
<1>5. /\ dsCache' = IF q = DsNone THEN dsCache ELSE DsInsert(q, resp)
      /\ dsConn' = DsDeliver(c, resp) /\ dsTime' = dsTime
  BY <1>1, <1>2, <1>3 DEF DsUpRead
<1> HIDE DEF resp
<1>6. dsCache' \in [1..DsSize -> DsSlotRec] /\ DsKept'
  <2>1. CASE q = DsNone
    BY <1>t, <1>5, <2>1 DEF DsKept
  <2>2. CASE q # DsNone
    <3>1. q \in DsQuestions /\ dsCache' = DsInsert(q, resp)  BY <1>2, <1>5, <2>2 DEF DsQs
    <3> QED BY <1>4, <2>2, <3>1, DsInsertInv
  <2> QED BY <2>1, <2>2
<1> DEFINE own == [resp EXCEPT !.id = id]
           n == [dsConn[c] EXCEPT !.state = "writing", !.resp = own]
<1>7. own \in DsResp /\ own.q = q /\ own.id = id  BY <1>3, <1>4 DEF DsResp
<1>8. dsConn' = [dsConn EXCEPT ![c] = n]  BY <1>t, <1>3, <1>5 DEF DsDeliver
<1> HIDE DEF own
<1>9. n \in DsConnRec /\ n.resp = own /\ n.q = q /\ n.id = id
  BY <1>t, <1>2, <1>3, <1>7 DEF DsConnRec
<1> HIDE DEF n
<1>10. dsConn' \in [DsConns -> DsConnRec] /\ DsStaged'  BY <1>7, <1>8, <1>9, DsConnStep
<1> QED BY <1>t, <1>5, <1>6, <1>10 DEF DsInv, DsTypeOK

\* The steps that stage no response.
LEMMA DsOtherInv ==
  ASSUME DsInv, NEW c \in DsConns,
         DsAccept(c) \/ DsReadLength(c) \/ DsUpWrite(c) \/ DsWritten(c) \/ DsFails(c)
  PROVE  DsInv'
<1>t. dsConn \in [DsConns -> DsConnRec] /\ dsConn[c] \in DsConnRec  BY DEF DsInv, DsTypeOK
<1>u. UNCHANGED <<dsCache, dsTime>>
  BY DEF DsAccept, DsReadLength, DsUpWrite, DsWritten, DsFails
<1>1. PICK r \in DsConnRec : dsConn' = [dsConn EXCEPT ![c] = r] /\ r.state # "writing"
  <2>1. CASE DsWritten(c) \/ DsFails(c)
    <3>1. DsClosed \in DsConnRec /\ DsClosed.state = "none"
      BY DEF DsClosed, DsNoReply, DsConnRec, DsResp, DsIds, DsQs
    <3> QED BY <2>1, <3>1 DEF DsWritten, DsFails, DsFree
  <2>2. CASE DsAccept(c) \/ DsUpWrite(c)
    <3>1. PICK s \in {"length", "asking", "waiting"} : dsConn' = [dsConn EXCEPT ![c].state = s]
      BY <2>2 DEF DsAccept, DsUpWrite
    <3> DEFINE r == [dsConn[c] EXCEPT !.state = s]
    <3>2. r \in DsConnRec /\ r.state # "writing" /\ dsConn' = [dsConn EXCEPT ![c] = r]
      BY <1>t, <3>1 DEF DsConnRec
    <3> HIDE DEF r
    <3> QED BY <3>2
  <2>3. CASE DsReadLength(c)
    <3>1. PICK n \in 1..(2 - dsConn[c].have) :
            dsConn' = [dsConn EXCEPT ![c].have = @ + n,
                         ![c].state = IF dsConn[c].have + n = 2 THEN "body" ELSE "length"]
      BY <2>3 DEF DsReadLength
    <3>2. PICK m \in Int : m = dsConn[c].have + n  BY <1>t DEF DsConnRec
    <3>3. PICK s \in {"body", "length"} : s = IF dsConn[c].have + n = 2 THEN "body" ELSE "length"
      OBVIOUS
    <3> DEFINE r == [dsConn[c] EXCEPT !.have = m, !.state = s]
    <3>4. dsConn' = [dsConn EXCEPT ![c] = r]  BY <1>t, <3>1, <3>2, <3>3
    <3>5. r \in DsConnRec /\ r.state # "writing"  BY <1>t, <3>2, <3>3 DEF DsConnRec
    <3> HIDE DEF r
    <3> QED BY <3>4, <3>5
  <2> QED BY <2>1, <2>2, <2>3
<1>2. dsConn' \in [DsConns -> DsConnRec] /\ DsStaged'  BY <1>1, DsConnStep
<1> QED BY <1>u, <1>2 DEF DsInv, DsTypeOK, DsKept

\* Every step keeps the invariant.
LEMMA DsNextInv == DsInv /\ [DsNext]_dsVars => DsInv'
<1> SUFFICES ASSUME DsInv, [DsNext]_dsVars PROVE DsInv'
  OBVIOUS
<1>1. ASSUME NEW c \in DsConns,
             DsAccept(c) \/ DsReadLength(c) \/ DsUpWrite(c) \/ DsWritten(c) \/ DsFails(c)
      PROVE  DsInv'
  BY <1>1, DsOtherInv
<1>2. ASSUME NEW c \in DsConns, NEW q \in DsQuestions \cup {DsNone}, NEW id \in DsTxids,
             NEW up \in DsTxids, DsReadBody(c, q, id, up)
      PROVE  DsInv'
  BY <1>2, DsReadBodyInv DEF DsQs
<1>3. ASSUME NEW c \in DsConns, NEW r \in DsReplies, DsUpRead(c, r)
      PROVE  DsInv'
  BY <1>3, DsUpReadInv
<1>4. CASE DsTick
  BY <1>4 DEF DsTick, DsInv, DsTypeOK, DsStaged, DsKept
<1>5. CASE UNCHANGED dsVars
  BY <1>5 DEF dsVars, DsInv, DsTypeOK, DsStaged, DsKept
<1> QED BY <1>1, <1>2, <1>3, <1>4, <1>5 DEF DsNext

\* Whatever the connections ask at the same time and whatever the resolver
\* replies, each client gets the answer to its own question under its own
\* transaction id, and the cache keeps one response per question, no longer
\* than its TTL (dns_server.c, deliver_to_client, cache_insert).
THEOREM DnsOwnAnswers == DsSpec => []DsOwnAnswer
<1>1. DsInit => DsInv
  <2> SUFFICES ASSUME DsInit PROVE DsInv
    OBVIOUS
  <2>1. DsNoReply \in DsResp  BY DEF DsNoReply, DsResp, DsIds, DsQs
  <2>2. DsClosed \in DsConnRec /\ DsClosed.state = "none"
    BY <2>1 DEF DsClosed, DsConnRec, DsIds, DsQs
  <2>3. DsUnused \in DsSlotRec /\ DsUnused.key = DsNone  BY <2>1 DEF DsUnused, DsSlotRec, DsQs
  <2> QED BY <2>2, <2>3 DEF DsInit, DsInv, DsTypeOK, DsStaged, DsKept
<1>2. DsInv /\ [DsNext]_dsVars => DsInv'  BY DsNextInv
<1>3. DsInv => DsOwnAnswer  BY DEF DsInv, DsStaged, DsKept, DsOwnAnswer
<1> QED BY <1>1, <1>2, <1>3, PTL DEF DsSpec
-----------------------------------------------------------------------------
(* SocksClient.  ScOk is inductive: the tables of circuits are disjoint    *)
(* and name each circuit once, what they and the clients name is alive,    *)
(* a client is on a circuit only after its request (or when redirected),   *)
(* under the key of the cache entry, and what a worker has handed over is  *)
(* not marked, so that moor_circuit_close_all_marked cannot free it before *)
(* hs_connect_complete_cb takes it.  The loops of the code are followed    *)
(* turn by turn.                                                           *)

\* The circuits named by a table of circuits, and that it names each once.
ScHeld(f) == {f[x] : x \in DOMAIN f} \ {ScNone}
ScSingle(f) == \A x, y \in DOMAIN f : f[x] = f[y] /\ f[x] # ScNone => x = y

\* The circuits of a table of records.
ScCircOf(q) == [i \in DOMAIN q |-> q[i].circ]

ScSeq(q) == q \in Seq(ToSet(q))

\* r is made of entries of q that are at places of X, each used once.
ScPart(r, q, X) ==
    /\ ScSeq(r) /\ X \subseteq DOMAIN q
    /\ \E place \in [DOMAIN r -> X] :
          /\ \A j \in DOMAIN r : r[j] = q[place[j]]
          /\ \A j, k \in DOMAIN r : place[j] = place[k] => j = k

\* A function on 1..n is a sequence.
LEMMA ScSeqMade ==
  ASSUME NEW n \in Nat, NEW q, q = [i \in 1..n |-> q[i]]
  PROVE  ScSeq(q) /\ Len(q) = n /\ DOMAIN q = 1..n
<1> DEFINE S == ToSet(q)
<1>1. \A i \in 1..n : q[i] \in S  BY DEF ToSet
<1> HIDE DEF S
<1>2. q \in Seq(S)  BY <1>1
<1>3. Len(q) = n /\ DOMAIN q = 1..n  BY <1>2
<1> QED BY <1>2, <1>3 DEF ScSeq, S

\* What a sequence is.
LEMMA ScSeqParts ==
  ASSUME NEW q, ScSeq(q)
  PROVE  Len(q) \in Nat /\ DOMAIN q = 1..Len(q) /\ q = [i \in 1..Len(q) |-> q[i]]
BY DEF ScSeq

\* What a part keeps of the table it is taken from.
LEMMA ScPartKeeps ==
  ASSUME NEW r, NEW q, NEW X, ScPart(r, q, X)
  PROVE  /\ ToSet(r) \subseteq ToSet(q)
         /\ ScSingle(q) => ScSingle(r)
         /\ ScHeld(r) \subseteq ScHeld(q)
         /\ ScSingle(ScCircOf(q)) => ScSingle(ScCircOf(r))
         /\ ScHeld(ScCircOf(r)) \subseteq ScHeld(ScCircOf(q))
         /\ \A x \in DOMAIN q : x \notin X /\ ScSingle(q) => q[x] \notin ScHeld(r)
         /\ \A x \in DOMAIN q : x \notin X /\ ScSingle(ScCircOf(q)) =>
               q[x].circ \notin ScHeld(ScCircOf(r))
<1>0. PICK place \in [DOMAIN r -> X] :
          /\ \A j \in DOMAIN r : r[j] = q[place[j]]
          /\ \A j, k \in DOMAIN r : place[j] = place[k] => j = k
  BY DEF ScPart
<1>1. \A j \in DOMAIN r : place[j] \in X /\ place[j] \in DOMAIN q /\ r[j] = q[place[j]]
  BY <1>0 DEF ScPart
<1>2. ToSet(r) \subseteq ToSet(q)  BY <1>1 DEF ToSet
<1>3. ScSingle(q) => ScSingle(r)  BY <1>0, <1>1 DEF ScSingle
<1>4. ScHeld(r) \subseteq ScHeld(q)  BY <1>1 DEF ScHeld
<1>5. /\ DOMAIN ScCircOf(q) = DOMAIN q /\ \A x \in DOMAIN q : ScCircOf(q)[x] = q[x].circ
      /\ DOMAIN ScCircOf(r) = DOMAIN r /\ \A x \in DOMAIN r : ScCircOf(r)[x] = r[x].circ
  BY DEF ScCircOf
<1>6. \A j \in DOMAIN r : ScCircOf(r)[j] = ScCircOf(q)[place[j]]  BY <1>1, <1>5
<1>7. ScSingle(ScCircOf(q)) => ScSingle(ScCircOf(r))  BY <1>0, <1>1, <1>5, <1>6 DEF ScSingle
<1>8. ScHeld(ScCircOf(r)) \subseteq ScHeld(ScCircOf(q))  BY <1>1, <1>5, <1>6 DEF ScHeld
<1>9. ASSUME NEW x \in DOMAIN q, x \notin X, ScSingle(q) PROVE q[x] \notin ScHeld(r)
  BY <1>1, <1>9 DEF ScHeld, ScSingle
<1>10. ASSUME NEW x \in DOMAIN q, x \notin X, ScSingle(ScCircOf(q))
       PROVE  q[x].circ \notin ScHeld(ScCircOf(r))
  BY <1>1, <1>5, <1>6, <1>10 DEF ScHeld, ScSingle
<1> QED BY <1>2, <1>3, <1>4, <1>7, <1>8, <1>9, <1>10

\* Swapping the last entry into place i drops what was there.
LEMMA ScSwapOutPart ==
  ASSUME NEW q, ScSeq(q), NEW i \in DOMAIN q
  PROVE  ScPart(ScSwapOut(q, i), q, DOMAIN q \ {i}) /\ Len(ScSwapOut(q, i)) = Len(q) - 1
<1>1. PICK n \in Nat : n = Len(q)  BY ScSeqParts
<1>2. DOMAIN q = 1..n /\ n - 1 \in Nat  BY <1>1, ScSeqParts
<1> DEFINE r == ScSwapOut(q, i)
           place == [j \in 1..(n - 1) |-> IF j = i THEN n ELSE j]
<1>3. r = [j \in 1..(n - 1) |-> IF j = i THEN q[n] ELSE q[j]]  BY <1>1 DEF ScSwapOut
<1> HIDE DEF r
<1>4. r = [j \in 1..(n - 1) |-> r[j]]  BY <1>3
<1>5. ScSeq(r) /\ Len(r) = n - 1 /\ DOMAIN r = 1..(n - 1)  BY <1>2, <1>4, ScSeqMade
<1>6. place \in [DOMAIN r -> DOMAIN q \ {i}]  BY <1>2, <1>5
<1>7. \A j \in DOMAIN r : r[j] = q[place[j]]  BY <1>3, <1>5
<1>8. \A j, k \in DOMAIN r : place[j] = place[k] => j = k  BY <1>2, <1>5
<1> HIDE DEF place
<1>9. ScPart(r, q, DOMAIN q \ {i})  BY <1>5, <1>6, <1>7, <1>8 DEF ScPart
<1> QED BY <1>1, <1>5, <1>9 DEF r

\* Taking the head drops what was in the first place.
LEMMA ScTailPart ==
  ASSUME NEW q, ScSeq(q), q # <<>>
  PROVE  /\ 1 \in DOMAIN q /\ Head(q) = q[1]
         /\ ScPart(Tail(q), q, DOMAIN q \ {1}) /\ Len(Tail(q)) = Len(q) - 1
<1>1. PICK n \in Nat : n = Len(q)  BY ScSeqParts
<1>2. DOMAIN q = 1..n /\ n # 0 /\ n - 1 \in Nat  BY <1>1, ScSeqParts DEF ScSeq
<1> DEFINE r == Tail(q)
           place == [j \in 1..(n - 1) |-> j + 1]
<1>3. r = [j \in 1..(n - 1) |-> q[j + 1]]
  <2> DEFINE S == ToSet(q)
  <2>1. q \in Seq(S) /\ q # <<>>  BY DEF ScSeq
  <2> HIDE DEF S
  <2>2. Tail(q) \in Seq(S) /\ Len(Tail(q)) = n - 1
        /\ \A j \in 1..(n - 1) : Tail(q)[j] = q[j + 1]
    BY <1>1, <1>2, <2>1
  <2>3. PICK a : a = Tail(q)  OBVIOUS
  <2>4. a \in Seq(S) /\ Len(a) = n - 1 /\ \A j \in 1..(n - 1) : a[j] = q[j + 1]  BY <2>2, <2>3
  <2>5. a = [j \in 1..(n - 1) |-> a[j]]  BY <1>2, <2>4
  <2>6. a = [j \in 1..(n - 1) |-> q[j + 1]]  BY <2>4, <2>5
  <2> QED BY <2>3, <2>6
<1> HIDE DEF r
<1>4. r = [j \in 1..(n - 1) |-> r[j]]  BY <1>3
<1>5. ScSeq(r) /\ Len(r) = n - 1 /\ DOMAIN r = 1..(n - 1)  BY <1>2, <1>4, ScSeqMade
<1>6. place \in [DOMAIN r -> DOMAIN q \ {1}]  BY <1>2, <1>5
<1>7. \A j \in DOMAIN r : r[j] = q[place[j]]  BY <1>3, <1>5
<1>8. \A j, k \in DOMAIN r : place[j] = place[k] => j = k  BY <1>2, <1>5
<1> HIDE DEF place
<1>9. ScPart(r, q, DOMAIN q \ {1})  BY <1>5, <1>6, <1>7, <1>8 DEF ScPart
<1>10. Head(q) = q[1] /\ 1 \in DOMAIN q  BY <1>2 DEF ScSeq
<1> QED BY <1>1, <1>5, <1>9, <1>10 DEF r

\* Cutting a table short.
LEMMA ScPrefixPart ==
  ASSUME NEW q, ScSeq(q), NEW m \in 0..Len(q)
  PROVE  ScPart(SubSeq(q, 1, m), q, 1..m)
<1>1. PICK n \in Nat : n = Len(q)  BY ScSeqParts
<1>2. DOMAIN q = 1..n /\ m \in Nat /\ m <= n  BY <1>1, ScSeqParts
<1> DEFINE r == SubSeq(q, 1, m)
           place == [j \in 1..m |-> j]
<1>3. r = [j \in 1..m |-> q[j]]  BY <1>1, <1>2 DEF ScSeq
<1> HIDE DEF r
<1>4. r = [j \in 1..m |-> r[j]]  BY <1>3
<1>5. ScSeq(r) /\ DOMAIN r = 1..m  BY <1>2, <1>4, ScSeqMade
<1>6. place \in [DOMAIN r -> 1..m] /\ 1..m \subseteq DOMAIN q  BY <1>2, <1>5
<1>7. \A j \in DOMAIN r : r[j] = q[place[j]]  BY <1>3, <1>5
<1>8. \A j, k \in DOMAIN r : place[j] = place[k] => j = k  BY <1>2, <1>5
<1> HIDE DEF place
<1>9. ScPart(r, q, 1..m)  BY <1>5, <1>6, <1>7, <1>8 DEF ScPart
<1> QED BY <1>9 DEF r

\* A circuit that is not in the table is added to it.
LEMMA ScAppended ==
  ASSUME NEW q, ScSeq(q), NEW e
  PROVE  LET r == Append(q, e) IN
         /\ ScSeq(r) /\ Len(r) = Len(q) + 1
         /\ ToSet(r) = ToSet(q) \cup {e}
         /\ ScHeld(r) = ScHeld(q) \cup ({e} \ {ScNone})
         /\ ScHeld(ScCircOf(r)) = ScHeld(ScCircOf(q)) \cup ({e.circ} \ {ScNone})
         /\ ScSingle(q) /\ e \notin ScHeld(q) => ScSingle(r)
         /\ ScSingle(ScCircOf(q)) /\ e.circ \notin ScHeld(ScCircOf(q)) =>
               ScSingle(ScCircOf(r))
<1>1. PICK n \in Nat : n = Len(q)  BY ScSeqParts
<1>2. DOMAIN q = 1..n /\ n + 1 \in Nat  BY <1>1, ScSeqParts
<1> DEFINE r == Append(q, e)
<1>3. r = [j \in 1..(n + 1) |-> IF j = n + 1 THEN e ELSE q[j]]
  <2> DEFINE S == ToSet(q) \cup {e}
  <2>1. q \in Seq(S) /\ e \in S
    <3> DEFINE Q == ToSet(q)
    <3> HIDE DEF Q
    <3>1. q \in Seq(Q)  BY DEF ScSeq, Q
    <3>2. q \in Seq(Q \cup {e})  BY <3>1
    <3> QED BY <3>2 DEF Q
  <2> HIDE DEF S
  <2>2. Append(q, e) \in Seq(S) /\ Len(Append(q, e)) = n + 1
        /\ \A j \in 1..n : Append(q, e)[j] = q[j]
        /\ Append(q, e)[n + 1] = e
    BY <1>1, <2>1, AppendProperties
  <2>3. PICK a : a = Append(q, e)  OBVIOUS
  <2>4. a \in Seq(S) /\ Len(a) = n + 1 /\ (\A j \in 1..n : a[j] = q[j]) /\ a[n + 1] = e
    BY <2>2, <2>3
  <2>5. a = [j \in 1..(n + 1) |-> a[j]]  BY <2>4
  <2>6. \A j \in 1..(n + 1) : a[j] = IF j = n + 1 THEN e ELSE q[j]  BY <2>4
  <2>7. a = [j \in 1..(n + 1) |-> IF j = n + 1 THEN e ELSE q[j]]  BY <2>5, <2>6
  <2> QED BY <2>3, <2>7
<1> HIDE DEF r
<1>4. r = [j \in 1..(n + 1) |-> r[j]]  BY <1>3
<1>5. ScSeq(r) /\ Len(r) = n + 1 /\ DOMAIN r = 1..(n + 1)  BY <1>2, <1>4, ScSeqMade
<1>6. /\ n + 1 \in DOMAIN r /\ r[n + 1] = e /\ n + 1 \notin DOMAIN q
      /\ \A j \in DOMAIN q : j \in DOMAIN r /\ r[j] = q[j]
      /\ \A j \in DOMAIN r : j = n + 1 \/ j \in DOMAIN q
  BY <1>2, <1>3, <1>5
<1>7. PICK x : x = n + 1  OBVIOUS
<1>8. /\ x \in DOMAIN r /\ r[x] = e /\ x \notin DOMAIN q
      /\ \A j \in DOMAIN q : j \in DOMAIN r /\ r[j] = q[j]
      /\ \A j \in DOMAIN r : j = x \/ j \in DOMAIN q
  BY <1>6, <1>7
<1>9. /\ DOMAIN ScCircOf(q) = DOMAIN q /\ \A j \in DOMAIN q : ScCircOf(q)[j] = q[j].circ
      /\ DOMAIN ScCircOf(r) = DOMAIN r /\ \A j \in DOMAIN r : ScCircOf(r)[j] = r[j].circ
  BY DEF ScCircOf
<1>10. ToSet(r) = ToSet(q) \cup {e}  BY <1>8 DEF ToSet
<1>11. ScHeld(r) = ScHeld(q) \cup ({e} \ {ScNone})  BY <1>8 DEF ScHeld
<1>12. ScHeld(ScCircOf(r)) = ScHeld(ScCircOf(q)) \cup ({e.circ} \ {ScNone})
  BY <1>8, <1>9 DEF ScHeld
<1>13. ScSingle(q) /\ e \notin ScHeld(q) => ScSingle(r)  BY <1>8 DEF ScHeld, ScSingle
<1>14. ScSingle(ScCircOf(q)) /\ e.circ \notin ScHeld(ScCircOf(q)) => ScSingle(ScCircOf(r))
  BY <1>8, <1>9 DEF ScHeld, ScSingle
<1>15. Len(r) = Len(q) + 1  BY <1>1, <1>5
<1> QED BY <1>5, <1>10, <1>11, <1>12, <1>13, <1>14, <1>15 DEF r

\* A client that is on a circuit is past its request, or was redirected and
\* is left in it.
ScSits(r) == r.st \in {"connected", "streaming"} \/ (r.st = "request" /\ r.iso = "trans")

\* What holds between the clients cl, the circuits ci, the entries K of the
\* cache and the circuits of the pool (B), the pending table (C) and the
\* results of workers (D).
ScSound(cl, ci, K, B, C, D) ==
    /\ \A e \in K : /\ e.circ \in ScCircs /\ ci[e.circ].alive
                    /\ e.circ \notin B /\ e.circ \notin C /\ e.circ \notin D
    /\ \A e, f \in K : e.circ = f.circ => e = f
    /\ \A c \in B : c \in ScCircs /\ ci[c].alive /\ c \notin C /\ c \notin D
    /\ \A c \in C : c \in ScCircs /\ ci[c].alive /\ c \notin D
    /\ \A c \in D : c \in ScCircs /\ ci[c].alive /\ ci[c].rp /\ ~ci[c].marked
    /\ \A i \in ScSlots : cl[i].circ # ScNone =>
          /\ cl[i].circ \in ScCircs /\ ci[cl[i].circ].alive /\ ScSits(cl[i])
          /\ cl[i].circ \notin B /\ cl[i].circ \notin C /\ cl[i].circ \notin D
          /\ \A e \in K : e.circ = cl[i].circ => e.dest = cl[i].dest /\ e.iso = cl[i].iso
          /\ \A j \in ScSlots : cl[j].circ = cl[i].circ =>
                cl[j].dest = cl[i].dest /\ cl[j].iso = cl[i].iso

\* A client stays where it is or leaves its circuit.
ScStays(r, q) ==
    r.circ = ScNone \/ (r.circ = q.circ /\ r.dest = q.dest /\ r.iso = q.iso /\ ScSits(r))

\* A client comes to the circuit of an entry of the cache made for it.
ScComes(r, e) == r.circ = e.circ /\ r.dest = e.dest /\ r.iso = e.iso /\ ScSits(r)

\* No table and no client has the circuit.
ScUnowned(c, cl, K, B, C, D) ==
    /\ c \notin B /\ c \notin C /\ c \notin D
    /\ \A e \in K : e.circ # c
    /\ \A i \in ScSlots : cl[i].circ # c

\* Tables may lose entries, clients their circuits; circuits are not freed.
LEMMA ScSoundLess ==
  ASSUME NEW cl, NEW ci, NEW K, NEW B, NEW C, NEW D, ScSound(cl, ci, K, B, C, D),
         NEW cl1, NEW ci1, NEW K1, NEW B1, NEW C1, NEW D1,
         \A i \in ScSlots : ScStays(cl1[i], cl[i]),
         K1 \subseteq K, B1 \subseteq B, C1 \subseteq C, D1 \subseteq D,
         \A c \in ScCircs : ci[c].alive => ci1[c].alive,
         \A c \in D1 : ci1[c].rp /\ ~ci1[c].marked
  PROVE  ScSound(cl1, ci1, K1, B1, C1, D1)
<1>1. /\ \A e \in K1 : /\ e.circ \in ScCircs /\ ci1[e.circ].alive
                       /\ e.circ \notin B1 /\ e.circ \notin C1 /\ e.circ \notin D1
      /\ \A e, f \in K1 : e.circ = f.circ => e = f
  BY DEF ScSound
<1>2. /\ \A c \in B1 : c \in ScCircs /\ ci1[c].alive /\ c \notin C1 /\ c \notin D1
      /\ \A c \in C1 : c \in ScCircs /\ ci1[c].alive /\ c \notin D1
      /\ \A c \in D1 : c \in ScCircs /\ ci1[c].alive /\ ci1[c].rp /\ ~ci1[c].marked
  BY DEF ScSound
<1>3. ASSUME NEW i \in ScSlots, cl1[i].circ # ScNone
      PROVE  /\ cl1[i].circ \in ScCircs /\ ci1[cl1[i].circ].alive /\ ScSits(cl1[i])
             /\ cl1[i].circ \notin B1 /\ cl1[i].circ \notin C1 /\ cl1[i].circ \notin D1
             /\ \A e \in K1 : e.circ = cl1[i].circ => e.dest = cl1[i].dest /\ e.iso = cl1[i].iso
             /\ \A j \in ScSlots : cl1[j].circ = cl1[i].circ =>
                   cl1[j].dest = cl1[i].dest /\ cl1[j].iso = cl1[i].iso
  BY <1>3 DEF ScSound, ScStays
<1> QED BY <1>1, <1>2, <1>3 DEF ScSound

\* A circuit nobody has is put into the cache,
LEMMA ScSoundCache ==
  ASSUME NEW cl, NEW ci, NEW K, NEW B, NEW C, NEW D, ScSound(cl, ci, K, B, C, D),
         NEW c \in ScCircs, ci[c].alive, ScUnowned(c, cl, K, B, C, D),
         NEW e, e.circ = c
  PROVE  ScSound(cl, ci, K \cup {e}, B, C, D)
BY DEF ScSound, ScUnowned

\* the pool,
LEMMA ScSoundPool ==
  ASSUME NEW cl, NEW ci, NEW K, NEW B, NEW C, NEW D, ScSound(cl, ci, K, B, C, D),
         NEW c \in ScCircs, ci[c].alive, ScUnowned(c, cl, K, B, C, D)
  PROVE  ScSound(cl, ci, K, B \cup {c}, C, D)
BY DEF ScSound, ScUnowned

\* the pending table,
LEMMA ScSoundPend ==
  ASSUME NEW cl, NEW ci, NEW K, NEW B, NEW C, NEW D, ScSound(cl, ci, K, B, C, D),
         NEW c \in ScCircs, ci[c].alive, ScUnowned(c, cl, K, B, C, D)
  PROVE  ScSound(cl, ci, K, B, C \cup {c}, D)
BY DEF ScSound, ScUnowned

\* the results of the workers,
LEMMA ScSoundRes ==
  ASSUME NEW cl, NEW ci, NEW K, NEW B, NEW C, NEW D, ScSound(cl, ci, K, B, C, D),
         NEW c \in ScCircs, ci[c].alive, ci[c].rp, ~ci[c].marked,
         ScUnowned(c, cl, K, B, C, D)
  PROVE  ScSound(cl, ci, K, B, C, D \cup {c})
BY DEF ScSound, ScUnowned

\* or becomes another.
LEMMA ScSoundCirc ==
  ASSUME NEW cl, NEW ci, NEW K, NEW B, NEW C, NEW D, ScSound(cl, ci, K, B, C, D),
         NEW c, ScUnowned(c, cl, K, B, C, D),
         NEW ci1, \A x \in ScCircs : x # c => ci1[x] = ci[x]
  PROVE  ScSound(cl, ci1, K, B, C, D)
<1>1. /\ \A e \in K : /\ e.circ \in ScCircs /\ ci1[e.circ].alive
                      /\ e.circ \notin B /\ e.circ \notin C /\ e.circ \notin D
      /\ \A e, f \in K : e.circ = f.circ => e = f
  BY DEF ScSound, ScUnowned
<1>2. /\ \A x \in B : x \in ScCircs /\ ci1[x].alive /\ x \notin C /\ x \notin D
      /\ \A x \in C : x \in ScCircs /\ ci1[x].alive /\ x \notin D
      /\ \A x \in D : x \in ScCircs /\ ci1[x].alive /\ ci1[x].rp /\ ~ci1[x].marked
  BY DEF ScSound, ScUnowned
<1>3. \A i \in ScSlots : cl[i].circ # ScNone => cl[i].circ \in ScCircs /\ ci1[cl[i].circ].alive
  BY DEF ScSound, ScUnowned
<1> QED BY <1>1, <1>2, <1>3 DEF ScSound

\* Clients come to the circuit of an entry that was made for them.
LEMMA ScSoundOpen ==
  ASSUME NEW cl, NEW ci, NEW K, NEW B, NEW C, NEW D, ScSound(cl, ci, K, B, C, D),
         NEW e \in K, NEW cl1,
         \A i \in ScSlots : ScStays(cl1[i], cl[i]) \/ ScComes(cl1[i], e)
  PROVE  ScSound(cl1, ci, K, B, C, D)
<1>0. /\ e.circ \in ScCircs /\ ci[e.circ].alive
      /\ e.circ \notin B /\ e.circ \notin C /\ e.circ \notin D
      /\ \A f \in K : f.circ = e.circ => f = e
  BY DEF ScSound
<1>1. ASSUME NEW i \in ScSlots, cl1[i].circ # ScNone
      PROVE  /\ cl1[i].circ \in ScCircs /\ ci[cl1[i].circ].alive /\ ScSits(cl1[i])
             /\ cl1[i].circ \notin B /\ cl1[i].circ \notin C /\ cl1[i].circ \notin D
             /\ \A f \in K : f.circ = cl1[i].circ => f.dest = cl1[i].dest /\ f.iso = cl1[i].iso
             /\ \A j \in ScSlots : cl1[j].circ = cl1[i].circ =>
                   cl1[j].dest = cl1[i].dest /\ cl1[j].iso = cl1[i].iso
  <2>1. CASE ScComes(cl1[i], e)
    <3>1. ASSUME NEW j \in ScSlots, cl1[j].circ = cl1[i].circ
          PROVE  cl1[j].dest = cl1[i].dest /\ cl1[j].iso = cl1[i].iso
      <4>1. CASE ScComes(cl1[j], e)
        BY <2>1, <4>1 DEF ScComes
      <4>2. CASE ScStays(cl1[j], cl[j])
        <5>1. cl[j].circ = e.circ /\ cl[j].circ # ScNone /\ cl1[j].dest = cl[j].dest /\ cl1[j].iso = cl[j].iso
          BY <1>1, <2>1, <3>1, <4>2 DEF ScComes, ScStays
        <5>2. e.dest = cl[j].dest /\ e.iso = cl[j].iso  BY <5>1 DEF ScSound
        <5> QED BY <2>1, <5>1, <5>2 DEF ScComes
      <4> QED BY <4>1, <4>2
    <3> QED BY <1>0, <2>1, <3>1 DEF ScComes
  <2>2. CASE ScStays(cl1[i], cl[i])
    <3>0. /\ cl1[i].circ = cl[i].circ /\ cl[i].circ # ScNone /\ cl1[i].dest = cl[i].dest
          /\ cl1[i].iso = cl[i].iso /\ ScSits(cl1[i])
      BY <1>1, <2>2 DEF ScStays
    <3>1. ASSUME NEW j \in ScSlots, cl1[j].circ = cl1[i].circ
          PROVE  cl1[j].dest = cl1[i].dest /\ cl1[j].iso = cl1[i].iso
      <4>1. CASE ScComes(cl1[j], e)
        <5>1. cl[i].circ = e.circ  BY <3>0, <3>1, <4>1 DEF ScComes
        <5>2. e.dest = cl[i].dest /\ e.iso = cl[i].iso  BY <3>0, <5>1 DEF ScSound
        <5> QED BY <3>0, <4>1, <5>2 DEF ScComes
      <4>2. CASE ScStays(cl1[j], cl[j])
        <5>1. cl[j].circ = cl[i].circ /\ cl1[j].dest = cl[j].dest /\ cl1[j].iso = cl[j].iso
          BY <1>1, <3>0, <3>1, <4>2 DEF ScStays
        <5>2. cl[j].dest = cl[i].dest /\ cl[j].iso = cl[i].iso  BY <3>0, <5>1 DEF ScSound
        <5> QED BY <3>0, <5>1, <5>2
      <4> QED BY <4>1, <4>2
    <3>2. /\ cl[i].circ \in ScCircs /\ ci[cl[i].circ].alive
          /\ cl[i].circ \notin B /\ cl[i].circ \notin C /\ cl[i].circ \notin D
          /\ \A f \in K : f.circ = cl[i].circ => f.dest = cl[i].dest /\ f.iso = cl[i].iso
      BY <3>0 DEF ScSound
    <3> QED BY <3>0, <3>1, <3>2
  <2> QED BY <2>1, <2>2
<1>2. /\ \A f \in K : /\ f.circ \in ScCircs /\ ci[f.circ].alive
                      /\ f.circ \notin B /\ f.circ \notin C /\ f.circ \notin D
      /\ \A d, f \in K : d.circ = f.circ => d = f
      /\ \A c \in B : c \in ScCircs /\ ci[c].alive /\ c \notin C /\ c \notin D
      /\ \A c \in C : c \in ScCircs /\ ci[c].alive /\ c \notin D
      /\ \A c \in D : c \in ScCircs /\ ci[c].alive /\ ci[c].rp /\ ~ci[c].marked
  BY DEF ScSound
<1> QED BY <1>1, <1>2 DEF ScSound

\* The record of the proxy, with every field named.
ScRec(s) ==
    s = [client |-> s.client, circ |-> s.circ, cache |-> s.cache, pool |-> s.pool,
         pend |-> s.pend, infl |-> s.infl, work |-> s.work, res |-> s.res]

\* t is s with other values in the eight fields.
ScIs(t, cl, ci, ca, po, pe, fl, wo, re) ==
    t = [client |-> cl, circ |-> ci, cache |-> ca, pool |-> po,
         pend |-> pe, infl |-> fl, work |-> wo, res |-> re]

\* Changing one field of it.
LEMMA ScExcept ==
  ASSUME NEW s, ScRec(s), NEW x
  PROVE
         /\ ScIs([s EXCEPT !.client = x], x, s.circ, s.cache, s.pool, s.pend, s.infl, s.work, s.res)
         /\ ScIs([s EXCEPT !.circ = x], s.client, x, s.cache, s.pool, s.pend, s.infl, s.work, s.res)
         /\ ScIs([s EXCEPT !.cache = x], s.client, s.circ, x, s.pool, s.pend, s.infl, s.work, s.res)
         /\ ScIs([s EXCEPT !.pool = x], s.client, s.circ, s.cache, x, s.pend, s.infl, s.work, s.res)
         /\ ScIs([s EXCEPT !.pend = x], s.client, s.circ, s.cache, s.pool, x, s.infl, s.work, s.res)
         /\ ScIs([s EXCEPT !.infl = x], s.client, s.circ, s.cache, s.pool, s.pend, x, s.work, s.res)
         /\ ScIs([s EXCEPT !.work = x], s.client, s.circ, s.cache, s.pool, s.pend, s.infl, x, s.res)
         /\ ScIs([s EXCEPT !.res = x], s.client, s.circ, s.cache, s.pool, s.pend, s.infl, s.work, x)
<1>1. PICK cl, ci, ca, po, pe, fl, wo, re : ScIs(s, cl, ci, ca, po, pe, fl, wo, re)
  BY DEF ScRec, ScIs
<1>2. /\ s.client = cl /\ s.circ = ci /\ s.cache = ca /\ s.pool = po
      /\ s.pend = pe /\ s.infl = fl /\ s.work = wo /\ s.res = re
  BY <1>1 DEF ScIs
<1>3. ScIs([s EXCEPT !.client = x], x, s.circ, s.cache, s.pool, s.pend, s.infl, s.work, s.res)
  BY <1>1, <1>2 DEF ScIs
<1>4. ScIs([s EXCEPT !.circ = x], s.client, x, s.cache, s.pool, s.pend, s.infl, s.work, s.res)
  BY <1>1, <1>2 DEF ScIs
<1>5. ScIs([s EXCEPT !.cache = x], s.client, s.circ, x, s.pool, s.pend, s.infl, s.work, s.res)
  BY <1>1, <1>2 DEF ScIs
<1>6. ScIs([s EXCEPT !.pool = x], s.client, s.circ, s.cache, x, s.pend, s.infl, s.work, s.res)
  BY <1>1, <1>2 DEF ScIs
<1>7. ScIs([s EXCEPT !.pend = x], s.client, s.circ, s.cache, s.pool, x, s.infl, s.work, s.res)
  BY <1>1, <1>2 DEF ScIs
<1>8. ScIs([s EXCEPT !.infl = x], s.client, s.circ, s.cache, s.pool, s.pend, x, s.work, s.res)
  BY <1>1, <1>2 DEF ScIs
<1>9. ScIs([s EXCEPT !.work = x], s.client, s.circ, s.cache, s.pool, s.pend, s.infl, x, s.res)
  BY <1>1, <1>2 DEF ScIs
<1>10. ScIs([s EXCEPT !.res = x], s.client, s.circ, s.cache, s.pool, s.pend, s.infl, s.work, x)
  BY <1>1, <1>2 DEF ScIs
<1> QED BY <1>3, <1>4, <1>5, <1>6, <1>7, <1>8, <1>9, <1>10

\* The fields of a record.
LEMMA ScIsFields ==
  ASSUME NEW t, NEW cl, NEW ci, NEW ca, NEW po, NEW pe, NEW fl, NEW wo, NEW re,
         ScIs(t, cl, ci, ca, po, pe, fl, wo, re)
  PROVE  /\ ScRec(t) /\ t.client = cl /\ t.circ = ci /\ t.cache = ca /\ t.pool = po
         /\ t.pend = pe /\ t.infl = fl /\ t.work = wo /\ t.res = re
BY DEF ScIs, ScRec

ScClientRec(r) ==
    r = [st |-> r.st, dest |-> r.dest, iso |-> r.iso, circ |-> r.circ, age |-> r.age]
ScCircRec(r) == r = [alive |-> r.alive, marked |-> r.marked, up |-> r.up, rp |-> r.rp]
ScPendRec(r) ==
    r = [active |-> r.active, dest |-> r.dest, iso |-> r.iso, circ |-> r.circ, age |-> r.age]

\* The tables of fixed size,
ScClients(cl) == cl = [i \in ScSlots |-> cl[i]] /\ \A i \in ScSlots : ScClientRec(cl[i])
ScCircuits(ci) == ci = [c \in ScCircs |-> ci[c]] /\ \A c \in ScCircs : ScCircRec(ci[c])
ScPends(pe) ==
    /\ pe = [p \in ScPending |-> pe[p]] /\ \A p \in ScPending : ScPendRec(pe[p])
    /\ ScSingle(ScCircOf(pe))

\* and the lists.
ScCache(q) == ScSeq(q) /\ ScSingle(ScCircOf(q)) /\ Len(q) <= ScCacheMax
ScPool(q) == ScSeq(q) /\ ScSingle(q)
ScResults(q) == ScSeq(q) /\ ScSingle(ScCircOf(q))

ScSoundIn(s) ==
    ScSound(s.client, s.circ, ToSet(s.cache), ScHeld(s.pool), ScHeld(ScCircOf(s.pend)),
            ScHeld(ScCircOf(s.res)))
ScUnownedIn(c, s) ==
    ScUnowned(c, s.client, ToSet(s.cache), ScHeld(s.pool), ScHeld(ScCircOf(s.pend)),
              ScHeld(ScCircOf(s.res)))

\* The inductive invariant, of a state or of what a loop has reached.
ScOk(s) ==
    /\ ScRec(s) /\ ScClients(s.client) /\ ScCircuits(s.circ) /\ ScPends(s.pend)
    /\ ScCache(s.cache) /\ ScPool(s.pool) /\ ScResults(s.res)
    /\ ScSoundIn(s)

\* One table at a time.  Clients leave or stay,
LEMMA ScOkClients ==
  ASSUME NEW s, ScOk(s), NEW x, ScClients(x),
         \A i \in ScSlots : ScStays(x[i], s.client[i])
  PROVE  /\ ScOk([s EXCEPT !.client = x])
         /\ ScIs([s EXCEPT !.client = x], x, s.circ, s.cache, s.pool, s.pend, s.infl, s.work, s.res)
<1>1. PICK t : t = [s EXCEPT !.client = x]  OBVIOUS
<1>2. ScIs(t, x, s.circ, s.cache, s.pool, s.pend, s.infl, s.work, s.res)
  BY <1>1, ScExcept DEF ScOk
<1>3. /\ ScRec(t) /\ t.client = x /\ t.circ = s.circ /\ t.cache = s.cache /\ t.pool = s.pool
      /\ t.pend = s.pend /\ t.res = s.res
  BY <1>2, ScIsFields
<1>4. \A c \in ScHeld(ScCircOf(s.res)) : s.circ[c].rp /\ ~s.circ[c].marked
  BY DEF ScOk, ScSoundIn, ScSound
<1>5. ScSound(x, s.circ, ToSet(s.cache), ScHeld(s.pool), ScHeld(ScCircOf(s.pend)),
              ScHeld(ScCircOf(s.res)))
  BY <1>4, ScSoundLess DEF ScOk, ScSoundIn
<1>6. ScOk(t)  BY <1>3, <1>5 DEF ScOk, ScSoundIn
<1> QED BY <1>1, <1>2, <1>6

\* circuits are marked or lose their links,
LEMMA ScOkCirc ==
  ASSUME NEW s, ScOk(s), NEW x, ScCircuits(x),
         \A c \in ScCircs : s.circ[c].alive => x[c].alive,
         \A c \in ScHeld(ScCircOf(s.res)) : x[c].rp /\ ~x[c].marked
  PROVE  /\ ScOk([s EXCEPT !.circ = x])
         /\ ScIs([s EXCEPT !.circ = x], s.client, x, s.cache, s.pool, s.pend, s.infl, s.work, s.res)
<1>1. PICK t : t = [s EXCEPT !.circ = x]  OBVIOUS
<1>2. ScIs(t, s.client, x, s.cache, s.pool, s.pend, s.infl, s.work, s.res)
  BY <1>1, ScExcept DEF ScOk
<1>3. /\ ScRec(t) /\ t.client = s.client /\ t.circ = x /\ t.cache = s.cache /\ t.pool = s.pool
      /\ t.pend = s.pend /\ t.res = s.res
  BY <1>2, ScIsFields
<1>4. \A i \in ScSlots : ScStays(s.client[i], s.client[i])
  BY DEF ScOk, ScSoundIn, ScSound, ScStays
<1>5. ScSound(s.client, x, ToSet(s.cache), ScHeld(s.pool), ScHeld(ScCircOf(s.pend)),
              ScHeld(ScCircOf(s.res)))
  BY <1>4, ScSoundLess DEF ScOk, ScSoundIn
<1>6. ScOk(t)  BY <1>3, <1>5 DEF ScOk, ScSoundIn
<1> QED BY <1>1, <1>2, <1>6

\* the cache loses entries,
LEMMA ScOkCache ==
  ASSUME NEW s, ScOk(s), NEW x, ScCache(x), ToSet(x) \subseteq ToSet(s.cache)
  PROVE  /\ ScOk([s EXCEPT !.cache = x])
         /\ ScIs([s EXCEPT !.cache = x], s.client, s.circ, x, s.pool, s.pend, s.infl, s.work, s.res)
<1>1. PICK t : t = [s EXCEPT !.cache = x]  OBVIOUS
<1>2. ScIs(t, s.client, s.circ, x, s.pool, s.pend, s.infl, s.work, s.res)
  BY <1>1, ScExcept DEF ScOk
<1>3. /\ ScRec(t) /\ t.client = s.client /\ t.circ = s.circ /\ t.cache = x /\ t.pool = s.pool
      /\ t.pend = s.pend /\ t.res = s.res
  BY <1>2, ScIsFields
<1>4. /\ \A i \in ScSlots : ScStays(s.client[i], s.client[i])
      /\ \A c \in ScHeld(ScCircOf(s.res)) : s.circ[c].rp /\ ~s.circ[c].marked
  BY DEF ScOk, ScSoundIn, ScSound, ScStays
<1>5. ScSound(s.client, s.circ, ToSet(x), ScHeld(s.pool), ScHeld(ScCircOf(s.pend)),
              ScHeld(ScCircOf(s.res)))
  BY <1>4, ScSoundLess DEF ScOk, ScSoundIn
<1>6. ScOk(t)  BY <1>3, <1>5 DEF ScOk, ScSoundIn
<1> QED BY <1>1, <1>2, <1>6

\* the pool,
LEMMA ScOkPool ==
  ASSUME NEW s, ScOk(s), NEW x, ScPool(x), ScHeld(x) \subseteq ScHeld(s.pool)
  PROVE  /\ ScOk([s EXCEPT !.pool = x])
         /\ ScIs([s EXCEPT !.pool = x], s.client, s.circ, s.cache, x, s.pend, s.infl, s.work, s.res)
<1>1. PICK t : t = [s EXCEPT !.pool = x]  OBVIOUS
<1>2. ScIs(t, s.client, s.circ, s.cache, x, s.pend, s.infl, s.work, s.res)
  BY <1>1, ScExcept DEF ScOk
<1>3. /\ ScRec(t) /\ t.client = s.client /\ t.circ = s.circ /\ t.cache = s.cache /\ t.pool = x
      /\ t.pend = s.pend /\ t.res = s.res
  BY <1>2, ScIsFields
<1>4. /\ \A i \in ScSlots : ScStays(s.client[i], s.client[i])
      /\ \A c \in ScHeld(ScCircOf(s.res)) : s.circ[c].rp /\ ~s.circ[c].marked
  BY DEF ScOk, ScSoundIn, ScSound, ScStays
<1>5. ScSound(s.client, s.circ, ToSet(s.cache), ScHeld(x), ScHeld(ScCircOf(s.pend)),
              ScHeld(ScCircOf(s.res)))
  BY <1>4, ScSoundLess DEF ScOk, ScSoundIn
<1>6. ScOk(t)  BY <1>3, <1>5 DEF ScOk, ScSoundIn
<1> QED BY <1>1, <1>2, <1>6

\* the pending table,
LEMMA ScOkPend ==
  ASSUME NEW s, ScOk(s), NEW x, ScPends(x),
         ScHeld(ScCircOf(x)) \subseteq ScHeld(ScCircOf(s.pend))
  PROVE  /\ ScOk([s EXCEPT !.pend = x])
         /\ ScIs([s EXCEPT !.pend = x], s.client, s.circ, s.cache, s.pool, x, s.infl, s.work, s.res)
<1>1. PICK t : t = [s EXCEPT !.pend = x]  OBVIOUS
<1>2. ScIs(t, s.client, s.circ, s.cache, s.pool, x, s.infl, s.work, s.res)
  BY <1>1, ScExcept DEF ScOk
<1>3. /\ ScRec(t) /\ t.client = s.client /\ t.circ = s.circ /\ t.cache = s.cache
      /\ t.pool = s.pool /\ t.pend = x /\ t.res = s.res
  BY <1>2, ScIsFields
<1>4. /\ \A i \in ScSlots : ScStays(s.client[i], s.client[i])
      /\ \A c \in ScHeld(ScCircOf(s.res)) : s.circ[c].rp /\ ~s.circ[c].marked
  BY DEF ScOk, ScSoundIn, ScSound, ScStays
<1>5. ScSound(s.client, s.circ, ToSet(s.cache), ScHeld(s.pool), ScHeld(ScCircOf(x)),
              ScHeld(ScCircOf(s.res)))
  BY <1>4, ScSoundLess DEF ScOk, ScSoundIn
<1>6. ScOk(t)  BY <1>3, <1>5 DEF ScOk, ScSoundIn
<1> QED BY <1>1, <1>2, <1>6

\* the results;
LEMMA ScOkRes ==
  ASSUME NEW s, ScOk(s), NEW x, ScResults(x),
         ScHeld(ScCircOf(x)) \subseteq ScHeld(ScCircOf(s.res))
  PROVE  /\ ScOk([s EXCEPT !.res = x])
         /\ ScIs([s EXCEPT !.res = x], s.client, s.circ, s.cache, s.pool, s.pend, s.infl, s.work, x)
<1>1. PICK t : t = [s EXCEPT !.res = x]  OBVIOUS
<1>2. ScIs(t, s.client, s.circ, s.cache, s.pool, s.pend, s.infl, s.work, x)
  BY <1>1, ScExcept DEF ScOk
<1>3. /\ ScRec(t) /\ t.client = s.client /\ t.circ = s.circ /\ t.cache = s.cache
      /\ t.pool = s.pool /\ t.pend = s.pend /\ t.res = x
  BY <1>2, ScIsFields
<1>4. /\ \A i \in ScSlots : ScStays(s.client[i], s.client[i])
      /\ \A c \in ScHeld(ScCircOf(x)) : s.circ[c].rp /\ ~s.circ[c].marked
  BY DEF ScOk, ScSoundIn, ScSound, ScStays
<1>5. ScSound(s.client, s.circ, ToSet(s.cache), ScHeld(s.pool), ScHeld(ScCircOf(s.pend)),
              ScHeld(ScCircOf(x)))
  BY <1>4, ScSoundLess DEF ScOk, ScSoundIn
<1>6. ScOk(t)  BY <1>3, <1>5 DEF ScOk, ScSoundIn
<1> QED BY <1>1, <1>2, <1>6

\* what is noted of the workers matters to nobody.
LEMMA ScOkOther ==
  ASSUME NEW s, ScOk(s), NEW x
  PROVE  /\ ScOk([s EXCEPT !.infl = x])
         /\ ScIs([s EXCEPT !.infl = x], s.client, s.circ, s.cache, s.pool, s.pend, x, s.work, s.res)
         /\ ScOk([s EXCEPT !.work = x])
         /\ ScIs([s EXCEPT !.work = x], s.client, s.circ, s.cache, s.pool, s.pend, s.infl, x, s.res)
<1>1. ScIs([s EXCEPT !.infl = x], s.client, s.circ, s.cache, s.pool, s.pend, x, s.work, s.res)
  BY ScExcept DEF ScOk
<1>2. ScIs([s EXCEPT !.work = x], s.client, s.circ, s.cache, s.pool, s.pend, s.infl, x, s.res)
  BY ScExcept DEF ScOk
<1>3. ASSUME NEW t, NEW fl, NEW wo,
             ScIs(t, s.client, s.circ, s.cache, s.pool, s.pend, fl, wo, s.res)
      PROVE  ScOk(t)
  <2>1. /\ ScRec(t) /\ t.client = s.client /\ t.circ = s.circ /\ t.cache = s.cache
        /\ t.pool = s.pool /\ t.pend = s.pend /\ t.res = s.res
    BY <1>3, ScIsFields
  <2> QED BY <2>1 DEF ScOk, ScSoundIn
<1> QED BY <1>1, <1>2, <1>3

\* A circuit nobody has goes into the cache,
LEMMA ScOkToCache ==
  ASSUME NEW s, ScOk(s), NEW e, e.circ \in ScCircs, s.circ[e.circ].alive,
         ScUnownedIn(e.circ, s), Len(s.cache) < ScCacheMax
  PROVE  LET t == [s EXCEPT !.cache = Append(s.cache, e)] IN
         /\ ScOk(t) /\ e \in ToSet(t.cache)
         /\ ScIs(t, s.client, s.circ, Append(s.cache, e), s.pool, s.pend, s.infl, s.work, s.res)
<1>0. PICK x : x = Append(s.cache, e)  OBVIOUS
<1>1. PICK t : t = [s EXCEPT !.cache = x]  OBVIOUS
<1>2. ScIs(t, s.client, s.circ, x, s.pool, s.pend, s.infl, s.work, s.res)
  BY <1>1, ScExcept DEF ScOk
<1>3. /\ ScRec(t) /\ t.client = s.client /\ t.circ = s.circ /\ t.cache = x /\ t.pool = s.pool
      /\ t.pend = s.pend /\ t.res = s.res
  BY <1>2, ScIsFields
<1>4. ScSound(s.client, s.circ, ToSet(s.cache) \cup {e}, ScHeld(s.pool), ScHeld(ScCircOf(s.pend)),
              ScHeld(ScCircOf(s.res)))
  BY ScSoundCache DEF ScOk, ScSoundIn, ScUnownedIn
<1>5. e.circ \notin ScHeld(ScCircOf(s.cache))
  <2>1. \A f \in ToSet(s.cache) : f.circ # e.circ  BY DEF ScUnownedIn, ScUnowned
  <2> QED BY <2>1 DEF ScHeld, ScCircOf, ToSet
<1>6. ScSeq(s.cache) /\ ScSingle(ScCircOf(s.cache))  BY DEF ScOk, ScCache
<1>7. /\ ScSeq(x) /\ ScSingle(ScCircOf(x)) /\ Len(x) = Len(s.cache) + 1
      /\ ToSet(x) = ToSet(s.cache) \cup {e}
  BY <1>0, <1>5, <1>6, ScAppended
<1>8. Len(s.cache) \in Nat /\ ScCacheMax \in Nat  BY <1>6, ScSeqParts, ScAssumption
<1>9. ScCache(x)  BY <1>7, <1>8 DEF ScCache
<1>10. ScOk(t)  BY <1>3, <1>4, <1>7, <1>9 DEF ScOk, ScSoundIn
<1>11. e \in ToSet(t.cache)  BY <1>3, <1>7
<1> QED BY <1>0, <1>1, <1>2, <1>10, <1>11

\* the pool,
LEMMA ScOkToPool ==
  ASSUME NEW s, ScOk(s), NEW c \in ScCircs, s.circ[c].alive, ScUnownedIn(c, s)
  PROVE  LET t == [s EXCEPT !.pool = Append(s.pool, c)] IN
         /\ ScOk(t)
         /\ ScIs(t, s.client, s.circ, s.cache, Append(s.pool, c), s.pend, s.infl, s.work, s.res)
<1>0. PICK x : x = Append(s.pool, c)  OBVIOUS
<1>1. PICK t : t = [s EXCEPT !.pool = x]  OBVIOUS
<1>2. ScIs(t, s.client, s.circ, s.cache, x, s.pend, s.infl, s.work, s.res)
  BY <1>1, ScExcept DEF ScOk
<1>3. /\ ScRec(t) /\ t.client = s.client /\ t.circ = s.circ /\ t.cache = s.cache /\ t.pool = x
      /\ t.pend = s.pend /\ t.res = s.res
  BY <1>2, ScIsFields
<1>4. ScSound(s.client, s.circ, ToSet(s.cache), ScHeld(s.pool) \cup {c}, ScHeld(ScCircOf(s.pend)),
              ScHeld(ScCircOf(s.res)))
  BY ScSoundPool DEF ScOk, ScSoundIn, ScUnownedIn
<1>5. c \notin ScHeld(s.pool) /\ c # ScNone  BY ScAssumption DEF ScUnownedIn, ScUnowned
<1>6. ScSeq(s.pool) /\ ScSingle(s.pool)  BY DEF ScOk, ScPool
<1>7. ScSeq(x) /\ ScSingle(x) /\ ScHeld(x) = ScHeld(s.pool) \cup ({c} \ {ScNone})
  BY <1>0, <1>5, <1>6, ScAppended
<1>8. ScHeld(x) = ScHeld(s.pool) \cup {c}  BY <1>5, <1>7
<1>9. ScOk(t)  BY <1>3, <1>4, <1>7, <1>8 DEF ScOk, ScSoundIn, ScPool
<1> QED BY <1>0, <1>1, <1>2, <1>9

\* the pending table, at a free place,
LEMMA ScOkToPend ==
  ASSUME NEW s, ScOk(s), NEW p \in ScPending, NEW r, ScPendRec(r), r.circ \in ScCircs,
         s.circ[r.circ].alive, ScUnownedIn(r.circ, s)
  PROVE  LET t == [s EXCEPT !.pend = [s.pend EXCEPT ![p] = r]] IN
         /\ ScOk(t)
         /\ ScIs(t, s.client, s.circ, s.cache, s.pool, [s.pend EXCEPT ![p] = r], s.infl, s.work, s.res)
<1>0. PICK x : x = [s.pend EXCEPT ![p] = r]  OBVIOUS
<1>1. PICK t : t = [s EXCEPT !.pend = x]  OBVIOUS
<1>2. ScIs(t, s.client, s.circ, s.cache, s.pool, x, s.infl, s.work, s.res)
  BY <1>1, ScExcept DEF ScOk
<1>3. /\ ScRec(t) /\ t.client = s.client /\ t.circ = s.circ /\ t.cache = s.cache /\ t.pool = s.pool
      /\ t.pend = x /\ t.res = s.res
  BY <1>2, ScIsFields
<1>4. r.circ \notin ScHeld(ScCircOf(s.pend)) /\ r.circ # ScNone
  BY ScAssumption DEF ScUnownedIn, ScUnowned
<1>5. /\ s.pend = [y \in ScPending |-> s.pend[y]] /\ \A y \in ScPending : ScPendRec(s.pend[y])
      /\ ScSingle(ScCircOf(s.pend))
  BY DEF ScOk, ScPends
<1>6. /\ x = [y \in ScPending |-> x[y]] /\ \A y \in ScPending : x[y] = IF y = p THEN r ELSE s.pend[y]
  BY <1>0, <1>5
<1>7. \A y \in ScPending : ScPendRec(x[y])  BY <1>5, <1>6
<1>8. /\ DOMAIN ScCircOf(s.pend) = ScPending /\ \A y \in ScPending : ScCircOf(s.pend)[y] = s.pend[y].circ
      /\ DOMAIN ScCircOf(x) = ScPending /\ \A y \in ScPending : ScCircOf(x)[y] = x[y].circ
  BY <1>5, <1>6 DEF ScCircOf
<1>9. ScSingle(ScCircOf(x))
  <2>1. PICK f, g : f = ScCircOf(s.pend) /\ g = ScCircOf(x)  OBVIOUS
  <2>2. /\ DOMAIN f = ScPending /\ DOMAIN g = ScPending
        /\ \A y \in ScPending : g[y] = IF y = p THEN r.circ ELSE f[y]
    BY <1>6, <1>8, <2>1
  <2>3. \A y \in ScPending : f[y] # r.circ  BY <1>4, <2>1, <2>2 DEF ScHeld
  <2>4. ScSingle(f)  BY <1>5, <2>1
  <2>5. ScSingle(g)  BY <2>2, <2>3, <2>4 DEF ScSingle
  <2> QED BY <2>1, <2>5
<1>10. ScHeld(ScCircOf(x)) \subseteq ScHeld(ScCircOf(s.pend)) \cup {r.circ}
  BY <1>6, <1>8 DEF ScHeld
<1>11. ScSound(s.client, s.circ, ToSet(s.cache), ScHeld(s.pool), ScHeld(ScCircOf(s.pend)) \cup {r.circ},
              ScHeld(ScCircOf(s.res)))
  BY ScSoundPend DEF ScOk, ScSoundIn, ScUnownedIn
<1>12. /\ \A i \in ScSlots : ScStays(s.client[i], s.client[i])
      /\ \A c \in ScHeld(ScCircOf(s.res)) : s.circ[c].rp /\ ~s.circ[c].marked
  BY DEF ScOk, ScSoundIn, ScSound, ScStays
<1>13. ScSound(s.client, s.circ, ToSet(s.cache), ScHeld(s.pool), ScHeld(ScCircOf(x)),
              ScHeld(ScCircOf(s.res)))
  BY <1>10, <1>11, <1>12, ScSoundLess
<1>14. ScOk(t)  BY <1>3, <1>6, <1>7, <1>9, <1>13 DEF ScOk, ScSoundIn, ScPends
<1> QED BY <1>0, <1>1, <1>2, <1>14

\* or the results; a worker that failed has no circuit.
LEMMA ScOkToRes ==
  ASSUME NEW s, ScOk(s), NEW e,
         e.circ # ScNone =>
            /\ e.circ \in ScCircs /\ s.circ[e.circ].alive /\ s.circ[e.circ].rp
            /\ ~s.circ[e.circ].marked /\ ScUnownedIn(e.circ, s)
  PROVE  LET t == [s EXCEPT !.res = Append(s.res, e)] IN
         /\ ScOk(t)
         /\ ScIs(t, s.client, s.circ, s.cache, s.pool, s.pend, s.infl, s.work, Append(s.res, e))
<1>0. PICK x : x = Append(s.res, e)  OBVIOUS
<1>1. PICK t : t = [s EXCEPT !.res = x]  OBVIOUS
<1>2. ScIs(t, s.client, s.circ, s.cache, s.pool, s.pend, s.infl, s.work, x)
  BY <1>1, ScExcept DEF ScOk
<1>3. /\ ScRec(t) /\ t.client = s.client /\ t.circ = s.circ /\ t.cache = s.cache /\ t.pool = s.pool
      /\ t.pend = s.pend /\ t.res = x
  BY <1>2, ScIsFields
<1>4. ScSound(s.client, s.circ, ToSet(s.cache), ScHeld(s.pool), ScHeld(ScCircOf(s.pend)),
              ScHeld(ScCircOf(s.res)) \cup ({e.circ} \ {ScNone}))
  <2>1. CASE e.circ = ScNone
    <3>1. ScHeld(ScCircOf(s.res)) \cup ({e.circ} \ {ScNone}) = ScHeld(ScCircOf(s.res))  BY <2>1
    <3> QED BY <3>1 DEF ScOk, ScSoundIn
  <2>2. CASE e.circ # ScNone
    <3>1. ScHeld(ScCircOf(s.res)) \cup ({e.circ} \ {ScNone}) = ScHeld(ScCircOf(s.res)) \cup {e.circ}
      BY <2>2
    <3>2. ScSound(s.client, s.circ, ToSet(s.cache), ScHeld(s.pool), ScHeld(ScCircOf(s.pend)),
                  ScHeld(ScCircOf(s.res)) \cup {e.circ})
      BY <2>2, ScSoundRes DEF ScOk, ScSoundIn, ScUnownedIn
    <3> QED BY <3>1, <3>2
  <2> QED BY <2>1, <2>2
<1>5. e.circ \notin ScHeld(ScCircOf(s.res))  BY DEF ScUnownedIn, ScUnowned, ScHeld
<1>6. ScSeq(s.res) /\ ScSingle(ScCircOf(s.res))  BY DEF ScOk, ScResults
<1>7. /\ ScSeq(x) /\ ScSingle(ScCircOf(x))
      /\ ScHeld(ScCircOf(x)) = ScHeld(ScCircOf(s.res)) \cup ({e.circ} \ {ScNone})
  BY <1>0, <1>5, <1>6, ScAppended
<1>8. ScOk(t)  BY <1>3, <1>4, <1>7 DEF ScOk, ScSoundIn, ScResults
<1> QED BY <1>0, <1>1, <1>2, <1>8

\* It may be built or freed.
LEMMA ScOkRenewed ==
  ASSUME NEW s, ScOk(s), NEW c \in ScCircs, ScUnownedIn(c, s), NEW r, ScCircRec(r)
  PROVE  LET t == [s EXCEPT !.circ = [s.circ EXCEPT ![c] = r]] IN
         /\ ScOk(t) /\ ScUnownedIn(c, t) /\ t.circ[c] = r
         /\ ScIs(t, s.client, [s.circ EXCEPT ![c] = r], s.cache, s.pool, s.pend, s.infl, s.work, s.res)
<1>0. PICK x : x = [s.circ EXCEPT ![c] = r]  OBVIOUS
<1>1. PICK t : t = [s EXCEPT !.circ = x]  OBVIOUS
<1>2. ScIs(t, s.client, x, s.cache, s.pool, s.pend, s.infl, s.work, s.res)
  BY <1>1, ScExcept DEF ScOk
<1>3. /\ ScRec(t) /\ t.client = s.client /\ t.circ = x /\ t.cache = s.cache /\ t.pool = s.pool
      /\ t.pend = s.pend /\ t.res = s.res
  BY <1>2, ScIsFields
<1>4. s.circ = [y \in ScCircs |-> s.circ[y]] /\ \A y \in ScCircs : ScCircRec(s.circ[y])
  BY DEF ScOk, ScCircuits
<1>5. x = [y \in ScCircs |-> x[y]] /\ \A y \in ScCircs : x[y] = IF y = c THEN r ELSE s.circ[y]
  BY <1>0, <1>4
<1>6. ScCircuits(x)  BY <1>4, <1>5 DEF ScCircuits
<1>7. ScSound(s.client, x, ToSet(s.cache), ScHeld(s.pool), ScHeld(ScCircOf(s.pend)),
              ScHeld(ScCircOf(s.res)))
  BY <1>5, ScSoundCirc DEF ScOk, ScSoundIn, ScUnownedIn
<1>8. ScOk(t)  BY <1>3, <1>6, <1>7 DEF ScOk, ScSoundIn
<1>9. ScUnownedIn(c, t) /\ t.circ[c] = r  BY <1>3, <1>5 DEF ScUnownedIn
<1> QED BY <1>0, <1>1, <1>2, <1>8, <1>9

\* Clients come to the circuit of an entry.
LEMMA ScOkOpen ==
  ASSUME NEW s, ScOk(s), NEW e \in ToSet(s.cache), NEW x, ScClients(x),
         \A i \in ScSlots : ScStays(x[i], s.client[i]) \/ ScComes(x[i], e)
  PROVE  /\ ScOk([s EXCEPT !.client = x])
         /\ ScIs([s EXCEPT !.client = x], x, s.circ, s.cache, s.pool, s.pend, s.infl, s.work, s.res)
<1>1. PICK t : t = [s EXCEPT !.client = x]  OBVIOUS
<1>2. ScIs(t, x, s.circ, s.cache, s.pool, s.pend, s.infl, s.work, s.res)
  BY <1>1, ScExcept DEF ScOk
<1>3. /\ ScRec(t) /\ t.client = x /\ t.circ = s.circ /\ t.cache = s.cache /\ t.pool = s.pool
      /\ t.pend = s.pend /\ t.res = s.res
  BY <1>2, ScIsFields
<1>4. ScSound(x, s.circ, ToSet(s.cache), ScHeld(s.pool), ScHeld(ScCircOf(s.pend)),
              ScHeld(ScCircOf(s.res)))
  BY ScSoundOpen DEF ScOk, ScSoundIn
<1>5. ScOk(t)  BY <1>3, <1>4 DEF ScOk, ScSoundIn
<1> QED BY <1>1, <1>2, <1>5

\* Closing clients.
LEMMA ScCloseAllOk ==
  ASSUME NEW s, ScOk(s), NEW I
  PROVE  LET x == [i \in ScSlots |-> IF i \in I THEN ScFreeClient ELSE s.client[i]] IN
         /\ ScOk(ScCloseAll(s, I))
         /\ ScIs(ScCloseAll(s, I), x, s.circ, s.cache, s.pool, s.pend, s.infl, s.work, s.res)
<1>1. PICK x : x = [i \in ScSlots |-> IF i \in I THEN ScFreeClient ELSE s.client[i]]  OBVIOUS
<1>2. x = [i \in ScSlots |-> x[i]] /\ \A i \in ScSlots : x[i] = IF i \in I THEN ScFreeClient ELSE s.client[i]
  BY <1>1
<1>3. ScClientRec(ScFreeClient) /\ ScFreeClient.circ = ScNone  BY DEF ScClientRec, ScFreeClient
<1>4. \A i \in ScSlots : ScClientRec(s.client[i]) /\ ScStays(s.client[i], s.client[i])
  BY DEF ScOk, ScClients, ScSoundIn, ScSound, ScStays
<1>5. ScClients(x)  BY <1>2, <1>3, <1>4 DEF ScClients
<1>6. \A i \in ScSlots : ScStays(x[i], s.client[i])  BY <1>2, <1>3, <1>4 DEF ScStays
<1>7. ScCloseAll(s, I) = [s EXCEPT !.client = x]  BY <1>1 DEF ScCloseAll
<1> QED BY <1>1, <1>5, <1>6, <1>7, ScOkClients

\* Closing one client is closing a set of one.
LEMMA ScCloseIs ==
  ASSUME NEW s, ScOk(s), NEW i \in ScSlots
  PROVE  ScClose(s, i) = ScCloseAll(s, {i})
<1>1. PICK x : x = [j \in ScSlots |-> IF j \in {i} THEN ScFreeClient ELSE s.client[j]]  OBVIOUS
<1>2. s.client = [j \in ScSlots |-> s.client[j]]  BY DEF ScOk, ScClients
<1>3. PICK cl : cl = s.client  OBVIOUS
<1>4. [cl EXCEPT ![i] = ScFreeClient] = x  BY <1>1, <1>2, <1>3
<1>5. ScCloseAll(s, {i}) = [s EXCEPT !.client = x]  BY <1>1 DEF ScCloseAll
<1>6. ScClose(s, i) = [s EXCEPT !.client = [s.client EXCEPT ![i] = ScFreeClient]]
  BY DEF ScClose
<1> QED BY <1>3, <1>4, <1>5, <1>6

\* Marking circuits that no result has.
LEMMA ScMarkAllOk ==
  ASSUME NEW s, ScOk(s), NEW C, C \cap ScHeld(ScCircOf(s.res)) = {}
  PROVE  LET t == ScMarkAll(s, C) IN
         /\ ScOk(t)
         /\ ScIs(t, s.client, t.circ, s.cache, s.pool, s.pend, s.infl, s.work, s.res)
         /\ \A c \in ScCircs : t.circ[c].alive = s.circ[c].alive /\ t.circ[c].up = s.circ[c].up
<1>1. PICK x : x = [c \in ScCircs |-> IF c \in C /\ s.circ[c].alive
                       THEN [s.circ[c] EXCEPT !.marked = TRUE] ELSE s.circ[c]]
  OBVIOUS
<1>2. PICK t : t = [s EXCEPT !.circ = x]  OBVIOUS
<1>3. ScMarkAll(s, C) = t  BY <1>1, <1>2 DEF ScMarkAll
<1>4. \A c \in ScCircs : ScCircRec(s.circ[c])  BY DEF ScOk, ScCircuits
<1>5. ASSUME NEW c \in ScCircs
      PROVE  /\ ScCircRec(x[c]) /\ x[c].alive = s.circ[c].alive /\ x[c].up = s.circ[c].up
             /\ x[c].rp = s.circ[c].rp /\ (c \notin C => x[c] = s.circ[c])
  <2>1. PICK r : r = s.circ[c]  OBVIOUS
  <2>2. PICK a, m, u, p : r = [alive |-> a, marked |-> m, up |-> u, rp |-> p]
    BY <1>4, <2>1 DEF ScCircRec
  <2>3. CASE c \in C /\ s.circ[c].alive
    <3>1. x[c] = [r EXCEPT !.marked = TRUE]  BY <1>1, <2>1, <2>3
    <3>2. x[c] = [alive |-> a, marked |-> TRUE, up |-> u, rp |-> p]  BY <3>1, <2>2
    <3> QED BY <2>1, <2>2, <2>3, <3>2 DEF ScCircRec
  <2>4. CASE ~(c \in C /\ s.circ[c].alive)
    BY <1>1, <1>4, <2>4
  <2> QED BY <2>3, <2>4
<1>6. x = [c \in ScCircs |-> x[c]]  BY <1>1
<1>7. ScCircuits(x)  BY <1>5, <1>6 DEF ScCircuits
<1>8. \A c \in ScHeld(ScCircOf(s.res)) : c \in ScCircs /\ c \notin C /\ s.circ[c].rp /\ ~s.circ[c].marked
  BY DEF ScOk, ScSoundIn, ScSound
<1>9. \A c \in ScHeld(ScCircOf(s.res)) : x[c].rp /\ ~x[c].marked  BY <1>5, <1>8
<1>10. \A c \in ScCircs : s.circ[c].alive => x[c].alive  BY <1>5
<1>11. ScOk(t) /\ ScIs(t, s.client, x, s.cache, s.pool, s.pend, s.infl, s.work, s.res)
  BY <1>2, <1>7, <1>9, <1>10, ScOkCirc
<1>12. t.circ = x  BY <1>11, ScIsFields
<1> QED BY <1>3, <1>5, <1>11, <1>12

\* The cache loses one entry.
LEMMA ScCacheLess ==
  ASSUME NEW q, ScCache(q), NEW r, NEW X, ScPart(r, q, X), Len(r) <= Len(q)
  PROVE  ScCache(r) /\ ToSet(r) \subseteq ToSet(q)
<1>1. ScSeq(r) /\ ScSeq(q) /\ ScSingle(ScCircOf(q)) /\ Len(q) <= ScCacheMax
  BY DEF ScPart, ScCache
<1>2. Len(r) \in Nat /\ Len(q) \in Nat /\ ScCacheMax \in Nat  BY <1>1, ScSeqParts, ScAssumption
<1>3. ScSingle(ScCircOf(r)) /\ ToSet(r) \subseteq ToSet(q)  BY <1>1, ScPartKeeps
<1> QED BY <1>1, <1>2, <1>3 DEF ScCache

\* moor_socks5_invalidate_circuit leaves the circuit to the workers only.
LEMMA ScInvalidateOk ==
  ASSUME NEW s, ScOk(s), NEW c
  PROVE  LET t == ScInvalidate(s, c) IN
         /\ ScOk(t) /\ t.circ = s.circ /\ t.res = s.res
         /\ c # ScNone /\ c \notin ScHeld(ScCircOf(s.res)) => ScUnownedIn(c, t)
         /\ \A i \in ScSlots : t.client[i] \in {ScFreeClient, s.client[i]}
<1> DEFINE users == {i \in ScSlots : s.client[i].circ = c}
           hit == ScEntriesOf(s, c)
<1>1. PICK u : u = ScCloseAll(s, users)  OBVIOUS
<1>2. PICK cl : cl = [i \in ScSlots |-> IF i \in users THEN ScFreeClient ELSE s.client[i]]
  OBVIOUS
<1>3. ScOk(u) /\ ScIs(u, cl, s.circ, s.cache, s.pool, s.pend, s.infl, s.work, s.res)
  BY <1>1, <1>2, ScCloseAllOk
<1>4. /\ u.client = cl /\ u.circ = s.circ /\ u.cache = s.cache /\ u.pool = s.pool
      /\ u.pend = s.pend /\ u.infl = s.infl /\ u.work = s.work /\ u.res = s.res
  BY <1>3, ScIsFields
<1> DEFINE pool1 == [i \in DOMAIN u.pool |-> IF u.pool[i] = c THEN ScNone ELSE u.pool[i]]
           pend1 == [p \in ScPending |-> IF u.pend[p].circ = c
                        THEN [u.pend[p] EXCEPT !.circ = ScNone] ELSE u.pend[p]]
           cache1 == IF hit = {} THEN u.cache ELSE ScSwapOut(u.cache, CHOOSE i \in hit : TRUE)
<1>a. PICK po, pe, ca : po = pool1 /\ pe = pend1 /\ ca = cache1  OBVIOUS
<1>5. po = [i \in DOMAIN s.pool |-> IF s.pool[i] = c THEN ScNone ELSE s.pool[i]]  BY <1>4, <1>a
<1>6. pe = [p \in ScPending |-> IF s.pend[p].circ = c
                THEN [s.pend[p] EXCEPT !.circ = ScNone] ELSE s.pend[p]]
  BY <1>4, <1>a
<1>7. ca = IF hit = {} THEN s.cache ELSE ScSwapOut(s.cache, CHOOSE i \in hit : TRUE)
  BY <1>4, <1>a
<1>b. ScInvalidate(s, c) = [u EXCEPT !.pool = pool1, !.pend = pend1, !.cache = cache1]
  BY <1>1, Zenon DEF ScInvalidate
<1> HIDE DEF pool1, pend1, cache1
<1>8. PICK u1 : u1 = [u EXCEPT !.pool = po]  OBVIOUS
<1>9. PICK u2 : u2 = [u1 EXCEPT !.pend = pe]  OBVIOUS
<1>10. PICK t : t = [u2 EXCEPT !.cache = ca]  OBVIOUS
<1>11. ScPool(po) /\ ScHeld(po) \subseteq ScHeld(s.pool) /\ (c # ScNone => c \notin ScHeld(po))
  <2>1. ScSeq(s.pool) /\ ScSingle(s.pool)  BY DEF ScOk, ScPool
  <2>2. PICK n \in Nat : DOMAIN s.pool = 1..n  BY <2>1, ScSeqParts
  <2>3. po = [i \in 1..n |-> po[i]]  BY <1>5, <2>2
  <2>4. ScSeq(po) /\ DOMAIN po = DOMAIN s.pool  BY <2>2, <2>3, ScSeqMade
  <2>5. \A i \in DOMAIN s.pool : po[i] = IF s.pool[i] = c THEN ScNone ELSE s.pool[i]  BY <1>5
  <2>6. ScSingle(po)  BY <2>1, <2>4, <2>5 DEF ScSingle
  <2> QED BY <2>4, <2>5, <2>6 DEF ScPool, ScHeld
<1>12. /\ ScPends(pe) /\ ScHeld(ScCircOf(pe)) \subseteq ScHeld(ScCircOf(s.pend))
       /\ (c # ScNone => c \notin ScHeld(ScCircOf(pe)))
  <2>1. /\ s.pend = [y \in ScPending |-> s.pend[y]] /\ \A y \in ScPending : ScPendRec(s.pend[y])
        /\ ScSingle(ScCircOf(s.pend))
    BY DEF ScOk, ScPends
  <2>2. ASSUME NEW p \in ScPending
        PROVE  ScPendRec(pe[p]) /\ pe[p].circ = IF s.pend[p].circ = c THEN ScNone ELSE s.pend[p].circ
    <3>1. PICK r : r = s.pend[p]  OBVIOUS
    <3>a. r = [active |-> r.active, dest |-> r.dest, iso |-> r.iso, circ |-> r.circ, age |-> r.age]
      BY <2>1, <3>1 DEF ScPendRec
    <3>2. PICK a, d, o, k, g : r = [active |-> a, dest |-> d, iso |-> o, circ |-> k, age |-> g]
      BY <3>a, Zenon
    <3>3. CASE r.circ = c
      <4>1. pe[p] = [r EXCEPT !.circ = ScNone]  BY <1>6, <3>1, <3>3
      <4>2. pe[p] = [active |-> a, dest |-> d, iso |-> o, circ |-> ScNone, age |-> g]
        BY <4>1, <3>2
      <4> QED BY <3>1, <3>3, <4>2 DEF ScPendRec
    <3>4. CASE r.circ # c
      BY <1>6, <2>1, <3>1, <3>4
    <3> QED BY <3>3, <3>4
  <2>3. pe = [y \in ScPending |-> pe[y]] /\ DOMAIN pe = ScPending  BY <1>6
  <2>4. PICK f, g : f = ScCircOf(s.pend) /\ g = ScCircOf(pe)  OBVIOUS
  <2>5. DOMAIN f = ScPending /\ \A y \in ScPending : f[y] = s.pend[y].circ
    BY <2>1, <2>4 DEF ScCircOf
  <2>6. DOMAIN g = ScPending /\ \A y \in ScPending : g[y] = IF f[y] = c THEN ScNone ELSE f[y]
    BY <2>2, <2>3, <2>4, <2>5 DEF ScCircOf
  <2>7. ScSingle(f)  BY <2>1, <2>4
  <2>8. ScSingle(g)  BY <2>5, <2>6, <2>7 DEF ScSingle
  <2>9. ScHeld(g) \subseteq ScHeld(f) /\ (c # ScNone => c \notin ScHeld(g))
    BY <2>5, <2>6 DEF ScHeld
  <2> QED BY <2>2, <2>3, <2>4, <2>8, <2>9 DEF ScPends
<1>13. ScCache(ca) /\ ToSet(ca) \subseteq ToSet(s.cache) /\ \A e \in ToSet(ca) : c # ScNone => e.circ # c
  <2>1. ScCache(s.cache) /\ ScSeq(s.cache) /\ ScSingle(ScCircOf(s.cache))  BY DEF ScOk, ScCache
  <2>2. CASE hit = {}
    <3>1. ca = s.cache  BY <1>7, <2>2
    <3>2. \A e \in ToSet(s.cache) : e.circ # c  BY <2>2 DEF ScEntriesOf, ToSet
    <3> QED BY <2>1, <3>1, <3>2
  <2>3. CASE hit # {}
    <3>1. PICK i : i = CHOOSE x \in hit : TRUE  OBVIOUS
    <3>2. i \in DOMAIN s.cache /\ s.cache[i].circ = c  BY <2>3, <3>1 DEF ScEntriesOf
    <3>3. ca = ScSwapOut(s.cache, i)  BY <1>7, <2>3, <3>1
    <3>4. ScPart(ca, s.cache, DOMAIN s.cache \ {i}) /\ Len(ca) = Len(s.cache) - 1
      BY <2>1, <3>2, <3>3, ScSwapOutPart
    <3>5. Len(s.cache) \in Nat /\ Len(ca) <= Len(s.cache)  BY <2>1, <3>4, ScSeqParts
    <3>6. c \notin ScHeld(ScCircOf(ca))  BY <2>1, <3>2, <3>4, ScPartKeeps
    <3>7. \A e \in ToSet(ca) : c # ScNone => e.circ # c  BY <3>6 DEF ScHeld, ScCircOf, ToSet
    <3> QED BY <2>1, <3>4, <3>5, <3>7, ScCacheLess
  <2> QED BY <2>2, <2>3
<1>14. ScOk(u1) /\ ScIs(u1, cl, s.circ, s.cache, po, s.pend, s.infl, s.work, s.res)
  BY <1>3, <1>4, <1>8, <1>11, ScOkPool
<1>15. /\ u1.client = cl /\ u1.circ = s.circ /\ u1.cache = s.cache /\ u1.pool = po
       /\ u1.pend = s.pend /\ u1.infl = s.infl /\ u1.work = s.work /\ u1.res = s.res
  BY <1>14, ScIsFields
<1>16. ScOk(u2) /\ ScIs(u2, cl, s.circ, s.cache, po, pe, s.infl, s.work, s.res)
  BY <1>9, <1>12, <1>14, <1>15, ScOkPend
<1>17. /\ u2.client = cl /\ u2.circ = s.circ /\ u2.cache = s.cache /\ u2.pool = po
       /\ u2.pend = pe /\ u2.infl = s.infl /\ u2.work = s.work /\ u2.res = s.res
  BY <1>16, ScIsFields
<1>18. ScOk(t) /\ ScIs(t, cl, s.circ, ca, po, pe, s.infl, s.work, s.res)
  BY <1>10, <1>13, <1>16, <1>17, ScOkCache
<1>19. t.client = cl /\ t.circ = s.circ /\ t.cache = ca /\ t.pool = po /\ t.pend = pe /\ t.res = s.res
  BY <1>18, ScIsFields
<1>20. ScInvalidate(s, c) = [u EXCEPT !.pool = po, !.pend = pe, !.cache = ca]  BY <1>a, <1>b
<1>21. [u EXCEPT !.pool = po, !.pend = pe, !.cache = ca]
          = [[[u EXCEPT !.pool = po] EXCEPT !.pend = pe] EXCEPT !.cache = ca]
  OBVIOUS
<1>c. ScInvalidate(s, c) = t  BY <1>8, <1>9, <1>10, <1>20, <1>21
<1>22. \A i \in ScSlots : cl[i] \in {ScFreeClient, s.client[i]} /\ (c # ScNone => cl[i].circ # c)
  BY <1>2 DEF ScFreeClient
<1>23. c # ScNone /\ c \notin ScHeld(ScCircOf(s.res)) => ScUnownedIn(c, t)
  BY <1>11, <1>12, <1>13, <1>19, <1>22 DEF ScUnownedIn, ScUnowned
<1> QED BY <1>18, <1>19, <1>c, <1>22, <1>23

\* The newest live circuit of the pool.
LEMMA ScPoolTopIs ==
  ASSUME NEW s, ScOk(s)
  PROVE  /\ ScPoolTop(s) \in 0..Len(s.pool)
         /\ ScPoolTop(s) # 0 => ScPoolTop(s) \in DOMAIN s.pool /\ s.pool[ScPoolTop(s)] \in ScHeld(s.pool)
<1> DEFINE good == {i \in DOMAIN s.pool : s.pool[i] /= ScNone /\ s.circ[s.pool[i]].up}
<1>1. PICK n \in Nat : n = Len(s.pool) /\ DOMAIN s.pool = 1..n  BY ScSeqParts DEF ScOk, ScPool
<1>2. ScPoolTop(s) = IF good = {} THEN 0 ELSE Max(good)  BY Zenon DEF ScPoolTop
<1>3. good \in SUBSET (1..n) /\ \A i \in good : i \in DOMAIN s.pool /\ s.pool[i] # ScNone
  BY <1>1
<1> HIDE DEF good
<1>4. CASE good = {}
  BY <1>1, <1>2, <1>4
<1>5. CASE good # {}
  <2>1. Max(good) \in good  BY <1>3, <1>5, MaxIn
  <2>2. ScPoolTop(s) \in 1..n /\ s.pool[ScPoolTop(s)] # ScNone  BY <1>2, <1>3, <1>5, <2>1
  <2> QED BY <1>1, <2>2 DEF ScHeld
<1> QED BY <1>4, <1>5

\* prebuilt_pop takes the circuit out of the pool and keeps it for its caller.
LEMMA ScPoolCutOk ==
  ASSUME NEW s, ScOk(s)
  PROVE  LET t == ScPoolCut(s)
             c == s.pool[ScPoolTop(s)]
         IN  /\ ScOk(t) /\ t.client = s.client /\ t.cache = s.cache /\ t.res = s.res
             /\ ScPoolTop(s) # 0 =>
                   c \in ScCircs /\ c # ScNone /\ t.circ[c].alive /\ ScUnownedIn(c, t)
<1> DEFINE top == ScPoolTop(s)
           gone == {s.pool[i] : i \in (top + 1)..Len(s.pool)}
           m == IF top = 0 THEN 0 ELSE top - 1
<1>1. PICK n \in Nat : n = Len(s.pool) /\ DOMAIN s.pool = 1..n  BY ScSeqParts DEF ScOk, ScPool
<1>2. top \in 0..n /\ (top # 0 => top \in DOMAIN s.pool /\ s.pool[top] \in ScHeld(s.pool))
  BY <1>1, ScPoolTopIs
<1>3. ScPoolCut(s) = [ScMarkAll(s, gone) EXCEPT !.pool = SubSeq(@, 1, m)]
  BY Zenon DEF ScPoolCut
<1> HIDE DEF top
<1>4. gone \subseteq ScHeld(s.pool) \cup {ScNone}  BY <1>1, <1>2 DEF ScHeld
<1>5. gone \cap ScHeld(ScCircOf(s.res)) = {}
  <2>1. \A c \in ScHeld(s.pool) : c \notin ScHeld(ScCircOf(s.res))
    BY DEF ScOk, ScSoundIn, ScSound
  <2>2. ScNone \notin ScHeld(ScCircOf(s.res))  BY DEF ScHeld
  <2> QED BY <1>4, <2>1, <2>2
<1>6. m \in 0..n /\ (top # 0 => top \notin 1..m)  BY <1>2
<1> HIDE DEF gone, m
<1>7. PICK u : u = ScMarkAll(s, gone)  OBVIOUS
<1>8. /\ ScOk(u)
      /\ ScIs(u, s.client, u.circ, s.cache, s.pool, s.pend, s.infl, s.work, s.res)
      /\ \A c \in ScCircs : u.circ[c].alive = s.circ[c].alive
  BY <1>5, <1>7, ScMarkAllOk
<1>9. /\ u.client = s.client /\ u.cache = s.cache /\ u.pool = s.pool
      /\ u.pend = s.pend /\ u.res = s.res
  BY <1>8, ScIsFields
<1>10. PICK x : x = SubSeq(s.pool, 1, m)  OBVIOUS
<1>11. PICK t : t = [u EXCEPT !.pool = x]  OBVIOUS
<1>12. ScPoolCut(s) = t  BY <1>3, <1>7, <1>9, <1>10, <1>11
<1>13. ScSeq(s.pool) /\ ScSingle(s.pool)  BY DEF ScOk, ScPool
<1>14. ScPart(x, s.pool, 1..m)  BY <1>1, <1>6, <1>10, <1>13, ScPrefixPart
<1>15. ScPool(x) /\ ScHeld(x) \subseteq ScHeld(s.pool)
  <2>1. ScSeq(x)  BY <1>14 DEF ScPart
  <2>2. ScSingle(x) /\ ScHeld(x) \subseteq ScHeld(s.pool)  BY <1>13, <1>14, ScPartKeeps
  <2> QED BY <2>1, <2>2 DEF ScPool
<1>16. ScOk(t) /\ ScIs(t, u.client, u.circ, u.cache, x, u.pend, u.infl, u.work, u.res)
  BY <1>8, <1>9, <1>11, <1>15, ScOkPool
<1>17. /\ t.client = s.client /\ t.circ = u.circ /\ t.cache = s.cache /\ t.pool = x
       /\ t.pend = s.pend /\ t.res = s.res
  BY <1>9, <1>16, ScIsFields
<1>18. ASSUME top # 0
       PROVE  LET c == s.pool[top]
              IN  c \in ScCircs /\ c # ScNone /\ t.circ[c].alive /\ ScUnownedIn(c, t)
  <2>1. PICK c : c = s.pool[top]  OBVIOUS
  <2>2. c \in ScHeld(s.pool) /\ c # ScNone  BY <1>2, <1>18, <2>1 DEF ScHeld
  <2>3. /\ c \in ScCircs /\ s.circ[c].alive
        /\ c \notin ScHeld(ScCircOf(s.pend)) /\ c \notin ScHeld(ScCircOf(s.res))
        /\ \A e \in ToSet(s.cache) : e.circ # c
        /\ \A i \in ScSlots : s.client[i].circ # c
    BY <2>2 DEF ScOk, ScSoundIn, ScSound
  <2>4. c \notin ScHeld(x)  BY <1>2, <1>6, <1>13, <1>14, <1>18, <2>1, ScPartKeeps
  <2> QED BY <1>8, <1>17, <2>1, <2>2, <2>3, <2>4 DEF ScUnownedIn, ScUnowned
<1> QED BY <1>12, <1>16, <1>17, <1>18 DEF top

\* It is filed under the key it was taken for.
LEMMA ScPoolToCacheOk ==
  ASSUME NEW s, ScOk(s), NEW d, NEW iso, ScPoolTop(s) # 0, Len(s.cache) < ScCacheMax
  PROVE  LET t == ScPoolToCache(s, d, iso)
             e == [dest |-> d, iso |-> iso, circ |-> s.pool[ScPoolTop(s)]]
         IN  /\ ScOk(t) /\ t.client = s.client /\ e \in ToSet(t.cache)
             /\ e.circ \in ScCircs /\ e.circ # ScNone
<1>1. PICK u : u = ScPoolCut(s)  OBVIOUS
<1>2. PICK c : c = s.pool[ScPoolTop(s)]  OBVIOUS
<1>3. PICK e : e = [dest |-> d, iso |-> iso, circ |-> c]  OBVIOUS
<1>4. /\ ScOk(u) /\ u.client = s.client /\ u.cache = s.cache
      /\ c \in ScCircs /\ c # ScNone /\ u.circ[c].alive /\ ScUnownedIn(c, u)
  BY <1>1, <1>2, ScPoolCutOk
<1>5. e.circ = c  BY <1>3
<1>6. PICK t : t = [u EXCEPT !.cache = Append(u.cache, e)]  OBVIOUS
<1>7. /\ ScOk(t) /\ e \in ToSet(t.cache)
      /\ ScIs(t, u.client, u.circ, Append(u.cache, e), u.pool, u.pend, u.infl, u.work, u.res)
  BY <1>4, <1>5, <1>6, ScOkToCache
<1>8. t.client = s.client  BY <1>4, <1>7, ScIsFields
<1>9. ScPoolToCache(s, d, iso) = t  BY <1>1, <1>2, <1>3, <1>6 DEF ScPoolToCache
<1> QED BY <1>2, <1>3, <1>4, <1>5, <1>7, <1>8, <1>9

\* An entry of the cache is no result's.
LEMMA ScCachedNoResult ==
  ASSUME NEW s, ScOk(s), NEW e \in ToSet(s.cache)
  PROVE  /\ e.circ \in ScCircs /\ e.circ # ScNone /\ s.circ[e.circ].alive
         /\ {e.circ} \cap ScHeld(ScCircOf(s.res)) = {}
BY ScAssumption DEF ScOk, ScSoundIn, ScSound

\* circuit_cache_evict_oldest.
LEMMA ScEvictOldestOk ==
  ASSUME NEW s, ScOk(s), Len(s.cache) >= ScCacheMax
  PROVE  LET t == ScEvictOldest(s) IN
         ScOk(t) /\ t.client = s.client /\ Len(t.cache) < ScCacheMax
<1>1. ScCache(s.cache) /\ ScSeq(s.cache) /\ Len(s.cache) \in Nat /\ Len(s.cache) = ScCacheMax
      /\ ScCacheMax \in Nat \ {0}
  BY ScAssumption, ScSeqParts DEF ScOk, ScCache
<1>2. s.cache # <<>>  BY <1>1
<1>3. PICK x : x = Tail(s.cache)  OBVIOUS
<1>4. /\ 1 \in DOMAIN s.cache /\ Head(s.cache) = s.cache[1]
      /\ ScPart(x, s.cache, DOMAIN s.cache \ {1}) /\ Len(x) = Len(s.cache) - 1
  BY <1>1, <1>2, <1>3, ScTailPart
<1>5. ScCache(x) /\ ToSet(x) \subseteq ToSet(s.cache)  BY <1>1, <1>4, ScCacheLess
<1>6. PICK e : e = Head(s.cache)  OBVIOUS
<1>7. e \in ToSet(s.cache)  BY <1>4, <1>6 DEF ToSet
<1>8. {e.circ} \cap ScHeld(ScCircOf(s.res)) = {}  BY <1>7, ScCachedNoResult
<1>9. PICK u : u = ScMarkAll(s, {e.circ})  OBVIOUS
<1>10. ScOk(u) /\ ScIs(u, s.client, u.circ, s.cache, s.pool, s.pend, s.infl, s.work, s.res)
  BY <1>8, <1>9, ScMarkAllOk
<1>11. u.client = s.client /\ u.cache = s.cache  BY <1>10, ScIsFields
<1>12. PICK t : t = [u EXCEPT !.cache = x]  OBVIOUS
<1>13. ScOk(t) /\ ScIs(t, u.client, u.circ, x, u.pool, u.pend, u.infl, u.work, u.res)
  BY <1>5, <1>10, <1>11, <1>12, ScOkCache
<1>14. t.client = s.client /\ t.cache = x  BY <1>11, <1>13, ScIsFields
<1>15. ScEvictOldest(s) = t  BY <1>3, <1>6, <1>9, <1>11, <1>12 DEF ScEvictOldest, ScMark
<1> QED BY <1>1, <1>4, <1>13, <1>14, <1>15

\* A matching entry of the cache.
LEMMA ScMatchIs ==
  ASSUME NEW s, ScOk(s), NEW d, NEW iso, NEW T \in SUBSET ScMatches(s, d, iso), T # {}
  PROVE  LET e == s.cache[Min(T)] IN
         Min(T) \in DOMAIN s.cache /\ e \in ToSet(s.cache) /\ e.dest = d /\ e.iso = iso
<1>1. PICK n \in Nat : DOMAIN s.cache = 1..n  BY ScSeqParts DEF ScOk, ScCache
<1>2. T \in SUBSET Nat  BY <1>1 DEF ScMatches
<1>3. Min(T) \in T  BY <1>2, MinIn
<1> QED BY <1>3 DEF ScMatches, ToSet

\* get_circuit_for_domain answers with a circuit filed under the key.
LEMMA ScGetCircuitOk ==
  ASSUME NEW s, ScOk(s), NEW d, NEW iso
  PROVE  LET g == ScGetCircuit(s, d, iso) IN
         /\ ScOk(g.s) /\ g.s.client = s.client
         /\ g.c = ScNone \/ \E e \in ToSet(g.s.cache) : e.dest = d /\ e.iso = iso /\ e.circ = g.c
<1> DEFINE live == {i \in ScMatches(s, d, iso) : s.circ[s.cache[i].circ].up}
           dead == {i \in ScMatches(s, d, iso) : ~s.circ[s.cache[i].circ].up}
           sweep == [ScMark(s, s.cache[Min(dead)].circ) EXCEPT !.cache = ScSwapOut(@, Min(dead))]
<1>1. PICK swept : swept = IF dead = {} THEN s ELSE sweep  OBVIOUS
<1>2. PICK room : room = IF Len(swept.cache) >= ScCacheMax THEN ScEvictOldest(swept) ELSE swept
  OBVIOUS
<1>3. ScGetCircuit(s, d, iso) =
         IF live /= {} THEN [s |-> s, c |-> s.cache[Min(live)].circ]
         ELSE IF ScPoolTop(room) = 0 THEN [s |-> ScPoolCut(room), c |-> ScNone]
         ELSE [s |-> ScPoolToCache(room, d, iso), c |-> room.pool[ScPoolTop(room)]]
  BY <1>1, <1>2, Zenon DEF ScGetCircuit
<1>4. ScOk(swept) /\ swept.client = s.client
  <2>1. CASE dead = {}
    BY <1>1, <2>1
  <2>2. CASE dead # {}
    <3>1. PICK k : k = Min(dead)  OBVIOUS
    <3>2. dead \in SUBSET ScMatches(s, d, iso)  OBVIOUS
    <3> HIDE DEF dead
    <3>3. PICK e : e = s.cache[k]  OBVIOUS
    <3>4. k \in DOMAIN s.cache /\ e \in ToSet(s.cache)  BY <2>2, <3>1, <3>2, <3>3, ScMatchIs
    <3>5. {e.circ} \cap ScHeld(ScCircOf(s.res)) = {}  BY <3>4, ScCachedNoResult
    <3>6. PICK u : u = ScMarkAll(s, {e.circ})  OBVIOUS
    <3>7. ScOk(u) /\ ScIs(u, s.client, u.circ, s.cache, s.pool, s.pend, s.infl, s.work, s.res)
      BY <3>5, <3>6, ScMarkAllOk
    <3>8. u.client = s.client /\ u.cache = s.cache  BY <3>7, ScIsFields
    <3>9. PICK x : x = ScSwapOut(s.cache, k)  OBVIOUS
    <3>10. ScCache(s.cache) /\ ScSeq(s.cache) /\ Len(s.cache) \in Nat
      BY ScSeqParts DEF ScOk, ScCache
    <3>11. ScPart(x, s.cache, DOMAIN s.cache \ {k}) /\ Len(x) = Len(s.cache) - 1
      BY <3>4, <3>9, <3>10, ScSwapOutPart
    <3>12. ScCache(x) /\ ToSet(x) \subseteq ToSet(s.cache)  BY <3>10, <3>11, ScCacheLess
    <3>13. PICK t : t = [u EXCEPT !.cache = x]  OBVIOUS
    <3>14. ScOk(t) /\ ScIs(t, u.client, u.circ, x, u.pool, u.pend, u.infl, u.work, u.res)
      BY <3>7, <3>8, <3>12, <3>13, ScOkCache
    <3>15. t.client = s.client  BY <3>8, <3>14, ScIsFields
    <3>16. sweep = t  BY <3>1, <3>3, <3>6, <3>8, <3>9, <3>13 DEF ScMark
    <3>17. swept = sweep  BY <1>1, <2>2
    <3> QED BY <3>14, <3>15, <3>16, <3>17
  <2> QED BY <2>1, <2>2
<1> HIDE DEF dead, sweep
<1>5. ScOk(room) /\ room.client = s.client /\ Len(room.cache) < ScCacheMax
  <2>1. CASE Len(swept.cache) >= ScCacheMax
    BY <1>2, <1>4, <2>1, ScEvictOldestOk
  <2>2. CASE ~(Len(swept.cache) >= ScCacheMax)
    <3>1. Len(swept.cache) \in Nat /\ ScCacheMax \in Nat
      BY <1>4, ScAssumption, ScSeqParts DEF ScOk, ScCache
    <3> QED BY <1>2, <1>4, <2>2, <3>1
  <2> QED BY <2>1, <2>2
<1>6. PICK g : g = ScGetCircuit(s, d, iso)  OBVIOUS
<1>7. CASE live # {}
  <2>1. live \in SUBSET ScMatches(s, d, iso)  OBVIOUS
  <2>2. PICK e : e = s.cache[Min(live)]  OBVIOUS
  <2>3. g = [s |-> s, c |-> e.circ]  BY <1>3, <1>6, <1>7, <2>2
  <2> HIDE DEF live
  <2>4. e \in ToSet(s.cache) /\ e.dest = d /\ e.iso = iso  BY <1>7, <2>1, <2>2, ScMatchIs
  <2>5. g.s = s /\ g.c = e.circ  BY <2>3
  <2> QED BY <1>6, <2>4, <2>5
<1>8. CASE live = {} /\ ScPoolTop(room) = 0
  <2>1. PICK t : t = ScPoolCut(room)  OBVIOUS
  <2>2. g = [s |-> t, c |-> ScNone]  BY <1>3, <1>6, <1>8, <2>1
  <2>3. ScOk(t) /\ t.client = s.client  BY <1>5, <2>1, ScPoolCutOk
  <2>4. g.s = t /\ g.c = ScNone  BY <2>2
  <2> QED BY <1>6, <2>3, <2>4
<1>9. CASE live = {} /\ ScPoolTop(room) # 0
  <2>1. PICK t : t = ScPoolToCache(room, d, iso)  OBVIOUS
  <2>2. PICK c : c = room.pool[ScPoolTop(room)]  OBVIOUS
  <2>3. g = [s |-> t, c |-> c]  BY <1>3, <1>6, <1>9, <2>1, <2>2
  <2>4. PICK e : e = [dest |-> d, iso |-> iso, circ |-> c]  OBVIOUS
  <2>5. ScOk(t) /\ t.client = s.client /\ e \in ToSet(t.cache)
    BY <1>5, <1>9, <2>1, <2>2, <2>4, ScPoolToCacheOk
  <2>6. g.s = t /\ g.c = c /\ e.dest = d /\ e.iso = iso /\ e.circ = c  BY <2>3, <2>4
  <2> QED BY <1>6, <2>5, <2>6
<1> QED BY <1>7, <1>8, <1>9

\* Client i becomes r.
ScPut(s, i, r) == [s EXCEPT !.client = [s.client EXCEPT ![i] = r]]
ScClientIs(st, d, iso, c, age) == [st |-> st, dest |-> d, iso |-> iso, circ |-> c, age |-> age]

ScArray(cl) == cl = [i \in ScSlots |-> cl[i]]

\* What ScPut leaves alone; a second one replaces the first.
LEMMA ScPutIs ==
  ASSUME NEW s, ScRec(s), ScArray(s.client), NEW i \in ScSlots,
         NEW r, NEW t, t = ScPut(s, i, r), NEW q
  PROVE  /\ ScIs(t, t.client, s.circ, s.cache, s.pool, s.pend, s.infl, s.work, s.res)
         /\ ScRec(t) /\ ScArray(t.client)
         /\ \A j \in ScSlots : t.client[j] = IF j = i THEN r ELSE s.client[j]
         /\ ScPut(t, i, q) = ScPut(s, i, q)
<1>0. PICK cl : cl = s.client  OBVIOUS
<1>1. PICK x : x = [cl EXCEPT ![i] = r]  OBVIOUS
<1>2. x = [j \in ScSlots |-> x[j]] /\ \A j \in ScSlots : x[j] = IF j = i THEN r ELSE s.client[j]
  BY <1>0, <1>1 DEF ScArray
<1>4. ScIs(t, x, s.circ, s.cache, s.pool, s.pend, s.infl, s.work, s.res)
  BY <1>0, <1>1, ScExcept DEF ScPut
<1>5. /\ ScRec(t) /\ t.client = x /\ t.circ = s.circ /\ t.cache = s.cache /\ t.pool = s.pool
      /\ t.pend = s.pend /\ t.infl = s.infl /\ t.work = s.work /\ t.res = s.res
  BY <1>4, ScIsFields
<1>6. ScPut(t, i, q) = ScPut(s, i, q)
  <2>1. PICK y : y = [cl EXCEPT ![i] = q]  OBVIOUS
  <2>2. y = [x EXCEPT ![i] = q]  BY <1>0, <1>1, <2>1 DEF ScArray
  <2>3. ScPut(t, i, q) = [t EXCEPT !.client = y]  BY <1>5, <2>2 DEF ScPut
  <2>4. ScPut(s, i, q) = [s EXCEPT !.client = y]  BY <1>0, <2>1 DEF ScPut
  <2>5. ScIs([t EXCEPT !.client = y], y, s.circ, s.cache, s.pool, s.pend, s.infl, s.work, s.res)
    BY <1>5, ScExcept
  <2>6. ScIs([s EXCEPT !.client = y], y, s.circ, s.cache, s.pool, s.pend, s.infl, s.work, s.res)
    BY ScExcept
  <2> QED BY <2>3, <2>4, <2>5, <2>6 DEF ScIs
<1> QED BY <1>2, <1>4, <1>5, <1>6 DEF ScArray

\* A client stays, leaves,
LEMMA ScPutOk ==
  ASSUME NEW s, ScOk(s), NEW i \in ScSlots, NEW r, ScClientRec(r), ScStays(r, s.client[i])
  PROVE  ScOk(ScPut(s, i, r))
<1>0. PICK x : x = [s.client EXCEPT ![i] = r]  OBVIOUS
<1>1. /\ s.client = [j \in ScSlots |-> s.client[j]]
      /\ \A j \in ScSlots : ScClientRec(s.client[j]) /\ ScStays(s.client[j], s.client[j])
  BY DEF ScOk, ScClients, ScSoundIn, ScSound, ScStays
<1>2. PICK cl : cl = s.client  OBVIOUS
<1>3. x = [j \in ScSlots |-> x[j]] /\ \A j \in ScSlots : x[j] = IF j = i THEN r ELSE s.client[j]
  BY <1>0, <1>1, <1>2
<1>4. ScClients(x) /\ \A j \in ScSlots : ScStays(x[j], s.client[j])  BY <1>1, <1>3 DEF ScClients
<1> QED BY <1>0, <1>4, ScOkClients DEF ScPut

\* or comes to a cached circuit.
LEMMA ScPutComes ==
  ASSUME NEW s, ScOk(s), NEW i \in ScSlots, NEW r, ScClientRec(r),
         NEW e \in ToSet(s.cache), ScComes(r, e)
  PROVE  ScOk(ScPut(s, i, r))
<1>0. PICK x : x = [s.client EXCEPT ![i] = r]  OBVIOUS
<1>1. /\ s.client = [j \in ScSlots |-> s.client[j]]
      /\ \A j \in ScSlots : ScClientRec(s.client[j]) /\ ScStays(s.client[j], s.client[j])
  BY DEF ScOk, ScClients, ScSoundIn, ScSound, ScStays
<1>2. PICK cl : cl = s.client  OBVIOUS
<1>3. x = [j \in ScSlots |-> x[j]] /\ \A j \in ScSlots : x[j] = IF j = i THEN r ELSE s.client[j]
  BY <1>0, <1>1, <1>2
<1>4. ScClients(x) /\ \A j \in ScSlots : ScStays(x[j], s.client[j]) \/ ScComes(x[j], e)
  BY <1>1, <1>3 DEF ScClients
<1> QED BY <1>0, <1>4, ScOkOpen DEF ScPut

\* A record of a client is one of ScClientIs.
LEMMA ScClientFields ==
  ASSUME NEW st, NEW d, NEW iso, NEW c, NEW age
  PROVE  LET r == ScClientIs(st, d, iso, c, age) IN
         /\ ScClientRec(r) /\ r.st = st /\ r.dest = d /\ r.iso = iso /\ r.circ = c /\ r.age = age
         /\ \A x : [r EXCEPT !.st = x] = ScClientIs(x, d, iso, c, age)
         /\ \A x : [r EXCEPT !.dest = x] = ScClientIs(st, x, iso, c, age)
         /\ \A x : [r EXCEPT !.iso = x] = ScClientIs(st, d, x, c, age)
         /\ \A x : [r EXCEPT !.circ = x] = ScClientIs(st, d, iso, x, age)
         /\ \A x : [r EXCEPT !.age = x] = ScClientIs(st, d, iso, c, x)
BY DEF ScClientIs, ScClientRec

\* The circuit of a client is cleared of what the client was; it waits.
LEMMA ScQueuedIs ==
  ASSUME NEW s, ScOk(s), NEW i \in ScSlots, NEW d
  PROVE  LET r == s.client[i] IN
         ScQueued(s, i, d) = ScPut(s, i, ScClientIs("building", d, r.iso, r.circ, r.age))
<1>0. ScRec(s) /\ ScArray(s.client) /\ ScClientRec(s.client[i])  BY DEF ScOk, ScClients, ScArray
<1>1. PICK st, ds, iso, c, age : s.client[i] = ScClientIs(st, ds, iso, c, age)
  BY <1>0, Zenon DEF ScClientRec, ScClientIs
<1>2. PICK r1 : r1 = ScClientIs("building", ds, iso, c, age)  OBVIOUS
<1>3. PICK r2 : r2 = ScClientIs("building", d, iso, c, age)  OBVIOUS
<1>4. [s.client[i] EXCEPT !.st = "building"] = r1 /\ [r1 EXCEPT !.dest = d] = r2
  BY <1>1, <1>2, <1>3, ScClientFields
<1>5. PICK t : t = ScPut(s, i, r1)  OBVIOUS
<1>6. t.client[i] = r1 /\ ScPut(t, i, r2) = ScPut(s, i, r2)  BY <1>0, <1>5, ScPutIs
<1>7. [s EXCEPT !.client[i].st = "building"] = t  BY <1>4, <1>5 DEF ScPut
<1>8. [t EXCEPT !.client[i].dest = d] = ScPut(t, i, r2)  BY <1>4, <1>6 DEF ScPut
<1>9. ScQueued(s, i, d) = [[s EXCEPT !.client[i].st = "building"] EXCEPT !.client[i].dest = d]
  BY DEF ScQueued
<1>10. s.client[i].iso = iso /\ s.client[i].circ = c /\ s.client[i].age = age
  BY <1>1, ScClientFields
<1> QED BY <1>3, <1>6, <1>7, <1>8, <1>9, <1>10

\* A client that waits is on no circuit.
LEMMA ScQueuedOk ==
  ASSUME NEW s, ScOk(s), NEW i \in ScSlots, NEW d, s.client[i].circ = ScNone
  PROVE  ScOk(ScQueued(s, i, d))
<1>1. PICK r : r = ScClientIs("building", d, s.client[i].iso, s.client[i].circ, s.client[i].age)
  OBVIOUS
<1>2. ScClientRec(r) /\ r.circ = ScNone  BY <1>1, ScClientFields
<1>3. ScOk(ScPut(s, i, r))  BY <1>2, ScPutOk DEF ScStays
<1> QED BY <1>1, <1>3, ScQueuedIs

\* moor_circuit_open_stream on a cached circuit of the key, or its failure.
LEMMA ScUseOk ==
  ASSUME NEW s, ScOk(s), NEW i \in ScSlots, NEW d, NEW closes \in BOOLEAN,
         ~closes => s.client[i].st = "request" /\ s.client[i].iso = "trans",
         NEW e \in ToSet(s.cache), e.dest = d, e.iso = s.client[i].iso,
         NEW t \in ScUse(s, i, d, e.circ, closes)
  PROVE  ScOk(t)
<1>0. ScRec(s) /\ ScArray(s.client) /\ ScClientRec(s.client[i])  BY DEF ScOk, ScClients, ScArray
<1>1. PICK st, ds, iso, k, age : s.client[i] = ScClientIs(st, ds, iso, k, age)
  BY <1>0, Zenon DEF ScClientRec, ScClientIs
<1>2. s.client[i].iso = iso /\ s.client[i].st = st  BY <1>1, ScClientFields
<1>3. PICK c : c = e.circ  OBVIOUS
<1>4. PICK r1 : r1 = ScClientIs(st, d, iso, k, age)  OBVIOUS
<1>5. PICK r2 : r2 = ScClientIs(st, d, iso, c, age)  OBVIOUS
<1>6. PICK r3 : r3 = ScClientIs("connected", d, iso, c, 0)  OBVIOUS
<1>7. [s.client[i] EXCEPT !.dest = d] = r1 /\ [r1 EXCEPT !.circ = c] = r2 /\ ScOnCircuit(r2, c) = r3
  <2>1. [s.client[i] EXCEPT !.dest = d] = r1 /\ [r1 EXCEPT !.circ = c] = r2
    BY <1>1, <1>4, <1>5, ScClientFields
  <2>2. ScOnCircuit(r2, c) = [[[r2 EXCEPT !.st = "connected"] EXCEPT !.circ = c] EXCEPT !.age = 0]
    BY DEF ScOnCircuit
  <2>3. [r2 EXCEPT !.st = "connected"] = ScClientIs("connected", d, iso, c, age)
    BY <1>5, ScClientFields
  <2>4. [ScClientIs("connected", d, iso, c, age) EXCEPT !.circ = c] = ScClientIs("connected", d, iso, c, age)
    BY ScClientFields
  <2>5. [ScClientIs("connected", d, iso, c, age) EXCEPT !.age = 0] = r3  BY <1>6, ScClientFields
  <2> QED BY <2>1, <2>2, <2>3, <2>4, <2>5
<1>8. PICK u : u = ScPut(s, i, r1)  OBVIOUS
<1>9. ScRec(u) /\ u.client[i] = r1 /\ ScPut(u, i, r2) = ScPut(s, i, r2)  BY <1>0, <1>8, ScPutIs
<1>10. PICK v : v = ScPut(s, i, r2)  OBVIOUS
<1>11. ScRec(v) /\ v.client[i] = r2 /\ ScPut(v, i, r3) = ScPut(s, i, r3)
  BY <1>0, <1>10, ScPutIs
<1>12. [s EXCEPT !.client[i].dest = d] = u  BY <1>7, <1>8 DEF ScPut
<1>13. [u EXCEPT !.client[i].circ = c] = v  BY <1>7, <1>9, <1>10 DEF ScPut
<1>14. [s EXCEPT !.client[i].dest = d, !.client[i].circ = c]
          = [[s EXCEPT !.client[i].dest = d] EXCEPT !.client[i].circ = c]
  OBVIOUS
<1>15. [s EXCEPT !.client[i].dest = d, !.client[i].circ = c] = v  BY <1>12, <1>13, <1>14
<1>16. ScOpened(v, i, c) = ScPut(s, i, r3)  BY <1>7, <1>11 DEF ScOpened, ScPut
<1>17. t = ScOpened(v, i, c) \/ t = IF closes THEN ScClose(s, i) ELSE v
  BY <1>3, <1>15 DEF ScUse
<1>18. ScClientRec(r3) /\ ScComes(r3, e)
  BY <1>2, <1>3, <1>6, ScClientFields DEF ScComes, ScSits
<1>19. ScOk(ScPut(s, i, r3))  BY <1>18, ScPutComes
<1>20. CASE t = ScOpened(v, i, c)
  BY <1>16, <1>19, <1>20
<1>21. CASE closes /\ t = ScClose(s, i)
  <2>1. t = ScCloseAll(s, {i})  BY <1>21, ScCloseIs
  <2> QED BY <2>1, ScCloseAllOk
<1>22. CASE ~closes /\ t = v
  <2>1. ScClientRec(r2) /\ ScComes(r2, e)
    BY <1>2, <1>3, <1>5, <1>22, ScClientFields DEF ScComes, ScSits
  <2> QED BY <1>10, <1>22, <2>1, ScPutComes
<1> QED BY <1>17, <1>20, <1>21, <1>22

\* moor_socks5_handle_request, by a client that is on no circuit.
LEMMA ScHandleRequestOk ==
  ASSUME NEW s, ScOk(s), NEW i \in ScSlots, NEW d, NEW closes \in BOOLEAN,
         s.client[i].circ = ScNone,
         ~closes => s.client[i].st = "request" /\ s.client[i].iso = "trans",
         NEW t \in ScHandleRequest(s, i, d, closes)
  PROVE  ScOk(t)
<1>1. PICK iso : iso = s.client[i].iso  OBVIOUS
<1>2. CASE d \in ScServices
  <2> DEFINE live == {k \in ScMatches(s, d, iso) : s.circ[s.cache[k].circ].up}
             pending == \E p \in ScPending :
                           s.pend[p].active /\ s.pend[p].dest = d /\ s.pend[p].iso = iso
             flying == \E k \in ScInflight : s.infl[k] = d
             free == {k \in ScInflight : s.infl[k] = ScNone}
             q == ScQueued(s, i, d)
             launched == [q EXCEPT !.work = Append(@, [dest |-> d, iso |-> iso])]
             flown == [launched EXCEPT !.infl[CHOOSE k \in free : TRUE] = d]
  <2>1. t \in IF live /= {} THEN ScUse(s, i, d, s.cache[Min(live)].circ, closes)
              ELSE IF pending \/ flying THEN {q}
              ELSE IF free = {} THEN {launched}
              ELSE {flown}
    <3>1. t \in ScRequestService(s, i, d, closes)  BY <1>2 DEF ScHandleRequest
    <3> QED BY <1>1, <3>1, Zenon DEF ScRequestService
  <2>2. ScOk(q)  BY ScQueuedOk
  <2>3. ScOk(launched)
    <3> HIDE DEF q
    <3>1. PICK x : x = Append(q.work, [dest |-> d, iso |-> iso])  OBVIOUS
    <3>2. launched = [q EXCEPT !.work = x]  BY <3>1
    <3> QED BY <2>2, <3>2, ScOkOther
  <2>4. ScOk(flown)
    <3> HIDE DEF launched
    <3>1. PICK x : x = [launched.infl EXCEPT ![CHOOSE k \in free : TRUE] = d]  OBVIOUS
    <3>2. flown = [launched EXCEPT !.infl = x]  BY <3>1
    <3> HIDE DEF flown
    <3> QED BY <2>3, <3>2, ScOkOther
  <2>5. CASE live # {}
    <3>1. live \in SUBSET ScMatches(s, d, iso)  OBVIOUS
    <3>2. PICK e : e = s.cache[Min(live)]  OBVIOUS
    <3>3. t \in ScUse(s, i, d, e.circ, closes)  BY <2>1, <2>5, <3>2
    <3> HIDE DEF live
    <3>4. e \in ToSet(s.cache) /\ e.dest = d /\ e.iso = iso  BY <2>5, <3>1, <3>2, ScMatchIs
    <3> QED BY <1>1, <3>3, <3>4, ScUseOk
  <2>6. CASE live = {}
    <3> HIDE DEF live, pending, flying, free, q, launched, flown
    <3>1. t \in {q, launched, flown}  BY <2>1, <2>6
    <3> QED BY <2>2, <2>3, <2>4, <3>1
  <2> QED BY <2>5, <2>6
<1>3. CASE d \notin ScServices
  <2>1. PICK g : g = ScGetCircuit(s, d, iso)  OBVIOUS
  <2>2. t \in IF g.c = ScNone THEN {[ScQueued(g.s, i, d) EXCEPT !.client[i].age = 0]}
              ELSE ScUse(g.s, i, d, g.c, closes)
    <3>1. t \in ScRequestDomain(s, i, d, closes)  BY <1>3 DEF ScHandleRequest
    <3> QED BY <1>1, <2>1, <3>1, Zenon DEF ScRequestDomain
  <2>3. /\ ScOk(g.s) /\ g.s.client = s.client
        /\ g.c = ScNone \/ \E e \in ToSet(g.s.cache) : e.dest = d /\ e.iso = iso /\ e.circ = g.c
    BY <2>1, ScGetCircuitOk
  <2>4. PICK u : u = g.s  OBVIOUS
  <2>5. CASE g.c = ScNone
    <3>1. t = [ScQueued(u, i, d) EXCEPT !.client[i].age = 0]  BY <2>2, <2>4, <2>5
    <3>2. PICK r : r = ScClientIs("building", d, u.client[i].iso, u.client[i].circ, u.client[i].age)
      OBVIOUS
    <3>3. PICK r1 : r1 = ScClientIs("building", d, u.client[i].iso, u.client[i].circ, 0)
      OBVIOUS
    <3>4. ScQueued(u, i, d) = ScPut(u, i, r)  BY <2>3, <2>4, <3>2, ScQueuedIs
    <3>5. ScRec(u) /\ ScArray(u.client) /\ u.client[i].circ = ScNone
      BY <2>3, <2>4 DEF ScOk, ScClients, ScArray
    <3>6. PICK v : v = ScPut(u, i, r)  OBVIOUS
    <3>7. v.client[i] = r /\ ScPut(v, i, r1) = ScPut(u, i, r1)  BY <3>5, <3>6, ScPutIs
    <3>8. [r EXCEPT !.age = 0] = r1 /\ ScClientRec(r1) /\ r1.circ = ScNone
      BY <3>2, <3>3, <3>5, ScClientFields
    <3>9. t = ScPut(v, i, r1)  BY <3>1, <3>4, <3>6, <3>7, <3>8 DEF ScPut
    <3>10. ScOk(ScPut(u, i, r1))  BY <2>3, <2>4, <3>8, ScPutOk DEF ScStays
    <3> QED BY <3>7, <3>9, <3>10
  <2>6. CASE g.c # ScNone
    <3>1. PICK e \in ToSet(u.cache) : e.dest = d /\ e.iso = iso /\ e.circ = g.c
      BY <2>3, <2>4, <2>6
    <3>2. t \in ScUse(u, i, d, e.circ, closes)  BY <2>2, <2>4, <2>6, <3>1
    <3>3. ScOk(u) /\ u.client[i] = s.client[i]  BY <2>3, <2>4
    <3> QED BY <1>1, <3>1, <3>2, <3>3, ScUseOk
  <2> QED BY <2>5, <2>6
<1> QED BY <1>2, <1>3

\* Closing one client.
LEMMA ScCloseOk ==
  ASSUME NEW s, ScOk(s), NEW i \in ScSlots
  PROVE  /\ ScOk(ScClose(s, i)) /\ ScClose(s, i).cache = s.cache /\ ScClose(s, i).res = s.res
<1>1. ScClose(s, i) = ScCloseAll(s, {i})  BY ScCloseIs
<1>2. PICK x : x = [j \in ScSlots |-> IF j \in {i} THEN ScFreeClient ELSE s.client[j]]  OBVIOUS
<1>3. ScOk(ScCloseAll(s, {i}))
      /\ ScIs(ScCloseAll(s, {i}), x, s.circ, s.cache, s.pool, s.pend, s.infl, s.work, s.res)
  BY <1>2, ScCloseAllOk
<1> QED BY <1>1, <1>3, ScIsFields

\* A stream is opened on a cached circuit of the client's key.
LEMMA ScOpenedOk ==
  ASSUME NEW s, ScOk(s), NEW i \in ScSlots, NEW e \in ToSet(s.cache),
         e.dest = s.client[i].dest, e.iso = s.client[i].iso
  PROVE  ScOk(ScOpened(s, i, e.circ))
<1>0. ScClientRec(s.client[i])  BY DEF ScOk, ScClients
<1>1. PICK st, ds, iso, k, age : s.client[i] = ScClientIs(st, ds, iso, k, age)
  BY <1>0, Zenon DEF ScClientRec, ScClientIs
<1>2. s.client[i].iso = iso /\ s.client[i].dest = ds  BY <1>1, ScClientFields
<1>3. PICK c : c = e.circ  OBVIOUS
<1>4. PICK r : r = ScClientIs("connected", ds, iso, c, 0)  OBVIOUS
<1>5. ScOnCircuit(s.client[i], c) = r
  <2>1. ScOnCircuit(s.client[i], c)
          = [[[s.client[i] EXCEPT !.st = "connected"] EXCEPT !.circ = c] EXCEPT !.age = 0]
    BY DEF ScOnCircuit
  <2>2. [s.client[i] EXCEPT !.st = "connected"] = ScClientIs("connected", ds, iso, k, age)
    BY <1>1, ScClientFields
  <2>3. [ScClientIs("connected", ds, iso, k, age) EXCEPT !.circ = c] = ScClientIs("connected", ds, iso, c, age)
    BY ScClientFields
  <2>4. [ScClientIs("connected", ds, iso, c, age) EXCEPT !.age = 0] = r  BY <1>4, ScClientFields
  <2> QED BY <2>1, <2>2, <2>3, <2>4
<1>6. ScClientRec(r) /\ ScComes(r, e)  BY <1>2, <1>3, <1>4, ScClientFields DEF ScComes, ScSits
<1>7. ScOpened(s, i, c) = ScPut(s, i, r)  BY <1>5 DEF ScOpened, ScPut
<1> QED BY <1>3, <1>6, <1>7, ScPutComes

\* One client of assign_circuits_to_waiting_clients.
LEMMA ScAssignOneOk ==
  ASSUME NEW s, ScOk(s), NEW i \in ScSlots, NEW ok \in BOOLEAN
  PROVE  ScOk(ScAssignOne(s, i, ok))
<1> DEFINE r == s.client[i]
           have == ScMatches(s, r.dest, r.iso)
           c0 == IF have /= {} THEN s.cache[Min(have)].circ
                 ELSE IF ScPoolTop(s) = 0 THEN ScNone ELSE s.pool[ScPoolTop(s)]
           t0 == IF have /= {} THEN s
                 ELSE IF c0 = ScNone THEN ScPoolCut(s)
                 ELSE ScPoolToCache(s, r.dest, r.iso)
<1>1. ScAssignOne(s, i, ok) =
         IF s.pool = <<>> \/ (have = {} /\ Len(s.cache) >= ScCacheMax) THEN s
         ELSE IF c0 = ScNone THEN t0
         ELSE IF ok THEN ScOpened(t0, i, c0)
         ELSE ScInvalidate(ScMark(ScClose(t0, i), c0), c0)
  BY Zenon DEF ScAssignOne
<1>2. ASSUME NEW t, NEW e \in ToSet(t.cache), ScOk(t), t.client = s.client,
             e.dest = r.dest, e.iso = r.iso
      PROVE  ScOk(ScOpened(t, i, e.circ)) /\ ScOk(ScInvalidate(ScMark(ScClose(t, i), e.circ), e.circ))
  <2>1. ScOk(ScOpened(t, i, e.circ))  BY <1>2, ScOpenedOk
  <2>2. PICK u : u = ScClose(t, i)  OBVIOUS
  <2>3. ScOk(u) /\ u.cache = t.cache  BY <1>2, <2>2, ScCloseOk
  <2>4. {e.circ} \cap ScHeld(ScCircOf(u.res)) = {}  BY <2>3, ScCachedNoResult
  <2>5. ScOk(ScMark(u, e.circ))  BY <2>3, <2>4, ScMarkAllOk DEF ScMark
  <2> QED BY <2>1, <2>2, <2>5, ScInvalidateOk
<1>3. CASE s.pool = <<>> \/ (have = {} /\ Len(s.cache) >= ScCacheMax)
  BY <1>1, <1>3
<1>4. CASE ~(s.pool = <<>> \/ (have = {} /\ Len(s.cache) >= ScCacheMax)) /\ have # {}
  <2>1. PICK e : e = s.cache[Min(have)]  OBVIOUS
  <2>2. c0 = e.circ /\ t0 = s  BY <1>4, <2>1
  <2>3. have \in SUBSET ScMatches(s, r.dest, r.iso)  OBVIOUS
  <2>4. e \in ToSet(s.cache) /\ e.dest = r.dest /\ e.iso = r.iso  BY <1>4, <2>1, <2>3, ScMatchIs
  <2>5. e.circ # ScNone  BY <2>4, ScCachedNoResult
  <2> HIDE DEF c0, t0, r, have
  <2>6. ScAssignOne(s, i, ok) = IF ok THEN ScOpened(s, i, e.circ)
                                ELSE ScInvalidate(ScMark(ScClose(s, i), e.circ), e.circ)
    BY <1>1, <1>4, <2>2, <2>5
  <2> QED BY <1>2, <2>4, <2>6
<1>5. CASE ~(s.pool = <<>> \/ (have = {} /\ Len(s.cache) >= ScCacheMax)) /\ have = {}
           /\ ScPoolTop(s) = 0
  <2>1. c0 = ScNone /\ t0 = ScPoolCut(s)  BY <1>5
  <2> HIDE DEF c0, t0, r, have
  <2> QED BY <1>1, <1>5, <2>1, ScPoolCutOk
<1>6. CASE ~(s.pool = <<>> \/ (have = {} /\ Len(s.cache) >= ScCacheMax)) /\ have = {}
           /\ ScPoolTop(s) # 0
  <2>1. PICK c : c = s.pool[ScPoolTop(s)]  OBVIOUS
  <2>2. PICK t : t = ScPoolToCache(s, r.dest, r.iso)  OBVIOUS
  <2>3. PICK e : e = [dest |-> r.dest, iso |-> r.iso, circ |-> c]  OBVIOUS
  <2>4. Len(s.cache) < ScCacheMax
    <3>1. Len(s.cache) \in Nat /\ ScCacheMax \in Nat
      BY ScAssumption, ScSeqParts DEF ScOk, ScCache
    <3> HIDE DEF have
    <3> QED BY <1>6, <3>1
  <2>5. e.dest = r.dest /\ e.iso = r.iso /\ e.circ = c  BY <2>3
  <2> HIDE DEF r, have
  <2>6. ScOk(t) /\ t.client = s.client /\ e \in ToSet(t.cache) /\ c # ScNone
    BY <1>6, <2>1, <2>2, <2>3, <2>4, <2>5, ScPoolToCacheOk
  <2>7. c0 = c /\ t0 = t  BY <1>6, <2>1, <2>2, <2>6
  <2> HIDE DEF c0, t0
  <2>8. ScAssignOne(s, i, ok) = IF ok THEN ScOpened(t, i, e.circ)
                                ELSE ScInvalidate(ScMark(ScClose(t, i), e.circ), e.circ)
    BY <1>1, <1>6, <2>5, <2>6, <2>7
  <2> QED BY <1>2, <2>5, <2>6, <2>8
<1> QED BY <1>3, <1>4, <1>5, <1>6

\* moor_circuit_close_all_marked frees one circuit no worker has.
LEMMA ScFreeOk ==
  ASSUME NEW s, ScOk(s), NEW c \in ScCircs, c \notin ScHeld(ScCircOf(s.res))
  PROVE  ScOk(ScFree(s, c)) /\ ScFree(s, c).res = s.res
<1>1. PICK u : u = ScInvalidate(s, c)  OBVIOUS
<1>2. c # ScNone  BY ScAssumption
<1>3. ScOk(u) /\ u.res = s.res /\ ScUnownedIn(c, u)  BY <1>1, <1>2, ScInvalidateOk
<1>4. ScCircRec(ScFreeCirc)  BY DEF ScCircRec, ScFreeCirc
<1>5. PICK t : t = [u EXCEPT !.circ = [u.circ EXCEPT ![c] = ScFreeCirc]]  OBVIOUS
<1>6. ScOk(t) /\ ScIs(t, u.client, [u.circ EXCEPT ![c] = ScFreeCirc], u.cache, u.pool, u.pend,
                      u.infl, u.work, u.res)
  BY <1>3, <1>4, <1>5, ScOkRenewed
<1>7. ScFree(s, c) = t  BY <1>1, <1>5 DEF ScFree
<1>8. t.res = u.res  BY <1>6, ScIsFields
<1> QED BY <1>3, <1>6, <1>7, <1>8

\* One client of moor_socks5_check_stream_timeouts.
LEMMA ScExpireOk ==
  ASSUME NEW s, ScOk(s), NEW i \in ScSlots
  PROVE  ScOk(ScExpire(s, i))
<1>1. PICK c : c = s.client[i].circ  OBVIOUS
<1>2. ScExpire(s, i) \in {s, ScClose(ScMark(ScInvalidate(s, c), c), i), ScClose(s, i)}
  BY <1>1, Zenon DEF ScExpire
<1>3. ScOk(ScClose(s, i))  BY ScCloseOk
<1>4. PICK u : u = ScInvalidate(s, c)  OBVIOUS
<1>5. ScOk(u) /\ u.res = s.res  BY <1>4, ScInvalidateOk
<1>6. {c} \cap ScHeld(ScCircOf(u.res)) = {}
  <2>1. c = ScNone \/ c \notin ScHeld(ScCircOf(s.res))  BY <1>1 DEF ScOk, ScSoundIn, ScSound
  <2>2. ScNone \notin ScHeld(ScCircOf(s.res))  BY DEF ScHeld
  <2> QED BY <1>5, <2>1, <2>2
<1>7. ScOk(ScMark(u, c))  BY <1>5, <1>6, ScMarkAllOk DEF ScMark
<1>8. ScOk(ScClose(ScMark(u, c), i))  BY <1>7, ScCloseOk
<1> QED BY <1>2, <1>3, <1>4, <1>8

\* hs_pending_fail.
LEMMA ScPendFailAllOk ==
  ASSUME NEW s, ScOk(s), NEW P \in SUBSET ScPending
  PROVE  ScOk(ScPendFailAll(s, P))
<1> DEFINE told == UNION {ScWaitingAlike(s, s.pend[p].dest, s.pend[p].iso) : p \in P}
           lost == {s.pend[p].circ : p \in P}
<1>1. ScPendFailAll(s, P) = [ScMarkAll(ScCloseAll(s, told), lost)
          EXCEPT !.pend = [p \in ScPending |-> IF p \in P THEN ScFreePend ELSE @[p]]]
  BY Zenon DEF ScPendFailAll
<1> HIDE DEF told
<1>2. PICK u : u = ScCloseAll(s, told)  OBVIOUS
<1>3. PICK cl : cl = [i \in ScSlots |-> IF i \in told THEN ScFreeClient ELSE s.client[i]]
  OBVIOUS
<1>4. ScOk(u) /\ ScIs(u, cl, s.circ, s.cache, s.pool, s.pend, s.infl, s.work, s.res)
  BY <1>2, <1>3, ScCloseAllOk
<1>5. u.pend = s.pend /\ u.res = s.res  BY <1>4, ScIsFields
<1>6. /\ s.pend = [p \in ScPending |-> s.pend[p]] /\ \A p \in ScPending : ScPendRec(s.pend[p])
      /\ ScSingle(ScCircOf(s.pend))
  BY DEF ScOk, ScPends
<1>7. DOMAIN ScCircOf(s.pend) = ScPending /\ \A p \in ScPending : ScCircOf(s.pend)[p] = s.pend[p].circ
  BY <1>6 DEF ScCircOf
<1>8. lost \cap ScHeld(ScCircOf(u.res)) = {}
  <2>1. lost \subseteq ScHeld(ScCircOf(s.pend)) \cup {ScNone}  BY <1>7 DEF ScHeld
  <2>2. \A c \in ScHeld(ScCircOf(s.pend)) : c \notin ScHeld(ScCircOf(s.res))
    BY DEF ScOk, ScSoundIn, ScSound
  <2>3. ScNone \notin ScHeld(ScCircOf(s.res))  BY DEF ScHeld
  <2> QED BY <1>5, <2>1, <2>2, <2>3
<1> HIDE DEF lost
<1>9. PICK v : v = ScMarkAll(u, lost)  OBVIOUS
<1>10. ScOk(v) /\ ScIs(v, u.client, v.circ, u.cache, u.pool, u.pend, u.infl, u.work, u.res)
  BY <1>4, <1>8, <1>9, ScMarkAllOk
<1>11. v.pend = s.pend  BY <1>5, <1>10, ScIsFields
<1>12. PICK x : x = [p \in ScPending |-> IF p \in P THEN ScFreePend ELSE s.pend[p]]  OBVIOUS
<1>13. ScPendFailAll(s, P) = [v EXCEPT !.pend = x]  BY <1>1, <1>2, <1>9, <1>11, <1>12
<1>14. ScPendRec(ScFreePend) /\ ScFreePend.circ = ScNone  BY DEF ScPendRec, ScFreePend
<1>15. x = [p \in ScPending |-> x[p]] /\ \A p \in ScPending : x[p] = IF p \in P THEN ScFreePend ELSE s.pend[p]
  BY <1>12
<1>16. DOMAIN ScCircOf(x) = ScPending /\ \A p \in ScPending : ScCircOf(x)[p] = x[p].circ
  BY <1>15 DEF ScCircOf
<1>17. PICK f, g : f = ScCircOf(s.pend) /\ g = ScCircOf(x)  OBVIOUS
<1>18. /\ DOMAIN f = ScPending /\ DOMAIN g = ScPending
       /\ \A p \in ScPending : g[p] = ScNone \/ g[p] = f[p]
  BY <1>7, <1>14, <1>15, <1>16, <1>17
<1>19. ScSingle(g) /\ ScHeld(g) \subseteq ScHeld(f)  BY <1>6, <1>17, <1>18 DEF ScSingle, ScHeld
<1>20. ScPends(x) /\ ScHeld(ScCircOf(x)) \subseteq ScHeld(ScCircOf(v.pend))
  BY <1>6, <1>11, <1>14, <1>15, <1>17, <1>19 DEF ScPends
<1> QED BY <1>10, <1>13, <1>20, ScOkPend

\* hs_pending_complete.
LEMMA ScPendCompleteOk ==
  ASSUME NEW s, ScOk(s), NEW p \in ScPending, NEW Bad
  PROVE  ScOk(ScPendComplete(s, p, Bad))
<1> DEFINE r == s.pend[p]
           wait == ScWaitingAlike(s, r.dest, r.iso)
           fails == r.circ = ScNone \/ ~s.circ[r.circ].up \/ Len(s.cache) >= ScCacheMax
           served == [s EXCEPT !.pend[p] = ScFreePend,
                               !.cache = Append(@, [dest |-> r.dest, iso |-> r.iso, circ |-> r.circ]),
                               !.client = [i \in ScSlots |->
                                    IF i \notin wait THEN @[i]
                                    ELSE IF i \in Bad THEN ScFreeClient ELSE ScOnCircuit(@[i], r.circ)]]
<1>1. ScPendComplete(s, p, Bad) = IF fails THEN ScPendFail(s, p) ELSE served
  BY Zenon DEF ScPendComplete
<1>2. CASE fails
  <2>1. ScPendComplete(s, p, Bad) = ScPendFailAll(s, {p})  BY <1>1, <1>2 DEF ScPendFail
  <2> HIDE DEF fails, served
  <2> QED BY <2>1, ScPendFailAllOk
<1>3. CASE ~fails
  <2>1. ScPendComplete(s, p, Bad) = served  BY <1>1, <1>3
  <2>2. Len(s.cache) \in Nat /\ ScCacheMax \in Nat
    BY ScAssumption, ScSeqParts DEF ScOk, ScCache
  <2>3. r.circ # ScNone /\ Len(s.cache) < ScCacheMax  BY <1>3, <2>2
  <2>4. PICK d, iso, c : d = r.dest /\ iso = r.iso /\ c = r.circ  OBVIOUS
  <2>5. PICK e : e = [dest |-> d, iso |-> iso, circ |-> c]  OBVIOUS
  <2>6. e.dest = d /\ e.iso = iso /\ e.circ = c  BY <2>5
  <2>7. PICK pe : pe = [s.pend EXCEPT ![p] = ScFreePend]  OBVIOUS
  <2>8. PICK u : u = [s EXCEPT !.pend = pe]  OBVIOUS
  <2>9. /\ s.pend = [y \in ScPending |-> s.pend[y]] /\ \A y \in ScPending : ScPendRec(s.pend[y])
        /\ ScSingle(ScCircOf(s.pend))
    BY DEF ScOk, ScPends
  <2>10. pe = [y \in ScPending |-> pe[y]] /\ \A y \in ScPending : pe[y] = IF y = p THEN ScFreePend ELSE s.pend[y]
    <3>1. PICK q : q = s.pend  OBVIOUS
    <3> QED BY <2>7, <2>9, <3>1
  <2>11. ScPendRec(ScFreePend) /\ ScFreePend.circ = ScNone  BY DEF ScPendRec, ScFreePend
  <2>12. PICK f, g : f = ScCircOf(s.pend) /\ g = ScCircOf(pe)  OBVIOUS
  <2>13. DOMAIN f = ScPending /\ \A y \in ScPending : f[y] = s.pend[y].circ
    BY <2>9, <2>12 DEF ScCircOf
  <2>14. DOMAIN g = ScPending /\ \A y \in ScPending : g[y] = IF y = p THEN ScNone ELSE f[y]
    BY <2>10, <2>11, <2>12, <2>13 DEF ScCircOf
  <2>15. ScSingle(f) /\ f[p] = c /\ c # ScNone  BY <2>3, <2>4, <2>9, <2>12, <2>13
  <2>16. ScSingle(g) /\ ScHeld(g) \subseteq ScHeld(f) /\ c \notin ScHeld(g) /\ c \in ScHeld(f)
    BY <2>13, <2>14, <2>15 DEF ScSingle, ScHeld
  <2>17. ScPends(pe) /\ ScHeld(ScCircOf(pe)) \subseteq ScHeld(ScCircOf(s.pend))
    BY <2>9, <2>10, <2>11, <2>12, <2>16 DEF ScPends
  <2>18. ScOk(u) /\ ScIs(u, s.client, s.circ, s.cache, s.pool, pe, s.infl, s.work, s.res)
    BY <2>8, <2>17, ScOkPend
  <2>19. /\ u.client = s.client /\ u.circ = s.circ /\ u.cache = s.cache /\ u.pool = s.pool
         /\ u.pend = pe /\ u.res = s.res
    BY <2>18, ScIsFields
  <2>20. c \in ScCircs /\ u.circ[c].alive /\ ScUnownedIn(c, u)
    <3>1. /\ c \in ScCircs /\ s.circ[c].alive
          /\ c \notin ScHeld(s.pool) /\ c \notin ScHeld(ScCircOf(s.res))
          /\ \A x \in ToSet(s.cache) : x.circ # c
          /\ \A i \in ScSlots : s.client[i].circ # c
      BY <2>12, <2>15, <2>16 DEF ScOk, ScSoundIn, ScSound
    <3> QED BY <2>12, <2>16, <2>19, <3>1 DEF ScUnownedIn, ScUnowned
  <2>21. PICK v : v = [u EXCEPT !.cache = Append(u.cache, e)]  OBVIOUS
  <2>22. /\ ScOk(v) /\ e \in ToSet(v.cache)
         /\ ScIs(v, u.client, u.circ, Append(u.cache, e), u.pool, u.pend, u.infl, u.work, u.res)
    BY <2>3, <2>6, <2>18, <2>19, <2>20, <2>21, ScOkToCache
  <2>23. v.client = s.client  BY <2>19, <2>22, ScIsFields
  <2>24. PICK x : x = [i \in ScSlots |->
                          IF i \notin wait THEN v.client[i]
                          ELSE IF i \in Bad THEN ScFreeClient ELSE ScOnCircuit(v.client[i], r.circ)]
    OBVIOUS
  <2>25. PICK t : t = [v EXCEPT !.client = x]  OBVIOUS
  <2>26. served = t
    <3>1. served = [[[s EXCEPT !.pend[p] = ScFreePend]
                        EXCEPT !.cache = Append(@, [dest |-> r.dest, iso |-> r.iso, circ |-> r.circ])]
                        EXCEPT !.client = [i \in ScSlots |->
                                    IF i \notin wait THEN @[i]
                                    ELSE IF i \in Bad THEN ScFreeClient ELSE ScOnCircuit(@[i], r.circ)]]
      OBVIOUS
    <3>2. [s EXCEPT !.pend[p] = ScFreePend] = u  BY <2>7, <2>8
    <3>3. [u EXCEPT !.cache = Append(@, [dest |-> r.dest, iso |-> r.iso, circ |-> r.circ])] = v
      BY <2>4, <2>5, <2>21
    <3> HIDE DEF served
    <3> QED BY <2>24, <2>25, <3>1, <3>2, <3>3
  <2>27. ASSUME NEW i \in ScSlots
         PROVE  ScClientRec(x[i]) /\ (ScStays(x[i], v.client[i]) \/ ScComes(x[i], e))
    <3>1. ScClientRec(s.client[i]) /\ ScStays(s.client[i], s.client[i])
      BY DEF ScOk, ScClients, ScSoundIn, ScSound, ScStays
    <3>2. CASE i \notin wait
      <4>1. x[i] = v.client[i]  BY <2>24, <3>2
      <4> QED BY <2>23, <3>1, <4>1
    <3>3. CASE i \in wait /\ i \in Bad
      <4>1. x[i] = ScFreeClient  BY <2>24, <3>3
      <4> QED BY <4>1 DEF ScFreeClient, ScClientRec, ScStays
    <3>4. CASE i \in wait /\ i \notin Bad
      <4>1. x[i] = ScOnCircuit(s.client[i], c)  BY <2>4, <2>23, <2>24, <3>4
      <4>2. s.client[i].dest = d /\ s.client[i].iso = iso
        BY <2>4, <3>4 DEF ScWaitingAlike, ScWaiting
      <4>3. PICK st, ds, so, k, age : s.client[i] = ScClientIs(st, ds, so, k, age)
        BY <3>1, Zenon DEF ScClientRec, ScClientIs
      <4>4. ds = d /\ so = iso  BY <4>2, <4>3, ScClientFields
      <4>5. ScOnCircuit(s.client[i], c) = ScClientIs("connected", ds, so, c, 0)
        <5>1. ScOnCircuit(s.client[i], c)
                = [[[s.client[i] EXCEPT !.st = "connected"] EXCEPT !.circ = c] EXCEPT !.age = 0]
          BY DEF ScOnCircuit
        <5>2. [s.client[i] EXCEPT !.st = "connected"] = ScClientIs("connected", ds, so, k, age)
          BY <4>3, ScClientFields
        <5>3. [ScClientIs("connected", ds, so, k, age) EXCEPT !.circ = c]
                = ScClientIs("connected", ds, so, c, age)
          BY ScClientFields
        <5>4. [ScClientIs("connected", ds, so, c, age) EXCEPT !.age = 0]
                = ScClientIs("connected", ds, so, c, 0)
          BY ScClientFields
        <5> QED BY <5>1, <5>2, <5>3, <5>4
      <4>6. PICK q : q = ScClientIs("connected", ds, so, c, 0)  OBVIOUS
      <4>7. ScClientRec(q) /\ q.st = "connected" /\ q.dest = ds /\ q.iso = so /\ q.circ = c
        BY <4>6, ScClientFields
      <4> QED BY <2>6, <4>1, <4>4, <4>5, <4>6, <4>7 DEF ScComes, ScSits
    <3> QED BY <3>2, <3>3, <3>4
  <2>28. ScClients(x)  BY <2>24, <2>27 DEF ScClients
  <2>29. ScOk(t)  BY <2>22, <2>25, <2>27, <2>28, ScOkOpen
  <2> QED BY <2>1, <2>26, <2>29
<1> QED BY <1>2, <1>3

\* One turn of hs_connect_complete_cb.
LEMMA ScInstallOk ==
  ASSUME NEW s, ScOk(s), s.res # <<>>
  PROVE  ScOk(ScInstall(s, Head(s.res))) /\ ScInstall(s, Head(s.res)).res = Tail(s.res)
<1>1. PICK r : r = Head(s.res)  OBVIOUS
<1> DEFINE fly == {k \in ScInflight : s.infl[k] = r.dest}
           popped == [s EXCEPT !.res = Tail(@)]
           landed == IF fly = {} THEN popped
                     ELSE [popped EXCEPT !.infl[CHOOSE k \in fly : TRUE] = ScNone]
           free == {p \in ScPending : ~s.pend[p].active}
           entry == [active |-> TRUE, dest |-> r.dest, iso |-> r.iso, circ |-> r.circ, age |-> 0]
<1>2. ScInstall(s, r) =
         IF r.circ = ScNone THEN ScCloseAll(landed, ScWaiting(s, r.dest))
         ELSE IF free = {} THEN ScMark(landed, r.circ)
         ELSE [landed EXCEPT !.pend[CHOOSE p \in free : TRUE] = entry]
  BY Zenon DEF ScInstall
<1>3. ScSeq(s.res) /\ ScSingle(ScCircOf(s.res))  BY DEF ScOk, ScResults
<1>4. PICK x : x = Tail(s.res)  OBVIOUS
<1>5. 1 \in DOMAIN s.res /\ r = s.res[1] /\ ScPart(x, s.res, DOMAIN s.res \ {1})
  BY <1>1, <1>3, <1>4, ScTailPart
<1>6. ScSeq(x)  BY <1>5 DEF ScPart
<1>7. /\ ScSingle(ScCircOf(x)) /\ ScHeld(ScCircOf(x)) \subseteq ScHeld(ScCircOf(s.res))
      /\ r.circ \notin ScHeld(ScCircOf(x))
  BY <1>3, <1>5, ScPartKeeps
<1>8. popped = [s EXCEPT !.res = x]  BY <1>4
<1>9. PICK u : u = popped  OBVIOUS
<1>10. ScOk(u) /\ ScIs(u, s.client, s.circ, s.cache, s.pool, s.pend, s.infl, s.work, x)
  BY <1>6, <1>7, <1>8, <1>9, ScOkRes DEF ScResults
<1>11. /\ u.client = s.client /\ u.circ = s.circ /\ u.cache = s.cache /\ u.pool = s.pool
       /\ u.pend = s.pend /\ u.res = x
  BY <1>10, ScIsFields
<1>12. PICK v : v = landed  OBVIOUS
<1>13. /\ ScOk(v) /\ v.client = s.client /\ v.circ = s.circ /\ v.cache = s.cache
       /\ v.pool = s.pool /\ v.pend = s.pend /\ v.res = x
  <2>1. PICK y : y = [u.infl EXCEPT ![CHOOSE k \in fly : TRUE] = ScNone]  OBVIOUS
  <2>2. v = u \/ v = [u EXCEPT !.infl = y]  BY <1>9, <1>12, <2>1
  <2>3. PICK w : w = [u EXCEPT !.infl = y]  OBVIOUS
  <2>4. ScOk(w) /\ ScIs(w, u.client, u.circ, u.cache, u.pool, u.pend, y, u.work, u.res)
    BY <1>10, <2>3, ScOkOther
  <2>5. /\ w.client = s.client /\ w.circ = s.circ /\ w.cache = s.cache
        /\ w.pool = s.pool /\ w.pend = s.pend /\ w.res = x
    BY <1>11, <2>4, ScIsFields
  <2> QED BY <1>10, <1>11, <2>2, <2>3, <2>4, <2>5
<1> HIDE DEF popped, landed, fly
<1>14. CASE r.circ = ScNone
  <2>1. PICK W : W = ScWaiting(s, r.dest)  OBVIOUS
  <2>2. ScInstall(s, r) = ScCloseAll(v, W)  BY <1>2, <1>12, <1>14, <2>1
  <2>3. PICK y : y = [i \in ScSlots |-> IF i \in W THEN ScFreeClient ELSE v.client[i]]  OBVIOUS
  <2>4. ScOk(ScCloseAll(v, W)) /\ ScIs(ScCloseAll(v, W), y, v.circ, v.cache, v.pool, v.pend,
                                       v.infl, v.work, v.res)
    BY <1>13, <2>3, ScCloseAllOk
  <2>5. ScCloseAll(v, W).res = x  BY <1>13, <2>4, ScIsFields
  <2> QED BY <1>1, <1>4, <2>2, <2>4, <2>5
<1>15. CASE r.circ # ScNone /\ free = {}
  <2>1. PICK t : t = ScMarkAll(v, {r.circ})  OBVIOUS
  <2>2. ScInstall(s, r) = t  BY <1>2, <1>12, <1>15, <2>1 DEF ScMark
  <2>3. {r.circ} \cap ScHeld(ScCircOf(v.res)) = {}  BY <1>7, <1>13
  <2>4. ScOk(t) /\ ScIs(t, v.client, t.circ, v.cache, v.pool, v.pend, v.infl, v.work, v.res)
    BY <1>13, <2>1, <2>3, ScMarkAllOk
  <2>5. t.res = x  BY <1>13, <2>4, ScIsFields
  <2> QED BY <1>1, <1>4, <2>2, <2>4, <2>5
<1>16. CASE r.circ # ScNone /\ free # {}
  <2>1. PICK p : p = CHOOSE z \in free : TRUE  OBVIOUS
  <2>2. p \in ScPending  BY <1>16, <2>1
  <2>3. PICK c : c = r.circ  OBVIOUS
  <2>4. PICK q : q = entry  OBVIOUS
  <2>5. ScPendRec(q) /\ q.circ = c  BY <2>3, <2>4 DEF ScPendRec
  <2>6. PICK t : t = [v EXCEPT !.pend = [v.pend EXCEPT ![p] = q]]  OBVIOUS
  <2>7. ScInstall(s, r) = t
    <3>1. ScInstall(s, r) = [v EXCEPT !.pend[p] = q]  BY <1>2, <1>12, <1>16, <2>1, <2>4
    <3>2. [v EXCEPT !.pend[p] = q] = t  BY <2>6
    <3> QED BY <3>1, <3>2
  <2>8. c \in ScHeld(ScCircOf(s.res))  BY <1>5, <1>16, <2>3 DEF ScHeld, ScCircOf
  <2>9. /\ c \in ScCircs /\ s.circ[c].alive
        /\ c \notin ScHeld(s.pool) /\ c \notin ScHeld(ScCircOf(s.pend))
        /\ \A e \in ToSet(s.cache) : e.circ # c
        /\ \A i \in ScSlots : s.client[i].circ # c
    BY <1>16, <2>3, <2>8 DEF ScOk, ScSoundIn, ScSound
  <2>10. ScUnownedIn(c, v)  BY <1>7, <1>13, <2>3, <2>9 DEF ScUnownedIn, ScUnowned
  <2>11. ScOk(t) /\ ScIs(t, v.client, v.circ, v.cache, v.pool, [v.pend EXCEPT ![p] = q],
                         v.infl, v.work, v.res)
    BY <1>13, <2>2, <2>5, <2>6, <2>9, <2>10, ScOkToPend
  <2>12. t.res = x  BY <1>13, <2>11, ScIsFields
  <2> QED BY <1>1, <1>4, <2>7, <2>11, <2>12
<1> QED BY <1>14, <1>15, <1>16

\* One turn of the loop over the cache when a link is lost.
LEMMA ScCutOk ==
  ASSUME NEW q, ScCache(q), NEW k \in Nat, k < Len(q), NEW L
  PROVE  LET r == ScCut(q, k + 1, L) IN
         ScCache(r) /\ ToSet(r) \subseteq ToSet(q) /\ Len(r) >= k
<1>1. ScSeq(q) /\ Len(q) \in Nat /\ DOMAIN q = 1..Len(q)  BY ScSeqParts DEF ScCache
<1>2. PICK i \in DOMAIN q : i = k + 1  BY <1>1
<1>3. CASE q[i].circ \in L
  <2>1. PICK r : r = ScSwapOut(q, i)  OBVIOUS
  <2>2. ScPart(r, q, DOMAIN q \ {i}) /\ Len(r) = Len(q) - 1  BY <1>1, <2>1, ScSwapOutPart
  <2>3. Len(r) <= Len(q) /\ Len(r) >= k  BY <1>1, <2>2
  <2>4. ScCache(r) /\ ToSet(r) \subseteq ToSet(q)  BY <2>2, <2>3, ScCacheLess
  <2>5. ScCut(q, k + 1, L) = r  BY <1>2, <1>3, <2>1 DEF ScCut
  <2> QED BY <2>3, <2>4, <2>5
<1>4. CASE q[i].circ \notin L
  <2>1. ScCut(q, k + 1, L) = q  BY <1>2, <1>4 DEF ScCut
  <2> QED BY <1>1, <2>1
<1> QED BY <1>3, <1>4

\* A turn of each of the loops of the module: w says which.
ScTurn(w, x, s, e) ==
    CASE w = "assign" -> ScAssignOne(s, e, x)
      [] w = "free" -> ScFree(s, e)
      [] w = "expire" -> ScExpire(s, e)
      [] w = "install" -> ScInstall(s, Head(s.res))
      [] w = "cut" -> ScCut(s, e, x)

\* f holds the states that n turns pass through.
ScRuns(f, n, w, x, s, q) ==
    f = [k \in 0..n |-> IF k = 0 THEN s ELSE ScTurn(w, x, f[k - 1], q[k])]

\* They exist.
LEMMA ScTurns ==
  ASSUME NEW n \in Nat, NEW w, NEW x, NEW s, NEW q
  PROVE  \E f : ScRuns(f, n, w, x, s, q)
<1> DEFINE E(j) == \E f : f = [k \in 0..j |-> IF k = 0 THEN s ELSE ScTurn(w, x, f[k - 1], q[k])]
           P == {j \in Nat : E(j)}
<1>1. 0 \in P
  <2>1. [k \in 0..0 |-> s]
          = [k \in 0..0 |-> IF k = 0 THEN s ELSE ScTurn(w, x, [i \in 0..0 |-> s][k - 1], q[k])]
    OBVIOUS
  <2> QED BY <2>1
<1>2. ASSUME NEW j \in 0..(n - 1), j \in P PROVE j + 1 \in P
  <2>1. PICK f : f = [k \in 0..j |-> IF k = 0 THEN s ELSE ScTurn(w, x, f[k - 1], q[k])]  BY <1>2
  <2> DEFINE h == [k \in 0..(j + 1) |-> IF k = j + 1 THEN ScTurn(w, x, f[j], q[j + 1]) ELSE f[k]]
  <2>2. \A k \in 0..(j + 1) : h[k] = IF k = 0 THEN s ELSE ScTurn(w, x, h[k - 1], q[k])  BY <2>1
  <2>3. h = [k \in 0..(j + 1) |-> IF k = 0 THEN s ELSE ScTurn(w, x, h[k - 1], q[k])]  BY <2>2
  <2> HIDE DEF h
  <2>4. E(j + 1)  BY <2>3
  <2>5. j + 1 \in Nat  OBVIOUS
  <2> HIDE DEF E
  <2> QED BY <2>4, <2>5
<1> HIDE DEF P
<1>3. n \in P  BY <1>1, <1>2, UpTo DEF P
<1> QED BY <1>3 DEF P, ScRuns

\* The loops that have a parameter, as ScForEach defines them.
ScAssignRun(s, q, ok) ==
    CHOOSE f : f = [k \in 0..Len(q) |-> IF k = 0 THEN s ELSE ScAssignOne(f[k - 1], q[k], ok)]
ScCutRun(s, q, L) ==
    CHOOSE f : f = [k \in 0..Len(q) |-> IF k = 0 THEN s ELSE ScCut(f[k - 1], q[k], L)]

\* Each loop passes through the states its turns make: serving waiting clients,
LEMMA ScAssignTurns ==
  ASSUME NEW s, NEW q, NEW ok, Len(q) \in Nat
  PROVE  ScRuns(ScAssignRun(s, q, ok), Len(q), "assign", ok, s, q)
<1> DEFINE g == ScAssignRun(s, q, ok)
<1>2. PICK f : ScRuns(f, Len(q), "assign", ok, s, q)  BY ScTurns
<1>3. \A k \in 0..Len(q) : ScTurn("assign", ok, f[k - 1], q[k]) = ScAssignOne(f[k - 1], q[k], ok)
  BY DEF ScTurn
<1>4. f = [k \in 0..Len(q) |-> IF k = 0 THEN s ELSE ScAssignOne(f[k - 1], q[k], ok)]
  BY <1>2, <1>3 DEF ScRuns
<1>5. g = [k \in 0..Len(q) |-> IF k = 0 THEN s ELSE ScAssignOne(g[k - 1], q[k], ok)]
  BY <1>4, Zenon DEF ScAssignRun
<1> HIDE DEF g
<1>6. \A k \in 0..Len(q) : ScTurn("assign", ok, g[k - 1], q[k]) = ScAssignOne(g[k - 1], q[k], ok)
  BY DEF ScTurn
<1>7. ScRuns(g, Len(q), "assign", ok, s, q)  BY <1>5, <1>6 DEF ScRuns
<1> QED BY <1>7 DEF g

\* Freeing marked circuits,
LEMMA ScFreeTurns ==
  ASSUME NEW s, NEW q, Len(q) \in Nat
  PROVE  \E f : /\ f = [k \in 0..Len(q) |-> IF k = 0 THEN s ELSE ScFree(f[k - 1], q[k])]
               /\ ScForEach(ScFree, s, q) = f[Len(q)]
<1> DEFINE g == CHOOSE f : f = [k \in 0..Len(q) |-> IF k = 0 THEN s ELSE ScFree(f[k - 1], q[k])]
<1>1. ScForEach(ScFree, s, q) = g[Len(q)]  BY Zenon DEF ScForEach
<1>2. PICK f : ScRuns(f, Len(q), "free", s, s, q)  BY ScTurns
<1>3. \A k \in 0..Len(q) : ScTurn("free", s, f[k - 1], q[k]) = ScFree(f[k - 1], q[k])
  BY DEF ScTurn
<1>4. f = [k \in 0..Len(q) |-> IF k = 0 THEN s ELSE ScFree(f[k - 1], q[k])]
  BY <1>2, <1>3 DEF ScRuns
<1>5. g = [k \in 0..Len(q) |-> IF k = 0 THEN s ELSE ScFree(g[k - 1], q[k])]  BY <1>4, Zenon
<1> HIDE DEF g
<1> QED BY <1>1, <1>5

\* looking at the clients' timeouts,
LEMMA ScExpireTurns ==
  ASSUME NEW s, NEW q, Len(q) \in Nat
  PROVE  \E f : /\ f = [k \in 0..Len(q) |-> IF k = 0 THEN s ELSE ScExpire(f[k - 1], q[k])]
               /\ ScForEach(ScExpire, s, q) = f[Len(q)]
<1> DEFINE g == CHOOSE f : f = [k \in 0..Len(q) |-> IF k = 0 THEN s ELSE ScExpire(f[k - 1], q[k])]
<1>1. ScForEach(ScExpire, s, q) = g[Len(q)]  BY Zenon DEF ScForEach
<1>2. PICK f : ScRuns(f, Len(q), "expire", s, s, q)  BY ScTurns
<1>3. \A k \in 0..Len(q) : ScTurn("expire", s, f[k - 1], q[k]) = ScExpire(f[k - 1], q[k])
  BY DEF ScTurn
<1>4. f = [k \in 0..Len(q) |-> IF k = 0 THEN s ELSE ScExpire(f[k - 1], q[k])]
  BY <1>2, <1>3 DEF ScRuns
<1>5. g = [k \in 0..Len(q) |-> IF k = 0 THEN s ELSE ScExpire(g[k - 1], q[k])]  BY <1>4, Zenon
<1> HIDE DEF g
<1> QED BY <1>1, <1>5

\* taking results,
LEMMA ScInstallTurns ==
  ASSUME NEW s, NEW q, Len(q) \in Nat
  PROVE  \E f : /\ f = [k \in 0..Len(q) |-> IF k = 0 THEN s ELSE ScInstall(f[k - 1], Head(f[k - 1].res))]
               /\ ScForEach(LAMBDA t, r : ScInstall(t, Head(t.res)), s, q) = f[Len(q)]
<1> DEFINE g == CHOOSE f : f = [k \in 0..Len(q) |-> IF k = 0 THEN s ELSE ScInstall(f[k - 1], Head(f[k - 1].res))]
<1>1. ScForEach(LAMBDA t, r : ScInstall(t, Head(t.res)), s, q) = g[Len(q)]
  BY Zenon DEF ScForEach
<1>2. PICK f : ScRuns(f, Len(q), "install", s, s, q)  BY ScTurns
<1>3. \A k \in 0..Len(q) : ScTurn("install", s, f[k - 1], q[k]) = ScInstall(f[k - 1], Head(f[k - 1].res))
  BY DEF ScTurn
<1>4. f = [k \in 0..Len(q) |-> IF k = 0 THEN s ELSE ScInstall(f[k - 1], Head(f[k - 1].res))]
  BY <1>2, <1>3 DEF ScRuns
<1>5. g = [k \in 0..Len(q) |-> IF k = 0 THEN s ELSE ScInstall(g[k - 1], Head(g[k - 1].res))]
  BY <1>4, Zenon
<1> HIDE DEF g
<1> QED BY <1>1, <1>5

\* cutting the cache.
LEMMA ScCutTurns ==
  ASSUME NEW s, NEW q, NEW L, Len(q) \in Nat
  PROVE  ScRuns(ScCutRun(s, q, L), Len(q), "cut", L, s, q)
<1> DEFINE g == ScCutRun(s, q, L)
<1>2. PICK f : ScRuns(f, Len(q), "cut", L, s, q)  BY ScTurns
<1>3. \A k \in 0..Len(q) : ScTurn("cut", L, f[k - 1], q[k]) = ScCut(f[k - 1], q[k], L)
  BY DEF ScTurn
<1>4. f = [k \in 0..Len(q) |-> IF k = 0 THEN s ELSE ScCut(f[k - 1], q[k], L)]
  BY <1>2, <1>3 DEF ScRuns
<1>5. g = [k \in 0..Len(q) |-> IF k = 0 THEN s ELSE ScCut(g[k - 1], q[k], L)]
  BY <1>4, Zenon DEF ScCutRun
<1> HIDE DEF g
<1>6. \A k \in 0..Len(q) : ScTurn("cut", L, g[k - 1], q[k]) = ScCut(g[k - 1], q[k], L)
  BY DEF ScTurn
<1>7. ScRuns(g, Len(q), "cut", L, s, q)  BY <1>5, <1>6 DEF ScRuns
<1> QED BY <1>7 DEF g

\* A finite set in some order.
LEMMA ScOrder ==
  ASSUME NEW S, IsFiniteSet(S)
  PROVE  /\ Len(SetToSeq(S)) \in Nat
         /\ \A k \in 1..Len(SetToSeq(S)) : SetToSeq(S)[k] \in S
<1>1. Cardinality(S) \in Nat /\ ExistsBijection(1..Cardinality(S), S)  BY FS_CardinalityType
<1> DEFINE n == Cardinality(S)
<1>2. PICK f \in [1..n -> S] : IsInjective(f)  BY <1>1 DEF ExistsBijection, Bijection, Injection
<1>3. SetToSeq(S) \in [1..n -> S]  BY <1>2, Zenon DEF SetToSeq
<1> HIDE DEF n
<1>4. n \in Nat  BY <1>1 DEF n
<1>5. PICK q : q = SetToSeq(S)  OBVIOUS
<1>6. q \in Seq(S) /\ Len(q) = n  BY <1>3, <1>4, <1>5
<1> QED BY <1>3, <1>4, <1>5, <1>6

\* The loop of assign_circuits_to_waiting_clients.
LEMMA ScAssignLoop ==
  ASSUME NEW s, ScOk(s), NEW ok \in BOOLEAN, NEW S \in SUBSET ScSlots
  PROVE  ScOk(ScAssignRun(s, SetToSeq(S), ok)[Len(SetToSeq(S))])
<1>0. PICK q : q = SetToSeq(S)  OBVIOUS
<1>1. Len(q) \in Nat /\ \A k \in 1..Len(q) : q[k] \in ScSlots
  BY <1>0, ScOrder, ScAssumption, FS_Subset
<1> DEFINE f == ScAssignRun(s, q, ok)
<1>20. ScRuns(f, Len(q), "assign", ok, s, q)  BY <1>1, ScAssignTurns
<1> HIDE DEF f
<1>2. f = [k \in 0..Len(q) |-> IF k = 0 THEN s ELSE ScTurn("assign", ok, f[k - 1], q[k])]
  BY <1>20 DEF ScRuns
<1>21. 0 \in 0..Len(q)  BY <1>1
<1>22. f[0] = s  BY <1>2, <1>21, Zenon
<1> DEFINE P == {k \in Nat : ScOk(f[k])}
<1>3. 0 \in P  BY <1>22
<1>4. ASSUME NEW k \in 0..(Len(q) - 1), k \in P PROVE k + 1 \in P
  <2>1. k + 1 \in 0..Len(q) /\ k + 1 \in 1..Len(q) /\ k + 1 # 0 /\ (k + 1) - 1 = k  BY <1>1
  <2>2. f[k + 1] = ScAssignOne(f[k], q[k + 1], ok)  BY <1>2, <2>1 DEF ScTurn
  <2>3. ScOk(f[k]) /\ q[k + 1] \in ScSlots  BY <1>1, <1>4, <2>1
  <2> QED BY <2>1, <2>2, <2>3, ScAssignOneOk
<1>5. Len(q) \in P
  <2> HIDE DEF P
  <2> QED BY <1>1, <1>3, <1>4, UpTo DEF P
<1>6. ScOk(f[Len(q)])  BY <1>5
<1> QED BY <1>0, <1>6 DEF f

\* The loop of moor_socks5_check_stream_timeouts.
LEMMA ScExpireLoop ==
  ASSUME NEW s, ScOk(s)
  PROVE  ScOk(ScForEach(ScExpire, s, SetToSeq(ScSlots)))
<1>0. PICK q : q = SetToSeq(ScSlots)  OBVIOUS
<1>1. Len(q) \in Nat /\ \A k \in 1..Len(q) : q[k] \in ScSlots  BY <1>0, ScOrder, ScAssumption
<1>2. PICK f : /\ f = [k \in 0..Len(q) |-> IF k = 0 THEN s ELSE ScExpire(f[k - 1], q[k])]
               /\ ScForEach(ScExpire, s, q) = f[Len(q)]
  BY <1>1, ScExpireTurns
<1> DEFINE P == {k \in Nat : ScOk(f[k])}
<1>3. 0 \in P  BY <1>1, <1>2
<1>4. ASSUME NEW k \in 0..(Len(q) - 1), k \in P PROVE k + 1 \in P
  <2>1. k + 1 \in 0..Len(q) /\ k + 1 \in 1..Len(q) /\ k + 1 # 0 /\ (k + 1) - 1 = k  BY <1>1
  <2>2. f[k + 1] = ScExpire(f[k], q[k + 1])  BY <1>2, <2>1
  <2>3. ScOk(f[k]) /\ q[k + 1] \in ScSlots  BY <1>1, <1>4, <2>1
  <2> QED BY <2>1, <2>2, <2>3, ScExpireOk
<1>5. Len(q) \in P
  <2> HIDE DEF P
  <2> QED BY <1>1, <1>3, <1>4, UpTo DEF P
<1>6. ScOk(f[Len(q)])  BY <1>5
<1> QED BY <1>0, <1>2, <1>6

\* The loop of moor_circuit_close_all_marked: a result names no marked circuit.
LEMMA ScFreeLoop ==
  ASSUME NEW s, ScOk(s), NEW S \in SUBSET ScCircs, S \cap ScHeld(ScCircOf(s.res)) = {}
  PROVE  ScOk(ScForEach(ScFree, s, SetToSeq(S)))
<1>0. PICK q : q = SetToSeq(S)  OBVIOUS
<1>1. Len(q) \in Nat /\ \A k \in 1..Len(q) : q[k] \in S
  BY <1>0, ScOrder, ScAssumption, FS_Subset
<1>2. PICK f : /\ f = [k \in 0..Len(q) |-> IF k = 0 THEN s ELSE ScFree(f[k - 1], q[k])]
               /\ ScForEach(ScFree, s, q) = f[Len(q)]
  BY <1>1, ScFreeTurns
<1> DEFINE P == {k \in Nat : ScOk(f[k]) /\ f[k].res = s.res}
<1>3. 0 \in P  BY <1>1, <1>2
<1>4. ASSUME NEW k \in 0..(Len(q) - 1), k \in P PROVE k + 1 \in P
  <2>1. k + 1 \in 0..Len(q) /\ k + 1 \in 1..Len(q) /\ k + 1 # 0 /\ (k + 1) - 1 = k  BY <1>1
  <2>2. f[k + 1] = ScFree(f[k], q[k + 1])  BY <1>2, <2>1
  <2>3. ScOk(f[k]) /\ f[k].res = s.res /\ q[k + 1] \in ScCircs  BY <1>1, <1>4, <2>1
  <2>4. q[k + 1] \notin ScHeld(ScCircOf(f[k].res))  BY <1>1, <2>1, <2>3
  <2>5. ScOk(f[k + 1]) /\ f[k + 1].res = s.res  BY <2>2, <2>3, <2>4, ScFreeOk
  <2> QED BY <2>1, <2>5
<1>5. Len(q) \in P
  <2> HIDE DEF P
  <2> QED BY <1>1, <1>3, <1>4, UpTo DEF P
<1>6. ScOk(f[Len(q)])  BY <1>5
<1> QED BY <1>0, <1>2, <1>6

\* The loop of hs_connect_complete_cb takes one result in each turn.
LEMMA ScInstallLoop ==
  ASSUME NEW s, ScOk(s)
  PROVE  ScOk(ScForEach(LAMBDA t, r : ScInstall(t, Head(t.res)), s, s.res))
<1>0. PICK q : q = s.res  OBVIOUS
<1>1. Len(q) \in Nat  BY <1>0, ScSeqParts DEF ScOk, ScResults
<1>2. PICK f : /\ f = [k \in 0..Len(q) |-> IF k = 0 THEN s ELSE ScInstall(f[k - 1], Head(f[k - 1].res))]
               /\ ScForEach(LAMBDA t, r : ScInstall(t, Head(t.res)), s, q) = f[Len(q)]
  BY <1>1, ScInstallTurns
<1> DEFINE P == {k \in Nat : ScOk(f[k]) /\ Len(f[k].res) = Len(q) - k}
<1>3. 0 \in P
  <2>0. 0 \in 0..Len(q)  BY <1>1
  <2>1. f[0] = s  BY <1>2, <2>0, Zenon
  <2>2. Len(f[0].res) = Len(q) - 0  BY <1>0, <1>1, <2>1
  <2> QED BY <2>1, <2>2
<1>4. ASSUME NEW k \in 0..(Len(q) - 1), k \in P PROVE k + 1 \in P
  <2>1. k + 1 \in 0..Len(q) /\ k + 1 # 0 /\ (k + 1) - 1 = k  BY <1>1
  <2>2. f[k + 1] = ScInstall(f[k], Head(f[k].res))  BY <1>2, <2>1
  <2>3. ScOk(f[k]) /\ Len(f[k].res) = Len(q) - k  BY <1>4
  <2>4. ScSeq(f[k].res)  BY <2>3 DEF ScOk, ScResults
  <2>5. f[k].res # <<>>  BY <1>1, <2>3
  <2>6. ScOk(f[k + 1]) /\ f[k + 1].res = Tail(f[k].res)  BY <2>2, <2>3, <2>5, ScInstallOk
  <2>7. Len(f[k + 1].res) = Len(f[k].res) - 1  BY <2>4, <2>5, <2>6, ScTailPart
  <2>8. Len(f[k + 1].res) = Len(q) - (k + 1)  BY <1>1, <2>3, <2>7
  <2>9. k + 1 \in Nat  BY <2>1
  <2> QED BY <2>6, <2>8, <2>9
<1>5. Len(q) \in P
  <2> HIDE DEF P
  <2> QED BY <1>1, <1>3, <1>4, UpTo DEF P
<1>6. ScOk(f[Len(q)])  BY <1>5
<1> QED BY <1>0, <1>2, <1>6

\* The loop of circuit_read_cb over the cache, from its end: what is left is
\* long enough for the places still to be looked at.
LEMMA ScCutLoop ==
  ASSUME NEW q, ScCache(q), NEW L, NEW down, down = [k \in DOMAIN q |-> Len(q) + 1 - k],
         NEW r, r = ScCutRun(q, down, L)[Len(down)]
  PROVE  ScCache(r) /\ ToSet(r) \subseteq ToSet(q)
<1>0. Len(q) \in Nat /\ DOMAIN q = 1..Len(q)  BY ScSeqParts DEF ScCache
<1>1. PICK n : n = Len(q)  OBVIOUS
<1>2. n \in Nat /\ Len(down) = n /\ \A k \in 1..n : down[k] = n + 1 - k
  <2>1. down = [k \in 1..n |-> n + 1 - k] /\ n \in Nat  BY <1>0, <1>1
  <2>2. down = [k \in 1..n |-> down[k]]  BY <2>1
  <2>3. Len(down) = n  BY <2>1, <2>2, ScSeqMade
  <2>4. \A k \in 1..n : down[k] = n + 1 - k  BY <2>1
  <2> QED BY <2>1, <2>3, <2>4
<1> DEFINE f == ScCutRun(q, down, L)
<1>30. ScRuns(f, Len(down), "cut", L, q, down)  BY <1>2, ScCutTurns
<1> HIDE DEF f
<1>3. f = [k \in 0..Len(down) |-> IF k = 0 THEN q ELSE ScTurn("cut", L, f[k - 1], down[k])]
  BY <1>30 DEF ScRuns
<1> DEFINE P == {k \in Nat : /\ ScCache(f[k]) /\ ToSet(f[k]) \subseteq ToSet(q)
                             /\ k <= n => Len(f[k]) >= n - k}
<1>4. 0 \in P
  <2>1. 0 \in 0..Len(down)  BY <1>2
  <2>2. f[0] = q  BY <1>3, <2>1, Zenon
  <2>3. Len(f[0]) >= n - 0  BY <1>1, <1>2, <2>2
  <2> QED BY <2>2, <2>3
<1>5. ASSUME NEW k \in 0..(n - 1), k \in P PROVE k + 1 \in P
  <2>1. /\ k + 1 \in 0..n /\ k + 1 # 0 /\ (k + 1) - 1 = k /\ k + 1 \in 1..n
        /\ n + 1 - (k + 1) = (n - (k + 1)) + 1 /\ n - (k + 1) \in Nat
    BY <1>2
  <2>2. f[k + 1] = ScCut(f[k], (n - (k + 1)) + 1, L)
    <3>1. k + 1 \in 0..Len(down) /\ down[k + 1] = (n - (k + 1)) + 1  BY <1>2, <2>1
    <3>2. f[k + 1] = ScTurn("cut", L, f[(k + 1) - 1], down[k + 1])  BY <1>3, <2>1, <3>1, Zenon
    <3>3. f[k + 1] = ScTurn("cut", L, f[k], (n - (k + 1)) + 1)  BY <2>1, <3>1, <3>2
    <3> QED BY <3>3 DEF ScTurn
  <2>3. ScCache(f[k]) /\ ToSet(f[k]) \subseteq ToSet(q) /\ Len(f[k]) >= n - k /\ Len(f[k]) \in Nat
    BY <1>5, <1>2, ScSeqParts DEF ScCache
  <2>4. n - (k + 1) < Len(f[k])  BY <1>2, <2>3
  <2>5. /\ ScCache(f[k + 1]) /\ ToSet(f[k + 1]) \subseteq ToSet(f[k])
        /\ Len(f[k + 1]) >= n - (k + 1)
    BY <2>1, <2>2, <2>3, <2>4, ScCutOk
  <2> QED BY <2>1, <2>3, <2>5
<1>6. n \in P
  <2> HIDE DEF P
  <2> QED BY <1>2, <1>4, <1>5, UpTo DEF P
<1>7. ScCache(f[n]) /\ ToSet(f[n]) \subseteq ToSet(q)  BY <1>6
<1> QED BY <1>2, <1>7 DEF f

\* A client before its request is on no circuit.
LEMMA ScNotSeated ==
  ASSUME NEW s, ScOk(s), NEW i \in ScSlots, ~ScSits(s.client[i])
  PROVE  s.client[i].circ = ScNone
BY DEF ScOk, ScSoundIn, ScSound

\* Setting the state of a client, or the state and the isolation key.
ScSetSt(s, i, st) == [s EXCEPT !.client[i].st = st]
ScSetIso(s, i, st, iso) == [s EXCEPT !.client[i].st = st, !.client[i].iso = iso]

\* Both put a record.
LEMMA ScSetIs ==
  ASSUME NEW s, ScOk(s), NEW i \in ScSlots, NEW st, NEW iso
  PROVE  LET r == s.client[i] IN
         /\ ScSetSt(s, i, st)
              = ScPut(s, i, ScClientIs(st, r.dest, r.iso, r.circ, r.age))
         /\ ScSetIso(s, i, st, iso)
              = ScPut(s, i, ScClientIs(st, r.dest, iso, r.circ, r.age))
<1>0. ScRec(s) /\ ScArray(s.client) /\ ScClientRec(s.client[i])  BY DEF ScOk, ScClients, ScArray
<1>1. PICK s0, d, iso0, c, age : s.client[i] = ScClientIs(s0, d, iso0, c, age)
  BY <1>0, Zenon DEF ScClientRec, ScClientIs
<1>2. PICK r1 : r1 = ScClientIs(st, d, iso0, c, age)  OBVIOUS
<1>3. PICK r2 : r2 = ScClientIs(st, d, iso, c, age)  OBVIOUS
<1>4. [s.client[i] EXCEPT !.st = st] = r1 /\ [r1 EXCEPT !.iso = iso] = r2
  BY <1>1, <1>2, <1>3, ScClientFields
<1>5. PICK t : t = ScPut(s, i, r1)  OBVIOUS
<1>6. t.client[i] = r1 /\ ScPut(t, i, r2) = ScPut(s, i, r2)  BY <1>0, <1>5, ScPutIs
<1>7. ScSetSt(s, i, st) = t  BY <1>4, <1>5 DEF ScPut, ScSetSt
<1>8. [t EXCEPT !.client[i].iso = iso] = ScPut(t, i, r2)  BY <1>4, <1>6 DEF ScPut
<1>9. ScSetIso(s, i, st, iso) = [ScSetSt(s, i, st) EXCEPT !.client[i].iso = iso]
  BY DEF ScSetSt, ScSetIso
<1>10. /\ s.client[i].dest = d /\ s.client[i].iso = iso0 /\ s.client[i].circ = c
       /\ s.client[i].age = age
  BY <1>1, ScClientFields
<1> QED BY <1>2, <1>3, <1>5, <1>6, <1>7, <1>8, <1>9, <1>10

\* moor_socks5_accept, after hs_check_timeouts.
LEMMA ScAcceptOk ==
  ASSUME ScOk(sc), NEW i \in ScSlots, ScAccept(i)
  PROVE  ScOk(sc')
<1>1. PICK s : s = ScTimedOut(sc)  OBVIOUS
<1>2. PICK r : r = [ScFreeClient EXCEPT !.st = "greeting"]  OBVIOUS
<1>3. ScOk(s)  BY <1>1, ScPendFailAllOk DEF ScTimedOut
<1>4. sc' = ScPut(s, i, r)  BY <1>1, <1>2 DEF ScAccept, ScPut
<1>5. ScClientRec(r) /\ r.circ = ScNone  BY <1>2 DEF ScFreeClient, ScClientRec
<1> QED BY <1>3, <1>4, <1>5, ScPutOk DEF ScStays

\* The handshake.
LEMMA ScGreetingOk ==
  ASSUME ScOk(sc), NEW i \in ScSlots, NEW u \in BOOLEAN, ScGreeting(i, u) \/ ScAuth(i)
  PROVE  ScOk(sc')
<1>1. sc.client[i].circ = ScNone  BY ScNotSeated DEF ScGreeting, ScAuth, ScSits
<1>2. \E st, iso : sc' = ScSetSt(sc, i, st) \/ sc' = ScSetIso(sc, i, st, iso)
  BY DEF ScGreeting, ScAuth, ScSetSt, ScSetIso
<1>3. PICK st, iso : sc' = ScPut(sc, i, ScClientIs(st, sc.client[i].dest, iso, sc.client[i].circ, sc.client[i].age))
  BY <1>2, ScSetIs
<1>4. PICK r : r = ScClientIs(st, sc.client[i].dest, iso, sc.client[i].circ, sc.client[i].age)
  OBVIOUS
<1>5. ScClientRec(r) /\ r.circ = ScNone  BY <1>1, <1>4, ScClientFields
<1> QED BY <1>3, <1>4, <1>5, ScPutOk DEF ScStays

\* A stream that is answered.
LEMMA ScStreamsOk ==
  ASSUME ScOk(sc), NEW i \in ScSlots, ScStreams(i)
  PROVE  ScOk(sc')
<1>1. PICK q : q = sc.client[i]  OBVIOUS
<1>2. PICK r : r = ScClientIs("streaming", q.dest, q.iso, q.circ, q.age)  OBVIOUS
<1>3. sc' = ScPut(sc, i, r)
  <2>1. sc' = ScSetSt(sc, i, "streaming")  BY DEF ScStreams, ScSetSt
  <2> QED BY <1>1, <1>2, <2>1, ScSetIs
<1>4. ScClientRec(r) /\ r.st = "streaming" /\ r.dest = q.dest /\ r.iso = q.iso /\ r.circ = q.circ
  BY <1>2, ScClientFields
<1>5. ScStays(r, sc.client[i])  BY <1>1, <1>4 DEF ScStays, ScSits
<1> QED BY <1>3, <1>4, <1>5, ScPutOk

\* moor_socks5_handle_request.
LEMMA ScRequestOk ==
  ASSUME ScOk(sc), NEW i \in ScSlots, NEW d, ScRequest(i, d)
  PROVE  ScOk(sc')
<1>1. sc.client[i].circ = ScNone  BY ScNotSeated DEF ScRequest, ScSits
<1>2. sc' \in ScHandleRequest(sc, i, d, TRUE)  BY DEF ScRequest
<1> QED BY <1>1, <1>2, ScHandleRequestOk

\* A redirected connection.
LEMMA ScTransparentOk ==
  ASSUME ScOk(sc), NEW i \in ScSlots, NEW d, ScTransparent(i, d)
  PROVE  ScOk(sc')
<1>1. PICK r : r = [ScFreeClient EXCEPT !.st = "request", !.iso = "trans",
                                        !.dest = d, !.age = ScForever]
  OBVIOUS
<1>2. PICK s : s = ScPut(sc, i, r)  OBVIOUS
<1>3. ScClientRec(r) /\ r.circ = ScNone /\ r.st = "request" /\ r.iso = "trans"
  BY <1>1 DEF ScFreeClient, ScClientRec
<1>4. ScOk(s)  BY <1>2, <1>3, ScPutOk DEF ScStays
<1>5. s.client[i] = r
  <2>1. ScRec(sc) /\ ScArray(sc.client)  BY DEF ScOk, ScClients, ScArray
  <2> QED BY <1>2, <2>1, ScPutIs
<1>6. sc' \in ScHandleRequest(s, i, d, FALSE)  BY <1>1, <1>2 DEF ScTransparent, ScPut
<1> QED BY <1>3, <1>4, <1>5, <1>6, ScHandleRequestOk

\* A circuit that was freed, or not built yet, is in no table.
LEMMA ScDeadUnowned ==
  ASSUME NEW s, ScOk(s), NEW c \in ScCircs, ~s.circ[c].alive
  PROVE  ScUnownedIn(c, s)
BY ScAssumption DEF ScOk, ScSoundIn, ScSound, ScUnownedIn, ScUnowned

\* prebuilt_build_complete.
LEMMA ScBuiltOk ==
  ASSUME ScOk(sc), NEW c \in ScCircs, NEW ok \in BOOLEAN, ScBuilt(c, ok)
  PROVE  ScOk(sc')
<1>1. PICK r : r = [ScFreeCirc EXCEPT !.alive = TRUE, !.up = TRUE]  OBVIOUS
<1>2. PICK u : u = [sc EXCEPT !.circ = [sc.circ EXCEPT ![c] = r]]  OBVIOUS
<1>3. ScCircRec(r) /\ r.alive  BY <1>1 DEF ScCircRec, ScFreeCirc
<1>4. ScUnownedIn(c, sc)  BY ScDeadUnowned DEF ScBuilt
<1>5. /\ ScOk(u) /\ ScUnownedIn(c, u) /\ u.circ[c] = r
      /\ ScIs(u, sc.client, [sc.circ EXCEPT ![c] = r], sc.cache, sc.pool, sc.pend, sc.infl, sc.work, sc.res)
  BY <1>2, <1>3, <1>4, ScOkRenewed
<1>6. u.pool = sc.pool  BY <1>5, ScIsFields
<1>7. PICK s : s = [u EXCEPT !.pool = Append(u.pool, c)]  OBVIOUS
<1>8. ScOk(s)  BY <1>3, <1>5, <1>7, ScOkToPool
<1>9. s = [sc EXCEPT !.circ[c] = [ScFreeCirc EXCEPT !.alive = TRUE, !.up = TRUE],
                     !.pool = Append(@, c)]
  <2>1. [sc EXCEPT !.circ[c] = r, !.pool = Append(sc.pool, c)]
          = [[sc EXCEPT !.circ = [sc.circ EXCEPT ![c] = r]] EXCEPT !.pool = Append(sc.pool, c)]
    OBVIOUS
  <2> QED BY <1>1, <1>2, <1>6, <1>7, <2>1
<1> DEFINE wait == {i \in ScSlots : s.client[i].st = "building" /\ s.client[i].dest \in ScDomains}
<1>10. sc' = ScForEach(LAMBDA t, i : ScAssignOne(t, i, ok), s, SetToSeq(wait))
  BY <1>9, Zenon DEF ScBuilt
<1>11. wait \in SUBSET ScSlots  OBVIOUS
<1> HIDE DEF wait
<1>12. sc' = ScAssignRun(s, SetToSeq(wait), ok)[Len(SetToSeq(wait))]
  BY <1>10, Zenon DEF ScForEach, ScAssignRun
<1> QED BY <1>8, <1>11, <1>12, ScAssignLoop

\* A worker ends.
LEMMA ScWorkerDoneOk ==
  ASSUME ScOk(sc), NEW k \in DOMAIN sc.work, NEW c \in ScCircs \cup {ScNone},
         ScWorkerDone(k, c)
  PROVE  ScOk(sc')
<1>1. PICK w : w = sc.work[k]  OBVIOUS
<1>2. PICK wo : wo = RemoveAt(sc.work, k)  OBVIOUS
<1>3. PICK s : s = [sc EXCEPT !.work = wo]  OBVIOUS
<1>4. ScOk(s) /\ ScIs(s, sc.client, sc.circ, sc.cache, sc.pool, sc.pend, sc.infl, wo, sc.res)
  BY <1>3, ScOkOther
<1>5. PICK r : r = [dest |-> w.dest, iso |-> w.iso, circ |-> c]  OBVIOUS
<1>6. PICK n : n = [alive |-> TRUE, marked |-> FALSE, up |-> TRUE, rp |-> TRUE]  OBVIOUS
<1>7. sc' = IF Len(sc.res) >= ScQueueMax THEN s
            ELSE IF c = ScNone THEN [s EXCEPT !.res = Append(@, r)]
            ELSE [s EXCEPT !.circ[c] = n, !.res = Append(@, r)]
  BY <1>1, <1>2, <1>3, <1>5, <1>6, Zenon DEF ScWorkerDone
<1>8. r.circ = c  BY <1>5
<1>9. ScOk([s EXCEPT !.res = Append(s.res, r)]) \/ c # ScNone  BY <1>4, <1>8, ScOkToRes
<1>10. ASSUME c # ScNone PROVE ScOk([s EXCEPT !.circ[c] = n, !.res = Append(s.res, r)])
  <2>1. c \in ScCircs /\ ~s.circ[c].alive
    <3>1. s.circ = sc.circ  BY <1>4, ScIsFields
    <3> QED BY <1>10, <3>1 DEF ScWorkerDone
  <2>2. ScUnownedIn(c, s)  BY <1>4, <2>1, ScDeadUnowned
  <2>3. PICK u : u = [s EXCEPT !.circ = [s.circ EXCEPT ![c] = n]]  OBVIOUS
  <2>4. ScCircRec(n) /\ n.alive /\ n.rp /\ ~n.marked  BY <1>6 DEF ScCircRec
  <2>5. /\ ScOk(u) /\ ScUnownedIn(c, u) /\ u.circ[c] = n
        /\ ScIs(u, s.client, [s.circ EXCEPT ![c] = n], s.cache, s.pool, s.pend, s.infl, s.work, s.res)
    BY <1>4, <2>1, <2>2, <2>3, <2>4, ScOkRenewed
  <2>6. u.res = s.res  BY <2>5, ScIsFields
  <2>7. ScOk([u EXCEPT !.res = Append(u.res, r)])  BY <1>8, <2>1, <2>4, <2>5, ScOkToRes
  <2>8. [s EXCEPT !.circ[c] = n, !.res = Append(s.res, r)]
          = [[s EXCEPT !.circ = [s.circ EXCEPT ![c] = n]] EXCEPT !.res = Append(s.res, r)]
    OBVIOUS
  <2> QED BY <2>3, <2>6, <2>7, <2>8
<1> QED BY <1>4, <1>7, <1>9, <1>10

\* CELL_DESTROY for a cached or a pooled circuit.
LEMMA ScDestroyedOk ==
  ASSUME ScOk(sc), NEW c \in ScCircs, ScDestroyed(c)
  PROVE  ScOk(sc')
<1> DEFINE hit == ScEntriesOf(sc, c)
           pooled == {i \in DOMAIN sc.pool : sc.pool[i] = c}
           users == {i \in ScSlots : sc.client[i].circ = c}
<1>1. \/ /\ hit /= {}
         /\ sc' = ScMark([ScCloseAll(sc, users) EXCEPT
                            !.cache = ScSwapOut(@, CHOOSE i \in hit : TRUE)], c)
      \/ /\ pooled /= {}
         /\ sc' = ScMark([sc EXCEPT !.pool = ScSwapOut(@, CHOOSE i \in pooled : TRUE)], c)
  BY Zenon DEF ScDestroyed
<1> HIDE DEF users
<1>3. ASSUME hit # {},
             sc' = ScMark([ScCloseAll(sc, users) EXCEPT
                             !.cache = ScSwapOut(@, CHOOSE i \in hit : TRUE)], c)
      PROVE  ScOk(sc')
  <2>1. PICK i : i = CHOOSE j \in hit : TRUE  OBVIOUS
  <2>2. i \in DOMAIN sc.cache /\ sc.cache[i].circ = c  BY <1>3, <2>1 DEF ScEntriesOf
  <2>3. {c} \cap ScHeld(ScCircOf(sc.res)) = {}
    <3>1. sc.cache[i] \in ToSet(sc.cache)  BY <2>2 DEF ToSet
    <3> QED BY <2>2, <3>1, ScCachedNoResult
  <2>4. PICK cl : cl = [j \in ScSlots |-> IF j \in users THEN ScFreeClient ELSE sc.client[j]]
    OBVIOUS
  <2>5. PICK u : u = ScCloseAll(sc, users)  OBVIOUS
  <2>6. ScOk(u) /\ ScIs(u, cl, sc.circ, sc.cache, sc.pool, sc.pend, sc.infl, sc.work, sc.res)
    BY <2>4, <2>5, ScCloseAllOk
  <2>7. u.cache = sc.cache /\ u.res = sc.res  BY <2>6, ScIsFields
  <2>8. PICK x : x = ScSwapOut(sc.cache, i)  OBVIOUS
  <2>9. ScCache(x) /\ ToSet(x) \subseteq ToSet(u.cache)
    <3>1. ScCache(sc.cache)  BY DEF ScOk
    <3>2. ScPart(x, sc.cache, DOMAIN sc.cache \ {i}) /\ Len(x) = Len(sc.cache) - 1
          /\ Len(sc.cache) \in Nat
      BY <2>2, <2>8, <3>1, ScSwapOutPart, ScSeqParts DEF ScCache
    <3>3. Len(x) <= Len(sc.cache)  BY <3>2
    <3> QED BY <2>7, <3>1, <3>2, <3>3, ScCacheLess
  <2>10. PICK v : v = [u EXCEPT !.cache = x]  OBVIOUS
  <2>11. ScOk(v) /\ ScIs(v, u.client, u.circ, x, u.pool, u.pend, u.infl, u.work, u.res)
    BY <2>6, <2>9, <2>10, ScOkCache
  <2>12. v.res = sc.res  BY <2>7, <2>11, ScIsFields
  <2>13. sc' = ScMarkAll(v, {c})  BY <1>3, <2>1, <2>5, <2>7, <2>8, <2>10 DEF ScMark
  <2> QED BY <2>3, <2>11, <2>12, <2>13, ScMarkAllOk
<1>4. ASSUME pooled # {},
             sc' = ScMark([sc EXCEPT !.pool = ScSwapOut(@, CHOOSE i \in pooled : TRUE)], c)
      PROVE  ScOk(sc')
  <2>1. PICK i : i = CHOOSE j \in pooled : TRUE  OBVIOUS
  <2>2. i \in DOMAIN sc.pool /\ sc.pool[i] = c  BY <1>4, <2>1
  <2>3. {c} \cap ScHeld(ScCircOf(sc.res)) = {}
    <3>1. c \in ScHeld(sc.pool)  BY <2>2, ScAssumption DEF ScHeld
    <3> QED BY <3>1 DEF ScOk, ScSoundIn, ScSound
  <2>4. PICK x : x = ScSwapOut(sc.pool, i)  OBVIOUS
  <2>5. ScPool(x) /\ ScHeld(x) \subseteq ScHeld(sc.pool)
    <3>1. ScSeq(sc.pool) /\ ScSingle(sc.pool)  BY DEF ScOk, ScPool
    <3>2. ScPart(x, sc.pool, DOMAIN sc.pool \ {i})  BY <2>2, <2>4, <3>1, ScSwapOutPart
    <3>3. ScSingle(x) /\ ScHeld(x) \subseteq ScHeld(sc.pool)  BY <3>1, <3>2, ScPartKeeps
    <3> QED BY <3>2, <3>3 DEF ScPool, ScPart
  <2>6. PICK v : v = [sc EXCEPT !.pool = x]  OBVIOUS
  <2>7. ScOk(v) /\ ScIs(v, sc.client, sc.circ, sc.cache, x, sc.pend, sc.infl, sc.work, sc.res)
    BY <2>5, <2>6, ScOkPool
  <2>8. v.res = sc.res  BY <2>7, ScIsFields
  <2>9. sc' = ScMarkAll(v, {c})  BY <1>4, <2>1, <2>4, <2>6 DEF ScMark
  <2> QED BY <2>3, <2>7, <2>8, <2>9, ScMarkAllOk
<1> QED BY <1>1, <1>3, <1>4

\* circuit_read_cb finds a dead link; no worker's result is on it.
LEMMA ScLinkLostOk ==
  ASSUME ScOk(sc), NEW L \in SUBSET ScCircs, L \cap ScHeld(ScCircOf(sc.res)) = {},
         ScLinkLost(L)
  PROVE  ScOk(sc')
<1> DEFINE users == {i \in ScSlots : sc.client[i].circ \in L}
           down == [k \in DOMAIN sc.cache |-> Len(sc.cache) + 1 - k]
<1>1. PICK u : u = ScCloseAll(sc, users)  OBVIOUS
<1>2. PICK cl : cl = [i \in ScSlots |-> IF i \in users THEN ScFreeClient ELSE sc.client[i]]
  OBVIOUS
<1>3. ScOk(u) /\ ScIs(u, cl, sc.circ, sc.cache, sc.pool, sc.pend, sc.infl, sc.work, sc.res)
  BY <1>1, <1>2, ScCloseAllOk
<1>4. u.circ = sc.circ /\ u.cache = sc.cache /\ u.res = sc.res  BY <1>3, ScIsFields
<1>5. sc' = [u EXCEPT !.cache = ScForEach(LAMBDA q, i : ScCut(q, i, L), @, down),
                      !.circ = [c \in ScCircs |-> IF c \in L
                          THEN [@[c] EXCEPT !.up = FALSE, !.marked = TRUE] ELSE @[c]]]
  BY <1>1, Zenon DEF ScLinkLost
<1> HIDE DEF users
<1>6. PICK x : x = ScForEach(LAMBDA q, i : ScCut(q, i, L), u.cache, down)  OBVIOUS
<1>7. ScCache(x) /\ ToSet(x) \subseteq ToSet(u.cache)
  <2>1. PICK q, dn : q = u.cache /\ dn = down  OBVIOUS
  <2>2. x = ScCutRun(q, dn, L)[Len(dn)]  BY <1>6, <2>1, Zenon DEF ScForEach, ScCutRun
  <2>3. dn = [k \in DOMAIN q |-> Len(q) + 1 - k] /\ ScCache(q)  BY <1>3, <1>4, <2>1 DEF ScOk
  <2> QED BY <2>1, <2>2, <2>3, ScCutLoop
<1> HIDE DEF down
<1>8. PICK y : y = [c \in ScCircs |-> IF c \in L
                       THEN [sc.circ[c] EXCEPT !.up = FALSE, !.marked = TRUE] ELSE sc.circ[c]]
  OBVIOUS
<1>9. PICK v : v = [u EXCEPT !.cache = x]  OBVIOUS
<1>10. ScOk(v) /\ ScIs(v, u.client, u.circ, x, u.pool, u.pend, u.infl, u.work, u.res)
  BY <1>3, <1>7, <1>9, ScOkCache
<1>11. v.circ = sc.circ /\ v.res = sc.res  BY <1>4, <1>10, ScIsFields
<1>12. sc' = [v EXCEPT !.circ = y]
  <2>1. sc' = [u EXCEPT !.cache = x, !.circ = y]  BY <1>4, <1>5, <1>6, <1>8
  <2>2. [u EXCEPT !.cache = x, !.circ = y] = [[u EXCEPT !.cache = x] EXCEPT !.circ = y]  OBVIOUS
  <2> QED BY <1>9, <2>1, <2>2
<1>13. ScCircuits(sc.circ)  BY DEF ScOk
<1>14. \A c \in ScCircs : /\ ScCircRec(y[c]) /\ y[c].alive = sc.circ[c].alive
                          /\ c \notin L => y[c] = sc.circ[c]
  <2>1. ASSUME NEW c \in ScCircs PROVE /\ ScCircRec(y[c]) /\ y[c].alive = sc.circ[c].alive
                                       /\ c \notin L => y[c] = sc.circ[c]
    <3>1. ScCircRec(sc.circ[c])  BY <1>13 DEF ScCircuits
    <3>2. y[c] = IF c \in L THEN [sc.circ[c] EXCEPT !.up = FALSE, !.marked = TRUE] ELSE sc.circ[c]
      BY <1>8
    <3>3. PICK b : b = sc.circ[c]  OBVIOUS
    <3>4. PICK a, m, p, r : b = [alive |-> a, marked |-> m, up |-> p, rp |-> r]
      BY <3>1, <3>3, Zenon DEF ScCircRec
    <3>5. PICK z : z = [b EXCEPT !.up = FALSE, !.marked = TRUE]  OBVIOUS
    <3>6. z = [alive |-> a, marked |-> TRUE, up |-> FALSE, rp |-> r]  BY <3>4, <3>5
    <3>7. ScCircRec(z) /\ z.alive = b.alive  BY <3>4, <3>6 DEF ScCircRec
    <3> QED BY <3>1, <3>2, <3>3, <3>5, <3>7
  <2> QED BY <2>1
<1>15. ScCircuits(y)
  <2>1. y = [c \in ScCircs |-> y[c]]  BY <1>8
  <2> QED BY <1>14, <2>1 DEF ScCircuits
<1>16. \A c \in ScHeld(ScCircOf(v.res)) : y[c].rp /\ ~y[c].marked
  <2>1. \A c \in ScHeld(ScCircOf(sc.res)) : c \in ScCircs /\ sc.circ[c].rp /\ ~sc.circ[c].marked
    BY DEF ScOk, ScSoundIn, ScSound
  <2> QED BY <1>11, <1>14, <2>1
<1>17. \A c \in ScCircs : v.circ[c].alive => y[c].alive  BY <1>11, <1>14
<1> QED BY <1>10, <1>12, <1>15, <1>16, <1>17, ScOkCirc

\* The circuits of the guard's link are not a worker's, and a rendezvous
\* circuit is looked at when it is cached.
LEMMA ScLinksOk ==
  ASSUME ScOk(sc)
  PROVE  /\ ScGuardLinks \in SUBSET ScCircs /\ ScGuardLinks \cap ScHeld(ScCircOf(sc.res)) = {}
         /\ \A c \in ScCircs : /\ ScServiceLinks(c) \in SUBSET ScCircs
                               /\ ScServiceLinks(c) \cap ScHeld(ScCircOf(sc.res)) = {}
<1>1. \A c \in ScHeld(ScCircOf(sc.res)) : c \in ScCircs /\ sc.circ[c].rp
  BY DEF ScOk, ScSoundIn, ScSound
<1>2. ScGuardLinks \in SUBSET ScCircs /\ ScGuardLinks \cap ScHeld(ScCircOf(sc.res)) = {}
  BY <1>1 DEF ScGuardLinks
<1>3. ASSUME NEW c \in ScCircs
      PROVE  /\ ScServiceLinks(c) \in SUBSET ScCircs
             /\ ScServiceLinks(c) \cap ScHeld(ScCircOf(sc.res)) = {}
  <2>1. CASE ScEntriesOf(sc, c) = {}
    BY <2>1 DEF ScServiceLinks
  <2>2. CASE ScEntriesOf(sc, c) # {}
    <3>1. PICK i \in DOMAIN sc.cache : sc.cache[i].circ = c  BY <2>2 DEF ScEntriesOf
    <3>2. sc.cache[i] \in ToSet(sc.cache)  BY <3>1 DEF ToSet
    <3>3. {c} \cap ScHeld(ScCircOf(sc.res)) = {}  BY <3>1, <3>2, ScCachedNoResult
    <3> QED BY <3>3 DEF ScServiceLinks
  <2> QED BY <2>1, <2>2
<1> QED BY <1>2, <1>3

\* moor_socks5_clear_circuit_cache.
LEMMA ScNewnymOk ==
  ASSUME ScOk(sc), ScNewnym
  PROVE  ScOk(sc')
<1> DEFINE users == {i \in ScSlots : sc.client[i].circ /= ScNone}
           C == {e.circ : e \in ToSet(sc.cache)}
<1>1. PICK u : u = ScCloseAll(sc, users)  OBVIOUS
<1>2. PICK cl : cl = [i \in ScSlots |-> IF i \in users THEN ScFreeClient ELSE sc.client[i]]
  OBVIOUS
<1>3. ScOk(u) /\ ScIs(u, cl, sc.circ, sc.cache, sc.pool, sc.pend, sc.infl, sc.work, sc.res)
  BY <1>1, <1>2, ScCloseAllOk
<1>4. u.res = sc.res  BY <1>3, ScIsFields
<1>5. sc' = [ScMarkAll(u, C) EXCEPT !.cache = <<>>]  BY <1>1, Zenon DEF ScNewnym
<1>6. C \cap ScHeld(ScCircOf(u.res)) = {}  BY <1>4, ScCachedNoResult
<1> HIDE DEF C
<1>7. PICK v : v = ScMarkAll(u, C)  OBVIOUS
<1>8. ScOk(v)  BY <1>3, <1>6, <1>7, ScMarkAllOk
<1>9. ScCache(<<>>) /\ ToSet(<<>>) = {}
  <2>1. ToSet(<<>>) = {}  BY DEF ToSet
  <2>2. ScSeq(<<>>) /\ Len(<<>>) = 0  BY DEF ScSeq
  <2>3. DOMAIN ScCircOf(<<>>) = {}  BY DEF ScCircOf
  <2> QED BY <2>1, <2>2, <2>3, ScAssumption DEF ScCache, ScSingle
<1> QED BY <1>5, <1>7, <1>8, <1>9, ScOkCache

\* moor_circuit_close_all_marked: no result names a marked circuit.
LEMMA ScPostloopOk ==
  ASSUME ScOk(sc), ScPostloop
  PROVE  ScOk(sc')
<1> DEFINE marked == {c \in ScCircs : sc.circ[c].marked}
<1>1. sc' = ScForEach(ScFree, sc, SetToSeq(marked))  BY Zenon DEF ScPostloop
<1>2. marked \in SUBSET ScCircs /\ marked \cap ScHeld(ScCircOf(sc.res)) = {}
  BY DEF ScOk, ScSoundIn, ScSound
<1> HIDE DEF marked
<1> QED BY <1>1, <1>2, ScFreeLoop

\* Time passes.
LEMMA ScTickOk ==
  ASSUME ScOk(sc), ScTick
  PROVE  ScOk(sc')
<1>1. PICK x : x = [i \in ScSlots |-> IF sc.client[i].st \in {"free", "streaming"} THEN sc.client[i]
                        ELSE [sc.client[i] EXCEPT !.age = ScOlder(@, ScConnectTimeout)]]
  OBVIOUS
<1>2. PICK y : y = [p \in ScPending |-> IF ~sc.pend[p].active THEN sc.pend[p]
                        ELSE [sc.pend[p] EXCEPT !.age = ScOlder(@, ScHsTimeout)]]
  OBVIOUS
<1>3. PICK u : u = [sc EXCEPT !.client = x]  OBVIOUS
<1>4. sc' = [u EXCEPT !.pend = y]
  <2>1. sc' = [sc EXCEPT !.client = x, !.pend = y]  BY <1>1, <1>2 DEF ScTick
  <2>2. [sc EXCEPT !.client = x, !.pend = y] = [[sc EXCEPT !.client = x] EXCEPT !.pend = y]
    OBVIOUS
  <2> QED BY <1>3, <2>1, <2>2
<1>5. ASSUME NEW i \in ScSlots PROVE ScClientRec(x[i]) /\ ScStays(x[i], sc.client[i])
  <2>0. ScClientRec(sc.client[i]) /\ (sc.client[i].circ = ScNone \/ ScSits(sc.client[i]))
    BY DEF ScOk, ScClients, ScSoundIn, ScSound
  <2>1. PICK st, d, iso, c, age : sc.client[i] = ScClientIs(st, d, iso, c, age)
    BY <2>0, Zenon DEF ScClientRec, ScClientIs
  <2>2. PICK n : n = ScOlder(sc.client[i].age, ScConnectTimeout)  OBVIOUS
  <2>3. x[i] = sc.client[i] \/ x[i] = [sc.client[i] EXCEPT !.age = n]  BY <1>1, <2>2
  <2>4. [sc.client[i] EXCEPT !.age = n] = ScClientIs(st, d, iso, c, n)  BY <2>1, ScClientFields
  <2>5. PICK r : r = ScClientIs(st, d, iso, c, n)  OBVIOUS
  <2>6. ScClientRec(r) /\ r.st = st /\ r.dest = d /\ r.iso = iso /\ r.circ = c
    BY <2>5, ScClientFields
  <2>7. sc.client[i].st = st /\ sc.client[i].dest = d /\ sc.client[i].iso = iso /\ sc.client[i].circ = c
    BY <2>1, ScClientFields
  <2>8. ScStays(r, sc.client[i])  BY <2>0, <2>6, <2>7 DEF ScStays, ScSits
  <2>9. ScStays(sc.client[i], sc.client[i])  BY <2>0 DEF ScStays
  <2> QED BY <2>0, <2>3, <2>4, <2>5, <2>6, <2>8, <2>9
<1>6. ScClients(x)
  <2>1. x = [i \in ScSlots |-> x[i]]  BY <1>1
  <2> QED BY <1>5, <2>1 DEF ScClients
<1>7. ScOk(u) /\ ScIs(u, x, sc.circ, sc.cache, sc.pool, sc.pend, sc.infl, sc.work, sc.res)
  BY <1>3, <1>5, <1>6, ScOkClients
<1>8. u.pend = sc.pend  BY <1>7, ScIsFields
<1>9. /\ sc.pend = [p \in ScPending |-> sc.pend[p]] /\ \A p \in ScPending : ScPendRec(sc.pend[p])
      /\ ScSingle(ScCircOf(sc.pend))
  BY DEF ScOk, ScPends
<1>10. ASSUME NEW p \in ScPending PROVE ScPendRec(y[p]) /\ y[p].circ = sc.pend[p].circ
  <2>1. PICK n : n = ScOlder(sc.pend[p].age, ScHsTimeout)  OBVIOUS
  <2>2. y[p] = sc.pend[p] \/ y[p] = [sc.pend[p] EXCEPT !.age = n]  BY <1>2, <2>1
  <2>0. ScPendRec(sc.pend[p])  BY <1>9
  <2>3. PICK a, d, iso, c, g : sc.pend[p] = [active |-> a, dest |-> d, iso |-> iso, circ |-> c, age |-> g]
    BY <2>0, Zenon DEF ScPendRec
  <2>4. PICK r : r = [sc.pend[p] EXCEPT !.age = n]  OBVIOUS
  <2>5. r = [active |-> a, dest |-> d, iso |-> iso, circ |-> c, age |-> n]  BY <2>3, <2>4
  <2>6. ScPendRec(r) /\ r.circ = sc.pend[p].circ  BY <2>3, <2>5 DEF ScPendRec
  <2> QED BY <1>9, <2>2, <2>4, <2>6
<1>11. y = [p \in ScPending |-> y[p]]  BY <1>2
<1>12. ScCircOf(y) = ScCircOf(sc.pend)
  <2>1. DOMAIN y = ScPending /\ DOMAIN sc.pend = ScPending  BY <1>9, <1>11
  <2> QED BY <1>10, <2>1 DEF ScCircOf
<1>13. ScPends(y)  BY <1>9, <1>10, <1>11, <1>12 DEF ScPends
<1> QED BY <1>4, <1>7, <1>8, <1>12, <1>13, ScOkPend

\* At the start.
LEMMA ScInitOk ==
  ASSUME ScInit
  PROVE  ScOk(sc)
<1>1. PICK cl, ci, pe, fl : /\ cl = [i \in ScSlots |-> ScFreeClient] /\ ci = [c \in ScCircs |-> ScFreeCirc]
                            /\ pe = [p \in ScPending |-> ScFreePend] /\ fl = [k \in ScInflight |-> ScNone]
  OBVIOUS
<1>2. ScIs(sc, cl, ci, <<>>, <<>>, pe, fl, <<>>, <<>>)  BY <1>1 DEF ScInit, ScIs
<1>3. /\ ScRec(sc) /\ sc.client = cl /\ sc.circ = ci /\ sc.cache = <<>> /\ sc.pool = <<>>
      /\ sc.pend = pe /\ sc.res = <<>>
  BY <1>2, ScIsFields
<1>4. ScClients(cl) /\ \A i \in ScSlots : cl[i].circ = ScNone
  BY <1>1 DEF ScClients, ScClientRec, ScFreeClient
<1>5. ScCircuits(ci)  BY <1>1 DEF ScCircuits, ScCircRec, ScFreeCirc
<1>6. /\ DOMAIN ScCircOf(pe) = ScPending /\ \A p \in ScPending : ScCircOf(pe)[p] = ScNone
  BY <1>1 DEF ScCircOf, ScFreePend
<1>7. ScPends(pe) /\ ScHeld(ScCircOf(pe)) = {}
  <2>1. ScSingle(ScCircOf(pe)) /\ ScHeld(ScCircOf(pe)) = {}  BY <1>6 DEF ScSingle, ScHeld
  <2>2. pe = [p \in ScPending |-> pe[p]] /\ \A p \in ScPending : ScPendRec(pe[p])
    BY <1>1 DEF ScPendRec, ScFreePend
  <2> QED BY <2>1, <2>2 DEF ScPends
<1>8. ToSet(<<>>) = {} /\ ScSeq(<<>>) /\ Len(<<>>) = 0 /\ DOMAIN ScCircOf(<<>>) = {}
  BY DEF ToSet, ScSeq, ScCircOf
<1>9. ScHeld(<<>>) = {} /\ ScHeld(ScCircOf(<<>>)) = {}  BY <1>8 DEF ScHeld
<1>10. ScSingle(<<>>) /\ ScSingle(ScCircOf(<<>>))  BY <1>8 DEF ScSingle
<1>11. ScCache(<<>>) /\ ScPool(<<>>) /\ ScResults(<<>>)
  BY <1>8, <1>10, ScAssumption DEF ScCache, ScPool, ScResults
<1>12. ScSound(cl, ci, {}, {}, {}, {})  BY <1>4 DEF ScSound
<1> QED BY <1>3, <1>4, <1>5, <1>7, <1>8, <1>9, <1>11, <1>12 DEF ScOk, ScSoundIn

\* Every step keeps the invariant.
LEMMA ScNextOk ==
  ASSUME ScOk(sc), [ScNext]_scVars
  PROVE  ScOk(sc')
<1>1. ASSUME NEW i \in ScSlots,
             \/ ScAccept(i) \/ ScAuth(i) \/ ScRejected(i) \/ ScStreams(i) \/ ScGone(i)
             \/ \E u \in BOOLEAN : ScGreeting(i, u)
             \/ \E d \in ScDomains \cup ScServices : ScRequest(i, d) \/ ScTransparent(i, d)
      PROVE  ScOk(sc')
  <2>1. CASE ScRejected(i) \/ ScGone(i)
    <3>1. sc' = ScClose(sc, i)  BY <2>1 DEF ScRejected, ScGone
    <3> QED BY <3>1, ScCloseOk
  <2>2. CASE ScAuth(i) \/ \E u \in BOOLEAN : ScGreeting(i, u)
    BY <2>2, ScGreetingOk
  <2>3. CASE ScAccept(i) \/ ScStreams(i)
    BY <2>3, ScAcceptOk, ScStreamsOk
  <2>4. CASE \E d \in ScDomains \cup ScServices : ScRequest(i, d) \/ ScTransparent(i, d)
    BY <2>4, ScRequestOk, ScTransparentOk
  <2> QED BY <1>1, <2>1, <2>2, <2>3, <2>4
<1>2. ASSUME NEW c \in ScCircs,
             (\E ok \in BOOLEAN : ScBuilt(c, ok)) \/ ScDestroyed(c) \/ ScLinkLost(ScServiceLinks(c))
      PROVE  ScOk(sc')
  <2>1. CASE \E ok \in BOOLEAN : ScBuilt(c, ok)
    BY <2>1, ScBuiltOk
  <2>2. CASE ScDestroyed(c)
    BY <2>2, ScDestroyedOk
  <2>3. CASE ScLinkLost(ScServiceLinks(c))
    BY <2>3, ScLinksOk, ScLinkLostOk
  <2> QED BY <1>2, <2>1, <2>2, <2>3
<1>3. CASE ScLinkLost(ScGuardLinks)
  BY <1>3, ScLinksOk, ScLinkLostOk
<1>4. ASSUME NEW k \in DOMAIN sc.work, NEW c \in ScCircs \cup {ScNone}, ScWorkerDone(k, c)
      PROVE  ScOk(sc')
  BY <1>4, ScWorkerDoneOk
<1>5. CASE ScConnectComplete
  <2>1. sc' = ScForEach(LAMBDA t, r : ScInstall(t, Head(t.res)), sc, sc.res)
    BY <1>5, Zenon DEF ScConnectComplete
  <2> QED BY <2>1, ScInstallLoop
<1>6. ASSUME NEW p \in ScPending, (\E B \in SUBSET ScSlots : ScRendezvous(p, B)) \/ ScRendezvousFails(p)
      PROVE  ScOk(sc')
  <2>1. (\E B : sc' = ScPendComplete(sc, p, B)) \/ sc' = ScPendFailAll(sc, {p})
    BY <1>6 DEF ScRendezvous, ScRendezvousFails, ScPendFail
  <2> QED BY <2>1, ScPendCompleteOk, ScPendFailAllOk
<1>7. CASE ScNewnym \/ ScPostloop \/ ScTick
  BY <1>7, ScNewnymOk, ScPostloopOk, ScTickOk
<1>8. CASE ScStreamTimeouts
  <2>1. sc' = ScForEach(ScExpire, sc, SetToSeq(ScSlots))  BY <1>8, Zenon DEF ScStreamTimeouts
  <2> QED BY <2>1, ScExpireLoop
<1>9. CASE ScHsTimeouts
  BY <1>9, ScPendFailAllOk DEF ScHsTimeouts, ScTimedOut
<1>10. CASE UNCHANGED scVars
  BY <1>10 DEF scVars
<1> QED BY <1>1, <1>2, <1>3, <1>4, <1>5, <1>6, <1>7, <1>8, <1>9, <1>10 DEF ScNext

\* A set without two elements.
LEMMA ScFewCount ==
  ASSUME NEW S, \A x, y \in S : x = y
  PROVE  Cardinality(S) = IF S = {} THEN 0 ELSE 1
<1>1. CASE S = {}
  BY <1>1, FS_EmptySet
<1>2. CASE S # {}
  <2>1. PICK x : S = {x}  BY <1>2
  <2> QED BY <1>2, <2>1, FS_Singleton
<1> QED BY <1>1, <1>2

\* The invariant gives the promise about pointers,
LEMMA ScOkPointers ==
  ASSUME ScOk(sc)
  PROVE  ScPointersLive
<1>1. ASSUME NEW c \in ScCircs
      PROVE  Cardinality(ScEntriesOf(sc, c))
                + Cardinality({i \in DOMAIN sc.pool : sc.pool[i] = c})
                + Cardinality({p \in ScPending : sc.pend[p].circ = c})
                + Cardinality({i \in DOMAIN sc.res : sc.res[i].circ = c})
             <= IF sc.circ[c].alive THEN 1 ELSE 0
  <2> DEFINE E1 == ScEntriesOf(sc, c)
             E2 == {i \in DOMAIN sc.pool : sc.pool[i] = c}
             E3 == {p \in ScPending : sc.pend[p].circ = c}
             E4 == {i \in DOMAIN sc.res : sc.res[i].circ = c}
  <2>0. /\ ScSingle(ScCircOf(sc.cache)) /\ ScSingle(sc.pool) /\ ScSingle(ScCircOf(sc.pend))
        /\ ScSingle(ScCircOf(sc.res)) /\ c # ScNone /\ DOMAIN sc.pend = ScPending
    BY ScAssumption DEF ScOk, ScCache, ScPool, ScPends, ScResults
  <2>1. \A x, y \in E1 : x = y  BY <2>0 DEF ScEntriesOf, ScSingle, ScCircOf
  <2>2. \A x, y \in E2 : x = y  BY <2>0 DEF ScSingle
  <2>3. \A x, y \in E3 : x = y  BY <2>0 DEF ScSingle, ScCircOf
  <2>4. \A x, y \in E4 : x = y  BY <2>0 DEF ScSingle, ScCircOf
  <2>5. E1 # {} => \E e \in ToSet(sc.cache) : e.circ = c  BY DEF ScEntriesOf, ToSet
  <2>6. E2 # {} => c \in ScHeld(sc.pool)  BY <2>0 DEF ScHeld
  <2>7. E3 # {} => c \in ScHeld(ScCircOf(sc.pend))  BY <2>0 DEF ScHeld, ScCircOf
  <2>8. E4 # {} => c \in ScHeld(ScCircOf(sc.res))  BY <2>0 DEF ScHeld, ScCircOf
  <2> HIDE DEF E1, E2, E3, E4
  <2>9. /\ E1 # {} => E2 = {} /\ E3 = {} /\ E4 = {}
        /\ E2 # {} => E3 = {} /\ E4 = {}
        /\ E3 # {} => E4 = {}
        /\ ~sc.circ[c].alive => E1 = {} /\ E2 = {} /\ E3 = {} /\ E4 = {}
    BY <2>5, <2>6, <2>7, <2>8 DEF ScOk, ScSoundIn, ScSound
  <2>10. /\ Cardinality(E1) = IF E1 = {} THEN 0 ELSE 1
         /\ Cardinality(E2) = IF E2 = {} THEN 0 ELSE 1
         /\ Cardinality(E3) = IF E3 = {} THEN 0 ELSE 1
         /\ Cardinality(E4) = IF E4 = {} THEN 0 ELSE 1
    BY <2>1, <2>2, <2>3, <2>4, ScFewCount
  <2>11. PICK a, b, d, e : /\ a = Cardinality(E1) /\ b = Cardinality(E2)
                           /\ d = Cardinality(E3) /\ e = Cardinality(E4)
    OBVIOUS
  <2>12. a + b + d + e <= IF sc.circ[c].alive THEN 1 ELSE 0  BY <2>9, <2>10, <2>11
  <2> QED BY <2>11, <2>12 DEF E1, E2, E3, E4
<1>2. \A i \in ScSlots : sc.client[i].circ # ScNone => sc.circ[sc.client[i].circ].alive
  BY DEF ScOk, ScSoundIn, ScSound
<1>3. Len(sc.cache) <= ScCacheMax  BY DEF ScOk, ScCache
<1> QED BY <1>1, <1>2, <1>3 DEF ScPointersLive

\* and the one about isolation.
LEMMA ScOkIsolated ==
  ASSUME ScOk(sc)
  PROVE  ScIsolated
<1>1. \A x \in DOMAIN sc.cache : sc.cache[x] \in ToSet(sc.cache)  BY DEF ToSet
<1>2. ASSUME NEW i \in ScSlots, sc.client[i].circ # ScNone,
             NEW x \in ScEntriesOf(sc, sc.client[i].circ)
      PROVE  sc.cache[x].dest = sc.client[i].dest /\ sc.cache[x].iso = sc.client[i].iso
  <2>1. sc.cache[x] \in ToSet(sc.cache) /\ sc.cache[x].circ = sc.client[i].circ
    BY <1>1 DEF ScEntriesOf
  <2> QED BY <1>2, <2>1 DEF ScOk, ScSoundIn, ScSound
<1>3. ASSUME NEW i \in ScSlots, sc.client[i].circ # ScNone, NEW j \in ScSlots,
             sc.client[j].circ = sc.client[i].circ
      PROVE  sc.client[j].dest = sc.client[i].dest /\ sc.client[j].iso = sc.client[i].iso
  BY <1>3 DEF ScOk, ScSoundIn, ScSound
<1> QED BY <1>2, <1>3 DEF ScIsolated

\* No table of socks5.c holds a pointer to a circuit that was freed, and no
\* two places own one circuit, whatever links are lost, workers answer late,
\* caches fill up or circuits are destroyed: moor_socks5_invalidate_circuit,
\* the swaps of the cache and prebuilt_pop leave nothing behind.
THEOREM ProxyPointersLive == ScSpec => []ScPointersLive
<1>1. ScInit => ScOk(sc)  BY ScInitOk
<1>2. ScOk(sc) /\ [ScNext]_scVars => ScOk(sc)'  BY ScNextOk
<1>3. ScOk(sc) => ScPointersLive  BY ScOkPointers
<1> QED BY <1>1, <1>2, <1>3, PTL DEF ScSpec

\* Streams of different destinations or isolation keys never share a
\* circuit, whichever path gave it to them: the cache, the pool, the pending
\* rendezvous or a client redirected by moor_socks5_handle_transparent.
THEOREM ProxyIsolated == ScSpec => []ScIsolated
<1>1. ScInit => ScOk(sc)  BY ScInitOk
<1>2. ScOk(sc) /\ [ScNext]_scVars => ScOk(sc)'  BY ScNextOk
<1>3. ScOk(sc) => ScIsolated  BY ScOkIsolated
<1> QED BY <1>1, <1>2, <1>3, PTL DEF ScSpec

=============================================================================
