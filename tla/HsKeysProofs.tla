---------------------------- MODULE HsKeysProofs -----------------------------
(***************************************************************************)
(* Proofs about HsKeys, for any number of key generations and crashes, and *)
(* about HiddenService, for any number of clients.                         *)
(*                                                                         *)
(* Between two writes a crash leaves files of two generations side by      *)
(* side.  HkInv says which mixtures can be on the disk: the onion pair is  *)
(* only whole next to a matching identity pair, nothing written later than *)
(* the onion pair is there without it, a public key of the other pairs is  *)
(* never there without its own secret key, and the host name belongs to    *)
(* the identity.  While writes are pending it says which of them have been *)
(* done.                                                                   *)
(***************************************************************************)
EXTENDS HsKeys, HiddenService, FiniteSetTheorems, SequenceTheorems, WellFoundedInduction, TLAPS

HkVals == Nat \cup (Nat \X Nat \X Nat)
HkPairRec == [sk : Nat, pk : Nat]
HkMemRec == [id : HkPairRec, kem : HkPairRec, falcon : HkPairRec]

\* The order in which moor_hs_save_keys and moor_hs_load_keys write the files.
HkRank(f) ==
    IF f = "identity_sk" THEN 1 ELSE IF f = "identity_pk" THEN 2
    ELSE IF f = "onion_sk" THEN 3 ELSE IF f = "onion_pk" THEN 4
    ELSE IF f = "kem_sk" THEN 5 ELSE IF f = "kem_pk" THEN 6
    ELSE IF f = "falcon_sk" THEN 7 ELSE IF f = "falcon_pk" THEN 8 ELSE 9

\* A list of writes in that order, of generation g and the address a.
HkList(s, g, a) ==
    /\ s \in Seq(HkNames \X HkVals)
    /\ \A i, j \in DOMAIN s : i < j => HkRank(s[i][1]) < HkRank(s[j][1])
    /\ \A i \in DOMAIN s : s[i][2] = IF s[i][1] = "host" THEN a ELSE g

\* The files it writes.
HkFilesOf(s) == {s[i][1] : i \in DOMAIN s}

HkPending == HkFilesOf(hkTodo)

HkTypeOK ==
    /\ hkFiles \in [HkNames -> HkVals]
    /\ \A f \in HkNames \ {"host"} : hkFiles[f] \in Nat
    /\ hkFiles["host"] \in Nat \X Nat \X Nat
    /\ hkMem \in HkMemRec
    /\ hkGen \in Nat
    /\ hkPc \in {"down", "loading", "saving", "up"}

HkOnionWhole == hkFiles["onion_sk"] # 0 /\ hkFiles["onion_pk"] # 0

\* The mixtures of files that can be on the disk.
HkDisk ==
    /\ HkOnionWhole => hkFiles["identity_pk"] # 0 /\ hkFiles["identity_sk"] = hkFiles["identity_pk"]
    /\ ~HkOnionWhole => /\ hkFiles["kem_sk"] = 0 /\ hkFiles["kem_pk"] = 0
                        /\ hkFiles["falcon_sk"] = 0 /\ hkFiles["falcon_pk"] = 0
                        /\ hkFiles["host"][1] = 0
    /\ hkFiles["kem_pk"] # 0 => hkFiles["kem_sk"] = hkFiles["kem_pk"]
    /\ hkFiles["falcon_pk"] # 0 => hkFiles["falcon_sk"] = hkFiles["falcon_pk"]
    /\ hkFiles["host"][1] # 0 => hkFiles["host"][1] = hkFiles["identity_pk"]

\* The keys in memory match, and are those on disk or being written.
HkMemory == hkPc # "down" =>
    /\ hkMem.id.sk = hkMem.id.pk /\ hkMem.kem.sk = hkMem.kem.pk
    /\ hkMem.falcon.sk = hkMem.falcon.pk
    /\ "identity_pk" \notin HkPending => hkFiles["identity_pk"] = hkMem.id.pk

\* The writes still to do.
HkWrites ==
    /\ HkWriting => HkList(hkTodo, hkGen, HkAddress(hkMem))
    /\ ~HkWriting => HkPending = {}
    /\ "kem_sk" \in HkPending => "kem_pk" \in HkPending
    /\ "falcon_sk" \in HkPending => "falcon_pk" \in HkPending
    /\ "kem_pk" \in HkPending => /\ hkFiles["kem_pk"] = 0
                                 /\ "kem_sk" \notin HkPending => hkFiles["kem_sk"] = hkGen
    /\ "falcon_pk" \in HkPending => /\ hkFiles["falcon_pk"] = 0
                                    /\ "falcon_sk" \notin HkPending => hkFiles["falcon_sk"] = hkGen
    /\ "host" \in HkPending => hkFiles["host"][1] = 0

\* Saving: nothing is left out, and the onion pair is not whole before the
\* identity pair is written.
HkSaving ==
    /\ hkPc = "saving" =>
         /\ hkGen # 0 /\ hkMem.id.pk = hkGen
         /\ \A f \in HkPending, g \in HkNames : HkRank(f) < HkRank(g) => g \in HkPending
         /\ \A f \in {"identity_sk", "identity_pk", "onion_sk", "onion_pk"} :
              f \notin HkPending => hkFiles[f] = hkGen
         /\ "identity_pk" \in HkPending => ~HkOnionWhole
         /\ "onion_pk" \in HkPending => /\ hkFiles["kem_sk"] = 0 /\ hkFiles["falcon_sk"] = 0
    /\ hkPc = "loading" =>
         /\ HkOnionWhole
         /\ \A f \in {"identity_sk", "identity_pk", "onion_sk", "onion_pk"} : f \notin HkPending

\* The inductive invariant.
HkInv ==
    /\ hkFails \in Nat
    /\ hkFails = 0 => HkTypeOK /\ HkDisk /\ HkMemory /\ HkWrites /\ HkSaving

-----------------------------------------------------------------------------
(* Lists of writes.                                                        *)

\* The order, file by file.
LEMMA HkRanks ==
    /\ HkRank("identity_sk") = 1 /\ HkRank("identity_pk") = 2
    /\ HkRank("onion_sk") = 3 /\ HkRank("onion_pk") = 4
    /\ HkRank("kem_sk") = 5 /\ HkRank("kem_pk") = 6
    /\ HkRank("falcon_sk") = 7 /\ HkRank("falcon_pk") = 8 /\ HkRank("host") = 9
BY DEF HkRank

\* No writes.
LEMMA HkEmptyList ==
    ASSUME NEW g, NEW a
    PROVE  HkList(<<>>, g, a) /\ HkFilesOf(<<>>) = {}
<1>1. <<>> \in Seq(HkNames \X HkVals) /\ DOMAIN <<>> = {}  OBVIOUS
<1> QED BY <1>1 DEF HkList, HkFilesOf

\* The two files of a pair.
LEMMA HkRewriteList ==
    ASSUME NEW sk \in HkNames \ {"host"}, NEW pk \in HkNames \ {"host"},
           HkRank(sk) < HkRank(pk), NEW g \in Nat, NEW a
    PROVE  HkList(HkRewrite(sk, pk, g), g, a) /\ HkFilesOf(HkRewrite(sk, pk, g)) = {sk, pk}
<1>1. PICK x \in HkNames \X HkVals : x = <<sk, g>>  BY DEF HkVals
<1>2. PICK y \in HkNames \X HkVals : y = <<pk, g>>  BY DEF HkVals
<1>3. HkRewrite(sk, pk, g) = <<x, y>>  BY <1>1, <1>2 DEF HkRewrite
<1>4. x[1] = sk /\ x[2] = g /\ y[1] = pk /\ y[2] = g  BY <1>1, <1>2
<1>5. /\ <<x, y>> \in Seq(HkNames \X HkVals) /\ DOMAIN <<x, y>> = {1, 2}
      /\ <<x, y>>[1] = x /\ <<x, y>>[2] = y
  OBVIOUS
<1>6. PICK s \in Seq(HkNames \X HkVals) : s = <<x, y>> /\ DOMAIN s = {1, 2} /\ s[1] = x /\ s[2] = y
  BY <1>5
<1>7. HkList(s, g, a)  BY <1>4, <1>6 DEF HkList
<1>8. HkFilesOf(s) = {sk, pk}  BY <1>4, <1>6 DEF HkFilesOf
<1> QED BY <1>3, <1>6, <1>7, <1>8

\* The four pairs.
LEMMA HkPairLists ==
    ASSUME NEW g \in Nat, NEW a
    PROVE  /\ HkList(HkRewrite("identity_sk", "identity_pk", g), g, a)
           /\ HkFilesOf(HkRewrite("identity_sk", "identity_pk", g)) = {"identity_sk", "identity_pk"}
           /\ HkList(HkRewrite("onion_sk", "onion_pk", g), g, a)
           /\ HkFilesOf(HkRewrite("onion_sk", "onion_pk", g)) = {"onion_sk", "onion_pk"}
           /\ HkList(HkRewrite("kem_sk", "kem_pk", g), g, a)
           /\ HkFilesOf(HkRewrite("kem_sk", "kem_pk", g)) = {"kem_sk", "kem_pk"}
           /\ HkList(HkRewrite("falcon_sk", "falcon_pk", g), g, a)
           /\ HkFilesOf(HkRewrite("falcon_sk", "falcon_pk", g)) = {"falcon_sk", "falcon_pk"}
<1>1. \A sk, pk \in HkNames \ {"host"} : HkRank(sk) < HkRank(pk) =>
        HkList(HkRewrite(sk, pk, g), g, a) /\ HkFilesOf(HkRewrite(sk, pk, g)) = {sk, pk}
  BY HkRewriteList
<1>2. /\ "identity_sk" \in HkNames \ {"host"} /\ "identity_pk" \in HkNames \ {"host"}
      /\ "onion_sk" \in HkNames \ {"host"} /\ "onion_pk" \in HkNames \ {"host"}
      /\ "kem_sk" \in HkNames \ {"host"} /\ "kem_pk" \in HkNames \ {"host"}
      /\ "falcon_sk" \in HkNames \ {"host"} /\ "falcon_pk" \in HkNames \ {"host"}
  BY DEF HkNames
<1>3. /\ HkRank("identity_sk") < HkRank("identity_pk") /\ HkRank("onion_sk") < HkRank("onion_pk")
      /\ HkRank("kem_sk") < HkRank("kem_pk") /\ HkRank("falcon_sk") < HkRank("falcon_pk")
  BY HkRanks
<1> QED BY <1>1, <1>2, <1>3

\* The host name.
LEMMA HkHostList ==
    ASSUME NEW g, NEW a \in Nat \X Nat \X Nat
    PROVE  HkList(<<<<"host", a>>>>, g, a) /\ HkFilesOf(<<<<"host", a>>>>) = {"host"}
<1>1. PICK x \in HkNames \X HkVals : x = <<"host", a>>  BY DEF HkVals, HkNames
<1>2. x[1] = "host" /\ x[2] = a  BY <1>1
<1>3. <<x>> \in Seq(HkNames \X HkVals) /\ DOMAIN <<x>> = {1} /\ <<x>>[1] = x  OBVIOUS
<1>4. PICK s \in Seq(HkNames \X HkVals) : s = <<x>> /\ DOMAIN s = {1} /\ s[1] = x  BY <1>3
<1>5. HkList(s, g, a) /\ HkFilesOf(s) = {"host"}  BY <1>2, <1>4 DEF HkList, HkFilesOf
<1> QED BY <1>1, <1>4, <1>5

\* A list followed by one of later files.
LEMMA HkConcatList ==
    ASSUME NEW g, NEW a, NEW s, NEW t, HkList(s, g, a), HkList(t, g, a),
           \A x \in HkFilesOf(s), y \in HkFilesOf(t) : HkRank(x) < HkRank(y)
    PROVE  HkList(s \o t, g, a) /\ HkFilesOf(s \o t) = HkFilesOf(s) \cup HkFilesOf(t)
<1>t. s \in Seq(HkNames \X HkVals) /\ t \in Seq(HkNames \X HkVals)  BY DEF HkList
<1> DEFINE u == s \o t
<1>1. /\ u \in Seq(HkNames \X HkVals) /\ Len(s) \in Nat /\ Len(t) \in Nat
      /\ DOMAIN u = 1..(Len(s) + Len(t)) /\ DOMAIN s = 1..Len(s) /\ DOMAIN t = 1..Len(t)
  BY <1>t
<1>2. /\ \A i \in DOMAIN s : i \in DOMAIN u /\ u[i] = s[i]
      /\ \A i \in DOMAIN t : i + Len(s) \in DOMAIN u /\ u[i + Len(s)] = t[i]
      /\ \A i \in DOMAIN u : IF i <= Len(s) THEN i \in DOMAIN s /\ u[i] = s[i]
                             ELSE i - Len(s) \in DOMAIN t /\ u[i] = t[i - Len(s)]
  BY <1>t
<1> HIDE DEF u
<1>3. HkFilesOf(u) = HkFilesOf(s) \cup HkFilesOf(t)
  <2>1. ASSUME NEW i \in DOMAIN u PROVE u[i][1] \in HkFilesOf(s) \cup HkFilesOf(t)
    BY <1>2 DEF HkFilesOf
  <2>2. ASSUME NEW i \in DOMAIN s PROVE s[i][1] \in HkFilesOf(u)
    BY <1>2 DEF HkFilesOf
  <2>3. ASSUME NEW i \in DOMAIN t PROVE t[i][1] \in HkFilesOf(u)
    BY <1>2 DEF HkFilesOf
  <2> QED BY <2>1, <2>2, <2>3 DEF HkFilesOf
<1>4. ASSUME NEW i \in DOMAIN u, NEW j \in DOMAIN u, i < j
      PROVE  HkRank(u[i][1]) < HkRank(u[j][1])
  <2>1. i \in Nat /\ j \in Nat  BY <1>1
  <2>2. CASE j <= Len(s)
    BY <1>1, <1>2, <1>4, <2>1, <2>2 DEF HkList
  <2>3. CASE i <= Len(s) /\ ~(j <= Len(s))
    BY <1>1, <1>2, <2>1, <2>3 DEF HkFilesOf
  <2>4. CASE ~(i <= Len(s)) /\ ~(j <= Len(s))
    <3>1. /\ i - Len(s) \in DOMAIN t /\ j - Len(s) \in DOMAIN t /\ i - Len(s) < j - Len(s)
          /\ u[i] = t[i - Len(s)] /\ u[j] = t[j - Len(s)]
      BY <1>1, <1>2, <1>4, <2>1, <2>4
    <3> QED BY <3>1 DEF HkList
  <2> QED BY <1>1, <1>4, <2>1, <2>2, <2>3, <2>4
<1>5. \A i \in DOMAIN u : u[i][2] = IF u[i][1] = "host" THEN a ELSE g  BY <1>2 DEF HkList
<1>6. HkList(u, g, a)  BY <1>1, <1>4, <1>5 DEF HkList
<1> QED BY <1>3, <1>6 DEF u

\* The first write of a list.
LEMMA HkHeadList ==
    ASSUME NEW g, NEW a, NEW s, HkList(s, g, a), s # <<>>
    PROVE  /\ s[1][1] \in HkNames /\ s[1][1] \in HkFilesOf(s)
           /\ s[1][2] = IF s[1][1] = "host" THEN a ELSE g
           /\ \A f \in HkFilesOf(s) : f = s[1][1] \/ HkRank(s[1][1]) < HkRank(f)
           /\ HkList(Tail(s), g, a) /\ HkFilesOf(Tail(s)) = HkFilesOf(s) \ {s[1][1]}
<1>t. s \in Seq(HkNames \X HkVals)  BY DEF HkList
<1>1. /\ 1 \in DOMAIN s /\ s[1] \in HkNames \X HkVals
      /\ Tail(s) \in Seq(HkNames \X HkVals)
      /\ \A i \in DOMAIN Tail(s) : i + 1 \in DOMAIN s /\ Tail(s)[i] = s[i + 1] /\ i \in Nat \ {0}
      /\ \A i \in DOMAIN s : i = 1 \/ (i \in Nat /\ i > 1 /\ i - 1 \in DOMAIN Tail(s)
                                       /\ Tail(s)[i - 1] = s[i])
  <2>1. /\ 1 \in DOMAIN s /\ s[1] \in HkNames \X HkVals /\ DOMAIN s = 1..Len(s) /\ Len(s) \in Nat
    BY <1>t
  <2>2. /\ Tail(s) \in Seq(HkNames \X HkVals) /\ DOMAIN Tail(s) = 1..(Len(s) - 1)
        /\ \A i \in 1..(Len(s) - 1) : Tail(s)[i] = s[i + 1]
    BY <1>t
  <2>3. \A i \in DOMAIN s : i # 1 => /\ i \in Nat /\ i > 1 /\ i - 1 \in 1..(Len(s) - 1)
                                    /\ (i - 1) + 1 = i
    BY <2>1
  <2> QED BY <2>1, <2>2, <2>3
<1>2. \A i \in DOMAIN s : i # 1 => HkRank(s[1][1]) < HkRank(s[i][1])  BY <1>1 DEF HkList
<1>3. \A i \in DOMAIN s : i # 1 => s[i][1] # s[1][1]  BY <1>2 DEF HkRank
<1>4. PICK u \in Seq(HkNames \X HkVals) : u = Tail(s)  BY <1>1
<1>5. HkFilesOf(u) = HkFilesOf(s) \ {s[1][1]}
  <2>1. ASSUME NEW i \in DOMAIN u PROVE u[i][1] \in HkFilesOf(s) \ {s[1][1]}
    <3>1. i + 1 \in DOMAIN s /\ u[i] = s[i + 1] /\ i + 1 # 1  BY <1>1, <1>4
    <3> QED BY <1>3, <3>1 DEF HkFilesOf
  <2>2. ASSUME NEW i \in DOMAIN s, s[i][1] # s[1][1] PROVE s[i][1] \in HkFilesOf(u)
    <3>1. i - 1 \in DOMAIN u /\ u[i - 1] = s[i]  BY <1>1, <1>4, <2>2
    <3> QED BY <3>1 DEF HkFilesOf
  <2> QED BY <2>1, <2>2 DEF HkFilesOf
<1>6. HkList(u, g, a)
  <2>1. ASSUME NEW i \in DOMAIN u, NEW j \in DOMAIN u, i < j
        PROVE  HkRank(u[i][1]) < HkRank(u[j][1])
    <3>1. i + 1 \in DOMAIN s /\ j + 1 \in DOMAIN s /\ i + 1 < j + 1
          /\ u[i] = s[i + 1] /\ u[j] = s[j + 1]
      BY <1>1, <1>4, <2>1
    <3> QED BY <3>1 DEF HkList
  <2>2. \A i \in DOMAIN u : u[i][2] = IF u[i][1] = "host" THEN a ELSE g
    BY <1>1, <1>4 DEF HkList
  <2> QED BY <1>4, <2>1, <2>2 DEF HkList
<1>7. \A f \in HkFilesOf(s) : f = s[1][1] \/ HkRank(s[1][1]) < HkRank(f)  BY <1>2 DEF HkFilesOf
<1>8. /\ s[1][1] \in HkNames /\ s[1][1] \in HkFilesOf(s)
      /\ s[1][2] = IF s[1][1] = "host" THEN a ELSE g
  BY <1>1 DEF HkList, HkFilesOf
<1> QED BY <1>4, <1>5, <1>6, <1>7, <1>8

-----------------------------------------------------------------------------
(* The steps.                                                              *)

\* The parts of the invariant while no write has failed.
HkSafe == HkTypeOK /\ HkDisk /\ HkMemory /\ HkWrites /\ HkSaving

\* A start with an incomplete onion pair generates everything.
LEMMA HkKeygenInv ==
    ASSUME HkSafe, hkPc = "down", ~HkOnionWhole, HkKeygen, UNCHANGED hkFiles
    PROVE  HkSafe'
<1>t. /\ hkFiles \in [HkNames -> HkVals] /\ hkGen \in Nat /\ hkFiles["host"][1] = 0
      /\ HkTypeOK /\ HkDisk
  BY DEF HkSafe, HkTypeOK, HkDisk
<1>1. PICK g \in Nat \ {0} : g = hkGen + 1  BY <1>t
<1>2. /\ hkMem' = [id |-> [sk |-> g, pk |-> g], kem |-> [sk |-> g, pk |-> g],
                   falcon |-> [sk |-> g, pk |-> g]]
      /\ hkGen' = g /\ hkPc' = "saving"
  BY <1>1 DEF HkKeygen
<1>3. /\ hkMem' \in HkMemRec /\ hkMem'.id.sk = g /\ hkMem'.id.pk = g
      /\ hkMem'.kem.sk = g /\ hkMem'.kem.pk = g /\ hkMem'.falcon.sk = g /\ hkMem'.falcon.pk = g
  BY <1>2 DEF HkMemRec, HkPairRec
<1>4. PICK a \in Nat \X Nat \X Nat : a = HkAddress(hkMem')  BY <1>3 DEF HkAddress
<1> DEFINE s1 == HkRewrite("identity_sk", "identity_pk", g)
           s2 == HkRewrite("onion_sk", "onion_pk", g)
           s3 == HkRewrite("kem_sk", "kem_pk", g)
           s4 == HkRewrite("falcon_sk", "falcon_pk", g)
           s5 == <<<<"host", a>>>>
<1>5. hkTodo' = s1 \o s2 \o s3 \o s4 \o s5  BY <1>1, <1>2, <1>4 DEF HkKeygen
<1>6. /\ HkList(s1, g, a) /\ HkFilesOf(s1) = {"identity_sk", "identity_pk"}
      /\ HkList(s2, g, a) /\ HkFilesOf(s2) = {"onion_sk", "onion_pk"}
      /\ HkList(s3, g, a) /\ HkFilesOf(s3) = {"kem_sk", "kem_pk"}
      /\ HkList(s4, g, a) /\ HkFilesOf(s4) = {"falcon_sk", "falcon_pk"}
  BY HkPairLists
<1>7. HkList(s5, g, a) /\ HkFilesOf(s5) = {"host"}  BY HkHostList
<1> HIDE DEF s1, s2, s3, s4, s5
<1>8. HkList(s1 \o s2, g, a) /\ HkFilesOf(s1 \o s2) = {"identity_sk", "identity_pk",
                                                       "onion_sk", "onion_pk"}
  <2>1. \A x \in HkFilesOf(s1), y \in HkFilesOf(s2) : HkRank(x) < HkRank(y)  BY <1>6, HkRanks
  <2>2. HkList(s1, g, a) /\ HkList(s2, g, a)  BY <1>6
  <2>3. HkList(s1 \o s2, g, a) /\ HkFilesOf(s1 \o s2) = HkFilesOf(s1) \cup HkFilesOf(s2)
    BY <2>1, <2>2, HkConcatList
  <2> QED BY <1>6, <2>3
<1>9. /\ HkList((s1 \o s2) \o s3, g, a)
      /\ HkFilesOf((s1 \o s2) \o s3) = {"identity_sk", "identity_pk", "onion_sk", "onion_pk",
                                        "kem_sk", "kem_pk"}
  <2>1. \A x \in HkFilesOf(s1 \o s2), y \in HkFilesOf(s3) : HkRank(x) < HkRank(y)
    BY <1>6, <1>8, HkRanks
  <2>2. HkList(s1 \o s2, g, a) /\ HkList(s3, g, a)  BY <1>6, <1>8
  <2>3. /\ HkList((s1 \o s2) \o s3, g, a)
        /\ HkFilesOf((s1 \o s2) \o s3) = HkFilesOf(s1 \o s2) \cup HkFilesOf(s3)
    BY <2>1, <2>2, HkConcatList
  <2> QED BY <1>6, <1>8, <2>3
<1>10. /\ HkList(((s1 \o s2) \o s3) \o s4, g, a)
       /\ HkFilesOf(((s1 \o s2) \o s3) \o s4) = {"identity_sk", "identity_pk", "onion_sk",
                                 "onion_pk", "kem_sk", "kem_pk", "falcon_sk", "falcon_pk"}
  <2>1. \A x \in HkFilesOf((s1 \o s2) \o s3), y \in HkFilesOf(s4) : HkRank(x) < HkRank(y)
    BY <1>6, <1>9, HkRanks
  <2>2. HkList((s1 \o s2) \o s3, g, a) /\ HkList(s4, g, a)  BY <1>6, <1>9
  <2>3. /\ HkList(((s1 \o s2) \o s3) \o s4, g, a)
        /\ HkFilesOf(((s1 \o s2) \o s3) \o s4) = HkFilesOf((s1 \o s2) \o s3) \cup HkFilesOf(s4)
    BY <2>1, <2>2, HkConcatList
  <2> QED BY <1>6, <1>9, <2>3
<1>11. HkList(hkTodo', g, a) /\ HkPending' = HkNames
  <2>1. /\ HkList((((s1 \o s2) \o s3) \o s4) \o s5, g, a)
        /\ HkFilesOf((((s1 \o s2) \o s3) \o s4) \o s5) = HkNames
    <3>1. \A x \in HkFilesOf(((s1 \o s2) \o s3) \o s4), y \in HkFilesOf(s5) : HkRank(x) < HkRank(y)
      BY <1>7, <1>10, HkRanks
    <3>2. HkList(((s1 \o s2) \o s3) \o s4, g, a) /\ HkList(s5, g, a)  BY <1>7, <1>10
    <3>3. /\ HkList((((s1 \o s2) \o s3) \o s4) \o s5, g, a)
          /\ HkFilesOf((((s1 \o s2) \o s3) \o s4) \o s5)
               = HkFilesOf(((s1 \o s2) \o s3) \o s4) \cup HkFilesOf(s5)
      BY <3>1, <3>2, HkConcatList
    <3> QED BY <1>7, <1>10, <3>3 DEF HkNames
  <2> QED BY <1>5, <2>1 DEF HkPending
<1>12. HkTypeOK'  BY <1>t, <1>1, <1>2, <1>3 DEF HkTypeOK
<1>13. HkDisk'  BY <1>t DEF HkDisk, HkOnionWhole
<1>14. HkMemory'  BY <1>3, <1>11 DEF HkMemory, HkNames
<1>15. HkWrites'  BY <1>1, <1>t, <1>2, <1>4, <1>11 DEF HkWrites, HkWriting, HkNames, HkDisk
<1>16. HkSaving'  BY <1>t, <1>2, <1>3, <1>11 DEF HkSaving, HkNames, HkDisk, HkOnionWhole
<1> QED BY <1>12, <1>13, <1>14, <1>15, <1>16 DEF HkSafe

\* A start with whole identity and onion pairs replaces the other pairs when
\* they are not whole.
LEMMA HkLoadInv ==
    ASSUME HkSafe, hkPc = "down", HkOnionWhole, HkLoad, UNCHANGED hkFiles
    PROVE  HkSafe'
<1>t. HkTypeOK /\ HkDisk /\ hkGen \in Nat /\ HkPending = {}
  BY DEF HkSafe, HkTypeOK, HkWrites, HkWriting
<1>1. PICK g \in Nat \ {0} : g = hkGen + 1  BY <1>t
<1>f. PICK is \in Nat, ip \in Nat, ks \in Nat, kp \in Nat, fs \in Nat, fp \in Nat :
        /\ is = hkFiles["identity_sk"] /\ ip = hkFiles["identity_pk"]
        /\ ks = hkFiles["kem_sk"] /\ kp = hkFiles["kem_pk"]
        /\ fs = hkFiles["falcon_sk"] /\ fp = hkFiles["falcon_pk"]
  BY <1>t DEF HkTypeOK, HkNames
<1>d. /\ is = ip /\ (kp # 0 => ks = kp) /\ (fp # 0 => fs = fp)
      /\ hkFiles["host"][1] # 0 => hkFiles["host"][1] = ip
  BY <1>t, <1>f DEF HkDisk
<1> DEFINE newKem == ~(ks # 0 /\ kp # 0)
           newFal == ~(fs # 0 /\ fp # 0)
           kem == IF newKem THEN [sk |-> g, pk |-> g] ELSE [sk |-> ks, pk |-> kp]
           fal == IF newFal THEN [sk |-> g, pk |-> g] ELSE [sk |-> fs, pk |-> fp]
           m == [id |-> [sk |-> is, pk |-> ip], kem |-> kem, falcon |-> fal]
           k == IF newKem THEN HkRewrite("kem_sk", "kem_pk", g) ELSE <<>>
           f == IF newFal THEN HkRewrite("falcon_sk", "falcon_pk", g) ELSE <<>>
           h == IF hkFiles["host"] = HkNoAddress THEN <<<<"host", HkAddress(m)>>>> ELSE <<>>
<1>2. /\ hkMem' = m /\ hkGen' = (IF newKem \/ newFal THEN g ELSE hkGen)
      /\ hkTodo' = k \o f \o h /\ hkPc' = "loading"
  BY <1>1, <1>f DEF HkLoad, HkPair, HkWhole
<1>3. /\ kem \in HkPairRec /\ kem.sk = kem.pk /\ fal \in HkPairRec /\ fal.sk = fal.pk
  BY <1>1, <1>f, <1>d DEF HkPairRec
<1> HIDE DEF kem, fal
<1>4. /\ m \in HkMemRec /\ m.id.sk = ip /\ m.id.pk = ip /\ m.kem.sk = m.kem.pk
      /\ m.falcon.sk = m.falcon.pk
  BY <1>3, <1>f, <1>d DEF HkMemRec, HkPairRec
<1> HIDE DEF m
<1>5. PICK a \in Nat \X Nat \X Nat : a = HkAddress(m)
  BY <1>4 DEF HkAddress, HkMemRec, HkPairRec
<1>g. PICK n \in Nat : n = hkGen'  BY <1>1, <1>2, <1>t
<1>6. HkList(k, n, a) /\ HkFilesOf(k) = IF newKem THEN {"kem_sk", "kem_pk"} ELSE {}
  <2>1. CASE newKem
    <3>1. n = g  BY <1>g, <1>2, <2>1
    <3> QED BY <2>1, <3>1, HkPairLists
  <2>2. CASE ~newKem
    BY <2>2, HkEmptyList
  <2> QED BY <2>1, <2>2
<1>7. HkList(f, n, a) /\ HkFilesOf(f) = IF newFal THEN {"falcon_sk", "falcon_pk"} ELSE {}
  <2>1. CASE newFal
    <3>1. n = g  BY <1>g, <1>2, <2>1
    <3> QED BY <2>1, <3>1, HkPairLists
  <2>2. CASE ~newFal
    BY <2>2, HkEmptyList
  <2> QED BY <2>1, <2>2
<1>8. HkList(h, n, a)
      /\ HkFilesOf(h) = IF hkFiles["host"] = HkNoAddress THEN {"host"} ELSE {}
  <2>1. CASE hkFiles["host"] = HkNoAddress
    BY <1>5, <2>1, HkHostList
  <2>2. CASE hkFiles["host"] # HkNoAddress
    BY <2>2, HkEmptyList
  <2> QED BY <2>1, <2>2
<1>n. newKem <=> kp = 0 \/ ks = 0  OBVIOUS
<1>o. newFal <=> fp = 0 \/ fs = 0  OBVIOUS
<1> HIDE DEF k, f, h, newKem, newFal
<1>9. HkList(k \o f, n, a) /\ HkFilesOf(k \o f) = HkFilesOf(k) \cup HkFilesOf(f)
  <2>1. \A x \in HkFilesOf(k), y \in HkFilesOf(f) : HkRank(x) < HkRank(y)
    BY <1>6, <1>7, HkRanks
  <2>2. HkList(k, n, a) /\ HkList(f, n, a)  BY <1>6, <1>7
  <2>3. PICK s, u : s = k /\ u = f  OBVIOUS
  <2>4. HkList(s \o u, n, a) /\ HkFilesOf(s \o u) = HkFilesOf(s) \cup HkFilesOf(u)
    <3>1. HkList(s, n, a) /\ HkList(u, n, a)  BY <2>2, <2>3
    <3>2. \A x \in HkFilesOf(s), y \in HkFilesOf(u) : HkRank(x) < HkRank(y)  BY <2>1, <2>3
    <3> HIDE DEF k, f
    <3> QED BY <3>1, <3>2, HkConcatList
  <2> QED BY <2>3, <2>4
<1>10. /\ HkList(hkTodo', n, a)
       /\ HkPending' = HkFilesOf(k) \cup HkFilesOf(f) \cup HkFilesOf(h)
  <2>1. \A x \in HkFilesOf(k \o f), y \in HkFilesOf(h) : HkRank(x) < HkRank(y)
    BY <1>6, <1>7, <1>8, <1>9, HkRanks
  <2>2. /\ HkList((k \o f) \o h, n, a)
        /\ HkFilesOf((k \o f) \o h) = HkFilesOf(k \o f) \cup HkFilesOf(h)
    BY <1>8, <1>9, <2>1, HkConcatList
  <2> QED BY <1>2, <1>9, <2>2 DEF HkPending
<1>12. HkTypeOK'  BY <1>t, <1>2, <1>4, <1>g DEF HkTypeOK
<1>13. HkDisk'  BY <1>t DEF HkDisk, HkOnionWhole
<1>14. HkMemory'  BY <1>2, <1>4, <1>f DEF HkMemory
<1>15. HkWrites'
  <2>1. /\ "kem_sk" \in HkPending' <=> newKem
        /\ "kem_pk" \in HkPending' <=> newKem
        /\ "falcon_sk" \in HkPending' <=> newFal
        /\ "falcon_pk" \in HkPending' <=> newFal
        /\ "host" \in HkPending' => hkFiles["host"][1] = 0
    BY <1>6, <1>7, <1>8, <1>10 DEF HkNoAddress
  <2>2. newKem => kp = 0  BY <1>n, <1>d
  <2>3. newFal => fp = 0  BY <1>o, <1>d
  <2> QED BY <1>2, <1>5, <1>f, <1>g, <1>10, <2>1, <2>2, <2>3 DEF HkWrites, HkWriting
<1>16. HkSaving'  BY <1>2, <1>6, <1>7, <1>8, <1>10 DEF HkSaving, HkOnionWhole
<1> QED BY <1>12, <1>13, <1>14, <1>15, <1>16 DEF HkSafe

\* What a step of writing knows: the first file to write, and which follow.
LEMMA HkFirst ==
    ASSUME HkSafe, HkWriting, hkTodo # <<>>
    PROVE  /\ hkTodo[1][1] \in HkNames /\ hkTodo[1][1] \in HkPending
           /\ hkTodo[1][2] = IF hkTodo[1][1] = "host" THEN HkAddress(hkMem) ELSE hkGen
           /\ \A f \in HkPending : f = hkTodo[1][1] \/ HkRank(hkTodo[1][1]) < HkRank(f)
           /\ HkList(Tail(hkTodo), hkGen, HkAddress(hkMem))
           /\ HkFilesOf(Tail(hkTodo)) = HkPending \ {hkTodo[1][1]}
<1>1. PICK g, a : g = hkGen /\ a = HkAddress(hkMem)  OBVIOUS
<1>2. PICK s : s = hkTodo  OBVIOUS
<1>3. HkList(s, g, a) /\ s # <<>>  BY <1>1, <1>2 DEF HkSafe, HkWrites
<1> QED BY <1>1, <1>2, <1>3, HkHeadList DEF HkPending

\* Opening the first file empties it.
LEMMA HkOpenInv ==
    ASSUME HkSafe, HkOpen
    PROVE  HkSafe'
<1>t. HkTypeOK /\ HkDisk /\ HkMemory /\ HkWrites /\ HkSaving  BY DEF HkSafe
<1>1. PICK f \in HkNames : f = hkTodo[1][1] /\ f \in HkPending
        /\ \A x \in HkPending : x = f \/ HkRank(f) < HkRank(x)
  BY HkFirst DEF HkOpen
<1>2. /\ hkFiles' = [hkFiles EXCEPT ![f] = HkEmptyFile(f)]
      /\ UNCHANGED <<hkMem, hkTodo, hkPc, hkGen, hkFails>> /\ HkWriting
      /\ hkFiles[f] # HkEmptyFile(f)
  BY <1>1 DEF HkOpen
<1>3. /\ HkPending' = HkPending /\ HkWriting' /\ hkPc # "down" /\ hkPc' = hkPc
  BY <1>2 DEF HkPending, HkWriting
<1>4. /\ hkFiles'[f] = HkEmptyFile(f) /\ \A x \in HkNames : x # f => hkFiles'[x] = hkFiles[x]
  BY <1>t, <1>2 DEF HkTypeOK
<1>5. HkTypeOK'  BY <1>t, <1>2, <1>4 DEF HkTypeOK, HkEmptyFile, HkCutOff, HkVals
<1>6. f # "kem_pk" /\ f # "falcon_pk"  BY <1>t, <1>1, <1>2 DEF HkWrites, HkEmptyFile
<1>7. \/ f \in {"identity_sk", "identity_pk", "onion_sk", "onion_pk"} /\ hkPc = "saving"
      \/ f = "kem_sk" \/ f = "falcon_sk" \/ f = "host"
  BY <1>t, <1>1, <1>2, <1>6 DEF HkNames, HkSaving, HkWriting
<1>h. f = "host" => hkFiles["host"][1] = 0 /\ hkFiles'["host"][1] = 0
  BY <1>t, <1>1, <1>4 DEF HkWrites, HkEmptyFile, HkCutOff
<1>8. f \in {"identity_sk", "identity_pk", "onion_sk", "onion_pk"} =>
        /\ ~HkOnionWhole'
        /\ hkFiles["kem_sk"] = 0 /\ hkFiles["falcon_sk"] = 0
        /\ "onion_pk" \in HkPending /\ "kem_pk" \in HkPending /\ "falcon_pk" \in HkPending
        /\ "host" \in HkPending
  <2>1. f \in {"identity_sk", "identity_pk", "onion_sk"} => "onion_pk" \in HkPending
    BY <1>t, <1>1, <1>7, HkRanks DEF HkSaving, HkNames
  <2>2. f \in {"identity_sk", "identity_pk", "onion_sk", "onion_pk"} =>
          /\ "kem_pk" \in HkPending /\ "falcon_pk" \in HkPending /\ "host" \in HkPending
    BY <1>t, <1>1, <1>7, HkRanks DEF HkSaving, HkNames
  <2>3. f \in {"identity_sk", "identity_pk"} => ~HkOnionWhole /\ "identity_pk" \in HkPending
    BY <1>t, <1>1, <1>7, HkRanks DEF HkSaving, HkNames
  <2>4. f \in {"identity_sk", "identity_pk", "onion_sk", "onion_pk"} => ~HkOnionWhole'
    BY <2>3, <1>4 DEF HkOnionWhole, HkNames, HkEmptyFile
  <2> QED BY <1>t, <1>1, <1>7, <2>1, <2>2, <2>4 DEF HkSaving
<1>9. HkDisk'
  <2>1. CASE f \in {"identity_sk", "identity_pk", "onion_sk", "onion_pk"}
    BY <1>t, <1>4, <1>8, <2>1 DEF HkDisk, HkWrites, HkNames
  <2>2. CASE f = "kem_sk"
    <3>1. hkFiles["kem_pk"] = 0  BY <1>t, <1>1, <2>2 DEF HkWrites
    <3> QED BY <1>t, <1>4, <2>2, <3>1 DEF HkDisk, HkNames, HkOnionWhole, HkEmptyFile
  <2>3. CASE f = "falcon_sk"
    <3>1. hkFiles["falcon_pk"] = 0  BY <1>t, <1>1, <2>3 DEF HkWrites
    <3> QED BY <1>t, <1>4, <2>3, <3>1 DEF HkDisk, HkNames, HkOnionWhole, HkEmptyFile
  <2>4. CASE f = "host"
    BY <1>t, <1>4, <1>h, <2>4 DEF HkDisk, HkNames, HkOnionWhole
  <2> QED BY <1>7, <2>1, <2>2, <2>3, <2>4
<1>10. HkMemory'  BY <1>t, <1>1, <1>2, <1>3, <1>4 DEF HkMemory, HkNames
<1>11. HkWrites'
  <2>1. HkList(hkTodo, hkGen, HkAddress(hkMem))'  BY <1>t, <1>2 DEF HkWrites
  <2>2. /\ hkFiles'["kem_pk"] = hkFiles["kem_pk"] /\ hkFiles'["falcon_pk"] = hkFiles["falcon_pk"]
        /\ hkFiles'["host"][1] = hkFiles["host"][1]
    BY <1>4, <1>6, <1>h DEF HkNames
  <2>3. /\ "kem_sk" \notin HkPending => hkFiles'["kem_sk"] = hkFiles["kem_sk"]
        /\ "falcon_sk" \notin HkPending => hkFiles'["falcon_sk"] = hkFiles["falcon_sk"]
    BY <1>1, <1>4 DEF HkNames
  <2> QED BY <1>t, <1>2, <1>3, <2>1, <2>2, <2>3 DEF HkWrites
<1>12. HkSaving'
  <2>1. ASSUME hkPc = "saving"
        PROVE  /\ "identity_pk" \in HkPending => ~HkOnionWhole'
               /\ "onion_pk" \in HkPending => hkFiles'["kem_sk"] = 0 /\ hkFiles'["falcon_sk"] = 0
    <3>1. CASE f \in {"identity_sk", "identity_pk", "onion_sk", "onion_pk"}
      BY <1>4, <1>8, <3>1 DEF HkNames
    <3>2. CASE f \in {"kem_sk", "falcon_sk", "host"}
      <4>1. "identity_pk" \notin HkPending /\ "onion_pk" \notin HkPending
        BY <1>1, <3>2, HkRanks
      <4> QED BY <4>1
    <3> QED BY <1>7, <3>1, <3>2
  <2>2. ASSUME hkPc = "loading" PROVE HkOnionWhole'
    BY <1>t, <1>4, <1>7, <2>2 DEF HkSaving, HkOnionWhole, HkNames
  <2>3. \A x \in {"identity_sk", "identity_pk", "onion_sk", "onion_pk"} :
           x \notin HkPending => hkFiles'[x] = hkFiles[x]
    BY <1>1, <1>4 DEF HkNames
  <2> QED BY <1>t, <1>2, <1>3, <2>1, <2>2, <2>3 DEF HkSaving
<1> QED BY <1>5, <1>9, <1>10, <1>11, <1>12 DEF HkSafe

\* Writing the first file: the rest of the list remains.
LEMMA HkWriteInv ==
    ASSUME HkSafe, HkWrite
    PROVE  HkSafe'
<1>t. HkTypeOK /\ HkDisk /\ HkMemory /\ HkWrites /\ HkSaving  BY DEF HkSafe
<1>1. PICK f \in HkNames : f = hkTodo[1][1] /\ f \in HkPending
        /\ \A x \in HkPending : x = f \/ HkRank(f) < HkRank(x)
  BY HkFirst DEF HkWrite
<1>2. PICK v : v = hkTodo[1][2] /\ v = (IF f = "host" THEN HkAddress(hkMem) ELSE hkGen)
  BY HkFirst, <1>1 DEF HkWrite
<1>3. /\ hkFiles' = [hkFiles EXCEPT ![f] = v] /\ hkTodo' = Tail(hkTodo)
      /\ hkMem' = hkMem /\ hkPc' = hkPc /\ hkGen' = hkGen /\ HkWriting
  BY <1>1, <1>2 DEF HkWrite
<1>4. /\ hkFiles'[f] = v /\ \A x \in HkNames : x # f => hkFiles'[x] = hkFiles[x]
  BY <1>t, <1>3 DEF HkTypeOK
<1>5. /\ HkPending' = HkPending \ {f} /\ HkWriting' /\ hkPc # "down"
      /\ HkList(hkTodo, hkGen, HkAddress(hkMem))'
  <2>1. /\ HkList(Tail(hkTodo), hkGen, HkAddress(hkMem))
        /\ HkFilesOf(Tail(hkTodo)) = HkPending \ {f}
    BY <1>1, HkFirst DEF HkWrite
  <2> QED BY <1>3, <2>1 DEF HkPending, HkWriting
<1>6. /\ HkAddress(hkMem) \in Nat \X Nat \X Nat /\ HkAddress(hkMem)[1] = hkMem.id.pk
  BY <1>t DEF HkTypeOK, HkAddress, HkMemRec, HkPairRec
<1>7. HkTypeOK'  BY <1>t, <1>2, <1>3, <1>4, <1>6 DEF HkTypeOK, HkVals, HkNames
<1>8. f \in {"identity_sk", "identity_pk", "onion_sk", "onion_pk"} =>
        hkPc = "saving" /\ v = hkGen /\ hkGen # 0
  BY <1>t, <1>1, <1>2, <1>3 DEF HkSaving, HkWriting
<1>9. hkPc = "saving" => \A x \in HkNames : x = f \/ HkRank(f) < HkRank(x) => x \in HkPending
  BY <1>t, <1>1 DEF HkSaving
<1>10. hkPc = "saving" => \A x \in {"identity_sk", "identity_pk", "onion_sk", "onion_pk"} :
          HkRank(x) < HkRank(f) => hkFiles[x] = hkGen
  <2>1. ASSUME NEW x \in HkNames, HkRank(x) < HkRank(f) PROVE x \notin HkPending
    BY <1>1, <2>1 DEF HkRank, HkNames
  <2> QED BY <1>t, <2>1 DEF HkSaving, HkNames
<1>11. HkMemory'
  <2>1. f = "identity_pk" => hkFiles'["identity_pk"] = hkMem.id.pk
    BY <1>t, <1>4, <1>8 DEF HkSaving
  <2>2. f # "identity_pk" => hkFiles'["identity_pk"] = hkFiles["identity_pk"]
    BY <1>4 DEF HkNames
  <2> QED BY <1>t, <1>3, <1>5, <2>1, <2>2 DEF HkMemory
<1>12. HkWrites'
  <2>1. /\ "kem_sk" \in HkPending' => "kem_pk" \in HkPending'
        /\ "falcon_sk" \in HkPending' => "falcon_pk" \in HkPending'
    BY <1>t, <1>1, <1>5, HkRanks DEF HkWrites
  <2>2. "kem_pk" \in HkPending' => /\ hkFiles'["kem_pk"] = 0
                                   /\ "kem_sk" \notin HkPending' => hkFiles'["kem_sk"] = hkGen'
    <3>1. CASE f = "kem_sk"
      BY <1>t, <1>2, <1>3, <1>4, <1>5, <3>1 DEF HkWrites, HkNames
    <3>2. CASE f # "kem_sk"
      BY <1>t, <1>3, <1>4, <1>5, <3>2 DEF HkWrites, HkNames
    <3> QED BY <3>1, <3>2
  <2>3. "falcon_pk" \in HkPending' => /\ hkFiles'["falcon_pk"] = 0
                                      /\ "falcon_sk" \notin HkPending' => hkFiles'["falcon_sk"] = hkGen'
    <3>1. CASE f = "falcon_sk"
      BY <1>t, <1>2, <1>3, <1>4, <1>5, <3>1 DEF HkWrites, HkNames
    <3>2. CASE f # "falcon_sk"
      BY <1>t, <1>3, <1>4, <1>5, <3>2 DEF HkWrites, HkNames
    <3> QED BY <3>1, <3>2
  <2>4. "host" \in HkPending' => hkFiles'["host"][1] = 0
    BY <1>t, <1>4, <1>5 DEF HkWrites, HkNames
  <2>6. HkWriting' => HkList(hkTodo, hkGen, HkAddress(hkMem))'  BY <1>5
  <2>7. ~HkWriting' => HkPending' = {}  BY <1>5
  <2> QED BY <2>1, <2>2, <2>3, <2>4, <2>6, <2>7 DEF HkWrites
<1>13. HkDisk'
  <2>1. CASE f \in {"identity_sk", "identity_pk", "onion_sk"}
    <3>1. "onion_pk" \in HkPending /\ "kem_pk" \in HkPending /\ "falcon_pk" \in HkPending
          /\ "host" \in HkPending
      BY <1>8, <1>9, <2>1, HkRanks DEF HkNames
    <3>2. /\ hkFiles["kem_sk"] = 0 /\ hkFiles["falcon_sk"] = 0 /\ hkFiles["kem_pk"] = 0
          /\ hkFiles["falcon_pk"] = 0 /\ hkFiles["host"][1] = 0
      BY <1>t, <1>8, <2>1, <3>1 DEF HkSaving, HkWrites
    <3>3. /\ hkFiles'["kem_sk"] = 0 /\ hkFiles'["falcon_sk"] = 0 /\ hkFiles'["kem_pk"] = 0
          /\ hkFiles'["falcon_pk"] = 0 /\ hkFiles'["host"][1] = 0
      BY <1>4, <2>1, <3>2 DEF HkNames
    <3>4. HkOnionWhole' =>
            hkFiles'["identity_pk"] # 0 /\ hkFiles'["identity_sk"] = hkFiles'["identity_pk"]
      <4>1. CASE f \in {"identity_sk", "identity_pk"}
        <5>1. "identity_pk" \in HkPending  BY <1>8, <1>9, <4>1, HkRanks DEF HkNames
        <5>2. ~HkOnionWhole  BY <1>t, <1>8, <4>1, <5>1 DEF HkSaving
        <5> QED BY <1>4, <4>1, <5>2 DEF HkOnionWhole, HkNames
      <4>2. CASE f = "onion_sk"
        <5>1. hkFiles["identity_sk"] = hkGen /\ hkFiles["identity_pk"] = hkGen /\ hkGen # 0
          BY <1>8, <1>10, <4>2, HkRanks
        <5> QED BY <1>4, <4>2, <5>1 DEF HkNames
      <4> QED BY <2>1, <4>1, <4>2
    <3> QED BY <3>3, <3>4 DEF HkDisk
  <2>2. CASE f = "onion_pk"
    <3>1. /\ hkFiles["identity_sk"] = hkGen /\ hkFiles["identity_pk"] = hkGen /\ hkGen # 0
          /\ hkFiles["onion_sk"] = hkGen /\ v = hkGen
      BY <1>8, <1>10, <2>2, HkRanks
    <3>2. "kem_pk" \in HkPending /\ "falcon_pk" \in HkPending /\ "host" \in HkPending
      BY <1>8, <1>9, <2>2, HkRanks DEF HkNames
    <3>3. /\ hkFiles["kem_pk"] = 0 /\ hkFiles["falcon_pk"] = 0 /\ hkFiles["host"][1] = 0
      BY <1>t, <3>2 DEF HkWrites
    <3> QED BY <1>4, <2>2, <3>1, <3>3 DEF HkDisk, HkOnionWhole, HkNames
  <2>3. CASE f \in {"kem_sk", "kem_pk", "falcon_sk", "falcon_pk", "host"}
    <3>1. HkOnionWhole
      <4>1. CASE hkPc = "saving"
        <5>1. hkFiles["onion_sk"] = hkGen /\ hkFiles["onion_pk"] = hkGen
          BY <1>10, <2>3, <4>1, HkRanks
        <5> QED BY <1>t, <4>1, <5>1 DEF HkSaving, HkOnionWhole
      <4>2. CASE hkPc = "loading"
        BY <1>t, <4>2 DEF HkSaving
      <4> QED BY <1>3, <4>1, <4>2 DEF HkWriting
    <3>2. /\ HkOnionWhole' /\ hkFiles'["identity_pk"] = hkFiles["identity_pk"]
          /\ hkFiles'["identity_sk"] = hkFiles["identity_sk"]
      BY <1>4, <2>3, <3>1 DEF HkOnionWhole, HkNames
    <3>3. hkFiles'["kem_pk"] # 0 => hkFiles'["kem_sk"] = hkFiles'["kem_pk"]
      <4>1. CASE f = "kem_pk"
        <5>1. "kem_sk" \notin HkPending  BY <1>1, <4>1, HkRanks
        <5> QED BY <1>t, <1>1, <1>2, <1>4, <4>1, <5>1 DEF HkWrites, HkNames
      <4>2. CASE f = "kem_sk"
        BY <1>t, <1>1, <1>4, <4>2 DEF HkWrites, HkNames
      <4>3. CASE f # "kem_sk" /\ f # "kem_pk"
        BY <1>t, <1>4, <4>3 DEF HkDisk, HkNames
      <4> QED BY <4>1, <4>2, <4>3
    <3>4. hkFiles'["falcon_pk"] # 0 => hkFiles'["falcon_sk"] = hkFiles'["falcon_pk"]
      <4>1. CASE f = "falcon_pk"
        <5>1. "falcon_sk" \notin HkPending  BY <1>1, <4>1, HkRanks
        <5> QED BY <1>t, <1>1, <1>2, <1>4, <4>1, <5>1 DEF HkWrites, HkNames
      <4>2. CASE f = "falcon_sk"
        BY <1>t, <1>1, <1>4, <4>2 DEF HkWrites, HkNames
      <4>3. CASE f # "falcon_sk" /\ f # "falcon_pk"
        BY <1>t, <1>4, <4>3 DEF HkDisk, HkNames
      <4> QED BY <4>1, <4>2, <4>3
    <3>5. hkFiles'["host"][1] # 0 => hkFiles'["host"][1] = hkFiles'["identity_pk"]
      <4>1. CASE f = "host"
        <5>1. "identity_pk" \notin HkPending  BY <1>1, <4>1, HkRanks
        <5>2. hkFiles["identity_pk"] = hkMem.id.pk  BY <1>t, <1>5, <5>1 DEF HkMemory
        <5> QED BY <1>2, <1>4, <1>6, <3>2, <4>1, <5>2
      <4>2. CASE f # "host"
        BY <1>t, <1>4, <3>2, <4>2 DEF HkDisk, HkNames
      <4> QED BY <4>1, <4>2
    <3> QED BY <1>t, <3>1, <3>2, <3>3, <3>4, <3>5 DEF HkDisk
  <2> QED BY <2>1, <2>2, <2>3 DEF HkNames
<1>14. HkSaving'
  <2>1. ASSUME hkPc = "saving"
        PROVE  \A x \in HkPending', y \in HkNames : HkRank(x) < HkRank(y) => y \in HkPending'
    <3> SUFFICES ASSUME NEW x \in HkPending \ {f}, NEW y \in HkNames, HkRank(x) < HkRank(y)
                 PROVE  y \in HkPending \ {f}
      BY <1>5
    <3>1. y \in HkPending  BY <1>t, <2>1 DEF HkSaving
    <3>2. HkRank(f) < HkRank(x)  BY <1>1
    <3>3. HkRank(f) \in Nat /\ HkRank(x) \in Nat /\ HkRank(y) \in Nat  BY DEF HkRank
    <3> QED BY <3>1, <3>2, <3>3
  <2>2. ASSUME hkPc = "saving", NEW x \in {"identity_sk", "identity_pk", "onion_sk", "onion_pk"},
               x \notin HkPending'
        PROVE  hkFiles'[x] = hkGen
    <3>1. CASE x = f
      BY <1>2, <1>4, <2>2, <3>1
    <3>2. CASE x # f
      BY <1>t, <1>4, <1>5, <2>2, <3>2 DEF HkSaving, HkNames
    <3> QED BY <3>1, <3>2
  <2>3. ASSUME hkPc = "saving", "identity_pk" \in HkPending' PROVE ~HkOnionWhole'
    <3>1. "identity_pk" \in HkPending /\ f # "identity_pk"  BY <1>5, <2>3
    <3>2. f = "identity_sk"  BY <1>1, <3>1 DEF HkNames, HkRank
    <3> QED BY <1>t, <1>4, <2>3, <3>1, <3>2 DEF HkSaving, HkOnionWhole, HkNames
  <2>4. ASSUME hkPc = "saving", "onion_pk" \in HkPending'
        PROVE  hkFiles'["kem_sk"] = 0 /\ hkFiles'["falcon_sk"] = 0
    <3>1. "onion_pk" \in HkPending /\ f # "onion_pk"  BY <1>5, <2>4
    <3>2. f # "kem_sk" /\ f # "falcon_sk"  BY <1>1, <3>1, HkRanks
    <3> QED BY <1>t, <1>4, <2>4, <3>1, <3>2 DEF HkSaving, HkNames
  <2>5. ASSUME hkPc = "loading"
        PROVE  /\ HkOnionWhole'
               /\ \A x \in {"identity_sk", "identity_pk", "onion_sk", "onion_pk"} : x \notin HkPending'
    <3>1. f \notin {"identity_sk", "identity_pk", "onion_sk", "onion_pk"}  BY <1>8, <2>5
    <3> QED BY <1>t, <1>4, <1>5, <2>5, <3>1 DEF HkSaving, HkOnionWhole, HkNames
  <2>6. hkPc = "saving" => hkGen' # 0 /\ hkMem'.id.pk = hkGen'  BY <1>t, <1>3 DEF HkSaving
  <2> QED BY <1>3, <2>1, <2>2, <2>3, <2>4, <2>5, <2>6 DEF HkSaving
<1> QED BY <1>7, <1>11, <1>12, <1>13, <1>14 DEF HkSafe

\* The last write was done.
LEMMA HkDoneInv ==
    ASSUME HkSafe, HkDone
    PROVE  HkSafe'
<1>1. HkPending = {} /\ HkPending' = {}  BY HkEmptyList DEF HkDone, HkPending
<1>2. HkTypeOK' /\ HkDisk'  BY DEF HkSafe, HkDone, HkTypeOK, HkDisk, HkOnionWhole
<1>3. HkMemory'  BY <1>1 DEF HkSafe, HkDone, HkWriting, HkMemory
<1>4. HkWrites' /\ HkSaving'  BY <1>1 DEF HkDone, HkWrites, HkSaving, HkWriting
<1> QED BY <1>2, <1>3, <1>4 DEF HkSafe

\* A crash keeps the files.
LEMMA HkCrashInv ==
    ASSUME HkSafe, HkCrash
    PROVE  HkSafe'
<1>1. HkPending' = {}  BY HkEmptyList DEF HkCrash, HkPending
<1>2. HkTypeOK'  BY DEF HkSafe, HkCrash, HkTypeOK, HkNoKeys, HkMemRec, HkPairRec
<1>3. HkDisk'  BY DEF HkSafe, HkCrash, HkDisk, HkOnionWhole
<1>4. HkMemory' /\ HkWrites' /\ HkSaving'
  BY <1>1 DEF HkCrash, HkMemory, HkWrites, HkSaving, HkWriting
<1> QED BY <1>2, <1>3, <1>4 DEF HkSafe

\* The first start: an empty directory, or one of an earlier version.
LEMMA HkInitInv == HkInit => HkInv
<1> SUFFICES ASSUME HkInit PROVE HkInv
  OBVIOUS
<1>1. PICK old \in {0, 1}, kem \in {0, 1} :
        /\ kem <= old
        /\ hkFiles = [f \in HkNames |->
                CASE f = "host" -> IF old = 0 THEN HkNoAddress ELSE <<1, kem, 0>>
                  [] f \in {"kem_sk", "kem_pk"} -> kem
                  [] f \in {"falcon_sk", "falcon_pk"} -> 0
                  [] OTHER -> old]
        /\ hkGen = old
  BY DEF HkInit
<1>2. /\ hkMem = HkNoKeys /\ hkTodo = <<>> /\ hkPc = "down" /\ hkFails = 0  BY DEF HkInit
<1>3. /\ hkFiles["identity_sk"] = old /\ hkFiles["identity_pk"] = old
      /\ hkFiles["onion_sk"] = old /\ hkFiles["onion_pk"] = old
      /\ hkFiles["kem_sk"] = kem /\ hkFiles["kem_pk"] = kem
      /\ hkFiles["falcon_sk"] = 0 /\ hkFiles["falcon_pk"] = 0
      /\ hkFiles["host"] = (IF old = 0 THEN HkNoAddress ELSE <<1, kem, 0>>)
      /\ DOMAIN hkFiles = HkNames /\ hkFiles = [f \in HkNames |-> hkFiles[f]]
  BY <1>1 DEF HkNames
<1>4. hkFiles["host"] \in Nat \X Nat \X Nat  BY <1>3 DEF HkNoAddress
<1>5. \A f \in HkNames \ {"host"} : hkFiles[f] \in Nat  BY <1>3 DEF HkNames
<1>6. hkFiles \in [HkNames -> HkVals]  BY <1>3, <1>4, <1>5 DEF HkVals
<1>7. HkTypeOK  BY <1>1, <1>2, <1>4, <1>5, <1>6 DEF HkTypeOK, HkNoKeys, HkMemRec, HkPairRec
<1>8. HkDisk
  <2>1. old # 0 => hkFiles["host"][1] = old  BY <1>1, <1>3
  <2>2. old = 0 => hkFiles["host"][1] = 0  BY <1>3 DEF HkNoAddress
  <2> QED BY <1>1, <1>3, <2>1, <2>2 DEF HkDisk, HkOnionWhole
<1>9. HkPending = {}  BY <1>2, HkEmptyList DEF HkPending
<1>10. HkMemory /\ HkWrites /\ HkSaving
  BY <1>2, <1>9 DEF HkMemory, HkWrites, HkSaving, HkWriting
<1> QED BY <1>2, <1>7, <1>8, <1>10 DEF HkInv

\* Every step keeps the invariant; a failed write ends what it says.
LEMMA HkNextInv == HkInv /\ [HkNext]_hkVars => HkInv'
<1> SUFFICES ASSUME HkInv, [HkNext]_hkVars PROVE HkInv'
  OBVIOUS
<1>1. hkFails \in Nat /\ (hkFails = 0 => HkSafe)  BY DEF HkInv, HkSafe
<1>2. ASSUME HkSaveFails \/ HkLoadFails PROVE HkInv'
  <2>1. hkFails' = hkFails + 1  BY <1>2 DEF HkSaveFails, HkLoadFails
  <2> QED BY <1>1, <2>1 DEF HkInv
<1>3. ASSUME hkFails' = hkFails, HkSafe => HkSafe' PROVE HkInv'
  BY <1>1, <1>3 DEF HkInv, HkSafe
<1>4. CASE HkStart
  <2>1. ASSUME HkSafe PROVE HkSafe'
    <3>1. HkOnionWhole <=> HkWhole(HkPair("identity_sk", "identity_pk"))
                           /\ HkWhole(HkPair("onion_sk", "onion_pk"))
      BY <2>1 DEF HkOnionWhole, HkWhole, HkPair, HkSafe, HkDisk
    <3>2. CASE HkOnionWhole
      BY <1>4, <2>1, <3>1, <3>2, HkLoadInv DEF HkStart
    <3>3. CASE ~HkOnionWhole
      BY <1>4, <2>1, <3>1, <3>3, HkKeygenInv DEF HkStart
    <3> QED BY <3>2, <3>3
  <2> QED BY <1>3, <1>4, <2>1 DEF HkStart
<1>5. CASE HkOpen
  BY <1>3, <1>5, HkOpenInv DEF HkOpen
<1>6. CASE HkWrite
  BY <1>3, <1>6, HkWriteInv DEF HkWrite
<1>7. CASE HkDone
  BY <1>3, <1>7, HkDoneInv DEF HkDone
<1>8. CASE HkCrash
  BY <1>3, <1>8, HkCrashInv DEF HkCrash
<1>9. CASE UNCHANGED hkVars
  BY <1>9 DEF HkInv, hkVars, HkTypeOK, HkDisk, HkMemory, HkWrites, HkSaving, HkOnionWhole,
              HkPending, HkWriting
<1> QED BY <1>2, <1>4, <1>5, <1>6, <1>7, <1>8, <1>9 DEF HkNext

\* The invariant gives the property.
LEMMA HkInvSound == HkInv => HkKeysSound
<1> SUFFICES ASSUME HkInv, hkFails = 0, hkPc # "down"
             PROVE  /\ \A k \in DOMAIN hkMem : hkMem[k].sk = hkMem[k].pk
                    /\ hkFiles["host"][1] # 0 => hkFiles["host"][1] = hkMem.id.pk
  BY DEF HkKeysSound
<1>t. HkTypeOK /\ HkDisk /\ HkMemory /\ HkWrites /\ HkSaving  BY DEF HkInv
<1>1. DOMAIN hkMem = {"id", "kem", "falcon"}  BY <1>t DEF HkTypeOK, HkMemRec
<1>2. ASSUME hkFiles["host"][1] # 0 PROVE "identity_pk" \notin HkPending
  <2>1. HkOnionWhole /\ "host" \notin HkPending  BY <1>t, <1>2 DEF HkDisk, HkWrites
  <2>2. CASE hkPc = "saving"
    BY <1>t, <2>1, <2>2 DEF HkSaving
  <2>3. CASE hkPc = "loading"
    BY <1>t, <2>3 DEF HkSaving
  <2>4. CASE hkPc = "up"
    BY <1>t, <2>4 DEF HkWrites, HkWriting
  <2> QED BY <1>t, <2>2, <2>3, <2>4 DEF HkTypeOK
<1> QED BY <1>t, <1>1, <1>2 DEF HkMemory, HkDisk

\* HsKeysSound: for any number of key generations and crashes, as long as no
\* write fails, no start of the service takes a secret key with a public key
\* of another generation, and a host name on disk names the identity in use
\* (moor_hs_init, moor_hs_load_keys, moor_hs_save_keys).
THEOREM HsKeysSound == HkSpec => []HkKeysSound
<1>1. HkInit => HkInv  BY HkInitInv
<1>2. HkInv /\ [HkNext]_hkVars => HkInv'  BY HkNextInv
<1>3. HkInv => HkKeysSound  BY HkInvSound
<1> QED BY <1>1, <1>2, <1>3, PTL DEF HkSpec

-----------------------------------------------------------------------------
(* Rendezvous with a hidden service (HiddenService), for any number of       *)
(* clients, slots and repeated cells.  What is joined at the relay is the    *)
(* service's own: a cookie is stored only while its client waits, an         *)
(* INTRODUCE2 is on its way only after the client stored one, and the number *)
(* of a circuit is never used again.  How far two circuits for one cookie    *)
(* are apart rests on the replay ring, whose last entries are those of the   *)
(* INTRODUCE2s accepted last.                                                *)

\* A slot for a rendezvous circuit.
HsRps == [cookie : HsClients, at : Nat, nth : Nat \ {0}] \cup {HsNoRp}

\* The record of the service keeps its fields.
HsShape(s) ==
    /\ s = [slots |-> s.slots, flag |-> s.flag, period |-> s.period, seed |-> s.seed,
            rev |-> s.rev, rp |-> s.rp]
    /\ s.rp \in [HsRpSet -> HsRps]

\* An INTRODUCE2 is on its way only for a client that has sent INTRODUCE1.
HsNetSent ==
    \A m \in hsNet : /\ m = <<m[1], m[2]>> /\ m[2] \in HsClients
                     /\ hsClient[m[2]].pc \notin {"idle", "rp"}

\* A cookie is stored only for a client that waits.
HsCookiesAwaited ==
    \A k \in hsCookies : k.cookie \in HsClients /\ hsClient[k.cookie].pc \in {"rp", "wait"}

HsJoinTyped == hsJoin \subseteq HsClients \X Nat

\* The numbers of circuits are those of INTRODUCE2s accepted already.
HsNumbered ==
    /\ hsNow \in Nat /\ hsTaken \in Nat
    /\ \A p \in hsJoin : p[2] \in 1..hsTaken
    /\ \A r \in HsRpSet : hs.rp[r] # HsNoRp => hs.rp[r].nth <= hsTaken

HsClientShape ==
    hsClient = [c \in HsClients |-> [pc |-> hsClient[c].pc, desc |-> hsClient[c].desc,
                                     intro |-> hsClient[c].intro]]

HsInv ==
    /\ HsShape(hs) /\ HsClientShape /\ HsNetSent /\ HsCookiesAwaited /\ HsJoinTyped /\ HsNumbered
    /\ HsJoinedToOwn /\ HsJoinedOnce

\* A step that leaves the clients, the rendezvous relay and the rendezvous
\* circuits alone keeps the invariant.
LEMMA HsQuiet ==
    ASSUME HsInv, HsShape(hs'), hs'.rp = hs.rp, hsNet' \subseteq hsNet,
           UNCHANGED <<hsCookies, hsJoin, hsClient, hsTaken>>, hsNow' \in Nat
    PROVE  HsInv'
<1>1. HsClientShape'  BY DEF HsInv, HsClientShape
<1>2. HsNetSent'  BY DEF HsInv, HsNetSent
<1>3. HsCookiesAwaited' /\ HsJoinTyped' /\ HsNumbered' /\ HsJoinedToOwn' /\ HsJoinedOnce'
  BY DEF HsInv, HsCookiesAwaited, HsJoinTyped, HsNumbered, HsJoinedToOwn, HsJoinedOnce
<1>4. QED  BY <1>1, <1>2, <1>3 DEF HsInv

\* Other values of the other fields.
LEMMA HsFieldsSet ==
    ASSUME NEW s, HsShape(s), NEW flag, NEW rev
    PROVE  /\ HsShape([s EXCEPT !.flag = flag, !.rev = rev])
           /\ [s EXCEPT !.flag = flag, !.rev = rev].rp = s.rp
<1> DEFINE x == [s EXCEPT !.flag = flag]
<1>1. [s EXCEPT !.flag = flag, !.rev = rev] = [x EXCEPT !.rev = rev]  OBVIOUS
<1>2. HsShape(x) /\ x.rp = s.rp  BY DEF HsShape
<1> HIDE DEF x
<1>3. HsShape([x EXCEPT !.rev = rev]) /\ [x EXCEPT !.rev = rev].rp = x.rp  BY <1>2 DEF HsShape
<1>4. QED  BY <1>1, <1>2, <1>3

\* What a restart sets.
HsReset(s, slots, flag, period, seed, rev, rp) ==
    [s EXCEPT !.slots = slots, !.flag = flag, !.period = period, !.seed = seed, !.rev = rev,
              !.rp = rp]

\* A restart keeps the fields.
LEMMA HsAllSet ==
    ASSUME NEW s, HsShape(s), NEW slots, NEW flag, NEW period, NEW seed, NEW rev,
           NEW rp \in [HsRpSet -> HsRps]
    PROVE  /\ HsShape(HsReset(s, slots, flag, period, seed, rev, rp))
           /\ HsReset(s, slots, flag, period, seed, rev, rp).rp = rp
<1> DEFINE t1 == [s EXCEPT !.slots = slots]
           t2 == [t1 EXCEPT !.flag = flag]
           t3 == [t2 EXCEPT !.period = period]
           t4 == [t3 EXCEPT !.seed = seed]
           t5 == [t4 EXCEPT !.rev = rev]
<1>1. HsReset(s, slots, flag, period, seed, rev, rp) = [t5 EXCEPT !.rp = rp]  BY DEF HsReset
<1>2. HsShape(t1)  BY DEF HsShape
<1> HIDE DEF t1
<1>3. HsShape(t2)  BY <1>2 DEF HsShape
<1> HIDE DEF t2
<1>4. HsShape(t3)  BY <1>3 DEF HsShape
<1> HIDE DEF t3
<1>5. HsShape(t4)  BY <1>4 DEF HsShape
<1> HIDE DEF t4
<1>6. HsShape(t5)  BY <1>5 DEF HsShape
<1> HIDE DEF t5
<1>7. HsShape([t5 EXCEPT !.rp = rp]) /\ [t5 EXCEPT !.rp = rp].rp = rp  BY <1>6 DEF HsShape
<1>8. QED  BY <1>1, <1>7

\* Establishing and rotating introduction points keep the other fields.
LEMMA HsServiceKept ==
    ASSUME NEW s, HsShape(s), NEW where, NEW rev
    PROVE  /\ HsShape(HsEstablish(s, where)) /\ HsEstablish(s, where).rp = s.rp
           /\ HsShape(HsRotated(s)) /\ HsRotated(s).rp = s.rp
           /\ HsShape([s EXCEPT !.flag = FALSE, !.rev = rev])
           /\ [s EXCEPT !.flag = FALSE, !.rev = rev].rp = s.rp
<1>1. HsShape(HsEstablish(s, where)) /\ HsEstablish(s, where).rp = s.rp
  BY DEF HsShape, HsEstablish
<1>2. HsShape(HsRotated(s)) /\ HsRotated(s).rp = s.rp
  <2> DEFINE out == {i \in HsSlotSet \ HsMissing(s) :
                        hsNow - s.slots[i].at >= HsLifetime \/ s.slots[i].n >= HsMaxIntroductions}
             f == [i \in HsSlotSet |-> IF i \in out THEN HsNull ELSE s.slots[i]]
             left == [s EXCEPT !.slots = f]
             b == s.flag \/ HsMissing(left) # {}
  <2>1. HsRotated(s) = [left EXCEPT !.flag = left.flag \/ HsMissing(left) # {}]
    BY DEF HsRotated
  <2> HIDE DEF f
  <2>2. HsShape(left) /\ left.rp = s.rp  BY DEF HsShape
  <2> HIDE DEF left
  <2>3. QED  BY <2>1, <2>2 DEF HsShape
<1>3. /\ HsShape([s EXCEPT !.flag = FALSE, !.rev = rev])
      /\ [s EXCEPT !.flag = FALSE, !.rev = rev].rp = s.rp
  BY HsFieldsSet
<1>4. QED  BY <1>1, <1>2, <1>3

\* hs_intro_rotation_cb.
LEMMA HsIntroTimerKeeps ==
    ASSUME HsInv, NEW where, HsIntroTimer(where)
    PROVE  HsInv' /\ hs'.rp = hs.rp
<1> DEFINE rev == IF hs.flag THEN HsNextRev(hs) ELSE hs.rev
           base == [hs EXCEPT !.flag = FALSE, !.rev = rev]
           built == HsEstablish(base, where)
           done == HsRotated(IF hs.flag THEN built ELSE hs)
<1>1. hs' = done  BY DEF HsIntroTimer
<1>2. HsShape(hs)  BY DEF HsInv
<1>3. HsShape(base) /\ base.rp = hs.rp  BY <1>2, HsServiceKept
<1>4. HsShape(built) /\ built.rp = hs.rp
  <2> HIDE DEF base
  <2> QED
    BY <1>3, HsServiceKept
<1>5. HsShape(done) /\ done.rp = hs.rp
  <2>1. HsShape(IF hs.flag THEN built ELSE hs) /\ (IF hs.flag THEN built ELSE hs).rp = hs.rp
    <3> HIDE DEF built
    <3> QED
      BY <1>2, <1>4
  <2> HIDE DEF built
  <2>2. QED  BY <2>1, HsServiceKept
<1> HIDE DEF done
<1>6. hsNet' \subseteq hsNet /\ UNCHANGED <<hsCookies, hsJoin, hsClient, hsTaken>> /\ hsNow' \in Nat
  BY DEF HsIntroTimer, hsRendezvous, hsClients, hsReplay, HsInv, HsNumbered
<1>7. QED  BY <1>1, <1>5, <1>6, HsQuiet

\* The relay of a slot loses the circuit; the service notices; its keys, seed
\* and descriptors change; time passes.
LEMMA HsOthersKeep ==
    ASSUME HsInv,
           \/ \E i \in HsSlotSet : HsRelayLoses(i) \/ \E lost \in BOOLEAN : HsIntroLost(i, lost)
           \/ HsKeyRotation \/ HsSeedRotation \/ HsRepublish \/ HsRepublished \/ HsTick
    PROVE  HsInv' /\ hs'.rp = hs.rp
<1>1. HsShape(hs)  BY DEF HsInv
<1>2. HsShape(hs') /\ hs'.rp = hs.rp
  BY <1>1 DEF HsShape, HsRelayLoses, HsIntroLost, HsKeyRotation, HsSeedRotation, HsRepublish,
     HsRepublished, HsTick
<1>3. hsNet' \subseteq hsNet /\ UNCHANGED <<hsCookies, hsJoin, hsClient, hsTaken>>
  BY DEF HsRelayLoses, HsIntroLost, HsKeyRotation, HsSeedRotation, HsRepublish,
     HsRepublished, HsTick, hsRendezvous, hsClients, hsReplay
<1>3a. hsNow' \in Nat
  <2>1. hsNow \in Nat  BY DEF HsInv, HsNumbered
  <2>2. hsNow' = hsNow \/ hsNow' = hsNow + 1
    BY DEF HsRelayLoses, HsIntroLost, HsKeyRotation, HsSeedRotation, HsRepublish,
       HsRepublished, HsTick
  <2> QED BY <2>1, <2>2
<1>4. QED  BY <1>1, <1>2, <1>3, <1>3a, HsQuiet

\* A restart of the service: it has no circuit any more.
LEMMA HsRestartKeeps ==
    ASSUME HsInv, NEW where, HsRestart(where)
    PROVE  HsInv' /\ hs'.rp = [r \in HsRpSet |-> HsNoRp]
<1> DEFINE fresh == [hs EXCEPT !.slots = [i \in HsSlotSet |-> HsNull], !.flag = FALSE,
                               !.period = HsPeriodNow, !.seed = IF @ = 0 THEN 0 ELSE hsNow + 1,
                               !.rev = HsNextRev(hs), !.rp = [r \in HsRpSet |-> HsNoRp]]
<1>1. hs' = HsEstablish(fresh, where)  BY DEF HsRestart
<1>2. HsShape(fresh) /\ fresh.rp = [r \in HsRpSet |-> HsNoRp]
  <2> DEFINE slots == [i \in HsSlotSet |-> HsNull]
             seed == IF hs.seed = 0 THEN 0 ELSE hsNow + 1
             rp == [r \in HsRpSet |-> HsNoRp]
             flag == FALSE
             t == HsReset(hs, slots, flag, HsPeriodNow, seed, HsNextRev(hs), rp)
  <2>1. HsShape(hs) /\ rp \in [HsRpSet -> HsRps]  BY DEF HsInv, HsRps
  <2>2. HsShape(t) /\ t.rp = rp
    <3> HIDE DEF slots, seed, rp, flag
    <3> QED
      BY <2>1, HsAllSet
  <2>3. fresh = t  BY DEF HsReset
  <2> HIDE DEF t, fresh
  <2>4. QED  BY <2>2, <2>3
<1> HIDE DEF fresh
<1>3. HsShape(hs') /\ hs'.rp = [r \in HsRpSet |-> HsNoRp]  BY <1>1, <1>2, HsServiceKept
<1>4. hsNet' = {} /\ UNCHANGED <<hsCookies, hsJoin, hsClient, hsTaken, hsNow>>
  BY DEF HsRestart, hsClients, hsRendezvous
<1>5. HsClientShape' /\ HsCookiesAwaited'  BY <1>4 DEF HsInv, HsClientShape, HsCookiesAwaited
<1>6. HsNetSent' /\ HsJoinTyped' /\ HsNumbered' /\ HsJoinedOnce'
  BY <1>3, <1>4 DEF HsInv, HsNetSent, HsJoinTyped, HsNumbered, HsJoinedOnce
<1>7. HsJoinedToOwn'
  <2>1. \A p \in hsJoin : p[2] # 0  BY DEF HsInv, HsNumbered
  <2>2. \A r \in HsRpSet : hs'.rp[r].nth = 0  BY <1>3 DEF HsNoRp
  <2>3. QED  BY <1>4, <2>1, <2>2 DEF HsInv, HsJoinedToOwn
<1>8. QED  BY <1>3, <1>5, <1>6, <1>7 DEF HsInv

\* The state of one client changes.
LEMMA HsSetEffect ==
    ASSUME HsClientShape, NEW c \in HsClients, NEW pc, NEW desc, NEW intro,
           HsSet(c, [pc |-> pc, desc |-> desc, intro |-> intro])
    PROVE  /\ HsClientShape'
           /\ hsClient'[c].pc = pc
           /\ \A d \in HsClients : d # c => hsClient'[d] = hsClient[d]
BY DEF HsClientShape, HsSet

\* A client's record with another state, descriptor and introduction point.
HsWith2(s, pc, desc) == [s EXCEPT !.pc = pc, !.desc = desc]
HsWith3(s, pc, desc, intro) == [s EXCEPT !.pc = pc, !.desc = desc, !.intro = intro]

\* Such a record, field by field.
LEMMA HsRecord ==
    ASSUME NEW s, NEW pc, NEW p, NEW d, NEW i, s = [pc |-> p, desc |-> d, intro |-> i]
    PROVE  [s EXCEPT !.pc = pc] = [pc |-> pc, desc |-> s.desc, intro |-> s.intro]
OBVIOUS

\* The same with a new descriptor.
LEMMA HsRecord2 ==
    ASSUME NEW s, NEW pc, NEW desc, NEW p, NEW d, NEW i,
           s = [pc |-> p, desc |-> d, intro |-> i]
    PROVE  HsWith2(s, pc, desc) = [pc |-> pc, desc |-> desc, intro |-> s.intro]
<1> DEFINE x == [s EXCEPT !.pc = pc]
           y == [x EXCEPT !.desc = desc]
<1>1. x = [pc |-> pc, desc |-> d, intro |-> i]  OBVIOUS
<1>2. HsWith2(s, pc, desc) = y  BY DEF HsWith2
<1> HIDE DEF x
<1>3. y = [pc |-> pc, desc |-> desc, intro |-> i]  BY <1>1
<1> HIDE DEF y
<1>4. QED  BY <1>2, <1>3

\* The same with a new introduction point too.
LEMMA HsRecord3 ==
    ASSUME NEW s, NEW pc, NEW desc, NEW intro, NEW p, NEW d, NEW i,
           s = [pc |-> p, desc |-> d, intro |-> i]
    PROVE  HsWith3(s, pc, desc, intro) = [pc |-> pc, desc |-> desc, intro |-> intro]
<1> DEFINE x == HsWith2(s, pc, desc)
           y == [x EXCEPT !.intro = intro]
<1>1. x = [pc |-> pc, desc |-> desc, intro |-> s.intro]  BY HsRecord2
<1>2. HsWith3(s, pc, desc, intro) = y  BY DEF HsWith2, HsWith3
<1> HIDE DEF x
<1>3. QED  BY <1>1, <1>2

\* moor_hs_client_connect_start.
LEMMA HsConnectStartKeeps ==
    ASSUME HsInv, NEW c \in HsClients, HsConnectStart(c)
    PROVE  HsInv'
<1>1. /\ hsClient[c].pc = "idle"
      /\ UNCHANGED <<hs, hsNet, hsJoin, hsTaken, hsNow>>
  BY DEF HsConnectStart, hsReplay
<1>2. PICK pc, desc, intro : HsSet(c, [pc |-> pc, desc |-> desc, intro |-> intro])
                             /\ pc \in {"rp", "failed"}
                             /\ hsCookies' \subseteq hsCookies
                                  \cup (IF pc = "rp" THEN {[cookie |-> c, at |-> hsNow]} ELSE {})
  <2>1. HsClientShape  BY DEF HsInv
  <2>2. CASE (HsOpensDht(c) \/ HsOpensDa) /\ HsCookieStored
    <3>1. /\ hsCookies' = HsFreshCookies \cup {[cookie |-> c, at |-> hsNow]}
          /\ HsSet(c, HsWith2(hsClient[c], "rp", hsStore))
      BY <2>2 DEF HsConnectStart, HsAwaitEstablished, HsWith2
    <3>2. HsSet(c, [pc |-> "rp", desc |-> hsStore, intro |-> hsClient[c].intro])
      <4>1. HsWith2(hsClient[c], "rp", hsStore)
              = [pc |-> "rp", desc |-> hsStore, intro |-> hsClient[c].intro]
        <5>1. PICK p, d, i : hsClient[c] = [pc |-> p, desc |-> d, intro |-> i]
          BY <2>1 DEF HsClientShape
        <5>2. QED  BY <5>1, HsRecord2, Zenon
      <4>2. QED  BY <3>1, <4>1, Zenon
    <3>3. hsCookies' \subseteq hsCookies \cup {[cookie |-> c, at |-> hsNow]}
      BY <3>1 DEF HsFreshCookies
    <3>4. QED  BY <3>2, <3>3, Zenon
  <2>3. CASE ~((HsOpensDht(c) \/ HsOpensDa) /\ HsCookieStored)
    <3>1. /\ hsCookies' \subseteq hsCookies
          /\ HsSet(c, [hsClient[c] EXCEPT !.pc = "failed"])
      BY <2>3 DEF HsConnectStart, HsAwaitEstablished, HsFreshCookies
    <3>2. HsSet(c, [pc |-> "failed", desc |-> hsClient[c].desc, intro |-> hsClient[c].intro])
      <4>1. PICK p, d, i : hsClient[c] = [pc |-> p, desc |-> d, intro |-> i]
        BY <2>1 DEF HsClientShape
      <4>2. QED  BY <3>1, <4>1, HsRecord, Zenon
    <3>3. "failed" # "rp"  OBVIOUS
    <3>4. QED  BY <3>1, <3>2, <3>3, Zenon
  <2>4. QED  BY <2>2, <2>3
<1>3. /\ HsClientShape' /\ hsClient'[c].pc = pc
      /\ \A d \in HsClients : d # c => hsClient'[d] = hsClient[d]
  BY <1>2, HsSetEffect DEF HsInv
<1>4. HsNetSent'
  <2> SUFFICES ASSUME NEW m \in hsNet
               PROVE  /\ m = <<m[1], m[2]>> /\ m[2] \in HsClients
                      /\ hsClient'[m[2]].pc \notin {"idle", "rp"}
    BY <1>1 DEF HsNetSent
  <2>1. m = <<m[1], m[2]>> /\ m[2] \in HsClients /\ hsClient[m[2]].pc \notin {"idle", "rp"}
    BY DEF HsInv, HsNetSent
  <2>2. QED  BY <2>1, <1>1, <1>3
<1>5. HsCookiesAwaited'
  <2> SUFFICES ASSUME NEW k \in hsCookies'
               PROVE  k.cookie \in HsClients /\ hsClient'[k.cookie].pc \in {"rp", "wait"}
    BY DEF HsCookiesAwaited
  <2>1. CASE k \in hsCookies
    <3>1. k.cookie \in HsClients /\ hsClient[k.cookie].pc \in {"rp", "wait"}
      BY <2>1 DEF HsInv, HsCookiesAwaited
    <3>2. QED  BY <3>1, <1>1, <1>3
  <2>2. CASE k \notin hsCookies
    <3>1. k = [cookie |-> c, at |-> hsNow] /\ pc = "rp"  BY <1>2, <2>2
    <3>2. QED  BY <3>1, <1>3
  <2>3. QED  BY <2>1, <2>2
<1>6. HsJoinedToOwn'
  <2> SUFFICES ASSUME NEW p \in hsJoin
               PROVE  /\ \A r \in HsRpSet : hs'.rp[r].nth = p[2] => hs'.rp[r].cookie = p[1]
                      /\ hsClient'[p[1]].pc \in {"wait", "joined"}
                      /\ \A k \in hsCookies' : k.cookie # p[1]
    BY <1>1 DEF HsJoinedToOwn
  <2>1. /\ \A r \in HsRpSet : hs.rp[r].nth = p[2] => hs.rp[r].cookie = p[1]
        /\ hsClient[p[1]].pc \in {"wait", "joined"}
        /\ \A k \in hsCookies : k.cookie # p[1]
        /\ p[1] \in HsClients
    BY DEF HsInv, HsJoinedToOwn, HsJoinTyped
  <2>2. p[1] # c  BY <2>1, <1>1
  <2>3. \A k \in hsCookies' : k.cookie # p[1]  BY <1>2, <2>1, <2>2
  <2>4. QED  BY <2>1, <2>2, <2>3, <1>1, <1>3
<1>7. HsShape(hs)' /\ HsJoinTyped' /\ HsNumbered' /\ HsJoinedOnce'
  BY <1>1 DEF HsInv, HsShape, HsJoinTyped, HsNumbered, HsJoinedOnce
<1>8. QED  BY <1>3, <1>4, <1>5, <1>6, <1>7 DEF HsInv

\* INTRODUCE1 and the wait for RENDEZVOUS2.
LEMMA HsIntroduceKeeps ==
    ASSUME HsInv, NEW c \in HsClients, NEW r, HsIntroduce(c, r)
    PROVE  HsInv'
<1>1. /\ hsClient[c].pc = "rp"
      /\ UNCHANGED <<hs, hsCookies, hsJoin, hsTaken, hsNow>>
  BY DEF HsIntroduce, hsRendezvous, hsReplay
<1>2. \A m \in hsNet' : m \in hsNet \/ \E i : m = <<i, c>>  BY DEF HsIntroduce
<1>3. /\ HsClientShape' /\ hsClient'[c].pc = "wait"
      /\ \A d \in HsClients : d # c => hsClient'[d] = hsClient[d]
  <2>1. HsClientShape  BY DEF HsInv
  <2>2. HsSet(c, HsWith3(hsClient[c], "wait", HsNoDesc, r))  BY DEF HsIntroduce, HsWith3
  <2>3. HsSet(c, [pc |-> "wait", desc |-> HsNoDesc, intro |-> r])
    <3>1. HsWith3(hsClient[c], "wait", HsNoDesc, r)
            = [pc |-> "wait", desc |-> HsNoDesc, intro |-> r]
      <4>1. PICK p, d, i : hsClient[c] = [pc |-> p, desc |-> d, intro |-> i]
        BY <2>1 DEF HsClientShape
      <4>2. QED  BY <4>1, HsRecord3, SMT
    <3>2. QED  BY <2>2, <3>1, Zenon
  <2>4. QED  BY <2>1, <2>3, HsSetEffect
<1>4. HsNetSent'
  <2> SUFFICES ASSUME NEW m \in hsNet'
               PROVE  /\ m = <<m[1], m[2]>> /\ m[2] \in HsClients
                      /\ hsClient'[m[2]].pc \notin {"idle", "rp"}
    BY DEF HsNetSent
  <2>1. CASE m \in hsNet
    <3>1. m = <<m[1], m[2]>> /\ m[2] \in HsClients /\ hsClient[m[2]].pc \notin {"idle", "rp"}
      BY <2>1 DEF HsInv, HsNetSent
    <3>2. QED  BY <3>1, <1>1, <1>3
  <2>2. CASE m \notin hsNet
    BY <2>2, <1>2, <1>3
  <2>3. QED  BY <2>1, <2>2
<1>5. HsCookiesAwaited'
  <2> SUFFICES ASSUME NEW k \in hsCookies
               PROVE  k.cookie \in HsClients /\ hsClient'[k.cookie].pc \in {"rp", "wait"}
    BY <1>1 DEF HsCookiesAwaited
  <2>1. k.cookie \in HsClients /\ hsClient[k.cookie].pc \in {"rp", "wait"}
    BY DEF HsInv, HsCookiesAwaited
  <2>2. QED  BY <2>1, <1>3
<1>6. HsJoinedToOwn'
  <2> SUFFICES ASSUME NEW p \in hsJoin
               PROVE  /\ \A q \in HsRpSet : hs.rp[q].nth = p[2] => hs.rp[q].cookie = p[1]
                      /\ hsClient'[p[1]].pc \in {"wait", "joined"}
                      /\ \A k \in hsCookies : k.cookie # p[1]
    BY <1>1 DEF HsJoinedToOwn
  <2>1. /\ \A q \in HsRpSet : hs.rp[q].nth = p[2] => hs.rp[q].cookie = p[1]
        /\ hsClient[p[1]].pc \in {"wait", "joined"}
        /\ \A k \in hsCookies : k.cookie # p[1]
        /\ p[1] \in HsClients
    BY DEF HsInv, HsJoinedToOwn, HsJoinTyped
  <2>2. QED  BY <2>1, <1>3
<1>7. HsShape(hs)' /\ HsJoinTyped' /\ HsNumbered' /\ HsJoinedOnce'
  BY <1>1 DEF HsInv, HsShape, HsJoinTyped, HsNumbered, HsJoinedOnce
<1>8. QED  BY <1>3, <1>4, <1>5, <1>6, <1>7 DEF HsInv

\* RENDEZVOUS2 arrives.
LEMMA HsConnectedKeeps ==
    ASSUME HsInv, NEW c \in HsClients, HsConnected(c)
    PROVE  HsInv'
<1>1. /\ hsClient[c].pc = "wait" /\ \E p \in hsJoin : p[1] = c
      /\ UNCHANGED <<hs, hsNet, hsCookies, hsJoin, hsTaken, hsNow>>
  BY DEF HsConnected, hsRendezvous, hsReplay
<1>2. /\ HsClientShape' /\ hsClient'[c].pc = "joined"
      /\ \A d \in HsClients : d # c => hsClient'[d] = hsClient[d]
  <2>1. HsClientShape  BY DEF HsInv
  <2>2. HsSet(c, [hsClient[c] EXCEPT !.pc = "joined"])  BY DEF HsConnected
  <2>3. HsSet(c, [pc |-> "joined", desc |-> hsClient[c].desc, intro |-> hsClient[c].intro])
    <3>1. PICK p, d, i : hsClient[c] = [pc |-> p, desc |-> d, intro |-> i]
      BY <2>1 DEF HsClientShape
    <3>2. QED  BY <2>2, <3>1, HsRecord, Zenon
  <2>4. QED  BY <2>1, <2>3, HsSetEffect
<1>3. HsNetSent'  BY <1>1, <1>2 DEF HsInv, HsNetSent
<1>4. HsCookiesAwaited'
  <2>1. \A k \in hsCookies : k.cookie # c  BY <1>1 DEF HsInv, HsJoinedToOwn
  <2>2. QED  BY <1>1, <1>2, <2>1 DEF HsInv, HsCookiesAwaited
<1>5. HsJoinedToOwn'  BY <1>1, <1>2 DEF HsInv, HsJoinedToOwn, HsJoinTyped
<1>6. HsShape(hs)' /\ HsJoinTyped' /\ HsNumbered' /\ HsJoinedOnce'
  BY <1>1 DEF HsInv, HsShape, HsJoinTyped, HsNumbered, HsJoinedOnce
<1>7. QED  BY <1>2, <1>3, <1>4, <1>5, <1>6 DEF HsInv

\* A client gives up or closes.
LEMMA HsLeavesKeeps ==
    ASSUME HsInv, NEW c \in HsClients, HsLeaves(c)
    PROVE  HsInv'
<1>1. /\ hsCookies' = {k \in hsCookies : k.cookie # c}
      /\ hsJoin' = {p \in hsJoin : p[1] # c}
      /\ UNCHANGED <<hs, hsNet, hsTaken, hsNow>>
  BY DEF HsLeaves, hsReplay
<1>2. /\ HsClientShape' /\ hsClient'[c].pc = "failed"
      /\ \A d \in HsClients : d # c => hsClient'[d] = hsClient[d]
  <2>1. HsClientShape /\ HsSet(c, [pc |-> "failed", desc |-> HsNoDesc, intro |-> "none"])
    BY DEF HsInv, HsLeaves
  <2>2. QED  BY <2>1, HsSetEffect
<1>3. HsNetSent'  BY <1>1, <1>2 DEF HsInv, HsNetSent
<1>4. HsCookiesAwaited'  BY <1>1, <1>2 DEF HsInv, HsCookiesAwaited
<1>5. HsJoinTyped' /\ HsJoinedToOwn' /\ HsJoinedOnce'
  <2>1. HsJoinTyped' /\ HsJoinedOnce'  BY <1>1 DEF HsInv, HsJoinTyped, HsJoinedOnce
  <2>2. HsJoinedToOwn'
    <3> SUFFICES ASSUME NEW p \in hsJoin, p[1] # c
                 PROVE  /\ \A r \in HsRpSet : hs.rp[r].nth = p[2] => hs.rp[r].cookie = p[1]
                        /\ hsClient'[p[1]].pc \in {"wait", "joined"}
                        /\ \A k \in hsCookies : k.cookie # p[1]
      <4>1. hsJoin' \subseteq hsJoin /\ hsCookies' \subseteq hsCookies
            /\ \A p \in hsJoin' : p[1] # c
        BY <1>1
      <4> QED BY <1>1, <4>1 DEF HsJoinedToOwn
    <3>1. /\ \A r \in HsRpSet : hs.rp[r].nth = p[2] => hs.rp[r].cookie = p[1]
          /\ hsClient[p[1]].pc \in {"wait", "joined"}
          /\ \A k \in hsCookies : k.cookie # p[1]
          /\ p[1] \in HsClients
      BY DEF HsInv, HsJoinedToOwn, HsJoinTyped
    <3>2. QED  BY <3>1, <1>2
  <2>3. QED  BY <2>1, <2>2
<1>6. HsShape(hs)' /\ HsNumbered'  BY <1>1 DEF HsInv, HsShape, HsNumbered
<1>7. QED  BY <1>2, <1>3, <1>4, <1>5, <1>6 DEF HsInv

\* A rendezvous circuit of the service goes.
LEMMA HsRpDiesKeeps ==
    ASSUME HsInv, NEW r \in HsRpSet, HsRpDies(r)
    PROVE  HsInv' /\ hs'.rp = [hs.rp EXCEPT ![r] = HsNoRp]
<1>1. /\ hs' = [hs EXCEPT !.rp[r] = HsNoRp]
      /\ UNCHANGED <<hsNet, hsCookies, hsJoin, hsClient, hsTaken, hsNow>>
  BY DEF HsRpDies, hsRendezvous, hsClients, hsReplay
<1>2. HsShape(hs)' /\ hs'.rp = [hs.rp EXCEPT ![r] = HsNoRp]
  <2> DEFINE f == [hs.rp EXCEPT ![r] = HsNoRp]
  <2>1. hs.rp \in [HsRpSet -> HsRps] /\ f \in [HsRpSet -> HsRps]  BY DEF HsInv, HsShape, HsRps
  <2>2. hs' = [hs EXCEPT !.rp = f]  BY <1>1
  <2> HIDE DEF f
  <2>3. QED  BY <2>1, <2>2 DEF HsInv, HsShape, f
<1>3. HsClientShape' /\ HsNetSent' /\ HsCookiesAwaited' /\ HsJoinTyped' /\ HsJoinedOnce'
  BY <1>1 DEF HsInv, HsClientShape, HsNetSent, HsCookiesAwaited, HsJoinTyped, HsJoinedOnce
<1>4. \A q \in HsRpSet : hs'.rp[q] = HsNoRp \/ hs'.rp[q] = hs.rp[q]  BY <1>2 DEF HsInv, HsShape
<1>5. HsNumbered'  BY <1>1, <1>4 DEF HsInv, HsNumbered
<1>6. HsJoinedToOwn'
  <2>1. \A p \in hsJoin : p[2] # HsNoRp.nth  BY DEF HsInv, HsNumbered, HsNoRp
  <2>2. QED  BY <1>1, <1>4, <2>1 DEF HsInv, HsJoinedToOwn
<1>7. QED  BY <1>2, <1>3, <1>5, <1>6 DEF HsInv

\* The relay drops a join.
LEMMA HsJoinDropsKeeps ==
    ASSUME HsInv, NEW p \in hsJoin, HsJoinDrops(p)
    PROVE  HsInv'
<1>1. /\ hsJoin' \subseteq hsJoin
      /\ UNCHANGED <<hs, hsNet, hsCookies, hsClient, hsTaken, hsNow>>
  BY DEF HsJoinDrops, hsClients, hsReplay
<1>2. QED
  BY <1>1 DEF HsInv, HsShape, HsClientShape, HsNetSent, HsCookiesAwaited, HsJoinTyped, HsNumbered,
              HsJoinedToOwn, HsJoinedOnce

\* What an INTRODUCE2 does: it is refused, or counted with or without a circuit
\* in a free slot, for which RENDEZVOUS1 is sent.
HsIntroduced(c) ==
    \/ /\ HsReplayed(c) /\ hs'.rp = hs.rp
       /\ UNCHANGED <<hsSeen, hsTaken, hsCookies, hsJoin>>
    \/ /\ ~HsReplayed(c) /\ hsSeen' = HsRemember(c) /\ hsTaken' = hsTaken + 1
       /\ \/ hs'.rp = hs.rp /\ hsCookies' \subseteq hsCookies /\ UNCHANGED hsJoin
          \/ \E r \in HsFreeRp : hs'.rp = [hs.rp EXCEPT ![r] = HsCircuit(c)] /\ HsRendezvous1(c)

\* A nonempty set of naturals has a least element.
LEMMA HsLeastNat ==
    ASSUME NEW T \in SUBSET Nat, T # {}
    PROVE  \E x \in T : \A y \in T : x <= y
<1> DEFINE R == {ss \in Nat \X Nat : ss[1] < ss[2]}
<1>0. IsWellFoundedOn(R, Nat)  BY NatLessThanWellFounded, Zenon DEF OpToRel
<1> HIDE DEF R
<1>1. PICK x \in T : \A y \in T : ~(<<y, x>> \in R)  BY <1>0, WFMin
<1>2. \A y \in T : ~(y < x)  BY <1>1 DEF R
<1> QED BY <1>2

\* The smallest free slot is free.
LEMMA HsFirstFree ==
    ASSUME HsFreeRp # {}
    PROVE  (CHOOSE x \in HsFreeRp : \A y \in HsFreeRp : x <= y) \in HsFreeRp
<1>1. HsFreeRp \subseteq Nat  BY HsAssumption DEF HsFreeRp, HsRpSet
<1>2. \E x \in HsFreeRp : \A y \in HsFreeRp : x <= y  BY <1>1, HsLeastNat
<1>3. QED  BY <1>2

\* Counting the introduction keeps the other fields.
LEMMA HsCounted ==
    ASSUME NEW s, HsShape(s), NEW i, NEW t, t = [s EXCEPT !.slots[i].n = @ + 1]
    PROVE  HsShape(t) /\ t.rp = s.rp
BY DEF HsShape

\* moor_hs_handle_introduce and moor_hs_rendezvous.
LEMMA HsIntroduce2Effect ==
    ASSUME HsInv, NEW m \in hsNet, NEW built \in BOOLEAN, HsIntroduce2(m, built)
    PROVE  /\ HsShape(hs') /\ hsNet' \subseteq hsNet /\ UNCHANGED <<hsClient, hsNow>>
           /\ HsIntroduced(m[2])
<1> DEFINE s == [hs EXCEPT !.slots[m[1]].n = @ + 1]
           c == m[2]
           r == CHOOSE x \in HsFreeRp : \A y \in HsFreeRp : x <= y
           t == [s EXCEPT !.rp[r] = HsCircuit(c)]
<1>1. hsNet' \subseteq hsNet /\ UNCHANGED <<hsClient, hsNow>>  BY DEF HsIntroduce2, hsClients
<1>2. HsShape(hs) /\ c \in HsClients  BY DEF HsInv, HsNetSent
<1>3. HsShape(s) /\ s.rp = hs.rp  BY <1>2, HsCounted
<1>4. \/ HsReplayed(c) /\ hs' = s /\ UNCHANGED <<hsReplay, hsRendezvous>>
      \/ /\ ~HsReplayed(c) /\ hsSeen' = HsRemember(c) /\ hsTaken' = hsTaken + 1
         /\ \/ hs' = s /\ UNCHANGED hsRendezvous
            \/ HsFreeRp # {} /\ hs' = t /\ HsRendezvous1(c)
            \/ hs' = s /\ hsCookies' = {k \in hsCookies : k.cookie # c} /\ UNCHANGED hsJoin
  BY DEF HsIntroduce2
<1> HIDE DEF s, r
<1>5. CASE ~HsReplayed(c) /\ hsSeen' = HsRemember(c) /\ hsTaken' = hsTaken + 1
           /\ HsFreeRp # {} /\ hs' = t /\ HsRendezvous1(c)
  <2>1. r \in HsFreeRp  BY <1>5, HsFirstFree DEF r
  <2> DEFINE f == [hs.rp EXCEPT ![r] = HsCircuit(c)]
  <2>2. HsCircuit(c) \in HsRps  BY <1>2 DEF HsCircuit, HsRps, HsInv, HsNumbered
  <2>3. f \in [HsRpSet -> HsRps]
    <3> HIDE DEF HsRps, HsCircuit
    <3> QED
      BY <1>2, <2>2 DEF HsShape
  <2>4. hs' = [s EXCEPT !.rp = f]  BY <1>3, <1>5
  <2> HIDE DEF f
  <2>5. HsShape(hs') /\ hs'.rp = f  BY <1>3, <2>3, <2>4 DEF HsShape
  <2>6. HsIntroduced(c)  BY <1>5, <2>1, <2>5 DEF HsIntroduced, f
  <2>7. QED  BY <1>1, <2>5, <2>6
<1>6. CASE hs' = s
  <2>1. HsShape(hs') /\ hs'.rp = hs.rp  BY <1>3, <1>6
  <2>2. CASE HsReplayed(c)
    BY <1>1, <1>4, <2>1, <2>2 DEF HsIntroduced, hsReplay, hsRendezvous
  <2>3. CASE ~HsReplayed(c) /\ ~(HsFreeRp # {} /\ hs' = t /\ HsRendezvous1(c))
    BY <1>1, <1>4, <2>1, <2>3 DEF HsIntroduced, hsRendezvous
  <2>4. QED  BY <1>4, <1>5, <2>2, <2>3
<1>7. QED  BY <1>4, <1>5, <1>6

\* An INTRODUCE2 keeps the invariant.
LEMMA HsIntroduce2Keeps ==
    ASSUME HsInv, NEW m \in hsNet, NEW built \in BOOLEAN, HsIntroduce2(m, built)
    PROVE  HsInv'
<1> DEFINE c == m[2]
<1>1. /\ HsShape(hs') /\ hsNet' \subseteq hsNet /\ UNCHANGED <<hsClient, hsNow>>
      /\ HsIntroduced(c)
  BY HsIntroduce2Effect
<1>2. c \in HsClients /\ hsClient[c].pc \notin {"idle", "rp"}  BY DEF HsInv, HsNetSent
<1> HIDE DEF c
<1>3. HsClientShape' /\ HsNetSent'  BY <1>1 DEF HsInv, HsClientShape, HsNetSent
<1>0. hsTaken \in Nat /\ hsTaken' \in Nat /\ hsTaken <= hsTaken' /\ hsNow \in Nat
  BY <1>1 DEF HsIntroduced, HsInv, HsNumbered
<1>4. CASE /\ hs'.rp = hs.rp /\ hsCookies' \subseteq hsCookies /\ UNCHANGED hsJoin
  <2>1. HsCookiesAwaited' /\ HsJoinTyped' /\ HsJoinedToOwn' /\ HsJoinedOnce'
    BY <1>1, <1>4 DEF HsInv, HsCookiesAwaited, HsJoinTyped, HsJoinedToOwn, HsJoinedOnce
  <2>2. ASSUME NEW r \in HsRpSet, hs.rp[r] # HsNoRp PROVE hs.rp[r].nth <= hsTaken'
    <3>1. hs.rp[r].nth \in Nat /\ hs.rp[r].nth <= hsTaken
      BY <2>2 DEF HsInv, HsShape, HsRps, HsNumbered
    <3>2. QED  BY <1>0, <3>1
  <2>3. HsNumbered'  BY <1>0, <1>1, <1>4, <2>2 DEF HsInv, HsNumbered, HsJoinTyped
  <2>4. QED  BY <1>1, <1>3, <2>1, <2>3 DEF HsInv
<1>5. ASSUME NEW r \in HsFreeRp, hs'.rp = [hs.rp EXCEPT ![r] = HsCircuit(c)], HsRendezvous1(c),
             hsTaken' = hsTaken + 1
      PROVE  HsInv'
  <2> DEFINE n == hsTaken + 1
  <2>1. hs.rp \in [HsRpSet -> HsRps] /\ r \in HsRpSet  BY <1>5 DEF HsInv, HsShape, HsFreeRp
  <2>2. /\ HsCircuit(c).nth = n /\ HsCircuit(c).cookie = c /\ n \in Nat
        /\ \A q \in HsRpSet : q # r => hs'.rp[q] = hs.rp[q]
        /\ hs'.rp[r] = HsCircuit(c)
    <3>1. HsCircuit(c).nth = n /\ HsCircuit(c).cookie = c /\ n \in Nat  BY <1>0 DEF HsCircuit
    <3> HIDE DEF HsCircuit
    <3>2. QED  BY <1>5, <2>1, <3>1
  <2>3. \A q \in HsRpSet : hs.rp[q].nth \in Nat /\ hs.rp[q].nth <= hsTaken
    <3>1. ASSUME NEW q \in HsRpSet PROVE hs.rp[q].nth \in Nat /\ hs.rp[q].nth <= hsTaken
      <4>1. CASE hs.rp[q] = HsNoRp
        BY <1>0, <4>1 DEF HsNoRp
      <4>2. CASE hs.rp[q] # HsNoRp
        BY <4>2 DEF HsInv, HsShape, HsRps, HsNumbered
      <4>3. QED  BY <4>1, <4>2
    <3>2. QED  BY <3>1
  <2>4. \A p \in hsJoin : p[1] \in HsClients /\ p[2] \in 1..hsTaken
    BY DEF HsInv, HsJoinTyped, HsNumbered
  <2>5. \A p \in hsJoin : /\ \A q \in HsRpSet : hs'.rp[q].nth = p[2] => hs'.rp[q].cookie = p[1]
                          /\ hsClient[p[1]].pc \in {"wait", "joined"}
                          /\ \A k \in hsCookies : k.cookie # p[1]
    <3>1. \A p \in hsJoin : p[2] # n  BY <1>0, <2>4
    <3>2. QED  BY <2>2, <3>1 DEF HsInv, HsJoinedToOwn
  <2>6. \A q \in HsRpSet : hs'.rp[q].nth <= hsTaken'  BY <1>0, <1>5, <2>2, <2>3
  <2>7. CASE ~\E k \in hsCookies : k.cookie = c
    <3>1. UNCHANGED <<hsCookies, hsJoin>>  BY <1>5, <2>7 DEF HsRendezvous1, hsRendezvous
    <3>2. HsCookiesAwaited' /\ HsJoinTyped' /\ HsJoinedOnce'
      BY <1>1, <3>1 DEF HsInv, HsCookiesAwaited, HsJoinTyped, HsJoinedOnce
    <3>3. HsJoinedToOwn'  BY <1>1, <2>5, <3>1 DEF HsJoinedToOwn
    <3>4. HsNumbered'  BY <1>0, <1>1, <1>5, <2>4, <2>6, <3>1 DEF HsNumbered
    <3>5. QED  BY <1>1, <1>3, <3>2, <3>3, <3>4 DEF HsInv
  <2>8. CASE \E k \in hsCookies : k.cookie = c
    <3>1. /\ hsCookies' = {k \in hsCookies : k.cookie # c} /\ hsJoin' = hsJoin \cup {<<c, n>>}
      BY <1>5, <2>2, <2>8 DEF HsRendezvous1
    <3>2. \A p \in hsJoin : p[1] # c  BY <2>5, <2>8
    <3>3. hsClient[c].pc = "wait"  BY <1>2, <2>8 DEF HsInv, HsCookiesAwaited
    <3>4. HsCookiesAwaited'  BY <1>1, <3>1 DEF HsInv, HsCookiesAwaited
    <3>5. HsJoinTyped'  BY <1>2, <2>2, <3>1 DEF HsInv, HsJoinTyped
    <3>6. HsJoinedOnce'
      <4>1. \A p \in hsJoin : p[2] # n  BY <1>0, <2>4
      <4> HIDE DEF n
      <4>2. QED  BY <3>1, <3>2, <4>1 DEF HsInv, HsJoinedOnce
    <3>7. HsJoinedToOwn'
      <4> SUFFICES ASSUME NEW p \in hsJoin'
                   PROVE  /\ \A q \in HsRpSet : hs'.rp[q].nth = p[2] => hs'.rp[q].cookie = p[1]
                          /\ hsClient[p[1]].pc \in {"wait", "joined"}
                          /\ \A k \in hsCookies' : k.cookie # p[1]
        BY <1>1 DEF HsJoinedToOwn
      <4>1. CASE p \in hsJoin
        BY <2>5, <3>1, <4>1
      <4>2. CASE p = <<c, n>>
        <5>1. \A q \in HsRpSet : hs'.rp[q].nth = n => q = r  BY <1>0, <2>2, <2>3
        <5>2. QED  BY <2>2, <3>1, <3>3, <4>2, <5>1
      <4>3. QED  BY <3>1, <4>1, <4>2
    <3>8. HsNumbered'
      <4>1. \A p \in hsJoin' : p[2] \in 1..hsTaken'  BY <1>0, <1>5, <2>4, <3>1
      <4>2. QED  BY <1>0, <1>1, <2>6, <4>1 DEF HsNumbered
    <3>9. QED  BY <1>1, <1>3, <3>4, <3>5, <3>6, <3>7, <3>8 DEF HsInv
  <2>9. QED  BY <2>7, <2>8
<1>6. QED  BY <1>1, <1>4, <1>5 DEF HsIntroduced

\* The service starts with nothing joined.
LEMMA HsInitInv == HsInit => HsInv
<1> SUFFICES ASSUME HsInit PROVE HsInv
  OBVIOUS
<1>1. HsShape(hs)  BY DEF HsInit, HsShape, HsRps
<1>2. HsClientShape  BY DEF HsInit, HsClientShape
<1>3. HsNetSent /\ HsCookiesAwaited /\ HsJoinTyped /\ HsJoinedToOwn /\ HsJoinedOnce
  BY DEF HsInit, HsNetSent, HsCookiesAwaited, HsJoinTyped, HsJoinedToOwn, HsJoinedOnce
<1>4. HsNumbered  BY DEF HsInit, HsNumbered
<1>5. QED  BY <1>1, <1>2, <1>3, <1>4 DEF HsInv

\* Every step keeps the invariant.
LEMMA HsNextInv == HsInv /\ [HsNext]_hsVars => HsInv'
<1> SUFFICES ASSUME HsInv, [HsNext]_hsVars PROVE HsInv'
  OBVIOUS
<1>1. CASE UNCHANGED hsVars
  <2>1. UNCHANGED <<hs, hsNet, hsCookies, hsJoin, hsClient, hsTaken, hsNow>>
    BY <1>1 DEF hsVars, hsRendezvous, hsClients, hsReplay
  <2>2. HsShape(hs') /\ hsNow' \in Nat  BY <2>1 DEF HsInv, HsNumbered
  <2>3. QED  BY <2>1, <2>2, HsQuiet
<1>2. CASE \E where \in HsWheres : HsIntroTimer(where) \/ HsRestart(where)
  BY <1>2, HsIntroTimerKeeps, HsRestartKeeps
<1>3. CASE \/ \E i \in HsSlotSet : HsRelayLoses(i) \/ \E lost \in BOOLEAN : HsIntroLost(i, lost)
           \/ HsKeyRotation \/ HsSeedRotation \/ HsRepublish \/ HsRepublished \/ HsTick
  BY <1>3, HsOthersKeep
<1>4. CASE \E c \in HsClients : \/ HsConnectStart(c)
                                \/ HsConnected(c) \/ HsLeaves(c)
                                \/ \E r \in HsRelays : HsIntroduce(c, r)
  BY <1>4, HsConnectStartKeeps, HsConnectedKeeps, HsLeavesKeeps, HsIntroduceKeeps
<1>5. CASE \E m \in hsNet, built \in BOOLEAN : HsIntroduce2(m, built)
  BY <1>5, HsIntroduce2Keeps
<1>6. CASE (\E r \in HsRpSet : HsRpDies(r)) \/ \E p \in hsJoin : HsJoinDrops(p)
  BY <1>6, HsRpDiesKeeps, HsJoinDropsKeeps
<1>7. QED  BY <1>1, <1>2, <1>3, <1>4, <1>5, <1>6 DEF HsNext

\* The entry of circuit x in the ring: it is there while no more than
\* HsReplaySlots INTRODUCE2s were accepted since, x's own included.
HsEntries == [cookie : HsClients, at : Nat]
HsEntry(x) == [cookie |-> x.cookie, at |-> x.at]
HsKnown(seen, taken, x) ==
    taken - x.nth < HsReplaySlots =>
        /\ Len(seen) - (taken - x.nth) \in DOMAIN seen
        /\ seen[Len(seen) - (taken - x.nth)] = HsEntry(x)

\* The ring, and the circuits it accounts for.
HsMemory ==
    /\ hsSeen \in Seq(HsEntries) /\ Len(hsSeen) <= HsReplaySlots
    /\ \A r \in HsRpSet : hs.rp[r] # HsNoRp => HsKnown(hsSeen, hsTaken, hs.rp[r])
    /\ HsCircuitsDiffer

\* An INTRODUCE2 that is accepted moves every entry one place from the end.
LEMMA HsRing ==
    ASSUME hsSeen \in Seq(HsEntries), Len(hsSeen) <= HsReplaySlots, NEW c \in HsClients, hsNow \in Nat
    PROVE  /\ HsRemember(c) \in Seq(HsEntries) /\ Len(HsRemember(c)) <= HsReplaySlots
           /\ HsReplaySlots > 0 => /\ Len(HsRemember(c)) \in DOMAIN HsRemember(c)
                                   /\ HsRemember(c)[Len(HsRemember(c))] = [cookie |-> c, at |-> hsNow]
           /\ \A d \in Nat : d + 1 < HsReplaySlots /\ Len(hsSeen) - d \in DOMAIN hsSeen =>
                 /\ Len(HsRemember(c)) - (d + 1) \in DOMAIN HsRemember(c)
                 /\ HsRemember(c)[Len(HsRemember(c)) - (d + 1)] = hsSeen[Len(hsSeen) - d]
<1> DEFINE e == [cookie |-> c, at |-> hsNow]
           s == Append(hsSeen, e)
<1>1. e \in HsEntries  BY DEF HsEntries
<1> HIDE DEF e
<1>2. PICK n \in Nat : n = Len(hsSeen) /\ DOMAIN hsSeen = 1..n  BY LenProperties
<1>3. HsReplaySlots \in Nat /\ n <= HsReplaySlots  BY <1>2, HsAssumption
<1>4. /\ s \in Seq(HsEntries) /\ Len(s) = n + 1 /\ DOMAIN s = 1..(n + 1)
      /\ s[n + 1] = e
      /\ \A k \in 1..n : s[k] = hsSeen[k]
  <2>1. s \in Seq(HsEntries) /\ Len(s) = n + 1 /\ DOMAIN s = 1..(n + 1)
    BY <1>1, <1>2, AppendProperties
  <2>2. s[n + 1] = e /\ \A k \in 1..n : s[k] = hsSeen[k]  BY <1>1, <1>2, AppendProperties
  <2> QED BY <2>1, <2>2
<1> HIDE DEF s
<1>5. CASE n + 1 > HsReplaySlots
  <2>1. HsRemember(c) = Tail(s)  BY <1>4, <1>5 DEF HsRemember, s, e
  <2>2. n = HsReplaySlots  BY <1>3, <1>5
  <2> DEFINE t == Tail(s)
  <2>3. t \in Seq(HsEntries) /\ Len(t) = n /\ DOMAIN t = 1..n /\ \A k \in 1..n : t[k] = s[k + 1]
    BY <1>4, EmptySeq, HeadTailProperties, LenProperties
  <2> HIDE DEF t
  <2>4. n > 0 => n \in DOMAIN t /\ t[n] = e  BY <1>4, <2>3
  <2>5. ASSUME NEW d \in Nat, d + 1 < n, n - d \in 1..n
        PROVE  n - (d + 1) \in DOMAIN t /\ t[n - (d + 1)] = hsSeen[n - d]
    <3>1. n - (d + 1) \in 1..n /\ (n - (d + 1)) + 1 = n - d  BY <2>5
    <3>2. t[n - (d + 1)] = s[n - d]  BY <2>3, <3>1
    <3>3. QED  BY <1>4, <2>3, <2>5, <3>1, <3>2
  <2>6. QED  BY <1>2, <2>1, <2>2, <2>3, <2>4, <2>5 DEF t, e
<1>6. CASE ~(n + 1 > HsReplaySlots)
  <2>1. HsRemember(c) = s  BY <1>4, <1>6 DEF HsRemember, s, e
  <2>2. n + 1 <= HsReplaySlots  BY <1>3, <1>6
  <2>3. ASSUME NEW d \in Nat, n - d \in 1..n
        PROVE  (n + 1) - (d + 1) \in DOMAIN s /\ s[(n + 1) - (d + 1)] = hsSeen[n - d]
    <3>1. (n + 1) - (d + 1) = n - d /\ n - d \in 1..(n + 1)  BY <2>3
    <3>2. QED  BY <1>4, <2>3, <3>1
  <2>4. n + 1 \in 1..(n + 1)  OBVIOUS
  <2>5. QED  BY <1>2, <1>4, <2>1, <2>2, <2>3, <2>4 DEF e
<1>7. QED  BY <1>5, <1>6

\* The ring starts empty.
LEMMA HsMemoryInit == HsInit => HsMemory
<1> SUFFICES ASSUME HsInit PROVE HsMemory
  OBVIOUS
<1>1. hsSeen = <<>> /\ hs.rp = [r \in HsRpSet |-> HsNoRp]  BY DEF HsInit
<1>2. <<>> \in Seq(HsEntries) /\ Len(<<>>) <= HsReplaySlots  BY HsAssumption
<1>3. QED  BY <1>1, <1>2 DEF HsMemory, HsCircuitsDiffer

\* A step that forgets no cookie and builds no circuit.
LEMMA HsMemoryQuiet ==
    ASSUME HsMemory, hs'.rp = hs.rp, UNCHANGED <<hsSeen, hsTaken>>
    PROVE  HsMemory'
BY DEF HsMemory, HsCircuitsDiffer

\* moor_hs_handle_introduce: an accepted cookie is not in the ring with an
\* entry that still counts.
LEMMA HsMemoryIntroduce2 ==
    ASSUME HsInv, HsMemory, NEW m \in hsNet, NEW built \in BOOLEAN, HsIntroduce2(m, built)
    PROVE  HsMemory'
<1> DEFINE c == m[2]
           x == HsCircuit(c)
<1>1. HsIntroduced(c)  BY HsIntroduce2Effect
<1>2. c \in HsClients  BY DEF HsInv, HsNetSent
<1>3. hsNow \in Nat /\ hsTaken \in Nat /\ HsReplaySlots \in Nat /\ HsReplayTtl \in Nat
  BY HsAssumption DEF HsInv, HsNumbered
<1>4. hs.rp \in [HsRpSet -> HsRps]  BY DEF HsInv, HsShape
<1> HIDE DEF c
<1>5. CASE HsReplayed(c)
  BY <1>1, <1>5, HsMemoryQuiet DEF HsIntroduced
<1>6. CASE ~HsReplayed(c)
  <2>1. hsSeen' = HsRemember(c) /\ hsTaken' = hsTaken + 1  BY <1>1, <1>6 DEF HsIntroduced
  <2>2. /\ hsSeen' \in Seq(HsEntries) /\ Len(hsSeen') <= HsReplaySlots
        /\ HsReplaySlots > 0 => /\ Len(hsSeen') \in DOMAIN hsSeen'
                                /\ hsSeen'[Len(hsSeen')] = [cookie |-> c, at |-> hsNow]
        /\ \A d \in Nat : d + 1 < HsReplaySlots /\ Len(hsSeen) - d \in DOMAIN hsSeen =>
              /\ Len(hsSeen') - (d + 1) \in DOMAIN hsSeen'
              /\ hsSeen'[Len(hsSeen') - (d + 1)] = hsSeen[Len(hsSeen) - d]
    BY <1>2, <1>3, <2>1, HsRing DEF HsMemory
  <2>3. ASSUME NEW r \in HsRpSet, hs.rp[r] # HsNoRp
        PROVE  /\ hs.rp[r].nth \in Nat /\ hs.rp[r].nth <= hsTaken /\ hs.rp[r].at \in Nat
               /\ HsKnown(hsSeen, hsTaken, hs.rp[r])
    BY <1>4, <2>3 DEF HsInv, HsNumbered, HsRps, HsMemory
  <2>4. ASSUME NEW r \in HsRpSet, hs.rp[r] # HsNoRp
        PROVE  HsKnown(hsSeen', hsTaken', hs.rp[r])
    <3>1. PICK d \in Nat : d = hsTaken - hs.rp[r].nth  BY <1>3, <2>3, <2>4
    <3>2. hsTaken' - hs.rp[r].nth = d + 1  BY <1>3, <2>1, <2>3, <2>4, <3>1
    <3>3. d < HsReplaySlots => /\ Len(hsSeen) - d \in DOMAIN hsSeen
                               /\ hsSeen[Len(hsSeen) - d] = HsEntry(hs.rp[r])
      BY <2>3, <2>4, <3>1 DEF HsKnown
    <3>4. d + 1 < HsReplaySlots => d < HsReplaySlots  BY <1>3
    <3>5. d + 1 < HsReplaySlots => /\ Len(hsSeen') - (d + 1) \in DOMAIN hsSeen'
                                   /\ hsSeen'[Len(hsSeen') - (d + 1)] = HsEntry(hs.rp[r])
      BY <2>2, <3>3, <3>4
    <3>6. QED  BY <3>2, <3>5 DEF HsKnown
  <2>5. /\ x.cookie = c /\ x.at = hsNow /\ x.nth = hsTaken + 1
        /\ HsEntry(x) = [cookie |-> c, at |-> hsNow] /\ x # HsNoRp
    BY <1>3 DEF HsCircuit, HsEntry, HsNoRp
  <2> HIDE DEF x
  <2>6. HsKnown(hsSeen', hsTaken', x)
    <3>1. hsTaken' - x.nth = 0  BY <1>3, <2>1, <2>5
    <3>2. Len(hsSeen') \in Nat  BY <2>2, LenProperties
    <3>3. PICK l \in Nat : l = Len(hsSeen') /\ l - 0 = l  BY <3>2
    <3>4. 0 < HsReplaySlots => HsReplaySlots > 0  BY <1>3
    <3>5. QED  BY <2>2, <2>5, <3>1, <3>3, <3>4 DEF HsKnown
  <2>7. ASSUME NEW r \in HsRpSet, hs.rp[r] # HsNoRp, hs.rp[r].cookie = c
        PROVE  hsNow - hs.rp[r].at > HsReplayTtl \/ x.nth - hs.rp[r].nth > HsReplaySlots
    <3>1. PICK d \in Nat : d = hsTaken - hs.rp[r].nth  BY <1>3, <2>3, <2>7
    <3>2. x.nth - hs.rp[r].nth = d + 1  BY <1>3, <2>3, <2>5, <2>7, <3>1
    <3>3. CASE d < HsReplaySlots
      <4>1. PICK k \in DOMAIN hsSeen : hsSeen[k] = HsEntry(hs.rp[r])
        BY <2>3, <2>7, <3>1, <3>3 DEF HsKnown
      <4>2. hsSeen[k].cookie = c /\ hsSeen[k].at = hs.rp[r].at  BY <2>7, <4>1 DEF HsEntry
      <4>3. ~(hsNow - hs.rp[r].at <= HsReplayTtl)  BY <1>6, <4>2 DEF HsReplayed
      <4>4. QED  BY <1>3, <2>3, <2>7, <4>3
    <3>4. CASE ~(d < HsReplaySlots)
      BY <1>3, <3>2, <3>4
    <3>5. QED  BY <3>3, <3>4
  <2>8. CASE hs'.rp = hs.rp
    BY <2>2, <2>4, <2>8 DEF HsMemory, HsCircuitsDiffer
  <2>9. ASSUME NEW w \in HsRpSet, hs'.rp = [hs.rp EXCEPT ![w] = x]
        PROVE  HsMemory'
    <3>1. hs'.rp[w] = x /\ \A q \in HsRpSet : q # w => hs'.rp[q] = hs.rp[q]  BY <1>4, <2>9
    <3>2. \A r \in HsRpSet : hs'.rp[r] # HsNoRp => HsKnown(hsSeen', hsTaken', hs'.rp[r])
      BY <2>4, <2>6, <3>1
    <3>3. ASSUME NEW q \in HsRpSet, NEW r \in HsRpSet, q # r, hs'.rp[q] # HsNoRp, hs'.rp[r] # HsNoRp
          PROVE  /\ hs'.rp[q].nth # hs'.rp[r].nth
                 /\ hs'.rp[q].cookie = hs'.rp[r].cookie /\ hs'.rp[q].nth < hs'.rp[r].nth =>
                      \/ hs'.rp[r].at - hs'.rp[q].at > HsReplayTtl
                      \/ hs'.rp[r].nth - hs'.rp[q].nth > HsReplaySlots
      <4>1. CASE q # w /\ r # w
        BY <3>1, <3>3, <4>1 DEF HsMemory, HsCircuitsDiffer
      <4>2. CASE r = w
        <5>1. hs'.rp[r] = x /\ hs'.rp[q] = hs.rp[q]  BY <3>1, <3>3, <4>2
        <5>2. hs.rp[q].nth \in Nat /\ hs.rp[q].nth <= hsTaken  BY <2>3, <3>3, <5>1
        <5>3. hs.rp[q].nth # x.nth  BY <1>3, <2>5, <5>2
        <5>4. QED  BY <2>5, <2>7, <3>3, <5>1, <5>3
      <4>3. CASE q = w
        <5>1. hs'.rp[q] = x /\ hs'.rp[r] = hs.rp[r]  BY <3>1, <3>3, <4>3
        <5>2. hs.rp[r].nth \in Nat /\ hs.rp[r].nth <= hsTaken  BY <2>3, <3>3, <5>1
        <5>3. hs.rp[r].nth # x.nth /\ ~(x.nth < hs.rp[r].nth)  BY <1>3, <2>5, <5>2
        <5>4. QED  BY <5>1, <5>3
      <4>4. QED  BY <4>1, <4>2, <4>3
    <3>4. HsCircuitsDiffer'  BY <3>3 DEF HsCircuitsDiffer
    <3>5. QED  BY <2>2, <3>2, <3>4 DEF HsMemory
  <2>10. QED  BY <1>1, <1>6, <2>8, <2>9 DEF HsIntroduced, HsFreeRp, x
<1>7. QED  BY <1>5, <1>6

\* Every step keeps what the ring says.
LEMMA HsMemoryNext ==
    ASSUME HsInv, HsMemory, [HsNext]_hsVars
    PROVE  HsMemory'
<1>1. CASE UNCHANGED hsVars
  BY <1>1, HsMemoryQuiet DEF hsVars, hsReplay
<1>2. ASSUME NEW where, HsIntroTimer(where)
      PROVE  HsMemory'
  <2>1. hs'.rp = hs.rp  BY <1>2, HsIntroTimerKeeps
  <2>2. UNCHANGED <<hsSeen, hsTaken>>  BY <1>2 DEF HsIntroTimer, hsReplay
  <2>3. QED  BY <2>1, <2>2, HsMemoryQuiet
<1>3. ASSUME NEW where, HsRestart(where)
      PROVE  HsMemory'
  <2>1. hs'.rp = [r \in HsRpSet |-> HsNoRp]  BY <1>3, HsRestartKeeps
  <2>2. hsSeen' = <<>>  BY <1>3 DEF HsRestart
  <2>3. <<>> \in Seq(HsEntries) /\ Len(<<>>) <= HsReplaySlots  BY HsAssumption
  <2>4. QED  BY <2>1, <2>2, <2>3 DEF HsMemory, HsCircuitsDiffer
<1>4. CASE \/ \E i \in HsSlotSet : HsRelayLoses(i) \/ \E lost \in BOOLEAN : HsIntroLost(i, lost)
           \/ HsKeyRotation \/ HsSeedRotation \/ HsRepublish \/ HsRepublished \/ HsTick
  <2>1. hs'.rp = hs.rp  BY <1>4, HsOthersKeep
  <2>2. UNCHANGED <<hsSeen, hsTaken>>
    BY <1>4 DEF HsRelayLoses, HsIntroLost, HsKeyRotation, HsSeedRotation, HsRepublish,
       HsRepublished, HsTick, hsReplay
  <2>3. QED  BY <2>1, <2>2, HsMemoryQuiet
<1>5. CASE \/ \E c \in HsClients : \/ HsConnectStart(c)
                                   \/ HsConnected(c) \/ HsLeaves(c)
                                   \/ \E r \in HsRelays : HsIntroduce(c, r)
           \/ \E p \in hsJoin : HsJoinDrops(p)
  <2>1. UNCHANGED <<hs, hsSeen, hsTaken>>
    BY <1>5 DEF HsConnectStart, HsConnected, HsLeaves, HsIntroduce, HsJoinDrops, hsReplay
  <2>2. QED  BY <2>1, HsMemoryQuiet
<1>6. CASE \E m \in hsNet, built \in BOOLEAN : HsIntroduce2(m, built)
  BY <1>6, HsMemoryIntroduce2
<1>7. ASSUME NEW r \in HsRpSet, HsRpDies(r)
      PROVE  HsMemory'
  <2>1. hs'.rp = [hs.rp EXCEPT ![r] = HsNoRp] /\ UNCHANGED <<hsSeen, hsTaken>>
    BY <1>7, HsRpDiesKeeps DEF HsRpDies, hsReplay
  <2>2. hs.rp \in [HsRpSet -> HsRps]  BY DEF HsInv, HsShape
  <2>3. \A q \in HsRpSet : hs'.rp[q] = HsNoRp \/ hs'.rp[q] = hs.rp[q]  BY <2>1, <2>2
  <2>4. HsCircuitsDiffer'  BY <2>3 DEF HsMemory, HsCircuitsDiffer
  <2>5. \A q \in HsRpSet : hs'.rp[q] # HsNoRp => HsKnown(hsSeen', hsTaken', hs'.rp[q])
    BY <2>1, <2>3 DEF HsMemory
  <2>6. QED  BY <2>1, <2>4, <2>5 DEF HsMemory
<1>8. QED  BY <1>1, <1>2, <1>3, <1>4, <1>5, <1>6, <1>7 DEF HsNext

\* Whatever INTRODUCE2 cells are repeated, however many clients connect, and
\* whenever circuits are lost and the service restarts, a rendezvous is with
\* one client and once: a circuit joined at the relay is the one the service
\* built for that client, neither is joined twice (relay.c, RELAY_RENDEZVOUS1),
\* and the service keeps a second circuit for a cookie only when the replay
\* ring of moor_hs_handle_introduce could not know it any more.
THEOREM HsServesOnce == HsSpec => []HsRendezvousOnce
<1>1. HsInit => HsInv /\ HsMemory  BY HsInitInv, HsMemoryInit
<1>2. HsInv /\ HsMemory /\ [HsNext]_hsVars => HsInv' /\ HsMemory'  BY HsNextInv, HsMemoryNext
<1>3. HsInv /\ HsMemory => HsRendezvousOnce  BY DEF HsInv, HsMemory, HsRendezvousOnce
<1>4. QED
  BY <1>1, <1>2, <1>3, PTL DEF HsSpec
=============================================================================
