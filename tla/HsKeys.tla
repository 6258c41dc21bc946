------------------------------- MODULE HsKeys -------------------------------
(***************************************************************************)
(* The key files of a hidden service (hidden_service.c): loading,          *)
(* generating, saving, and crashes between two writes.  A key pair is the  *)
(* number of its generation, 0 when its file is missing or short.  The     *)
(* address commits to the identity, ML-KEM and Falcon keys; installations  *)
(* made by an earlier version lack the last one or two.                    *)
(***************************************************************************)
EXTENDS Integers, Sequences

CONSTANTS HkMaxGen, HkMaxFails    \* bounds: key generations, failed writes

VARIABLES
    hkFiles,    \* [HkNames -> generation, or address for "host"]
    hkMem,      \* [id, kem, falcon], each [sk, pk]
    hkTodo,     \* writes still to do: <<file, value>>
    hkPc,       \* "down", "loading" or "saving" (with writes to do), "up"
    hkGen,      \* last generation made
    hkFails

hkVars == <<hkFiles, hkMem, hkTodo, hkPc, hkGen, hkFails>>

HkNames == {"identity_sk", "identity_pk", "onion_sk", "onion_pk", "kem_sk", "kem_pk",
            "falcon_sk", "falcon_pk", "host"}
\* No host file, and one without contents; an identity is never 0.
HkNoAddress == <<0, 0, 0>>
HkCutOff == <<0, 1, 1>>
HkNoKeys == [id |-> [sk |-> 0, pk |-> 0], kem |-> [sk |-> 0, pk |-> 0],
             falcon |-> [sk |-> 0, pk |-> 0]]

\* moor_hs_compute_address.
HkAddress(m) == <<m.id.pk, m.kem.pk, m.falcon.pk>>

HkPair(sk, pk) == [sk |-> hkFiles[sk], pk |-> hkFiles[pk]]

\* A pair accepted by its secret key alone.
MutHkWhole(pair) == pair.sk # 0

HkWhole(pair) == pair.sk # 0 /\ pair.pk # 0

\* The order in which both files of a pair are written.
HkRewrite(sk, pk, g) == <<<<sk, g>>, <<pk, g>>>>

\* moor_hs_keygen and moor_hs_save_keys.
HkKeygen ==
    LET g == hkGen + 1
        m == [id |-> [sk |-> g, pk |-> g], kem |-> [sk |-> g, pk |-> g],
              falcon |-> [sk |-> g, pk |-> g]]
    IN  /\ hkMem' = m
        /\ hkTodo' = HkRewrite("identity_sk", "identity_pk", g) \o HkRewrite("onion_sk", "onion_pk", g)
                     \o HkRewrite("kem_sk", "kem_pk", g) \o HkRewrite("falcon_sk", "falcon_pk", g)
                     \o <<<<"host", HkAddress(m)>>>>
        /\ hkGen' = g
        /\ hkPc' = "saving"

\* moor_hs_load_keys when identity and onion keys are there: missing ML-KEM
\* or Falcon pairs are generated and written, and the host name only if its
\* file is missing: one that was cut off is there.
HkLoad ==
    LET kem    == HkPair("kem_sk", "kem_pk")
        falcon == HkPair("falcon_sk", "falcon_pk")
        newKem == ~HkWhole(kem)
        newFal == ~HkWhole(falcon)
        g      == hkGen + 1
        m      == [id |-> HkPair("identity_sk", "identity_pk"),
                   kem |-> IF newKem THEN [sk |-> g, pk |-> g] ELSE kem,
                   falcon |-> IF newFal THEN [sk |-> g, pk |-> g] ELSE falcon]
    IN  /\ hkMem' = m
        /\ hkGen' = IF newKem \/ newFal THEN g ELSE hkGen
        /\ hkTodo' = (IF newKem THEN HkRewrite("kem_sk", "kem_pk", g) ELSE <<>>)
                     \o (IF newFal THEN HkRewrite("falcon_sk", "falcon_pk", g) ELSE <<>>)
                     \o (IF hkFiles["host"] = HkNoAddress THEN <<<<"host", HkAddress(m)>>>>
                         ELSE <<>>)
        /\ hkPc' = "loading"

\* moor_hs_init.
HkStart ==
    /\ hkPc = "down"
    /\ hkGen < HkMaxGen
    /\ IF HkWhole(HkPair("identity_sk", "identity_pk")) /\ HkWhole(HkPair("onion_sk", "onion_pk"))
       THEN HkLoad ELSE HkKeygen
    /\ UNCHANGED <<hkFiles, hkFails>>

HkWriting == hkPc \in {"loading", "saving"}
HkEmptyFile(f) == IF f = "host" THEN HkCutOff ELSE 0

\* fopen("wb") truncates; the contents follow.
HkOpen ==
    /\ HkWriting /\ hkTodo # <<>>
    /\ hkFiles[hkTodo[1][1]] # HkEmptyFile(hkTodo[1][1])
    /\ hkFiles' = [hkFiles EXCEPT ![hkTodo[1][1]] = HkEmptyFile(hkTodo[1][1])]
    /\ UNCHANGED <<hkMem, hkTodo, hkPc, hkGen, hkFails>>

HkWrite ==
    /\ HkWriting /\ hkTodo # <<>>
    /\ hkFiles' = [hkFiles EXCEPT ![hkTodo[1][1]] = hkTodo[1][2]]
    /\ hkTodo' = Tail(hkTodo)
    /\ UNCHANGED <<hkMem, hkPc, hkGen, hkFails>>

\* A write of moor_hs_save_keys fails: saving stops (moor_hs_init goes on),
\* the secret file of a public key that was not written is removed and the
\* secret is cleared in memory.
HkSaveFails ==
    LET f == hkTodo[1][1]
    IN  /\ hkPc = "saving" /\ hkTodo # <<>>
        /\ hkFails < HkMaxFails
        /\ hkFails' = hkFails + 1
        /\ hkFiles' = [hkFiles EXCEPT ![f] = HkEmptyFile(f),
                          !["kem_sk"] = IF f = "kem_pk" THEN 0 ELSE @,
                          !["falcon_sk"] = IF f = "falcon_pk" THEN 0 ELSE @]
        /\ hkMem' = [hkMem EXCEPT !.kem.sk = IF f = "kem_pk" THEN 0 ELSE @,
                                  !.falcon.sk = IF f = "falcon_pk" THEN 0 ELSE @]
        /\ hkTodo' = <<>>
        /\ UNCHANGED <<hkPc, hkGen>>

\* A key write of moor_hs_load_keys fails: it returns an error, and
\* moor_hs_init generates everything anew.
HkLoadFails ==
    /\ hkPc = "loading" /\ hkTodo # <<>> /\ hkTodo[1][1] # "host"
    /\ hkFails < HkMaxFails /\ hkGen < HkMaxGen
    /\ hkFails' = hkFails + 1
    /\ hkFiles' = [hkFiles EXCEPT ![hkTodo[1][1]] = 0]
    /\ HkKeygen

HkDone ==
    /\ HkWriting /\ hkTodo = <<>>
    /\ hkPc' = "up"
    /\ UNCHANGED <<hkFiles, hkMem, hkTodo, hkGen, hkFails>>

HkCrash ==
    /\ hkPc # "down"
    /\ hkPc' = "down"
    /\ hkMem' = HkNoKeys
    /\ hkTodo' = <<>>
    /\ UNCHANGED <<hkFiles, hkGen, hkFails>>

\* An empty directory, or one of a version without ML-KEM or Falcon keys.
HkInit ==
    /\ \E old \in {0, 1}, kem \in {0, 1} :
          /\ kem <= old
          /\ hkFiles = [f \in HkNames |->
                CASE f = "host" -> IF old = 0 THEN HkNoAddress ELSE <<1, kem, 0>>
                  [] f \in {"kem_sk", "kem_pk"} -> kem
                  [] f \in {"falcon_sk", "falcon_pk"} -> 0
                  [] OTHER -> old]
          /\ hkGen = old
    /\ hkMem = HkNoKeys
    /\ hkTodo = <<>>
    /\ hkPc = "down"
    /\ hkFails = 0

HkNext == HkStart \/ HkOpen \/ HkWrite \/ HkSaveFails \/ HkLoadFails \/ HkDone \/ HkCrash

HkSpec == HkInit /\ [][HkNext]_hkVars

-----------------------------------------------------------------------------

\* As long as no write fails, whatever a crash cuts off, a start never takes a secret key with a
\* public key of another generation, and a host name that was written keeps
\* naming the identity of the service (order of the writes in
\* moor_hs_save_keys and moor_hs_load_keys).
HkKeysSound ==
    hkFails = 0 /\ hkPc # "down" =>
        /\ \A k \in DOMAIN hkMem : hkMem[k].sk = hkMem[k].pk
        /\ hkFiles["host"][1] # 0 => hkFiles["host"][1] = hkMem.id.pk

\* A running service holds both halves of every key pair.
HkServes == hkPc = "up" => \A k \in DOMAIN hkMem : hkMem[k].sk = hkMem[k].pk

\* The host name on disk is the address the service answers to.
HkHostnameCurrent == hkPc = "up" => hkFiles["host"] = HkAddress(hkMem)
=============================================================================
