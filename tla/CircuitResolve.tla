---------------------------- MODULE CircuitResolve ----------------------------
(***************************************************************************)
(* Resolving a name over a circuit (circuit.c, moor_circuit_resolve), as    *)
(* the DNS port and SOCKS RESOLVE do: RELAY_RESOLVE goes out on a cached    *)
(* circuit that may be carrying streams, and the call holds the event loop  *)
(* until a cell of that circuit arrives or its poll runs out.               *)
(***************************************************************************)
EXTENDS Integers, Sequences, FiniteSets

CONSTANTS CrNames, CrMaxAsked, CrMaxData   \* names; bounds: names asked, data cells

VARIABLES crAsking,  \* the name the call waits for, "" outside it
          crSent,    \* names asked that the exit has not answered, in order
          crWire,    \* the circuit's cells on the way to us: "data", or the name answered
          crLast,    \* the last outcome: [name, for] ("" in for: failed)
          crData,    \* data cells of the streams: [sent, read]
          crAsked

crVars == <<crAsking, crSent, crWire, crLast, crData, crAsked>>

CrInit ==
  /\ crAsking = "" /\ crSent = <<>> /\ crWire = <<>>
  /\ crLast = [name |-> "", for |-> ""] /\ crData = [sent |-> 0, read |-> 0]
  /\ crAsked = 0

(* moor_socks5_get_any_circuit and the query.                               *)
CrAsk(n) ==
  /\ crAsking = "" /\ crAsked < CrMaxAsked
  /\ crAsking' = n /\ crSent' = Append(crSent, n) /\ crAsked' = crAsked + 1
  /\ UNCHANGED <<crWire, crLast, crData>>

(* The first cell of the circuit is taken for the answer; any other command *)
(* than RELAY_RESOLVED ends the attempt.                                    *)
CrArrives ==
  /\ crAsking # "" /\ crWire # <<>>
  /\ crWire' = Tail(crWire) /\ crAsking' = ""
  /\ crLast' = [name |-> crAsking, for |-> IF Head(crWire) = "data" THEN "" ELSE Head(crWire)]
  /\ UNCHANGED <<crSent, crData, crAsked>>

CrTimesOut ==
  /\ crAsking # "" /\ crWire = <<>>
  /\ crAsking' = "" /\ crLast' = [name |-> crAsking, for |-> ""]
  /\ UNCHANGED <<crSent, crWire, crData, crAsked>>

(* circuit_read_cb, when the loop runs: data goes to its stream, an answer  *)
(* nobody waits for is dropped.                                             *)
CrRead ==
  /\ crAsking = "" /\ crWire # <<>>
  /\ crWire' = Tail(crWire)
  /\ crData' = IF Head(crWire) = "data" THEN [crData EXCEPT !.read = @ + 1] ELSE crData
  /\ UNCHANGED <<crAsking, crSent, crLast, crAsked>>

(* The exit answers the names in turn, and sends the streams' data.         *)
CrExitAnswers ==
  /\ crSent # <<>>
  /\ crWire' = Append(crWire, Head(crSent)) /\ crSent' = Tail(crSent)
  /\ UNCHANGED <<crAsking, crLast, crData, crAsked>>

CrExitSends ==
  /\ crData.sent < CrMaxData
  /\ crData' = [crData EXCEPT !.sent = @ + 1] /\ crWire' = Append(crWire, "data")
  /\ UNCHANGED <<crAsking, crSent, crLast, crAsked>>

CrNext ==
  \/ \E n \in CrNames : CrAsk(n)
  \/ CrArrives \/ CrTimesOut \/ CrRead \/ CrExitAnswers \/ CrExitSends

-----------------------------------------------------------------------------
(* An answer given for a name is the exit's answer for that name, however   *)
(* late the answers before it came (circuit.c, moor_circuit_resolve: "Sends *)
(* RELAY_RESOLVE, waits for RELAY_RESOLVED.").                              *)
CrAnswersOwn == crLast.for \in {"", crLast.name}

(* Resolving a name takes no data from the streams of the circuit it uses   *)
(* (socks5.c, moor_socks5_get_any_circuit: "circuit stays available for     *)
(* reuse").                                                                 *)
CrDataKept ==
  crData.read + Cardinality({i \in DOMAIN crWire : crWire[i] = "data"}) = crData.sent
=============================================================================
