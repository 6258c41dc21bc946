------------------------------ MODULE Fragments ------------------------------
(***************************************************************************)
(* Messages larger than one relay cell (fragment.c): moor_fragment_send at  *)
(* one end of a circuit, moor_fragment_receive in its bounded slots at the  *)
(* other, as the relay (ESTABLISH_INTRO, INTRODUCE1) and the hidden service *)
(* (INTRODUCE2) call them.  Lengths are counted in fragments; the circuit   *)
(* keeps order; a message's identifier is drawn at random, so two messages  *)
(* can share one.                                                           *)
(***************************************************************************)
EXTENDS Integers, Sequences, FiniteSets

CONSTANTS FgIds,      \* identifiers (1 .. 65535)
          FgLens,     \* lengths of messages, in fragments
          FgMaxLen,   \* MOOR_MAX_REASSEMBLY
          FgSlots,    \* MOOR_MAX_PENDING (8)
          FgTimeout,  \* MOOR_FRAGMENT_TIMEOUT_MS
          FgMaxMsgs,  \* bound: messages sent
          FgMaxTime   \* bound: clock

ASSUME FgAssumption ==
  FgLens \subseteq Nat \ {0} /\ {FgMaxLen, FgSlots, FgTimeout} \subseteq Nat

VARIABLES fgSent,  \* per message sent: identifier, length, fragments that went out
          fgNet,   \* cells on the circuit
          fgSlots, \* the active reassembly slots
          fgSeen,  \* per message: when its first and its latest cell were received
          fgGot,   \* payloads handed to their handlers: the message of each part
          fgTime

fgVars == <<fgSent, fgNet, fgSlots, fgSeen, fgGot, fgTime>>

FgInit == /\ fgSent = <<>> /\ fgNet = <<>> /\ fgSlots = {} /\ fgSeen = <<>>
          /\ fgGot = {} /\ fgTime = 0

(* A message that fits goes out as it is.                                   *)
FgCells(m, id, len) ==
  [i \in 1 .. len |-> [msg |-> m, id |-> id, seq |-> i - 1, total |-> len,
                       kind |-> IF len = 1 THEN "whole" ELSE IF i = len THEN "end" ELSE "more"]]

(* moor_fragment_send: the send callback may fail at any cell, and what     *)
(* went before stays sent.                                                  *)
FgSend(id, len, out) ==
  /\ Len(fgSent) < FgMaxMsgs /\ len <= FgMaxLen /\ out <= len
  /\ fgSent' = Append(fgSent, [id |-> id, len |-> len, out |-> out])
  /\ fgNet' = fgNet \o SubSeq(FgCells(Len(fgSent) + 1, id, len), 1, out)
  /\ UNCHANGED <<fgSlots, fgSeen, fgGot, fgTime>>

FgExpired(slots) == {s \in slots : fgTime - s.at > FgTimeout}

FgNewSlot(cell) == [id |-> cell.id, total |-> cell.total, next |-> 0, parts |-> <<>>, at |-> fgTime]

(* A fragment that cannot be used leaves its slot as it is.                 *)
FgFits(slot, cell) ==
  /\ cell.seq = slot.next /\ cell.total = slot.total
  /\ Len(slot.parts) < FgMaxLen

(* The last fragment frees the slot, complete or not.                       *)
MutFgFilled(slots, slot, cell) ==
  LET s == [slot EXCEPT !.next = @ + 1, !.parts = Append(@, cell.msg)]
  IN IF cell.kind = "end"
     THEN [slots |-> (slots \ {slot}) \cup {s},
           done |-> IF Len(s.parts) = s.total THEN {s.parts} ELSE {}]
     ELSE [slots |-> (slots \ {slot}) \cup {s}, done |-> {}]
FgFilled(slots, slot, cell) ==
  LET s == [slot EXCEPT !.next = @ + 1, !.parts = Append(@, cell.msg)]
  IN IF cell.kind = "end"
     THEN [slots |-> slots \ {slot}, done |-> IF Len(s.parts) = s.total THEN {s.parts} ELSE {}]
     ELSE [slots |-> (slots \ {slot}) \cup {s}, done |-> {}]

(* moor_fragment_receive: a message under way is found by its identifier; a *)
(* new one starts with its first fragment, if a slot is free.               *)
FgReceive(cell) ==
  LET live == fgSlots \ FgExpired(fgSlots)
      same == {s \in live : s.id = cell.id}
      slot == CHOOSE s \in same : TRUE
      none == [slots |-> live, done |-> {}]
  IN IF same # {}
     THEN IF FgFits(slot, cell) THEN FgFilled(live, slot, cell) ELSE none
     ELSE IF cell.seq = 0 /\ Cardinality(live) < FgSlots
     THEN FgFilled(live, FgNewSlot(cell), cell) ELSE none

(* The handlers of a relay cell: RELAY_FRAGMENT, RELAY_FRAGMENT_END, and    *)
(* the message's own command.                                               *)
FgRead ==
  /\ fgNet # <<>>
  /\ LET cell == Head(fgNet)
         r == IF cell.kind = "whole" THEN [slots |-> fgSlots, done |-> {<<cell.msg>>}]
              ELSE FgReceive(cell)
     IN /\ fgSlots' = r.slots
        /\ fgGot' = fgGot \cup r.done
        /\ fgSeen' = [m \in DOMAIN fgSeen \cup {cell.msg} |->
             IF m # cell.msg THEN fgSeen[m]
             ELSE [first |-> IF cell.seq = 0 THEN fgTime ELSE fgSeen[m].first, last |-> fgTime]]
  /\ fgNet' = Tail(fgNet)
  /\ UNCHANGED <<fgSent, fgTime>>

FgTick == /\ fgTime < FgMaxTime /\ fgTime' = fgTime + 1
          /\ UNCHANGED <<fgSent, fgNet, fgSlots, fgSeen, fgGot>>

FgNext == \/ \E id \in FgIds, len \in FgLens : \E out \in 0 .. len : FgSend(id, len, out)
          \/ FgRead \/ FgTick

FgSpec == FgInit /\ [][FgNext]_fgVars

-----------------------------------------------------------------------------
FgCollides(m) == \E k \in DOMAIN fgSent : k # m /\ fgSent[k].id = fgSent[m].id

FgArrived(m) == /\ fgSent[m].out = fgSent[m].len
                /\ \A i \in DOMAIN fgNet : fgNet[i].msg # m
                /\ fgSeen[m].last - fgSeen[m].first <= FgTimeout

(* The messages before m that were cut short and can still hold a slot.     *)
FgHolding(m) ==
  {k \in 1 .. (m - 1) : /\ k \in DOMAIN fgSeen /\ fgSent[k].out < fgSent[k].len
                        /\ fgSeen[m].first - fgSeen[k].first <= FgTimeout}

(* Whatever messages are cut short before it, a message whose fragments all *)
(* arrive in time is reassembled, unless its identifier is also another's   *)
(* or the unfinished ones of the last FgTimeout hold every slot; and only   *)
(* messages that share an identifier can end up in one payload.             *)
FgReassembled ==
  /\ \A m \in DOMAIN fgSent :
       FgArrived(m) /\ ~FgCollides(m) /\ Cardinality(FgHolding(m)) < FgSlots
         => [i \in 1 .. fgSent[m].len |-> m] \in fgGot
  /\ \A p \in fgGot : \A i \in DOMAIN p :
       p[i] # p[1] => FgCollides(p[i]) /\ FgCollides(p[1])
=============================================================================
