---------------------------- MODULE CreditWindow ----------------------------
(***************************************************************************)
(* What end-to-end flow control promises, whatever the cells look like: a  *)
(* sender never has more than Window cells unacknowledged, the receiver    *)
(* takes the cells one by one, and cells are acknowledged Increment at a   *)
(* time and only after they were received.                                 *)
(***************************************************************************)
EXTENDS Integers

CONSTANTS Window, Increment

VARIABLES sent, received, acked

Init == sent = 0 /\ received = 0 /\ acked = 0

\* A cell leaves the sender (moor_circuit_send_data, exit_target_read_cb).
Send ==
    /\ sent - acked < Window
    /\ sent' = sent + 1
    /\ UNCHANGED <<received, acked>>

\* A cell is processed by the receiver.
Receive ==
    /\ received < sent
    /\ received' = received + 1
    /\ UNCHANGED <<sent, acked>>

\* The sender accepts one circuit SENDME.
Acknowledge ==
    /\ acked + Increment <= received
    /\ acked' = acked + Increment
    /\ UNCHANGED <<sent, received>>

Next == Send \/ Receive \/ Acknowledge

Spec == Init /\ [][Next]_<<sent, received, acked>>
=============================================================================
