------------------------------- MODULE Conflux -------------------------------
(***************************************************************************)
(* A conflux set (conflux.c): one stream of numbered cells over several     *)
(* circuits, put back in order by a bounded reorder buffer with a timeout.  *)
(* One direction is modelled: the sending end's moor_conflux_send_data and  *)
(* the receiving end as circuit_read_cb drives it (socks5.c), over circuits *)
(* that each keep their own order.  Sequence numbers are permuted on the    *)
(* wire by a keyed bijection that both ends share, so the model sends them  *)
(* as they are.  No caller creates a set yet: the module starts from a new  *)
(* set, and its actions are the functions the callers have.                 *)
(***************************************************************************)
EXTENDS Integers, Sequences, FiniteSets, FiniteSetsExt

CONSTANTS CfCircs,     \* circuits that can become legs
          CfMaxLegs,   \* MOOR_CONFLUX_MAX_LEGS (4)
          CfBuf,       \* MOOR_CONFLUX_REORDER_BUF (32)
          CfTimeout,   \* reorder_timeout_ms (8 to 12 seconds)
          CfRtts,      \* round-trip samples
          CfMaxSeq,    \* bound: cells sent (UINT64_MAX in the code)
          CfMaxTime,   \* bound: clock
          CfMaxFaults  \* bound: failed sends and failed legs

ASSUME CfAssumption == CfBuf \in Nat /\ CfRtts \subseteq Nat

VARIABLES cfLegs,   \* legs[]: circuit (CfNone when NULL), active, sent_count, srtt (0: none)
          cfOwns,   \* circuits whose conflux pointer is the set
          cfSeq,    \* next_send_seq
          cfNet,    \* per circuit: cells on the way, in order
          cfNext,   \* next_recv_seq
          cfHeld,   \* valid entries of reorder[]: sequence number and buffered_at
          cfGot,    \* sequence numbers delivered to the stream, in order
          cfTime, cfFaults

cfVars == <<cfLegs, cfOwns, cfSeq, cfNet, cfNext, cfHeld, cfGot, cfTime, cfFaults>>

\* The null pointer of a leg.
CfNone == "none"

CfLeg(c) == [circ |-> c, active |-> TRUE, sent |-> 0, rtt |-> 0]

(* moor_conflux_create                                                      *)
CfInit ==
  /\ \E c \in CfCircs : cfLegs = <<CfLeg(c)>> /\ cfOwns = {c}
  /\ cfSeq = 0 /\ cfNext = 0 /\ cfHeld = {} /\ cfGot = <<>>
  /\ cfNet = [c \in CfCircs |-> <<>>]
  /\ cfTime = 0 /\ cfFaults = CfMaxFaults

CfUsable(i) == cfLegs[i].active /\ cfLegs[i].circ # CfNone

(* An inactive slot is used again before a new one is opened.               *)
CfAddLeg(c) ==
  /\ c \notin cfOwns /\ cfNet[c] = <<>>
  /\ LET idle == {i \in DOMAIN cfLegs : ~cfLegs[i].active}
     IN \/ idle # {} /\ cfLegs' = [cfLegs EXCEPT ![Min(idle)] = CfLeg(c)]
        \/ idle = {} /\ Len(cfLegs) < CfMaxLegs /\ cfLegs' = Append(cfLegs, CfLeg(c))
  /\ cfOwns' = cfOwns \cup {c}
  /\ UNCHANGED <<cfSeq, cfNet, cfNext, cfHeld, cfGot, cfTime, cfFaults>>

(* The lowest smoothed round-trip time, or without any the lowest count of  *)
(* cells sent: the legs' weights are their equal initial windows.           *)
CfSelectLeg ==
  LET usable == {i \in DOMAIN cfLegs : CfUsable(i)}
      timed == {i \in usable : cfLegs[i].rtt > 0}
      key(i) == IF timed # {} THEN cfLegs[i].rtt ELSE cfLegs[i].sent
      among == IF timed # {} THEN timed ELSE usable
      best == {i \in among : \A j \in among : key(i) <= key(j)}
  IN IF best = {} THEN 0 ELSE Min(best)

CfUpdateRtt(i, sample) ==
  /\ CfUsable(i)
  /\ cfLegs' = [cfLegs EXCEPT ![i].rtt = IF @ = 0 THEN sample ELSE (@ * 7 + sample) \div 8]
  /\ UNCHANGED <<cfOwns, cfSeq, cfNet, cfNext, cfHeld, cfGot, cfTime, cfFaults>>

(* One cell of moor_conflux_send_data.  The number is used up before the    *)
(* cell is handed over, also when that fails.                               *)
CfSend(ok) ==
  LET i == CfSelectLeg
  IN /\ i # 0 /\ cfSeq < CfMaxSeq
     /\ ok \/ cfFaults > 0
     /\ cfSeq' = cfSeq + 1
     /\ IF ok THEN /\ cfLegs' = [cfLegs EXCEPT ![i].sent = @ + 1]
                   /\ cfNet' = [cfNet EXCEPT ![cfLegs[i].circ] = Append(@, cfSeq)]
                   /\ UNCHANGED cfFaults
              ELSE cfFaults' = cfFaults - 1 /\ UNCHANGED <<cfLegs, cfNet>>
     /\ UNCHANGED <<cfOwns, cfNext, cfHeld, cfGot, cfTime>>

(* Entries past the timeout are dropped; if the next number is then not     *)
(* held, the receiver moves on to the lowest number it still holds.         *)
CfExpire ==
  LET kept == {e \in cfHeld : cfTime - e.at <= CfTimeout}
      seqs == {e.seq : e \in kept}
  IN [held |-> kept,
      next |-> IF kept # cfHeld /\ seqs # {} /\ cfNext \notin seqs /\ Min(seqs) > cfNext
               THEN Min(seqs) ELSE cfNext]

(* A cell out of turn is dropped when it is behind, too far ahead or held    *)
(* already, and when the buffer is full.                                    *)
MutCfDropped(x, seq) ==
  \/ seq - x.next >= CfBuf
  \/ \E e \in x.held : e.seq = seq
  \/ Cardinality(x.held) >= CfBuf
CfDropped(x, seq) ==
  \/ seq < x.next
  \/ seq - x.next >= CfBuf
  \/ \E e \in x.held : e.seq = seq
  \/ Cardinality(x.held) >= CfBuf

(* moor_conflux_receive: 1 for this cell's turn, 0 for a cell put aside, -1 *)
(* for a dropped one, which a cell from an unknown leg is too.              *)
CfReceive(c, seq) ==
  LET x == CfExpire
      leg == \E i \in DOMAIN cfLegs : cfLegs[i].circ = c /\ cfLegs[i].active
  IN CASE leg /\ seq = x.next -> [ret |-> 1, held |-> x.held, next |-> x.next + 1]
       [] leg /\ seq # x.next /\ ~CfDropped(x, seq) ->
            [ret |-> 0, held |-> x.held \cup {[seq |-> seq, at |-> cfTime]}, next |-> x.next]
       [] OTHER -> [ret |-> -1, held |-> x.held, next |-> x.next]

(* moor_conflux_deliver, called until it has nothing: the held cells that   *)
(* follow without a gap.                                                    *)
CfDrained(held, next) ==
  LET run == {n \in 0 .. CfBuf : \A k \in next .. (next + n - 1) : \E e \in held : e.seq = k}
  IN next + Max(run)

(* circuit_read_cb for a DATA cell of the set: nothing is drained after a   *)
(* dropped one.                                                             *)
CfRead(c) ==
  /\ cfNet[c] # <<>>
  /\ LET seq == Head(cfNet[c])
         r == CfReceive(c, seq)
         upto == IF r.ret = -1 THEN r.next ELSE CfDrained(r.held, r.next)
         first == IF r.ret = 1 THEN <<seq>> ELSE <<>>
     IN /\ cfNext' = upto
        /\ cfHeld' = {e \in r.held : e.seq \notin r.next .. (upto - 1)}
        /\ cfGot' = cfGot \o first \o [i \in 1 .. (upto - r.next) |-> r.next + i - 1]
  /\ cfNet' = [cfNet EXCEPT ![c] = Tail(@)]
  /\ UNCHANGED <<cfLegs, cfOwns, cfSeq, cfTime, cfFaults>>

(* moor_circuit_free of a leg: what it still carried is lost with it.       *)
CfLegFailed(c) ==
  /\ c \in cfOwns /\ cfFaults > 0
  /\ cfLegs' = [i \in DOMAIN cfLegs |->
                  IF cfLegs[i].circ = c THEN [cfLegs[i] EXCEPT !.active = FALSE, !.circ = CfNone]
                  ELSE cfLegs[i]]
  /\ cfOwns' = cfOwns \ {c}
  /\ cfNet' = [cfNet EXCEPT ![c] = <<>>]
  /\ cfFaults' = cfFaults - 1
  /\ UNCHANGED <<cfSeq, cfNext, cfHeld, cfGot, cfTime>>

CfTick == /\ cfTime < CfMaxTime /\ cfTime' = cfTime + 1
          /\ UNCHANGED <<cfLegs, cfOwns, cfSeq, cfNet, cfNext, cfHeld, cfGot, cfFaults>>

CfNext == \/ \E c \in CfCircs : CfAddLeg(c) \/ CfRead(c) \/ CfLegFailed(c)
          \/ \E i \in DOMAIN cfLegs, sample \in CfRtts : CfUpdateRtt(i, sample)
          \/ \E ok \in BOOLEAN : CfSend(ok)
          \/ CfTick

CfSpec == CfInit /\ [][CfNext]_cfVars

-----------------------------------------------------------------------------
(* Whatever the legs delay or lose, and whenever held cells expire and      *)
(* numbers are skipped, the stream gets each cell at most once and in the   *)
(* order of sending; a cell put aside is still due, held once, and the      *)
(* buffer does not overflow; and a circuit points to the set exactly while  *)
(* one active leg points to the circuit.                                    *)
CfInOrder ==
  /\ \A i, j \in DOMAIN cfGot : i < j => cfGot[i] < cfGot[j]
  /\ \A e \in cfHeld : e.seq >= cfNext /\ e.seq < cfSeq
                       /\ \A f \in cfHeld : f.seq = e.seq => f = e
  /\ Cardinality(cfHeld) <= CfBuf
  /\ \A c \in CfCircs :
       Cardinality({i \in DOMAIN cfLegs : cfLegs[i].circ = c /\ cfLegs[i].active})
         = IF c \in cfOwns THEN 1 ELSE 0
=============================================================================
