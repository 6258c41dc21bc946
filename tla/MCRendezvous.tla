---------------------------- MODULE MCRendezvous ----------------------------
(***************************************************************************)
(* Both directions of a rendezvous circuit in one run with fairness: to    *)
(* the hidden service (RendezvousIn) and from it (RendezvousOut).  A       *)
(* behaviour runs one of them; the variables they share hold its state.    *)
(***************************************************************************)
EXTENDS RendezvousIn

CONSTANT MaxData   \* bound of RendezvousOut
VARIABLES
    component,                   \* which direction runs
    todo, circ_deliver_window    \* RendezvousOut

Out == INSTANCE RendezvousOut

ASSUME OutAssumption == Out!RendezvousAssumption

outOnly == <<todo, circ_deliver_window>>
outVars == <<circ_package_window, e2e_send_nonce, clients, rp_deliver_window,
             e2e_recv_nonce, targets, c2rp, rp2hs, hs2rp, rp2c, outOnly>>
all     == <<component, vars, outOnly>>

BothInit ==
    \/ /\ component = "in" /\ Init
       /\ todo = [s \in Streams |-> 0] /\ circ_deliver_window = 0
    \/ /\ component = "out" /\ Out!Init /\ closed = FALSE
       /\ connected = {} /\ held = {}

BothNext ==
    \/ component = "in" /\ Next /\ UNCHANGED <<component, outOnly>>
    \/ component = "out" /\ Out!Next /\ UNCHANGED <<component, lvars, closed>>

\* Each direction's own Fairness, while it is the one that runs.
BothFairness ==
    /\ WF_vars(component = "in" /\ held # {} /\ LinkWritable)
    /\ WF_vars(component = "in" /\ Timeout)
    /\ WF_vars(component = "in" /\ ClientCell)
    /\ WF_vars(component = "in" /\ RpForwards)
    /\ WF_vars(component = "in" /\ RpReturns)
    /\ WF_vars(component = "in" /\ ServiceCell)
    /\ WF_outVars(component = "out" /\ Out!ServiceCell)
    /\ WF_outVars(component = "out" /\ Out!RpForwards)
    /\ WF_outVars(component = "out" /\ Out!RpReturns)
    /\ WF_outVars(component = "out" /\ Out!ClientCell)
    /\ \A s \in Streams : WF_outVars(component = "out" /\ Out!ServiceRead(s))

BothSpec == BothInit /\ [][BothNext]_all /\ BothFairness

-----------------------------------------------------------------------------
\* Towards the service, across client, rendezvous point and service (socks5.c,
\* relay.c's splice, main.c's hs_rp_read_cb): each stream's credit is
\* conserved; chunks are unsealed with the nonces they were sealed with as
\* long as one stream is used and no client that a write-ready link unpaused
\* has read past its sendbuf; and the local service gets the application's
\* bytes without a gap unless a window cut a read short or sendbuf was passed
\* over.  From the service: no window runs over or out although two parties
\* credit the same cells, and every sealed cell is opened with its own nonce,
\* however the local connections interleave and whatever the client drops.
RendezvousSound ==
    /\ component = "in" =>
         TypeOK /\ StreamCreditConserved /\ NoncesInStepAlone /\ DeliveredInOrder
    /\ component = "out" => Out!TypeOK /\ Out!NoncesInStep

Held(s) == \/ component = "in" /\ clients[s].paused
           \/ component = "out" /\ targets[s].open
Released(s) == \/ component = "in" /\ ReadAgain(s)
               \/ component = "out" /\ Out!Drained(s)

\* A client paused by its stream's window or the guard link's queue is read
\* again, unless the circuit's credit is used up, which nothing refills
\* (StreamResumes); a local connection is read to the end, unless it is closed,
\* dropped by the client or paused for want of circuit credit alone
\* (ServiceDrained).
RendezvousMoves == \A s \in Streams : Held(s) ~> Released(s)
=============================================================================
