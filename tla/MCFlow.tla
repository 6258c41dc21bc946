------------------------------- MODULE MCFlow -------------------------------
(***************************************************************************)
(* The three flow-control models in one run with fairness: the cells a     *)
(* client sends (SendmeForward), the cells it receives (SendmeBackward)    *)
(* and the client's reading of its application (StreamPump).               *)
(*                                                                         *)
(* A behaviour runs one of them.  The variables they have in common hold   *)
(* the state of the one that runs; those of the others stay at 0.  Windows *)
(* of a few increments are enough for one to run out while a SENDME for    *)
(* the other is in flight.                                                 *)
(***************************************************************************)
EXTENDS SendmeBackward

CONSTANTS
    PuCirc, PuStream, PuIncrement,     \* StreamPump's windows
    PuRead, PuPause, PuResume,         \* its reads and water marks
    PuCells, PuOther, PuStalls, PuFull \* its bounds

VARIABLES
    component,   \* which of the three runs
    inflight, forward_digest, relay_forward_digest, hist,   \* SendmeForward
    next, sendbuf, paused, package_window, outq, stalled,   \* StreamPump
    deliver_window, xoff_sent, target, bounds

Forward == INSTANCE SendmeForward WITH
             CircWindow <- 2, StreamWindow <- 1, Increment <- 1, AuthMax <- 2,
             MaxData <- 3, MaxOther <- 0, MaxTargetErrors <- 0
Pump == INSTANCE StreamPump WITH
             CircWindow <- PuCirc, StreamWindow <- PuStream, Increment <- PuIncrement,
             MaxRead <- PuRead, PauseAbove <- PuPause, ResumeBelow <- PuResume,
             MaxCells <- PuCells, MaxOther <- PuOther, MaxStalls <- PuStalls,
             MaxFull <- PuFull

ASSUME BoundsAssumption == Forward!WindowAssumption /\ Pump!PumpAssumption

forwardOnly  == <<inflight, forward_digest, relay_forward_digest, hist>>
backwardOnly == <<sendme_auth_cells_sent, relay_backward_digest, backward_digest,
                  todo, failures>>
pumpOnly     == <<next, sendbuf, paused, package_window, outq, stalled,
                  deliver_window, xoff_sent, target, bounds>>
streamSlots  == <<sendme_auth_expected, estreams, cstreams>>
shared       == <<circ_package_window, circ_deliver_window, fwd, bwd>>
fwVars       == <<forwardOnly, streamSlots, shared>>
puVars       == <<pumpOnly, shared>>
all          == <<component, forwardOnly, backwardOnly, pumpOnly, streamSlots, shared>>

NoForward  == inflight = 0 /\ forward_digest = 0 /\ relay_forward_digest = 0 /\ hist = 0
NoBackward == /\ sendme_auth_cells_sent = 0 /\ relay_backward_digest = 0
              /\ backward_digest = 0 /\ todo = 0 /\ failures = 0
NoSlots    == sendme_auth_expected = 0 /\ estreams = 0 /\ cstreams = 0
NoPump     == /\ next = 0 /\ sendbuf = 0 /\ paused = 0 /\ package_window = 0
              /\ outq = 0 /\ stalled = 0 /\ deliver_window = 0 /\ xoff_sent = 0
              /\ target = 0 /\ bounds = 0

FlowInit ==
    \/ component = "forward" /\ Forward!Init /\ NoBackward /\ NoPump
    \/ component = "backward" /\ Init /\ NoForward /\ NoPump
    \/ component = "pump" /\ Pump!Init /\ NoForward /\ NoBackward /\ NoSlots

FlowNext ==
    /\ UNCHANGED component
    /\ \/ component = "forward" /\ Forward!Next /\ UNCHANGED <<backwardOnly, pumpOnly>>
       \/ component = "backward" /\ Next /\ UNCHANGED <<forwardOnly, pumpOnly>>
       \/ /\ component = "pump" /\ Pump!Next
          /\ UNCHANGED <<forwardOnly, backwardOnly, streamSlots>>

\* Each model's own Fairness, while it is the one that runs.
FlowFairness ==
    /\ WF_fwVars(component = "forward" /\ Forward!ExitCell)
    /\ WF_fwVars(component = "forward" /\ Forward!ClientCell)
    /\ \A s \in Streams :
         WF_fwVars(component = "forward" /\ Forward!ExitConnectComplete(s))
    /\ WF_vars(component = "backward" /\ ExitCell)
    /\ WF_vars(component = "backward" /\ ClientCell)
    /\ \A s \in Streams : /\ WF_vars(component = "backward" /\ ExitConnectComplete(s))
                          /\ WF_vars(component = "backward" /\ ExitRead(s))
    /\ WF_puVars(component = "pump" /\ Pump!Read)
    /\ WF_puVars(component = "pump" /\ Pump!LinkRecovers)
    /\ WF_puVars(component = "pump" /\ Pump!Writable)
    /\ WF_puVars(component = "pump" /\ Pump!ExitCell)
    /\ WF_puVars(component = "pump" /\ Pump!ClientCell)

FlowSpec == FlowInit /\ [][FlowNext]_all /\ FlowFairness

-----------------------------------------------------------------------------
\* Exit to client: credit is conserved on the circuit and on each stream, no
\* target socket sleeps while it has credit, and no circuit SENDME on its way
\* carries a digest the exit will refuse (relay.c's exit_target_read_cb and
\* its RELAY_SENDME handler).
BackwardSound ==
    component = "backward" =>
        /\ TypeOK /\ NoLostWakeup /\ SendmeAuthInSync
        /\ CircuitCreditConserved /\ StreamCreditConserved

\* Application to target: through every pause, retry, stall and full target
\* credit is conserved and no cell arrives twice; kept cells go first, and an
\* undisturbed stream arrives in order without a gap (socks5.c's
\* moor_socks5_handle_client and moor_socks5_resume_reads).
PumpSound ==
    component = "pump" =>
        /\ Pump!TypeOK /\ Pump!CreditConserved /\ Pump!NoCellTwice
        /\ Pump!LosslessAlone /\ Pump!KeptCellsGoFirst

Stopped(s) ==
    \/ component = "forward" /\ Forward!StreamBlocked(s)
    \/ component = "backward" /\ TargetOpen(s)
    \/ component = "pump" /\ Pump!PausedEarly
Moved(s) ==
    \/ component = "forward" /\ Forward!StreamFree(s)
    \/ component = "backward" /\ TargetDone(s)
    \/ component = "pump" /\ Pump!Resumed

\* No stream stops for good: a stream that waits for its window gets credit
\* (StreamUnblocks), a connected target is read to the end (TargetDrained) and
\* an application that was paused is read again (PauseEnds), each with the
\* exceptions its module states.
StreamsMove == \A s \in Streams : Stopped(s) ~> Moved(s)

Owed(s) ==
    \/ component = "forward" /\ Forward!CircuitBlocked
    \/ component = "backward" /\ ClosedByClient(s)
    \/ component = "pump"
Settled(s) ==
    \/ component = "forward" /\ Forward!CircuitFree
    \/ component = "backward" /\ ReleasedAtExit(s)
    \/ component = "pump" /\ Pump!Delivered

\* What one end owes the other is settled: an exhausted circuit window is
\* refilled (CircuitUnblocks), a stream the client closed is closed at the
\* exit (ClosedStreamReleased) and what the application wrote arrives
\* (AllDelivered), each with the exceptions its module states.
AllSettled == \A s \in Streams : Owed(s) ~> Settled(s)
=============================================================================
