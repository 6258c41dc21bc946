---------------------------- MODULE MCRelayLive -----------------------------
(***************************************************************************)
(* What a relay must get done: RelayCircuits (marked circuits are freed)   *)
(* and SkipsScheduler (queued cells are sent), with the fairness of the    *)
(* event loop.  A behaviour runs one of the two.                           *)
(***************************************************************************)
EXTENDS RelayCircuits, SkipsScheduler

VARIABLE component
all == <<component, vars, skVars>>

LiveInit == component \in {"circuits", "scheduler"} /\ Init /\ SkInit

LiveNext ==
    \/ component = "circuits" /\ Next /\ UNCHANGED <<component, skVars>>
    \/ component = "scheduler" /\ SkNext /\ UNCHANGED <<component, vars>>

\* The loop reaches its end (close_all_marked), its timer of the scheduler
\* fires and each pass goes on to its end, and a socket with a write event
\* registered becomes writable.  No other part of Fairness of RelayCircuits
\* is needed.
LiveFairness ==
    /\ WF_vars(component = "circuits" /\ Turn(PostLoop))
    /\ WF_skVars(component = "scheduler" /\ SkTick)
    /\ WF_skVars(component = "scheduler" /\ SkRefresh)
    /\ WF_skVars(component = "scheduler" /\ SkPassEnds)
    /\ WF_skVars(component = "scheduler" /\ SkPark)
    /\ WF_skVars(component = "scheduler" /\ SkSend)
    /\ \A ch \in SkChannels : WF_skVars(component = "scheduler" /\ SkWriteEvent(ch))

LiveSpec == LiveInit /\ [][LiveNext]_all /\ LiveFairness
=============================================================================
