----------------------------- MODULE MCServices -----------------------------
(***************************************************************************)
(* The SOCKS proxy (SocksClient) and the hidden service (HiddenService)    *)
(* with the fairness of their timers.  A behaviour runs one of the two.    *)
(***************************************************************************)
EXTENDS SocksClient, HiddenService

VARIABLE component
all == <<component, scVars, hsVars>>

ServicesInit ==
    /\ component \in {"socks", "service"}
    /\ ScInit /\ HsInit
    /\ component # "service" => hs.seed = 0

ServicesNext ==
    \/ component = "socks" /\ ScNext /\ UNCHANGED <<component, hsVars>>
    \/ component = "service" /\ HsNext /\ UNCHANGED <<component, scVars>>

\* Time passes, the proxy's stream timeout timer runs, and the service's timer
\* rebuilds what its introduction points have lost.
ServicesFairness ==
    /\ WF_scVars(component = "socks" /\ ScTick)
    /\ WF_scVars(component = "socks" /\ ScStreamTimeouts)
    /\ WF_hsVars(component = "service" /\ HsIntroTimerBuilds)

ServicesSpec == ServicesInit /\ [][ServicesNext]_all /\ ServicesFairness
=============================================================================
