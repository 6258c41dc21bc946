----------------------------- MODULE MCNetwork ------------------------------
(***************************************************************************)
(* Safety of the components between client and exit and of the directory:  *)
(* links and their rekeying, pluggable transports, circuit extension, exit *)
(* streams, registration and the authorities.  As in MCClient, a behaviour *)
(* runs one of them while the others stay in one of their initial states.  *)
(***************************************************************************)
EXTENDS LinkProtocol, Transports, CircuitExtend, ExitStreams, Registration, Directory

VARIABLE component

\* A public name and one that resolves to a private address, a policy that
\* refuses one port, and one hash bucket so that every chain of the cache is
\* shared; a resolver with no certificate, and one whose second replaced the
\* first.
ExitHosts == [web |-> {"a1"}, app |-> {"p"}]
ExitPolicy == <<[addrs |-> {"a1"}, ports |-> {25}, accept |-> FALSE],
                [addrs |-> {"a1", "p"}, ports |-> {25, 80}, accept |-> TRUE]>>
ExitHash == [web |-> 0, app |-> 0]
ExitCerts == {<<>>, <<[serial |-> 1, signed |-> TRUE, start |-> 0, end |-> 9, key |-> 0],
                      [serial |-> 2, signed |-> TRUE, start |-> 1, end |-> 9, key |-> 1]>>}

\* main.c registers every transport.
Registered == <<"scramble", "shade", "mirage", "speakeasy", "nether", "shitstorm">>

\* The second authority has banned the second relay.
BannedAtSecond == {<<"d2", 2>>}

all == <<component, lnVars, trVars, ceVars, exVars, rgVars, daVars>>

NetworkInit ==
    /\ component \in {"link", "transport", "extend", "exit", "register", "directory"}
    /\ LnInit /\ TrInit /\ CeInit /\ ExInit /\ RgInit /\ DaInit
    /\ component # "link" => peer_known
    /\ component # "transport" => trKind = [kind |-> "raw", dir |-> "client", knows |-> TRUE]

Only(c) ==
    /\ component = c /\ UNCHANGED component
    /\ IF c = "link" THEN TRUE ELSE UNCHANGED lnVars
    /\ IF c = "transport" THEN TRUE ELSE UNCHANGED trVars
    /\ IF c = "extend" THEN TRUE ELSE UNCHANGED ceVars
    /\ IF c = "exit" THEN TRUE ELSE UNCHANGED exVars
    /\ IF c = "register" THEN TRUE ELSE UNCHANGED rgVars
    /\ IF c = "directory" THEN TRUE ELSE UNCHANGED daVars

NetworkNext ==
    \/ Only("link") /\ LnNext
    \/ Only("transport") /\ TrNext
    \/ Only("extend") /\ CeNext
    \/ Only("exit") /\ ExNext
    \/ Only("register") /\ RgNext
    \/ Only("directory") /\ DaNext

NetworkSpec == NetworkInit /\ [][NetworkNext]_all
=============================================================================
