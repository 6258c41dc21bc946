------------------------------ MODULE MCClient ------------------------------
(***************************************************************************)
(* Safety of the components of a client and of a hidden service: circuit   *)
(* building, guards, conflux, fragments, the DNS port, the maps of names   *)
(* and addresses, introduction and rendezvous, key files, and the DHT both *)
(* ends use.  They share no state, so that a behaviour runs one of them,   *)
(* chosen by component, while the others stay in one of their initial      *)
(* states; every reachable state of each of them is visited.               *)
(***************************************************************************)
EXTENDS CircuitBuild, Guards, Conflux, Fragments, AddressMap, CircuitResolve,
        DnsServer, HiddenService, HsKeys, Dht

VARIABLE component

\* The consensus: an exit and relays that may be guards.
GuardFlags == [r \in GuRelays |-> IF r = "e" THEN {"EXIT", "STABLE"}
                                 ELSE {"GUARD", "STABLE"}]

\* Answers of the upstream resolver: with records, failing, and no such name.
Replies == {[rcode |-> 0, ttls |-> {0, 3}], [rcode |-> 2, ttls |-> {}],
            [rcode |-> 3, ttls |-> {}]}

\* A pseudo-random generator of the DHT's point functions, with a seed bit
\* and a control bit for each half.
Seed(s, t) == [s |-> s, t |-> t]
Prgs == {[x \in {0, 1} |-> [y \in {0, 1} |-> IF x = y THEN Seed(y, 1) ELSE Seed(x, y)]]}
SeedPairs == {<<0, 1>>}

all == <<component, cbVars, guVars, cfVars, fgVars, npVars, crVars, dsVars, hsVars, hkVars,
         dhVars>>

ClientInit ==
    /\ component \in {"build", "guards", "conflux", "fragments", "names", "resolve",
                      "dns", "service", "keys", "dht"}
    /\ CbInit /\ GuInit /\ CfInit /\ FgInit /\ NpInit /\ CrInit /\ DsInit
    /\ HsInit /\ HkInit /\ DhInit
    /\ component # "guards" => guMode = "client" /\ guRunning = GuRelays
    /\ component # "conflux" => cfOwns = {"c1"}
    /\ component # "service" => hs.seed = 0
    /\ component # "keys" => hkGen = 0
    /\ component # "dht" => \A r \in DhRelays : dhStore[r] = <<>>

Only(c) ==
    /\ component = c /\ UNCHANGED component
    /\ IF c = "build" THEN TRUE ELSE UNCHANGED cbVars
    /\ IF c = "guards" THEN TRUE ELSE UNCHANGED guVars
    /\ IF c = "conflux" THEN TRUE ELSE UNCHANGED cfVars
    /\ IF c = "fragments" THEN TRUE ELSE UNCHANGED fgVars
    /\ IF c = "names" THEN TRUE ELSE UNCHANGED npVars
    /\ IF c = "resolve" THEN TRUE ELSE UNCHANGED crVars
    /\ IF c = "dns" THEN TRUE ELSE UNCHANGED dsVars
    /\ IF c = "service" THEN TRUE ELSE UNCHANGED hsVars
    /\ IF c = "keys" THEN TRUE ELSE UNCHANGED hkVars
    /\ IF c = "dht" THEN TRUE ELSE UNCHANGED dhVars

ClientNext ==
    \/ Only("build") /\ CbNext
    \/ Only("guards") /\ GuNext
    \/ Only("conflux") /\ CfNext
    \/ Only("fragments") /\ FgNext
    \/ Only("names") /\ NpNext
    \/ Only("resolve") /\ CrNext
    \/ Only("dns") /\ DsNext
    \/ Only("service") /\ HsNext
    \/ Only("keys") /\ HkNext
    \/ Only("dht") /\ DhNext

ClientSpec == ClientInit /\ [][ClientNext]_all
=============================================================================
