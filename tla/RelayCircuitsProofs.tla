------------------------ MODULE RelayCircuitsProofs -------------------------
(***************************************************************************)
(* Proofs about RelayCircuits, for every number of circuits, links,        *)
(* channels, workers and queued results.                                   *)
(*                                                                         *)
(* RInv adds to the three properties what keeps them: a marked circuit has *)
(* no partner, an extend worker or its queued result belongs to one        *)
(* waiting circuit that has no next link yet, and the link in a queued     *)
(* result has its descriptor and is not in the event loop, so that nothing *)
(* closes it before extend_complete_cb takes it.  Every step keeps RInv    *)
(* but the one that extends or joins a circuit a second time (again).      *)
(***************************************************************************)
EXTENDS RelayCircuits, FiniteSetTheorems, SequenceTheorems, WellFoundedInduction,
        TLAPS

\* What an extend worker holds, and what it hands back.
Work == [thread : 1..MaxWorkers, circ : Circuits \cup {None}, prev : Conns]
Result == [circ : Circuits \cup {None}, prev : Conns, next : Outs \cup {None}]
Typed ==
    /\ circs \in [Circuits -> [live : BOOLEAN, marked : BOOLEAN,
                               prev : Conns \cup {None}, next : Conns \cup {None},
                               chan : Chans \cup {None},
                               partner : Circuits \cup {None}, extending : BOOLEAN]]
    /\ pending \in [Circuits -> Nat]
    /\ table \subseteq Conns \X Circuits
    /\ conns \in [Conns -> [open : BOOLEAN, fd : BOOLEAN, watched : BOOLEAN, ref : Nat]]
    /\ chans \in [Chans -> [state : {"CLOSED", "OPEN", "CLOSING"},
                            conn : Conns \cup {None}, mux : SUBSET Circuits]]
    /\ cookies \in [Slots -> Circuits \cup {None}]
WorkTypeOK == works \subseteq Work /\ results \in Seq(Result)

\* A marked circuit is not freed yet, and was unlinked from its partner.
MarkedSound ==
    \A c \in Circuits : circs[c].marked => circs[c].live /\ circs[c].partner = None

\* The parts of NoDangling, one for each kind of pointer.
PartnersMutual ==
    \A c \in Circuits : circs[c].live /\ circs[c].partner # None =>
        circs[circs[c].partner].live /\ circs[circs[c].partner].partner = c

LinksAlive ==
    \A c \in Circuits : circs[c].live =>
        /\ circs[c].prev # None => conns[circs[c].prev].fd
        /\ circs[c].next # None => conns[circs[c].next].fd

ChanKnows ==
    \A c \in Circuits : circs[c].live /\ ~circs[c].marked /\ circs[c].chan # None =>
        chans[circs[c].chan].state = "OPEN" /\ c \in chans[circs[c].chan].mux

ChansSound ==
    \A h \in Chans :
        /\ \A c \in chans[h].mux : circs[c].live
        /\ chans[h].conn # None => conns[chans[h].conn].fd

\* The circuit of a cookie is not freed.
CookiesLive == \A i \in Slots : cookies[i] # None => circs[cookies[i]].live

\* A circuit that an extend worker works for.
Waits(c) == circs[c].live /\ circs[c].extending /\ circs[c].next = None

\* Works and results belong to waiting circuits, one at most to each.
WorkKnown ==
    /\ \A w \in works : w.circ # None => Waits(w.circ)
    /\ \A i \in DOMAIN results : results[i].circ # None => Waits(results[i].circ)
    /\ \A v, w \in works : v.circ = w.circ /\ v.circ # None => v = w
    /\ \A w \in works, i \in DOMAIN results : w.circ # None => results[i].circ # w.circ
    /\ \A i, j \in DOMAIN results :
         results[i].circ = results[j].circ /\ results[i].circ # None => i = j

\* An open connection has its descriptor.
OpenHasFd == \A x \in Conns : conns[x].open => conns[x].fd

\* The links in the result queue exist, are not in the event loop and differ.
ResultLinks ==
    /\ \A i \in DOMAIN results : results[i].next # None =>
         conns[results[i].next].fd /\ ~conns[results[i].next].watched
    /\ \A i, j \in DOMAIN results :
         results[i].next = results[j].next /\ results[i].next # None => i = j

\* The inductive invariant.
RInv ==
    /\ Typed /\ WorkTypeOK /\ PendingExact /\ MarkedSound /\ PartnersMutual
    /\ LinksAlive /\ ChanKnows /\ ChansSound /\ CookiesLive
    /\ TableExact /\ RefcountExact /\ WorkKnown /\ ResultLinks /\ OpenHasFd

\* The types of a circuit, a connection and a channel.
CircRec == [live : BOOLEAN, marked : BOOLEAN,
            prev : Conns \cup {None}, next : Conns \cup {None},
            chan : Chans \cup {None},
            partner : Circuits \cup {None}, extending : BOOLEAN]
ConnRec == [open : BOOLEAN, fd : BOOLEAN, watched : BOOLEAN, ref : Nat]
ChanRec == [state : {"CLOSED", "OPEN", "CLOSING"},
            conn : Conns \cup {None}, mux : SUBSET Circuits]

\* TypeOK but for the history variable, with the record sets named.
LEMMA TypeFacts ==
    Typed <=> /\ circs \in [Circuits -> CircRec]
               /\ pending \in [Circuits -> Nat]
               /\ table \subseteq Conns \X Circuits
               /\ conns \in [Conns -> ConnRec]
               /\ chans \in [Chans -> ChanRec]
               /\ cookies \in [Slots -> Circuits \cup {None}]
BY DEF Typed, CircRec, ConnRec, ChanRec

\* The null pointer is none of the objects.
LEMMA NoneFacts ==
    None \notin Conns /\ None \notin Circuits /\ None \notin Chans
BY RelayAssumption

\* A nonempty set of naturals has a least element.
LEMMA NatMin ==
    ASSUME NEW T \in SUBSET Nat, T # {}
    PROVE  \E x \in T : \A y \in T : x <= y
<1> DEFINE R == {ss \in Nat \X Nat : ss[1] < ss[2]}
<1>0. IsWellFoundedOn(R, Nat)  BY NatLessThanWellFounded, Zenon DEF OpToRel
<1> HIDE DEF R
<1>1. PICK x \in T : \A y \in T : ~(<<y, x>> \in R)  BY <1>0, WFMin
<1>2. \A y \in T : ~(y < x)  BY <1>1 DEF R
<1> QED BY <1>2

\* The first channel of a nonempty set (the scan of g_channels) is in the set.
LEMMA LeastIn ==
    ASSUME NEW S \in SUBSET Chans, S # {}
    PROVE  Least(S) \in S
<1>1. S \in SUBSET Nat  BY RelayAssumption DEF Chans
<1>2. \E h \in S : \A k \in S : h <= k  BY <1>1, NatMin
<1> QED BY <1>2 DEF Least

-----------------------------------------------------------------------------
(* What a step may do to each part of the invariant.                       *)

\* The circuits keep their links.
SameLinks ==
    \A c \in Circuits : /\ circs'[c].live = circs[c].live
                        /\ circs'[c].prev = circs[c].prev
                        /\ circs'[c].next = circs[c].next

\* Connections at most die.
Deader ==
    \A x \in Conns : /\ conns'[x].fd = conns[x].fd
                     /\ conns'[x].watched => conns[x].watched
                     /\ conns'[x].open => conns[x].open /\ conns'[x].ref = conns[x].ref

\* Failed sends keep the type of the connections.
LEMMA DeadType ==
    ASSUME conns \in [Conns -> ConnRec], NEW F
    PROVE  Dead(conns, F) \in [Conns -> ConnRec]
BY DEF Dead, ConnRec

\* Failed sends let connections die and change nothing else.
LEMMA DeadDeader ==
    ASSUME conns \in [Conns -> ConnRec], NEW F, conns' = Dead(conns, F)
    PROVE  Deader
BY DEF Dead, ConnRec, Deader

\* Circuits that only lose pointers, to links that stay, have live links.
LEMMA LinksKept ==
    ASSUME circs \in [Circuits -> CircRec], LinksAlive,
           \A c \in Circuits : /\ circs'[c].live => circs[c].live
                               /\ circs'[c].prev \in {circs[c].prev, None}
                               /\ circs'[c].next \in {circs[c].next, None},
           \A c \in Circuits, x \in Conns :
               conns[x].fd /\ x \in {circs'[c].prev, circs'[c].next} => conns'[x].fd
    PROVE  LinksAlive'
<1> SUFFICES ASSUME NEW c \in Circuits, circs'[c].live
             PROVE  /\ circs'[c].prev # None => conns'[circs'[c].prev].fd
                    /\ circs'[c].next # None => conns'[circs'[c].next].fd
  BY DEF LinksAlive
<1>1. circs[c].prev \in Conns \cup {None} /\ circs[c].next \in Conns \cup {None}  BY DEF CircRec
<1> QED BY <1>1, NoneFacts DEF LinksAlive

\* Counts stay exact while circuits keep their links.
LEMMA RefsKept ==
    ASSUME RefcountExact, SameLinks,
           \A x \in Links : conns'[x].open => conns[x].open /\ conns'[x].ref = conns[x].ref
    PROVE  RefcountExact'
<1>1. ASSUME NEW x \in Links
      PROVE  PrevUsers(x)' = PrevUsers(x) /\ NextUsers(x)' = NextUsers(x)
  BY DEF SameLinks, PrevUsers, NextUsers
<1> QED BY <1>1 DEF RefcountExact

\* The look-up table stays exact while circuits keep their links.
LEMMA TableKept ==
    ASSUME TableExact, SameLinks, table' = table
    PROVE  TableExact'
BY DEF TableExact, SameLinks

\* The queued links are sound while nothing closes or watches them.
LEMMA ResultsKept ==
    ASSUME ResultLinks, results \in Seq(Result), results' = results,
           \A o \in Outs : conns[o].fd /\ ~conns[o].watched
                               => conns'[o].fd /\ ~conns'[o].watched
    PROVE  ResultLinks'
<1>0. \A i \in DOMAIN results : results[i] \in Result  OBVIOUS
<1>1. \A i \in DOMAIN results : results[i].next \in Outs \cup {None}  BY <1>0 DEF Result
<1> QED BY <1>1 DEF ResultLinks

\* Works stay known while waiting circuits go on waiting.
LEMMA WorkKept ==
    ASSUME WorkKnown, works \subseteq Work, results \in Seq(Result),
           UNCHANGED <<works, results>>,
           \A c \in Circuits : Waits(c) => Waits(c)'
    PROVE  WorkKnown'
<1>0. \A i \in DOMAIN results : results[i] \in Result  OBVIOUS
<1>1. \A i \in DOMAIN results : results[i].circ \in Circuits \cup {None}  BY <1>0 DEF Result
<1>2. \A w \in works : w.circ \in Circuits \cup {None}  BY DEF Work
<1> QED BY <1>1, <1>2 DEF WorkKnown

\* An unmarked circuit's channel knows it while neither changes.
LEMMA ChanKept ==
    ASSUME circs \in [Circuits -> CircRec], ChanKnows, chans' = chans,
           \A c \in Circuits : /\ circs'[c].live => circs[c].live
                               /\ circs[c].marked => circs'[c].marked
                               /\ circs'[c].chan = circs[c].chan
    PROVE  ChanKnows'
BY DEF ChanKnows

\* Channels stay sound while circuits and descriptors stay.
LEMMA ChansKept ==
    ASSUME chans \in [Chans -> ChanRec], ChansSound, chans' = chans,
           \A c \in Circuits : circs[c].live => circs'[c].live,
           \A x \in Conns : conns[x].fd => conns'[x].fd
    PROVE  ChansSound'
<1>1. \A h \in Chans : chans[h].mux \subseteq Circuits /\ chans[h].conn \in Conns \cup {None}
  BY DEF ChanRec
<1> QED BY <1>1 DEF ChansSound

-----------------------------------------------------------------------------
(* Steps that only let connections die.                                    *)

\* Connections that die keep the invariant.
LEMMA StepDead ==
    ASSUME RInv, conns' \in [Conns -> ConnRec], Deader,
           UNCHANGED <<circs, pending, table, chans, cookies, works, results>>
    PROVE  RInv'
<1>t. /\ circs \in [Circuits -> CircRec] /\ chans \in [Chans -> ChanRec]
      /\ works \subseteq Work /\ results \in Seq(Result)
  BY TypeFacts DEF RInv, WorkTypeOK
<1>1. Typed'  BY DEF RInv, Typed, ConnRec
<1>2. LinksAlive'  BY <1>t, LinksKept DEF RInv, Deader
<1>3. SameLinks  BY DEF SameLinks
<1>4. RefcountExact'  BY <1>3, RefsKept DEF RInv, Deader, Conns
<1>5. ResultLinks'  BY <1>t, ResultsKept DEF RInv, Deader, Conns
<1>6. ChansSound'  BY <1>t, ChansKept DEF RInv, Deader
<1>7. /\ WorkTypeOK' /\ PendingExact' /\ MarkedSound' /\ PartnersMutual'
      /\ CookiesLive' /\ TableExact' /\ WorkKnown' /\ ChanKnows'
  BY DEF RInv, WorkTypeOK, PendingExact, MarkedSound, PartnersMutual, CookiesLive,
         TableExact, WorkKnown, Waits, ChanKnows
<1>8. OpenHasFd'  BY DEF RInv, OpenHasFd, Deader
<1> QED BY <1>1, <1>2, <1>4, <1>5, <1>6, <1>7, <1>8 DEF RInv

\* moor_connection_send_cell that fails, at any of its callers.
LEMMA StepSendFails ==
    ASSUME RInv, NEW x \in Conns, SendFails(x) \/ QueueFull(x) \/ CreateFails(x)
    PROVE  RInv'
<1>t. conns \in [Conns -> ConnRec]  BY TypeFacts DEF RInv
<1>1. CASE SendFails(x)
  BY <1>1, <1>t, DeadType, DeadDeader, StepDead DEF SendFails
<1>2. CASE QueueFull(x)
  <2>1. conns' \in [Conns -> ConnRec] /\ Deader  BY <1>2, <1>t DEF QueueFull, ConnRec, Deader
  <2> QED BY <1>2, <2>1, StepDead DEF QueueFull
<1>3. CASE CreateFails(x)
  <2>1. \A r \in Nat : Uncounted(r, 1) \in Nat  BY DEF Uncounted
  <2>2. PICK r \in Nat : conns' = [Dead(conns, {x}) EXCEPT ![x].ref = r]
    BY <1>3, <1>t, <2>1 DEF CreateFails, Dead, ConnRec
  <2>3. conns' \in [Conns -> ConnRec] /\ Deader  BY <1>t, <2>2 DEF Dead, ConnRec, Deader
  <2> QED BY <1>3, <2>3, StepDead DEF CreateFails
<1> QED BY <1>1, <1>2, <1>3

-----------------------------------------------------------------------------
(* Links.                                                                  *)

\* relay_accept_cb: a slot without descriptor is used by no circuit.
LEMMA StepAccept ==
    ASSUME RInv, NEW x \in Links, NEW p \in BOOLEAN, Accept(x, p)
    PROVE  RInv'
<1>t. /\ circs \in [Circuits -> CircRec] /\ conns \in [Conns -> ConnRec]
      /\ chans \in [Chans -> ChanRec]
      /\ works \subseteq Work /\ results \in Seq(Result)
  BY TypeFacts DEF RInv, WorkTypeOK
<1> DEFINE r == [NoConn EXCEPT !.open = TRUE, !.fd = TRUE, !.watched = TRUE]
<1>c. r \in ConnRec /\ r.open /\ r.fd /\ r.watched /\ r.ref = 0  BY DEF NoConn, ConnRec
<1>f. /\ x \in Conns /\ ~conns[x].fd
      /\ conns' = [conns EXCEPT ![x] = r]
      /\ UNCHANGED <<circs, pending, table, cookies, works, results>>
  BY DEF Accept, Conns
<1> HIDE DEF r
<1>h. /\ \A y \in Conns : conns[y].fd => conns'[y] = conns[y]
      /\ \A y \in Conns : conns[y].fd => conns'[y].fd
      /\ conns'[x].fd
  BY <1>t, <1>f, <1>c DEF ConnRec
<1>g. \/ chans' = chans
      \/ \E h \in Chans :
           /\ chans[h].state = "CLOSED"
           /\ chans' = [chans EXCEPT ![h] = [state |-> "OPEN", conn |-> x, mux |-> {}]]
  <2>1. FreeChans # {} => /\ Least(FreeChans) \in Chans
                          /\ chans[Least(FreeChans)].state = "CLOSED"
    BY LeastIn DEF FreeChans
  <2> QED BY <2>1 DEF Accept
<1>1. Typed'
  <2>1. conns' \in [Conns -> ConnRec]  BY <1>t, <1>f, <1>c
  <2>2. chans' \in [Chans -> ChanRec]  BY <1>t, <1>f, <1>g DEF ChanRec
  <2> QED BY <1>f, <2>1, <2>2 DEF RInv, Typed, ConnRec, ChanRec
<1>2. LinksAlive'  BY <1>t, <1>f, <1>h, LinksKept DEF RInv
<1>3. ChanKnows'
  <2>1. ChanKnows BY DEF RInv
  <2> QED BY <1>t, <1>f, <1>g, <2>1 DEF ChanKnows, CircRec, ChanRec
<1>4. ChansSound'
  <2>1. CASE chans' = chans
    BY <2>1, <1>t, <1>f, <1>h, ChansKept DEF RInv
  <2>2. ASSUME NEW h \in Chans,
               chans' = [chans EXCEPT ![h] = [state |-> "OPEN", conn |-> x, mux |-> {}]]
        PROVE  ChansSound'
    <3>1. chans'[h].mux = {} /\ chans'[h].conn = x  BY <2>2, <1>t DEF ChanRec
    <3>2. \A k \in Chans \ {h} : /\ chans'[k] = chans[k]
                                 /\ chans[k].conn \in Conns \cup {None}
      BY <2>2, <1>t DEF ChanRec
    <3> QED BY <3>1, <3>2, <1>f, <1>h DEF RInv, ChansSound
  <2> QED BY <2>1, <2>2, <1>g
<1>5. RefcountExact'
  <2>1. RefcountExact /\ LinksAlive  BY DEF RInv
  <2>2. PrevUsers(x) = {} /\ NextUsers(x) = {}
    BY <1>t, <1>f, <2>1, NoneFacts DEF LinksAlive, PrevUsers, NextUsers, CircRec
  <2>3. ASSUME NEW y \in Links
        PROVE  PrevUsers(y)' = PrevUsers(y) /\ NextUsers(y)' = NextUsers(y)
    BY <1>f DEF PrevUsers, NextUsers
  <2>4. ASSUME NEW y \in Links, conns'[y].open
        PROVE  conns'[y].ref = Cardinality(PrevUsers(y)) + Cardinality(NextUsers(y))
    <3>1. CASE y = x
      BY <3>1, <2>2, FS_EmptySet, <1>c, <1>f, <1>t
    <3>2. CASE y # x
      BY <3>2, <2>1, <2>4, <1>f, <1>t DEF RefcountExact, Conns
    <3> QED BY <3>1, <3>2
  <2> QED BY <2>3, <2>4 DEF RefcountExact
<1>6. ResultLinks'  BY <1>t, <1>f, <1>h, ResultsKept DEF RInv, Conns
<1>7. /\ WorkTypeOK' /\ PendingExact' /\ MarkedSound' /\ PartnersMutual'
      /\ CookiesLive' /\ TableExact' /\ WorkKnown'
  BY <1>f DEF RInv, WorkTypeOK, PendingExact, MarkedSound, PartnersMutual,
              CookiesLive, TableExact, WorkKnown, Waits
<1>8. OpenHasFd'  BY <1>c, <1>f, <1>t DEF RInv, OpenHasFd
<1> QED BY <1>1, <1>2, <1>3, <1>4, <1>5, <1>6, <1>7, <1>8 DEF RInv

-----------------------------------------------------------------------------
(* Marking and closing.                                                    *)

\* What moor_circuit_mark_for_close_ changes, circuit by circuit.
LEMMA MarkedFacts ==
    ASSUME circs \in [Circuits -> CircRec], pending \in [Circuits -> Nat],
           NEW S \in SUBSET Circuits
    PROVE  /\ NewlyMarked(S) \subseteq {c \in Circuits : circs[c].live /\ ~circs[c].marked}
           /\ \A c \in S : c \in Circuits /\ circs[c].live /\ ~circs[c].marked
                               => c \in NewlyMarked(S)
           /\ MarkedCircs(S) \in [Circuits -> CircRec]
           /\ MarkedPending(S) \in [Circuits -> Nat]
           /\ \A c \in Circuits :
                LET m == MarkedCircs(S)[c]
                IN  /\ m.live = circs[c].live /\ m.prev = circs[c].prev
                    /\ m.next = circs[c].next /\ m.chan = circs[c].chan
                    /\ m.extending = circs[c].extending
                    /\ m.marked <=> (circs[c].marked \/ c \in NewlyMarked(S))
                    /\ m.partner = IF c \in NewlyMarked(S)
                                      \/ circs[c].partner \in NewlyMarked(S)
                                   THEN None ELSE circs[c].partner
           /\ \A c \in Circuits :
                MarkedPending(S)[c] = IF c \in NewlyMarked(S) THEN pending[c] + 1
                                      ELSE pending[c]
<1>1. NewlyMarked(S) \subseteq {c \in Circuits : circs[c].live /\ ~circs[c].marked}
  BY DEF NewlyMarked
<1>2. \A c \in S : c \in Circuits /\ circs[c].live /\ ~circs[c].marked
                       => c \in NewlyMarked(S)
  BY DEF NewlyMarked
<1>3. MarkedCircs(S) \in [Circuits -> CircRec]  BY DEF MarkedCircs, CircRec
<1>4. MarkedPending(S) \in [Circuits -> Nat]  BY DEF MarkedPending
<1>5. ASSUME NEW c \in Circuits
      PROVE  LET m == MarkedCircs(S)[c]
             IN  /\ m.live = circs[c].live /\ m.prev = circs[c].prev
                 /\ m.next = circs[c].next /\ m.chan = circs[c].chan
                 /\ m.extending = circs[c].extending
                 /\ m.marked <=> (circs[c].marked \/ c \in NewlyMarked(S))
                 /\ m.partner = IF c \in NewlyMarked(S)
                                   \/ circs[c].partner \in NewlyMarked(S)
                                THEN None ELSE circs[c].partner
  BY DEF MarkedCircs, CircRec
<1>6. \A c \in Circuits :
        MarkedPending(S)[c] = IF c \in NewlyMarked(S) THEN pending[c] + 1
                              ELSE pending[c]
  BY DEF MarkedPending, NewlyPending
<1> QED BY <1>1, <1>2, <1>3, <1>4, <1>5, <1>6

\* The parts of the invariant that marking alone could break, when links are
\* cleared at the same time or not.
LEMMA MarkSound ==
    ASSUME RInv, NEW S \in SUBSET Circuits,
           pending' = MarkedPending(S),
           \A c \in Circuits : /\ circs'[c].live = circs[c].live
                               /\ circs'[c].marked = MarkedCircs(S)[c].marked
                               /\ circs'[c].partner = MarkedCircs(S)[c].partner
    PROVE  PendingExact' /\ MarkedSound' /\ PartnersMutual'
<1>t. circs \in [Circuits -> CircRec] /\ pending \in [Circuits -> Nat]  BY TypeFacts DEF RInv
<1>m. /\ NewlyMarked(S) \subseteq {c \in Circuits : circs[c].live /\ ~circs[c].marked}
      /\ \A c \in Circuits :
           /\ circs'[c].marked <=> (circs[c].marked \/ c \in NewlyMarked(S))
           /\ circs'[c].partner = IF c \in NewlyMarked(S)
                                      \/ circs[c].partner \in NewlyMarked(S)
                                  THEN None ELSE circs[c].partner
           /\ pending'[c] = IF c \in NewlyMarked(S) THEN pending[c] + 1 ELSE pending[c]
  BY <1>t, MarkedFacts
<1>1. PendingExact'
  <2>1. PendingExact  BY DEF RInv
  <2>2. ASSUME NEW c \in Circuits PROVE pending'[c] = IF circs'[c].marked THEN 1 ELSE 0
    <3>1. pending[c] = IF circs[c].marked THEN 1 ELSE 0  BY <2>1 DEF PendingExact
    <3> QED BY <3>1, <1>m
  <2> QED BY <2>2 DEF PendingExact
<1>2. MarkedSound'  BY <1>m DEF RInv, MarkedSound
<1>3. PartnersMutual'
  <2> SUFFICES ASSUME NEW c \in Circuits, circs'[c].live, circs'[c].partner # None
               PROVE  /\ circs'[circs'[c].partner].live
                      /\ circs'[circs'[c].partner].partner = c
    BY DEF PartnersMutual
  <2> DEFINE p == circs[c].partner
  <2>1. /\ circs'[c].partner = p /\ p # None
        /\ c \notin NewlyMarked(S) /\ p \notin NewlyMarked(S)
    BY <1>m
  <2>2. p \in Circuits  BY <1>t, <2>1 DEF CircRec
  <2>3. circs[p].live /\ circs[p].partner = c  BY <2>1 DEF RInv, PartnersMutual
  <2> QED BY <1>m, <2>1, <2>2, <2>3
<1> QED BY <1>1, <1>2, <1>3

\* moor_circuit_mark_for_close_ keeps the invariant.
LEMMA StepMark ==
    ASSUME RInv, NEW S \in SUBSET Circuits, circs' = MarkedCircs(S), pending' = MarkedPending(S),
           UNCHANGED <<table, conns, chans, cookies, works, results>>
    PROVE  RInv'
<1>t. /\ circs \in [Circuits -> CircRec] /\ pending \in [Circuits -> Nat]
      /\ conns \in [Conns -> ConnRec] /\ chans \in [Chans -> ChanRec]
      /\ works \subseteq Work /\ results \in Seq(Result) /\ cookies \in [Slots -> Circuits \cup {None}]
  BY TypeFacts DEF RInv, WorkTypeOK
<1>m. /\ circs' \in [Circuits -> CircRec] /\ pending' \in [Circuits -> Nat]
      /\ \A c \in Circuits :
           /\ circs'[c].live = circs[c].live /\ circs'[c].prev = circs[c].prev
           /\ circs'[c].next = circs[c].next /\ circs'[c].chan = circs[c].chan
           /\ circs'[c].extending = circs[c].extending
           /\ circs[c].marked => circs'[c].marked
           /\ circs'[c].partner \in {circs[c].partner, None}
  <2>1. \A c \in Circuits :
           LET m == MarkedCircs(S)[c]
           IN  /\ m.live = circs[c].live /\ m.prev = circs[c].prev
               /\ m.next = circs[c].next /\ m.chan = circs[c].chan
               /\ m.extending = circs[c].extending
               /\ m.marked <=> (circs[c].marked \/ c \in NewlyMarked(S))
               /\ m.partner \in {circs[c].partner, None}
    BY <1>t, MarkedFacts
  <2> QED BY <1>t, <2>1, MarkedFacts
<1>1. Typed'  BY <1>m DEF RInv, Typed, CircRec
<1>2. PendingExact' /\ MarkedSound' /\ PartnersMutual'  BY <1>m, MarkSound
<1>3. SameLinks  BY <1>m DEF SameLinks
<1>4. RefcountExact' /\ TableExact'  BY <1>3, RefsKept, TableKept DEF RInv
<1>5. LinksAlive'  BY <1>t, <1>m, LinksKept DEF RInv
<1>6. ChanKnows'  BY <1>t, <1>m, ChanKept DEF RInv
<1>7. ChansSound'  BY <1>t, <1>m, ChansKept DEF RInv
<1>8. CookiesLive'  BY <1>t, <1>m DEF RInv, CookiesLive
<1>9. WorkKnown'  BY <1>t, <1>m, WorkKept DEF RInv, Waits
<1>10. WorkTypeOK' /\ ResultLinks' /\ OpenHasFd'
  BY DEF RInv, WorkTypeOK, ResultLinks, OpenHasFd
<1> QED BY <1>1, <1>2, <1>4, <1>5, <1>6, <1>7, <1>8, <1>9, <1>10 DEF RInv

\* moor_connection_close keeps all of the invariant but what is said of the
\* links in the result queue.
LEMMA CloseSound ==
    ASSUME RInv, NEW x \in Conns, NEW S \in SUBSET Circuits,
           CloseMarking(x, S), UNCHANGED <<cookies, works>>
    PROVE  /\ Typed' /\ PendingExact' /\ MarkedSound' /\ PartnersMutual'
           /\ LinksAlive' /\ ChanKnows' /\ ChansSound' /\ CookiesLive'
           /\ TableExact' /\ RefcountExact' /\ OpenHasFd'
           /\ \A y \in Conns \ {x} : conns'[y] = conns[y]
           /\ \A c \in Circuits : Waits(c) => Waits(c)'
<1> DEFINE T == S \cup MuxOf(ChansOf(x))
<1>t. /\ circs \in [Circuits -> CircRec] /\ pending \in [Circuits -> Nat]
      /\ conns \in [Conns -> ConnRec] /\ chans \in [Chans -> ChanRec]
      /\ table \subseteq Conns \X Circuits
      /\ works \subseteq Work /\ results \in Seq(Result) /\ cookies \in [Slots -> Circuits \cup {None}]
  BY TypeFacts DEF RInv, WorkTypeOK
<1>f. /\ circs' = Nullify(MarkedCircs(T), x)
      /\ pending' = MarkedPending(T)
      /\ table' = {e \in table : e[1] # x}
      /\ chans' = Detached(ChansOf(x))
      /\ conns' = [conns EXCEPT ![x] = NoConn]
  BY DEF CloseMarking
<1>u. T \in SUBSET Circuits /\ \A h \in ChansOf(x) : chans[h].mux \subseteq T
  BY <1>t DEF MuxOf, ChansOf, ChanRec
<1> HIDE DEF T
<1>m. /\ NewlyMarked(T) \subseteq {c \in Circuits : circs[c].live /\ ~circs[c].marked}
      /\ \A c \in T : c \in Circuits /\ circs[c].live /\ ~circs[c].marked
                          => c \in NewlyMarked(T)
      /\ MarkedCircs(T) \in [Circuits -> CircRec]
      /\ pending' \in [Circuits -> Nat]
      /\ \A c \in Circuits :
           LET m == MarkedCircs(T)[c]
           IN  /\ m.live = circs[c].live /\ m.prev = circs[c].prev
               /\ m.next = circs[c].next /\ m.chan = circs[c].chan
               /\ m.extending = circs[c].extending
               /\ m.marked <=> (circs[c].marked \/ c \in NewlyMarked(T))
               /\ m.partner \in {circs[c].partner, None}
  BY <1>t, <1>f, <1>u, MarkedFacts
<1>n. /\ circs' \in [Circuits -> CircRec]
      /\ \A c \in Circuits :
           /\ circs'[c].live = MarkedCircs(T)[c].live
           /\ circs'[c].marked = MarkedCircs(T)[c].marked
           /\ circs'[c].partner = MarkedCircs(T)[c].partner
           /\ circs'[c].chan = MarkedCircs(T)[c].chan
           /\ circs'[c].extending = MarkedCircs(T)[c].extending
           /\ circs'[c].prev = IF MarkedCircs(T)[c].prev = x THEN None
                               ELSE MarkedCircs(T)[c].prev
           /\ circs'[c].next = IF MarkedCircs(T)[c].next = x THEN None
                               ELSE MarkedCircs(T)[c].next
  <2> DEFINE cs == MarkedCircs(T)
  <2>1. circs' = Nullify(cs, x) /\ cs \in [Circuits -> CircRec]  BY <1>f, <1>m
  <2> HIDE DEF cs
  <2>2. circs' \in [Circuits -> CircRec]  BY <2>1 DEF Nullify, CircRec
  <2>3. ASSUME NEW c \in Circuits
        PROVE  /\ circs'[c].live = cs[c].live /\ circs'[c].marked = cs[c].marked
               /\ circs'[c].partner = cs[c].partner /\ circs'[c].chan = cs[c].chan
               /\ circs'[c].extending = cs[c].extending
               /\ circs'[c].prev = IF cs[c].prev = x THEN None ELSE cs[c].prev
               /\ circs'[c].next = IF cs[c].next = x THEN None ELSE cs[c].next
    BY <2>1 DEF Nullify, CircRec
  <2> QED BY <2>2, <2>3 DEF cs
<1>c. \A c \in Circuits :
        /\ circs'[c].live = circs[c].live
        /\ circs'[c].marked <=> (circs[c].marked \/ c \in NewlyMarked(T))
        /\ circs'[c].partner \in {circs[c].partner, None}
        /\ circs'[c].chan = circs[c].chan
        /\ circs'[c].extending = circs[c].extending
        /\ circs'[c].prev = IF circs[c].prev = x THEN None ELSE circs[c].prev
        /\ circs'[c].next = IF circs[c].next = x THEN None ELSE circs[c].next
  BY <1>m, <1>n
<1>h. /\ chans' \in [Chans -> ChanRec]
      /\ \A h \in Chans :
           /\ chans'[h].mux = chans[h].mux
           /\ chans[h].conn = x => h \in ChansOf(x) /\ chans'[h].conn = None
           /\ chans[h].conn # x => chans'[h] = chans[h]
  BY <1>t, <1>f DEF Detached, ChansOf, ChanRec
<1>x. conns' \in [Conns -> ConnRec] /\ \A y \in Conns \ {x} : conns'[y] = conns[y]
  BY <1>t, <1>f DEF NoConn, ConnRec
<1>1. Typed'
  <2>1. table' \subseteq Conns \X Circuits  BY <1>t, <1>f
  <2> QED BY <1>t, <1>m, <1>n, <1>h, <1>x, <2>1 DEF Typed, CircRec, ConnRec, ChanRec
<1>2. PendingExact' /\ MarkedSound' /\ PartnersMutual'
  <2>1. \A c \in Circuits : circs'[c].live = circs[c].live  BY <1>c
  <2> QED BY <1>f, <1>n, <1>u, <2>1, MarkSound
<1>3. LinksAlive'
  <2>1. \A c \in Circuits : x \notin {circs'[c].prev, circs'[c].next}  BY <1>c, NoneFacts
  <2>2. \A c \in Circuits : /\ circs'[c].live => circs[c].live
                            /\ circs'[c].prev \in {circs[c].prev, None}
                            /\ circs'[c].next \in {circs[c].next, None}
    BY <1>c
  <2>3. LinksAlive  BY DEF RInv
  <2> QED BY <1>t, <1>x, <2>1, <2>2, <2>3, LinksKept
<1>4. ChanKnows'
  <2> SUFFICES ASSUME NEW c \in Circuits, circs'[c].live, ~circs'[c].marked,
                      circs'[c].chan # None
               PROVE  /\ chans'[circs'[c].chan].state = "OPEN"
                      /\ c \in chans'[circs'[c].chan].mux
    BY DEF ChanKnows
  <2> DEFINE h == circs[c].chan
  <2>1. /\ circs[c].live /\ ~circs[c].marked /\ circs'[c].chan = h /\ h # None
        /\ c \notin NewlyMarked(T)
    BY <1>c
  <2>2. h \in Chans  BY <1>t, <2>1 DEF CircRec
  <2>3. chans[h].state = "OPEN" /\ c \in chans[h].mux  BY <2>1 DEF RInv, ChanKnows
  <2>4. h \notin ChansOf(x)  BY <1>m, <1>u, <2>1, <2>3
  <2> HIDE DEF h
  <2> QED BY <1>h, <2>1, <2>2, <2>3, <2>4
<1>5. ChansSound'
  <2>1. ChansSound  BY DEF RInv
  <2>2. \A h \in Chans : chans[h].mux \subseteq Circuits /\ chans[h].conn \in Conns \cup {None}
    BY <1>t DEF ChanRec
  <2> QED BY <1>c, <1>h, <1>x, <2>1, <2>2 DEF ChansSound
<1>6. CookiesLive'  BY <1>t, <1>c DEF RInv, CookiesLive
<1>7. TableExact'
  <2>1. TableExact  BY DEF RInv
  <2> QED BY <1>c, <1>f, <2>1, NoneFacts DEF TableExact
<1>8. RefcountExact'
  <2>1. ASSUME NEW y \in Links, y # x
        PROVE  PrevUsers(y)' = PrevUsers(y) /\ NextUsers(y)' = NextUsers(y)
    BY <1>c, <2>1, NoneFacts DEF PrevUsers, NextUsers, Conns
  <2>2. ~conns'[x].open  BY <1>t, <1>f DEF NoConn, ConnRec
  <2> QED BY <1>x, <2>1, <2>2 DEF RInv, RefcountExact, Conns
<1>9. \A c \in Circuits : Waits(c) => Waits(c)'  BY <1>c DEF Waits
<1>10. OpenHasFd'  BY <1>t, <1>f, <1>x DEF RInv, OpenHasFd, NoConn, ConnRec
<1> QED BY <1>1, <1>2, <1>3, <1>4, <1>5, <1>6, <1>7, <1>8, <1>9, <1>10, <1>x

\* relay_read_cb, the reapers and stale events keep the invariant: a link in
\* the result queue is not in the event loop yet.
LEMMA StepClose ==
    ASSUME RInv, NEW x \in Conns, NEW S \in SUBSET Circuits,
           CloseMarking(x, S),
           x \in Links \/ conns[x].watched,
           UNCHANGED <<cookies, works, results>>
    PROVE  RInv'
<1>t. works \subseteq Work /\ results \in Seq(Result)  BY DEF RInv, WorkTypeOK
<1>1. /\ Typed' /\ PendingExact' /\ MarkedSound' /\ PartnersMutual'
      /\ LinksAlive' /\ ChanKnows' /\ ChansSound' /\ CookiesLive'
      /\ TableExact' /\ RefcountExact' /\ OpenHasFd'
      /\ \A y \in Conns \ {x} : conns'[y] = conns[y]
      /\ \A c \in Circuits : Waits(c) => Waits(c)'
  BY CloseSound
<1>2. WorkTypeOK' /\ WorkKnown'  BY <1>1, <1>t, WorkKept DEF RInv, WorkTypeOK
<1>3. ResultLinks'
  <2>1. \A o \in Outs : conns[o].fd /\ ~conns[o].watched => o # x  BY RelayAssumption
  <2> QED BY <1>1, <1>t, <2>1, ResultsKept DEF RInv, Conns
<1> QED BY <1>1, <1>2, <1>3 DEF RInv

-----------------------------------------------------------------------------
(* The queue of results.                                                   *)

\* What is left of a queue when its head is taken.
LEMMA TailFacts ==
    ASSUME NEW q \in Seq(Result), q # <<>>
    PROVE  /\ Head(q) \in Result /\ Head(q) = q[1] /\ 1 \in DOMAIN q
           /\ Tail(q) \in Seq(Result)
           /\ \A i \in DOMAIN Tail(q) :
                i \in Nat /\ i >= 1 /\ i + 1 \in DOMAIN q /\ Tail(q)[i] = q[i + 1]
OBVIOUS

\* The head of the queue is the only work for its circuit.
LEMMA TailWork ==
    ASSUME WorkKnown, works \subseteq Work, results \in Seq(Result), results # <<>>,
           results' = Tail(results), works' = works,
           \A c \in Circuits \ {Head(results).circ} : Waits(c) => Waits(c)'
    PROVE  WorkKnown'
<1>0. \A i \in DOMAIN results : results[i] \in Result  OBVIOUS
<1>1. \A i \in DOMAIN results : results[i].circ \in Circuits \cup {None}  BY <1>0 DEF Result
<1>2. \A w \in works : w.circ \in Circuits \cup {None}  BY DEF Work
<1>3. /\ Head(results) = results[1] /\ 1 \in DOMAIN results
      /\ \A i \in DOMAIN results' :
           i \in Nat /\ i >= 1 /\ i + 1 \in DOMAIN results /\ results'[i] = results[i + 1]
  BY TailFacts
<1>4. \A i \in DOMAIN results', c \in Circuits : results'[i].circ = c => Waits(c)'
  <2> SUFFICES ASSUME NEW i \in DOMAIN results', NEW c \in Circuits, results'[i].circ = c
               PROVE  Waits(c)'
    OBVIOUS
  <2>1. i + 1 \in DOMAIN results /\ results[i + 1].circ = c /\ i + 1 # 1  BY <1>3
  <2>2. Waits(c) /\ c # results[1].circ  BY <1>3, <2>1, NoneFacts DEF WorkKnown
  <2> QED BY <1>3, <2>2
<1>5. \A w \in works : w.circ # None => Waits(w.circ)'  BY <1>2, <1>3 DEF WorkKnown
<1>6. \A i, j \in DOMAIN results' :
         results'[i].circ = results'[j].circ /\ results'[i].circ # None => i = j
  <2> SUFFICES ASSUME NEW i \in DOMAIN results', NEW j \in DOMAIN results',
                      results'[i].circ = results'[j].circ, results'[i].circ # None
               PROVE  i = j
    OBVIOUS
  <2>1. i + 1 = j + 1  BY <1>3 DEF WorkKnown
  <2> QED BY <1>3, <2>1
<1>7. \A w \in works', i \in DOMAIN results' : w.circ # None => results'[i].circ # w.circ
  BY <1>3 DEF WorkKnown
<1>8. \A i \in DOMAIN results' : results'[i].circ \in Circuits \cup {None}  BY <1>1, <1>3
<1>9. /\ (\A w \in works : w.circ # None => Waits(w.circ))'
      /\ (\A i \in DOMAIN results : results[i].circ # None => Waits(results[i].circ))'
  BY <1>4, <1>5, <1>8 DEF Waits
<1> QED BY <1>6, <1>7, <1>9 DEF WorkKnown

\* The link of the head is in no other result.
LEMMA TailLinks ==
    ASSUME ResultLinks, results \in Seq(Result), results # <<>>,
           results' = Tail(results),
           \A o \in Outs \ {Head(results).next} :
               conns[o].fd /\ ~conns[o].watched => conns'[o].fd /\ ~conns'[o].watched
    PROVE  ResultLinks'
<1>0. \A i \in DOMAIN results : results[i] \in Result  OBVIOUS
<1>1. \A i \in DOMAIN results : results[i].next \in Outs \cup {None}  BY <1>0 DEF Result
<1>3. /\ Head(results) = results[1] /\ 1 \in DOMAIN results
      /\ \A i \in DOMAIN results' :
           i \in Nat /\ i >= 1 /\ i + 1 \in DOMAIN results /\ results'[i] = results[i + 1]
  BY TailFacts
<1>4. ASSUME NEW i \in DOMAIN results', results'[i].next # None
      PROVE  conns'[results'[i].next].fd /\ ~conns'[results'[i].next].watched
  <2>1. /\ i + 1 \in DOMAIN results /\ results'[i] = results[i + 1] /\ i + 1 # 1  BY <1>3
  <2>2. results[i + 1].next # results[1].next  BY <1>3, <1>4, <2>1 DEF ResultLinks
  <2> QED BY <1>1, <1>3, <1>4, <2>1, <2>2 DEF ResultLinks
<1>6. ASSUME NEW i \in DOMAIN results', NEW j \in DOMAIN results',
             results'[i].next = results'[j].next, results'[i].next # None
      PROVE  i = j
  <2>1. i + 1 = j + 1  BY <1>3, <1>6 DEF ResultLinks
  <2> QED BY <1>3, <2>1
<1> QED BY <1>4, <1>6 DEF ResultLinks

\* What extend_complete_cb knows of the result it takes.
LEMMA WantedFacts ==
    ASSUME RInv, results # <<>>
    PROVE  LET w == Head(results)
           IN  /\ w \in Result
               /\ w.prev \in Conns /\ w.next \in Outs \cup {None}
               /\ w.circ \in Circuits \cup {None}
               /\ w.circ # None => Waits(w.circ)
               /\ w.next # None => conns[w.next].fd /\ ~conns[w.next].watched
<1>t. results \in Seq(Result)  BY DEF RInv, WorkTypeOK
<1>1. Head(results) \in Result /\ Head(results) = results[1] /\ 1 \in DOMAIN results
  BY <1>t, TailFacts
<1>2. /\ Head(results).prev \in Conns /\ Head(results).next \in Outs \cup {None}
      /\ Head(results).circ \in Circuits \cup {None}
  BY <1>1 DEF Result
<1>3. Head(results).circ # None => Waits(Head(results).circ)  BY <1>1 DEF RInv, WorkKnown
<1>4. Head(results).next # None => /\ conns[Head(results).next].fd
                                   /\ ~conns[Head(results).next].watched
  BY <1>1 DEF RInv, ResultLinks
<1> QED BY <1>1, <1>2, <1>3, <1>4

\* extend_complete_cb for a result nobody waits for.
LEMMA StepDiscarded ==
    ASSUME RInv, ExtendDiscarded
    PROVE  RInv'
<1> DEFINE o == Head(results).next
<1>t. /\ works \subseteq Work /\ results \in Seq(Result) /\ results # <<>>
      /\ results' = Tail(results) /\ UNCHANGED <<cookies, works>>
  BY DEF RInv, WorkTypeOK, ExtendDiscarded
<1>w. WorkTypeOK'  BY <1>t, TailFacts DEF WorkTypeOK
<1>1. CASE o = None
  <2>1. UNCHANGED <<circs, pending, table, conns, chans>>  BY <1>1 DEF ExtendDiscarded
  <2>2. WorkKnown'  BY <1>t, <2>1, TailWork DEF RInv, Waits
  <2>3. ResultLinks'  BY <1>t, <2>1, TailLinks DEF RInv
  <2>4. /\ Typed' /\ PendingExact' /\ MarkedSound' /\ PartnersMutual' /\ LinksAlive'
        /\ ChanKnows' /\ ChansSound' /\ CookiesLive' /\ TableExact' /\ OpenHasFd'
    BY <1>t, <2>1 DEF RInv, Typed, PendingExact, MarkedSound, PartnersMutual,
         LinksAlive, ChanKnows, ChansSound, CookiesLive, TableExact, OpenHasFd
  <2>5. RefcountExact'  BY <2>1, RefsKept DEF RInv, SameLinks
  <2> QED BY <1>w, <2>2, <2>3, <2>4, <2>5 DEF RInv
<1>2. CASE o # None
  <2>1. CloseMarking(o, {}) /\ o \in Conns
    BY <1>2, <1>t, WantedFacts DEF ExtendDiscarded, Conns
  <2> HIDE DEF o
  <2>2. /\ Typed' /\ PendingExact' /\ MarkedSound' /\ PartnersMutual'
        /\ LinksAlive' /\ ChanKnows' /\ ChansSound' /\ CookiesLive'
        /\ TableExact' /\ RefcountExact' /\ OpenHasFd'
        /\ \A y \in Conns \ {o} : conns'[y] = conns[y]
        /\ \A c \in Circuits : Waits(c) => Waits(c)'
    BY <1>t, <2>1, CloseSound
  <2>3. WorkKnown'  BY <1>t, <2>2, TailWork DEF RInv
  <2>4. ResultLinks'  BY <1>t, <2>2, TailLinks DEF RInv, o, Conns
  <2> QED BY <1>w, <2>2, <2>3, <2>4 DEF RInv
<1> QED BY <1>1, <1>2

\* Sends on open connections.
LEMMA SendOnDeader ==
    ASSUME RInv, NEW S, NEW F \in SendOn(S), conns' = Dead(conns, F)
    PROVE  conns' \in [Conns -> ConnRec] /\ Deader
<1>1. conns \in [Conns -> ConnRec]  BY TypeFacts DEF RInv
<1> QED BY <1>1, DeadType, DeadDeader

\* A circuit that no longer waits: ExtendFailed and Created.
LEMMA ExtendOver ==
    ASSUME RInv, NEW c \in Circuits,
           circs' = [circs EXCEPT ![c].extending = FALSE],
           conns' \in [Conns -> ConnRec], Deader,
           UNCHANGED <<pending, table, chans, cookies, works>>
    PROVE  /\ Typed' /\ PendingExact' /\ MarkedSound' /\ PartnersMutual'
           /\ LinksAlive' /\ ChanKnows' /\ ChansSound' /\ CookiesLive'
           /\ TableExact' /\ RefcountExact' /\ OpenHasFd'
           /\ \A d \in Circuits \ {c} : Waits(d) => Waits(d)'
<1>t. /\ circs \in [Circuits -> CircRec] /\ pending \in [Circuits -> Nat]
      /\ chans \in [Chans -> ChanRec] /\ cookies \in [Slots -> Circuits \cup {None}]
  BY TypeFacts DEF RInv
<1>m. /\ circs' \in [Circuits -> CircRec]
      /\ \A d \in Circuits :
           /\ circs'[d].live = circs[d].live /\ circs'[d].prev = circs[d].prev
           /\ circs'[d].next = circs[d].next /\ circs'[d].chan = circs[d].chan
           /\ circs'[d].marked = circs[d].marked
           /\ circs'[d].partner = circs[d].partner
           /\ d # c => circs'[d].extending = circs[d].extending
  BY <1>t DEF CircRec
<1>1. Typed'  BY <1>m DEF RInv, Typed, CircRec, ConnRec
<1>2. PendingExact' /\ MarkedSound'  BY <1>m DEF RInv, PendingExact, MarkedSound
<1>3. PartnersMutual'  BY <1>t, <1>m, NoneFacts DEF RInv, PartnersMutual, CircRec
<1>4. SameLinks  BY <1>m DEF SameLinks
<1>5. RefcountExact' /\ TableExact'  BY <1>4, RefsKept, TableKept DEF RInv, Deader, Conns
<1>6. LinksAlive'  BY <1>t, <1>m, LinksKept DEF RInv, Deader
<1>7. ChanKnows'  BY <1>t, <1>m, ChanKept DEF RInv
<1>8. ChansSound'  BY <1>t, <1>m, ChansKept DEF RInv, Deader
<1>9. CookiesLive'  BY <1>t, <1>m DEF RInv, CookiesLive
<1>10. \A d \in Circuits \ {c} : Waits(d) => Waits(d)'  BY <1>m DEF Waits
<1>11. OpenHasFd'  BY DEF RInv, OpenHasFd, Deader
<1> QED BY <1>1, <1>2, <1>3, <1>5, <1>6, <1>7, <1>8, <1>9, <1>10, <1>11

\* extend_complete_cb for a worker that failed.
LEMMA StepFailed ==
    ASSUME RInv, ExtendFailed
    PROVE  RInv'
<1> DEFINE w == Head(results)
<1>t. /\ works \subseteq Work /\ results \in Seq(Result) /\ results # <<>>
      /\ results' = Tail(results) /\ UNCHANGED <<pending, table, chans, cookies, works>>
      /\ circs' = [circs EXCEPT ![w.circ].extending = FALSE]
  BY DEF RInv, WorkTypeOK, ExtendFailed
<1>c. w.circ \in Circuits  BY <1>t, WantedFacts DEF ExtendFailed, Wanted
<1>d. conns' \in [Conns -> ConnRec] /\ Deader  BY SendOnDeader DEF ExtendFailed
<1>1. /\ Typed' /\ PendingExact' /\ MarkedSound' /\ PartnersMutual'
      /\ LinksAlive' /\ ChanKnows' /\ ChansSound' /\ CookiesLive'
      /\ TableExact' /\ RefcountExact' /\ OpenHasFd'
      /\ \A d \in Circuits \ {w.circ} : Waits(d) => Waits(d)'
  <2> HIDE DEF w
  <2> QED BY <1>t, <1>c, <1>d, ExtendOver
<1>2. WorkTypeOK'  BY <1>t, TailFacts DEF WorkTypeOK
<1>3. WorkKnown'  BY <1>t, <1>1, TailWork DEF RInv
<1>4. ResultLinks'  BY <1>t, <1>d, TailLinks DEF RInv, Deader, Conns
<1> QED BY <1>1, <1>2, <1>3, <1>4 DEF RInv

\* CREATED on the fast path: no worker waits for a circuit that has a next link.
LEMMA StepCreated ==
    ASSUME RInv, NEW c \in Circuits, Created(c)
    PROVE  RInv'
<1>t. /\ works \subseteq Work /\ results \in Seq(Result)
      /\ UNCHANGED <<pending, table, chans, cookies, works, results>>
      /\ circs' = [circs EXCEPT ![c].extending = FALSE] /\ circs[c].next # None
  BY DEF RInv, WorkTypeOK, Created
<1>d. conns' \in [Conns -> ConnRec] /\ Deader  BY SendOnDeader DEF Created
<1>1. /\ Typed' /\ PendingExact' /\ MarkedSound' /\ PartnersMutual'
      /\ LinksAlive' /\ ChanKnows' /\ ChansSound' /\ CookiesLive'
      /\ TableExact' /\ RefcountExact' /\ OpenHasFd'
      /\ \A d \in Circuits \ {c} : Waits(d) => Waits(d)'
  BY <1>t, <1>d, ExtendOver
<1>2. WorkTypeOK'  BY <1>t DEF WorkTypeOK
<1>3. WorkKnown'
  <2>1. ~Waits(c)  BY <1>t DEF Waits
  <2> QED BY <1>t, <1>1, <2>1, WorkKept DEF RInv
<1>4. ResultLinks'  BY <1>t, <1>d, ResultsKept DEF RInv, Deader, Conns
<1> QED BY <1>1, <1>2, <1>3, <1>4 DEF RInv

-----------------------------------------------------------------------------
(* CREATE, EXTEND, RENDEZVOUS.                                             *)

\* The users of a link are finitely many.
LEMMA UsersFinite ==
    ASSUME NEW x
    PROVE  /\ IsFiniteSet(PrevUsers(x)) /\ IsFiniteSet(NextUsers(x))
           /\ Cardinality(PrevUsers(x)) \in Nat /\ Cardinality(NextUsers(x)) \in Nat
<1>1. PrevUsers(x) \in SUBSET Circuits /\ NextUsers(x) \in SUBSET Circuits
  BY DEF PrevUsers, NextUsers
<1>2. IsFiniteSet(Circuits)  BY RelayAssumption
<1>3. IsFiniteSet(PrevUsers(x)) /\ IsFiniteSet(NextUsers(x))  BY <1>1, <1>2, FS_Subset
<1> QED BY <1>3, FS_CardinalityType

\* moor_relay_handle_create: the circuit was free and used no link.
LEMMA StepCreate ==
    ASSUME RInv, NEW x \in Conns, NEW c \in Circuits, Create(x, c)
    PROVE  RInv'
<1>t. /\ circs \in [Circuits -> CircRec] /\ pending \in [Circuits -> Nat]
      /\ conns \in [Conns -> ConnRec] /\ chans \in [Chans -> ChanRec]
      /\ table \subseteq Conns \X Circuits
      /\ works \subseteq Work /\ results \in Seq(Result) /\ cookies \in [Slots -> Circuits \cup {None}]
  BY TypeFacts DEF RInv, WorkTypeOK
<1> DEFINE r == [NoCirc EXCEPT !.live = TRUE, !.prev = x]
<1>r. /\ r \in CircRec /\ r.live /\ ~r.marked /\ r.prev = x /\ r.next = None
      /\ r.chan = None /\ r.partner = None /\ ~r.extending
  BY DEF NoCirc, CircRec
<1>f. /\ ~circs[c].live /\ conns[x].open
      /\ circs' = [circs EXCEPT ![c] = r]
      /\ conns' = [conns EXCEPT ![x].ref = @ + 1]
      /\ table' = table \cup {<<x, c>>}
      /\ UNCHANGED <<pending, chans, cookies, works, results>>
  BY DEF Create, Readable
<1> HIDE DEF r
<1>c. circs'[c] = r /\ \A d \in Circuits \ {c} : circs'[d] = circs[d]  BY <1>t, <1>f
<1>x. /\ conns' \in [Conns -> ConnRec]
      /\ \A y \in Conns : /\ conns'[y].fd = conns[y].fd /\ conns'[y].open = conns[y].open
                          /\ conns'[y].watched = conns[y].watched
                          /\ y # x => conns'[y].ref = conns[y].ref
      /\ conns'[x].ref = conns[x].ref + 1
  <2> DEFINE n == conns[x].ref + 1
  <2>1. conns[x].ref \in Nat  BY <1>t DEF ConnRec
  <2>2. n \in Nat /\ conns' = [conns EXCEPT ![x].ref = n]  BY <1>f, <2>1
  <2> HIDE DEF n
  <2>3. conns' \in [Conns -> ConnRec] /\ conns'[x].ref = n  BY <1>t, <2>2 DEF ConnRec
  <2>4. \A y \in Conns : /\ conns'[y].fd = conns[y].fd /\ conns'[y].open = conns[y].open
                         /\ conns'[y].watched = conns[y].watched
                         /\ y # x => conns'[y].ref = conns[y].ref
    BY <1>t, <2>2 DEF ConnRec
  <2> QED BY <2>3, <2>4 DEF n
<1>l. ~circs[c].marked /\ (\A i \in Slots : cookies[i] # c) /\ ~Waits(c)
  BY <1>f, NoneFacts DEF RInv, MarkedSound, CookiesLive, Waits
<1>o. conns[x].fd  BY <1>f, <1>t DEF RInv, OpenHasFd
<1>1. Typed'
  <2>1. circs' \in [Circuits -> CircRec]  BY <1>t, <1>f, <1>r
  <2> QED BY <1>t, <1>f, <1>x, <2>1 DEF Typed, CircRec, ConnRec, ChanRec
<1>2. PendingExact' /\ MarkedSound'
  <2>1. PendingExact /\ MarkedSound  BY DEF RInv
  <2> QED BY <1>c, <1>f, <1>l, <1>r, <2>1 DEF PendingExact, MarkedSound
<1>3. PartnersMutual'
  <2>1. PartnersMutual  BY DEF RInv
  <2>2. \A d \in Circuits : circs[d].partner \in Circuits \cup {None}  BY <1>t DEF CircRec
  <2> QED BY <1>c, <1>f, <1>r, <2>1, <2>2 DEF PartnersMutual
<1>4. LinksAlive'
  <2>1. LinksAlive  BY DEF RInv
  <2>2. \A d \in Circuits : /\ circs[d].prev \in Conns \cup {None}
                            /\ circs[d].next \in Conns \cup {None}
    BY <1>t DEF CircRec
  <2> QED BY <1>c, <1>x, <1>o, <1>r, <2>1, <2>2 DEF LinksAlive
<1>5. ChanKnows'
  <2>1. ChanKnows  BY DEF RInv
  <2> QED BY <1>c, <1>f, <1>r, <2>1 DEF ChanKnows
<1>6. ChansSound'
  <2>1. \A d \in Circuits : circs[d].live => circs'[d].live  BY <1>c, <1>r
  <2> QED BY <1>t, <1>f, <1>x, <2>1, ChansKept DEF RInv
<1>7. CookiesLive'  BY <1>c, <1>f, <1>l, <1>t DEF RInv, CookiesLive
<1>8. TableExact'
  <2>1. TableExact  BY DEF RInv
  <2> QED BY <1>c, <1>f, <1>r, <2>1, NoneFacts DEF TableExact
<1>9. RefcountExact'
  <2>1. RefcountExact  BY DEF RInv
  <2>2. /\ c \notin PrevUsers(x) /\ PrevUsers(x)' = PrevUsers(x) \cup {c}
        /\ \A y \in Conns \ {x} : PrevUsers(y)' = PrevUsers(y)
        /\ \A y \in Conns : NextUsers(y)' = NextUsers(y)
    BY <1>c, <1>f, <1>r, NoneFacts DEF PrevUsers, NextUsers
  <2>3. Cardinality(PrevUsers(x)') = Cardinality(PrevUsers(x)) + 1
    BY <2>2, UsersFinite, FS_AddElement
  <2>4. ASSUME NEW y \in Links, conns'[y].open
        PROVE  conns'[y].ref = Cardinality(PrevUsers(y)') + Cardinality(NextUsers(y)')
    <3>1. y \in Conns /\ conns[y].open  BY <1>x, <2>4 DEF Conns
    <3>2. conns[y].ref = Cardinality(PrevUsers(y)) + Cardinality(NextUsers(y))
      BY <2>1, <3>1 DEF RefcountExact
    <3>3. /\ Cardinality(PrevUsers(y)) \in Nat /\ Cardinality(NextUsers(y)) \in Nat
      BY UsersFinite
    <3>4. CASE y = x
      <4>1. conns'[y].ref = conns[y].ref + 1  BY <1>x, <3>4
      <4>2. Cardinality(PrevUsers(y)') = Cardinality(PrevUsers(y)) + 1  BY <2>3, <3>4
      <4>3. NextUsers(y)' = NextUsers(y)  BY <2>2, <3>1
      <4> QED BY <3>2, <3>3, <4>1, <4>2, <4>3
    <3>5. CASE y # x
      BY <1>x, <2>2, <3>1, <3>2, <3>5
    <3> QED BY <3>4, <3>5
  <2> QED BY <2>4 DEF RefcountExact
<1>10. WorkTypeOK' /\ WorkKnown'
  <2>1. \A d \in Circuits : Waits(d) => Waits(d)'  BY <1>c, <1>l DEF Waits
  <2> QED BY <1>t, <1>f, <2>1, WorkKept DEF RInv, WorkTypeOK
<1>11. ResultLinks'  BY <1>t, <1>f, <1>x, ResultsKept DEF RInv, Conns
<1>12. OpenHasFd'  BY <1>x DEF RInv, OpenHasFd
<1> QED BY <1>1, <1>2, <1>3, <1>4, <1>5, <1>6, <1>7, <1>8, <1>9, <1>10, <1>11, <1>12 DEF RInv

\* What moor_channel_find_by_identity and moor_channel_new_outbound return.
LEMMA PeerChanFacts ==
    ASSUME chans \in [Chans -> ChanRec]
    PROVE  /\ PeerChan # None => PeerChan \in Chans /\ chans[PeerChan].state = "OPEN"
           /\ OutboundChan # None /\ PeerChan = None =>
                OutboundChan \in Chans /\ chans[OutboundChan].state = "CLOSED"
           /\ PeerChan # None => OutboundChan = PeerChan
           /\ Reusable => PeerChan # None /\ chans[PeerChan].conn \in Conns
                          /\ conns[chans[PeerChan].conn].open
<1>1. PeerChan # None => PeerChan \in Chans /\ chans[PeerChan].state = "OPEN"
  <2>1. OpenChans # {} => Least(OpenChans) \in OpenChans  BY LeastIn DEF OpenChans
  <2> QED BY <2>1 DEF PeerChan, OpenChans
<1>2. OutboundChan # None /\ PeerChan = None =>
        OutboundChan \in Chans /\ chans[OutboundChan].state = "CLOSED"
  <2>1. FreeChans # {} => Least(FreeChans) \in FreeChans  BY LeastIn DEF FreeChans
  <2> QED BY <2>1 DEF OutboundChan, FreeChans
<1>3. PeerChan # None => OutboundChan = PeerChan  BY DEF OutboundChan
<1>4. Reusable => PeerChan # None /\ chans[PeerChan].conn \in Conns
                  /\ conns[chans[PeerChan].conn].open
  BY <1>1 DEF Reusable, ChanRec
<1> QED BY <1>1, <1>2, <1>3, <1>4

\* The fast path of EXTEND: the circuit had no next link.
LEMMA StepExtendFast ==
    ASSUME RInv, NEW c \in Circuits, ExtendFast(c), ~again'
    PROVE  RInv'
<1>t. /\ circs \in [Circuits -> CircRec] /\ pending \in [Circuits -> Nat]
      /\ conns \in [Conns -> ConnRec] /\ chans \in [Chans -> ChanRec]
      /\ table \subseteq Conns \X Circuits
      /\ works \subseteq Work /\ results \in Seq(Result) /\ cookies \in [Slots -> Circuits \cup {None}]
  BY TypeFacts DEF RInv, WorkTypeOK
<1>p. PICK h \in Chans, x \in Conns :
        /\ h = PeerChan /\ x = chans[h].conn /\ chans[h].state = "OPEN" /\ conns[x].open
  BY <1>t, PeerChanFacts DEF ExtendFast
<1>h. h # None /\ chans[h].state = "OPEN" /\ conns[x].open  BY <1>p, NoneFacts
<1>g. /\ circs[c].live /\ ~circs[c].marked /\ ~circs[c].extending
      /\ UNCHANGED <<pending, cookies, works, results>>
  BY DEF ExtendFast, CanExtend, Handles
<1>o. \/ /\ circs[c].next = None
         /\ circs' = [circs EXCEPT ![c].chan = h, ![c].next = x, ![c].extending = TRUE]
         /\ conns' = [conns EXCEPT ![x].ref = @ + 1]
         /\ chans' = [chans EXCEPT ![h].mux = @ \cup {c}]
         /\ table' = table \cup {<<x, c>>}
      \/ conns' = Dead(conns, {x}) /\ UNCHANGED <<circs, chans, table>>
  BY <1>p DEF ExtendFast
<1>a. CASE conns' = Dead(conns, {x}) /\ UNCHANGED <<circs, chans, table>>
  BY <1>a, <1>g, <1>t, DeadType, DeadDeader, StepDead
<1>b. CASE /\ circs[c].next = None
           /\ circs' = [circs EXCEPT ![c].chan = h, ![c].next = x, ![c].extending = TRUE]
           /\ conns' = [conns EXCEPT ![x].ref = @ + 1]
           /\ chans' = [chans EXCEPT ![h].mux = @ \cup {c}]
           /\ table' = table \cup {<<x, c>>}
  <2>c. /\ circs' \in [Circuits -> CircRec]
        /\ \A d \in Circuits : /\ circs'[d].live = circs[d].live
                               /\ circs'[d].marked = circs[d].marked
                               /\ circs'[d].prev = circs[d].prev
                               /\ circs'[d].partner = circs[d].partner
        /\ \A d \in Circuits \ {c} : circs'[d] = circs[d]
        /\ circs'[c].chan = h /\ circs'[c].next = x /\ circs'[c].extending
    <3> DEFINE r == [circs[c] EXCEPT !.chan = h, !.next = x, !.extending = TRUE]
    <3>1. circs[c] \in CircRec  BY <1>t
    <3>2. /\ r \in CircRec /\ r.live = circs[c].live /\ r.marked = circs[c].marked
          /\ r.prev = circs[c].prev /\ r.partner = circs[c].partner
          /\ r.chan = h /\ r.next = x /\ r.extending
      BY <3>1 DEF CircRec
    <3>3. circs' = [circs EXCEPT ![c] = r]  BY <1>b, <1>t
    <3> HIDE DEF r
    <3> QED BY <1>t, <3>2, <3>3
  <2>x. /\ conns' \in [Conns -> ConnRec]
        /\ \A y \in Conns : /\ conns'[y].fd = conns[y].fd /\ conns'[y].open = conns[y].open
                            /\ conns'[y].watched = conns[y].watched
                            /\ y # x => conns'[y].ref = conns[y].ref
        /\ conns'[x].ref = conns[x].ref + 1
    <3> DEFINE n == conns[x].ref + 1
    <3>1. conns[x].ref \in Nat  BY <1>t, <1>h DEF ConnRec
    <3>2. n \in Nat /\ conns' = [conns EXCEPT ![x].ref = n]  BY <1>b, <3>1
    <3> HIDE DEF n
    <3>3. conns' \in [Conns -> ConnRec] /\ conns'[x].ref = n  BY <1>t, <1>h, <3>2 DEF ConnRec
    <3>4. \A y \in Conns : /\ conns'[y].fd = conns[y].fd /\ conns'[y].open = conns[y].open
                           /\ conns'[y].watched = conns[y].watched
                           /\ y # x => conns'[y].ref = conns[y].ref
      BY <1>t, <1>h, <3>2 DEF ConnRec
    <3> QED BY <3>3, <3>4 DEF n
  <2>h. /\ chans' \in [Chans -> ChanRec]
        /\ \A k \in Chans : chans'[k].state = chans[k].state /\ chans'[k].conn = chans[k].conn
        /\ \A k \in Chans \ {h} : chans'[k] = chans[k]
        /\ chans'[h].mux = chans[h].mux \cup {c}
    BY <1>b, <1>h, <1>t DEF ChanRec
  <2>1. Typed'
    <3>1. table' \subseteq Conns \X Circuits  BY <1>b, <1>h, <1>t
    <3> QED BY <1>g, <1>t, <2>c, <2>x, <2>h, <3>1 DEF Typed, CircRec, ConnRec, ChanRec
  <2>2. PendingExact' /\ MarkedSound'  BY <1>g, <2>c DEF RInv, PendingExact, MarkedSound
  <2>3. PartnersMutual'
    <3>1. \A d \in Circuits : circs[d].partner \in Circuits \cup {None}  BY <1>t DEF CircRec
    <3> QED BY <2>c, <3>1 DEF RInv, PartnersMutual
  <2>4. OpenHasFd'  BY <2>x DEF RInv, OpenHasFd
  <2>5. LinksAlive'
    <3>1. conns[x].fd  BY <1>h DEF RInv, OpenHasFd
    <3>2. \A d \in Circuits : /\ circs[d].prev \in Conns \cup {None}
                              /\ circs[d].next \in Conns \cup {None}
      BY <1>t DEF CircRec
    <3>3. LinksAlive  BY DEF RInv
    <3> QED BY <1>h, <2>c, <2>x, <3>1, <3>2, <3>3 DEF LinksAlive
  <2>6. ChanKnows'
    <3>1. ChanKnows  BY DEF RInv
    <3>2. \A d \in Circuits : circs[d].chan \in Chans \cup {None}  BY <1>t DEF CircRec
    <3>3. \A k \in Chans : chans[k].mux \subseteq chans'[k].mux  BY <2>h
    <3>4. ASSUME NEW d \in Circuits, d # c,
                 circs'[d].live, ~circs'[d].marked, circs'[d].chan # None
          PROVE  /\ chans'[circs'[d].chan].state = "OPEN"
                 /\ d \in chans'[circs'[d].chan].mux
      BY <2>c, <2>h, <3>1, <3>2, <3>3, <3>4 DEF ChanKnows
    <3>5. chans'[h].state = "OPEN" /\ c \in chans'[h].mux  BY <1>h, <2>h
    <3> QED BY <2>c, <3>4, <3>5 DEF ChanKnows
  <2>7. ChansSound'
    <3>1. \A k \in Chans : chans[k].mux \subseteq Circuits /\ chans[k].conn \in Conns \cup {None}
      BY <1>t DEF ChanRec
    <3>2. \A k \in Chans : chans'[k].mux \subseteq chans[k].mux \cup {c}  BY <2>h
    <3>3. ChansSound  BY DEF RInv
    <3> QED BY <1>g, <2>c, <2>x, <2>h, <3>1, <3>2, <3>3 DEF ChansSound
  <2>8. CookiesLive'  BY <1>g, <1>t, <2>c DEF RInv, CookiesLive
  <2>9. TableExact'
    <3>1. TableExact  BY DEF RInv
    <3> QED BY <1>b, <1>g, <1>h, <2>c, <3>1, NoneFacts DEF TableExact
  <2>10. RefcountExact'
    <3>1. RefcountExact  BY DEF RInv
    <3>2. /\ c \notin NextUsers(x) /\ NextUsers(x)' = NextUsers(x) \cup {c}
      BY <1>b, <1>g, <1>h, <2>c, NoneFacts DEF NextUsers
    <3>3. \A y \in Conns \ {x} : NextUsers(y)' = NextUsers(y)
      BY <1>b, <1>g, <1>h, <2>c, NoneFacts DEF NextUsers
    <3>4. \A y \in Conns : PrevUsers(y)' = PrevUsers(y)  BY <2>c DEF PrevUsers
    <3>5. Cardinality(NextUsers(x)') = Cardinality(NextUsers(x)) + 1
      BY <3>2, UsersFinite, FS_AddElement
    <3>6. ASSUME NEW y \in Links, conns'[y].open
          PROVE  conns'[y].ref = Cardinality(PrevUsers(y)') + Cardinality(NextUsers(y)')
      <4>1. y \in Conns /\ conns[y].open  BY <2>x, <3>6 DEF Conns
      <4>2. conns[y].ref = Cardinality(PrevUsers(y)) + Cardinality(NextUsers(y))
        BY <3>1, <4>1 DEF RefcountExact
      <4>3. /\ Cardinality(PrevUsers(y)) \in Nat /\ Cardinality(NextUsers(y)) \in Nat
        BY UsersFinite
      <4>4. CASE y = x
        <5>1. conns'[y].ref = conns[y].ref + 1  BY <2>x, <4>4
        <5>2. Cardinality(NextUsers(y)') = Cardinality(NextUsers(y)) + 1  BY <3>5, <4>4
        <5>3. PrevUsers(y)' = PrevUsers(y)  BY <3>4, <4>1
        <5> QED BY <4>2, <4>3, <5>1, <5>2, <5>3
      <4>5. CASE y # x
        BY <2>x, <3>3, <3>4, <4>1, <4>2, <4>5
      <4> QED BY <4>4, <4>5
    <3> QED BY <3>6 DEF RefcountExact
  <2>11. WorkTypeOK' /\ WorkKnown'
    <3>1. \A d \in Circuits : Waits(d) => Waits(d)'  BY <1>g, <2>c DEF Waits
    <3> QED BY <1>t, <1>g, <3>1, WorkKept DEF RInv, WorkTypeOK
  <2>12. ResultLinks'  BY <1>t, <1>g, <2>x, ResultsKept DEF RInv, Conns
  <2> QED BY <2>1, <2>2, <2>3, <2>4, <2>5, <2>6, <2>7, <2>8, <2>9, <2>10, <2>11, <2>12 DEF RInv
<1> QED BY <1>a, <1>b, <1>o

\* The slow path of EXTEND: no work was known for the circuit.
LEMMA StepExtendSlow ==
    ASSUME RInv, NEW c \in Circuits, ExtendSlow(c), ~again'
    PROVE  RInv'
<1>t. /\ circs \in [Circuits -> CircRec] /\ pending \in [Circuits -> Nat]
      /\ conns \in [Conns -> ConnRec] /\ chans \in [Chans -> ChanRec]
      /\ works \subseteq Work /\ results \in Seq(Result) /\ cookies \in [Slots -> Circuits \cup {None}]
  BY TypeFacts DEF RInv, WorkTypeOK
<1>g. /\ circs[c].live /\ ~circs[c].extending /\ circs[c].next = None
      /\ circs[c].prev # None
      /\ circs' = [circs EXCEPT ![c].extending = TRUE]
      /\ UNCHANGED <<pending, table, conns, chans, cookies, results>>
  BY DEF ExtendSlow, CanExtend, Handles
<1>p. PICK t \in 1..MaxWorkers, v \in Conns :
        works' = works \cup {[thread |-> t, circ |-> c, prev |-> v]}
  <2>1. circs[c].prev \in Conns  BY <1>t, <1>g DEF CircRec
  <2> QED BY <2>1 DEF ExtendSlow
<1>c. /\ circs' \in [Circuits -> CircRec]
      /\ \A d \in Circuits :
           /\ circs'[d].live = circs[d].live /\ circs'[d].prev = circs[d].prev
           /\ circs'[d].next = circs[d].next /\ circs'[d].chan = circs[d].chan
           /\ circs'[d].marked = circs[d].marked
           /\ circs'[d].partner = circs[d].partner
           /\ d # c => circs'[d].extending = circs[d].extending
      /\ circs'[c].extending
  <2>1. circs \in [Circuits -> CircRec] /\ circs' = [circs EXCEPT ![c].extending = TRUE]
    BY <1>t, <1>g
  <2> QED BY <2>1 DEF CircRec
<1>1. Typed'  BY <1>g, <1>c DEF RInv, Typed, CircRec
<1>2. PendingExact' /\ MarkedSound'  BY <1>g, <1>c DEF RInv, PendingExact, MarkedSound
<1>3. PartnersMutual'
  <2>1. \A d \in Circuits : circs[d].partner \in Circuits \cup {None}  BY <1>t DEF CircRec
  <2> QED BY <1>c, <2>1 DEF RInv, PartnersMutual
<1>4. SameLinks  BY <1>c DEF SameLinks
<1>5. RefcountExact' /\ TableExact'  BY <1>g, <1>4, RefsKept, TableKept DEF RInv
<1>6. LinksAlive'  BY <1>t, <1>g, <1>c, LinksKept DEF RInv
<1>7. ChanKnows'  BY <1>t, <1>g, <1>c, ChanKept DEF RInv
<1>8. ChansSound'  BY <1>t, <1>g, <1>c, ChansKept DEF RInv
<1>9. CookiesLive'  BY <1>t, <1>g, <1>c DEF RInv, CookiesLive
<1>10. WorkTypeOK'
  <2>1. [thread |-> t, circ |-> c, prev |-> v] \in Work  BY DEF Work
  <2> QED BY <1>t, <1>g, <1>p, <2>1 DEF WorkTypeOK
<1>11. WorkKnown'
  <2> DEFINE n == [thread |-> t, circ |-> c, prev |-> v]
  <2>0. n.circ = c /\ works' = works \cup {n}  BY <1>p
  <2> HIDE DEF n
  <2>1. WorkKnown  BY DEF RInv
  <2>2. ~Waits(c) /\ Waits(c)' /\ \A d \in Circuits : Waits(d) => Waits(d)'
    BY <1>g, <1>c DEF Waits
  <2>3. \A w \in works : w.circ # c  BY <2>1, <2>2, NoneFacts DEF WorkKnown
  <2>4. \A i \in DOMAIN results : results[i].circ # c  BY <2>1, <2>2, NoneFacts DEF WorkKnown
  <2>5. \A w \in works : w.circ \in Circuits \cup {None}  BY <1>t DEF Work
  <2>6. \A i \in DOMAIN results : results[i].circ \in Circuits \cup {None}
    <3>1. \A i \in DOMAIN results : results[i] \in Result  BY <1>t
    <3> QED BY <3>1 DEF Result
  <2>7. \A w \in works' : w.circ # None => Waits(w.circ)'
    BY <2>0, <2>1, <2>2, <2>5 DEF WorkKnown
  <2>8. \A i \in DOMAIN results, d \in Circuits : results[i].circ = d => Waits(d)'
    BY <2>1, <2>2, NoneFacts DEF WorkKnown
  <2>9. (\A i \in DOMAIN results : results[i].circ # None => Waits(results[i].circ))'
    BY <1>g, <2>6, <2>8 DEF Waits
  <2>10. \A a, b \in works' : a.circ = b.circ /\ a.circ # None => a = b
    BY <2>0, <2>1, <2>3 DEF WorkKnown
  <2>11. \A w \in works', i \in DOMAIN results : w.circ # None => results[i].circ # w.circ
    BY <2>0, <2>1, <2>4 DEF WorkKnown
  <2> QED BY <1>g, <2>1, <2>7, <2>9, <2>10, <2>11 DEF WorkKnown
<1>12. ResultLinks' /\ OpenHasFd'  BY <1>g DEF RInv, ResultLinks, OpenHasFd
<1> QED BY <1>1, <1>2, <1>3, <1>5, <1>6, <1>7, <1>8, <1>9, <1>10, <1>11, <1>12 DEF RInv

\* A worker that finds the result queue full.
LEMMA StepDropped ==
    ASSUME RInv, NEW w \in works, WorkerDropped(w)
    PROVE  RInv'
<1>1. /\ works' = works \ {w}
      /\ UNCHANGED <<circs, pending, table, conns, chans, cookies, results>>
  BY DEF WorkerDropped
<1>2. RefcountExact'  BY <1>1, RefsKept DEF RInv, SameLinks
<1>3. WorkTypeOK' /\ WorkKnown'  BY <1>1 DEF RInv, WorkTypeOK, WorkKnown, Waits
<1>4. /\ Typed' /\ PendingExact' /\ MarkedSound' /\ PartnersMutual' /\ LinksAlive'
      /\ ChanKnows' /\ ChansSound' /\ CookiesLive' /\ TableExact' /\ OpenHasFd'
      /\ ResultLinks'
  BY <1>1 DEF RInv, Typed, PendingExact, MarkedSound, PartnersMutual, LinksAlive,
              ChanKnows, ChansSound, CookiesLive, TableExact, OpenHasFd, ResultLinks
<1> QED BY <1>2, <1>3, <1>4 DEF RInv

\* A worker that queues its result; its link was not in use.
LEMMA StepDone ==
    ASSUME RInv, NEW w \in works,
           NEW o \in {y \in Outs : ~conns[y].fd} \cup {None}, WorkerDone(w, o)
    PROVE  RInv'
<1>t. /\ circs \in [Circuits -> CircRec] /\ pending \in [Circuits -> Nat]
      /\ conns \in [Conns -> ConnRec] /\ chans \in [Chans -> ChanRec]
      /\ works \subseteq Work /\ results \in Seq(Result) /\ cookies \in [Slots -> Circuits \cup {None}]
  BY TypeFacts DEF RInv, WorkTypeOK
<1> DEFINE n == [circ |-> w.circ, prev |-> w.prev, next |-> o]
<1>n. n \in Result /\ n.circ = w.circ /\ n.next = o  BY <1>t DEF Work, Result
<1>g. /\ works' = works \ {w} /\ results' = Append(results, n)
      /\ UNCHANGED <<circs, pending, table, chans, cookies>>
  BY DEF WorkerDone
<1> HIDE DEF n
<1>s. /\ results' \in Seq(Result)
      /\ DOMAIN results' = DOMAIN results \cup {Len(results) + 1}
      /\ Len(results) + 1 \notin DOMAIN results
      /\ \A i \in DOMAIN results : results'[i] = results[i]
      /\ results'[Len(results) + 1] = n
  BY <1>t, <1>g, <1>n
<1>x. /\ conns' \in [Conns -> ConnRec]
      /\ \A y \in Conns : conns[y].fd => conns'[y] = conns[y]
      /\ \A y \in Conns : conns[y].fd => conns'[y].fd
      /\ \A y \in Links : conns'[y] = conns[y]
      /\ o # None => conns'[o].fd /\ ~conns'[o].watched
      /\ \A y \in Conns : y = o \/ conns'[y] = conns[y]
  <2> DEFINE r == [NoConn EXCEPT !.open = TRUE, !.fd = TRUE]
  <2>1. r \in ConnRec /\ r.open /\ r.fd /\ ~r.watched  BY DEF NoConn, ConnRec
  <2>2. conns' = IF o = None THEN conns ELSE [conns EXCEPT ![o] = r]  BY DEF WorkerDone
  <2> HIDE DEF r
  <2>3. o # None => o \in Conns /\ o \notin Links /\ ~conns[o].fd  BY RelayAssumption DEF Conns
  <2> QED BY <1>t, <2>1, <2>2, <2>3
<1>1. Typed'  BY <1>g, <1>x DEF RInv, Typed, ConnRec
<1>2. LinksAlive'  BY <1>t, <1>g, <1>x, LinksKept DEF RInv
<1>3. ChansSound'  BY <1>t, <1>g, <1>x, ChansKept DEF RInv
<1>4. RefcountExact'  BY <1>g, <1>x, RefsKept DEF RInv, SameLinks
<1>5. WorkTypeOK'  BY <1>t, <1>g, <1>s DEF WorkTypeOK
<1>6. WorkKnown'
  <2>1. WorkKnown  BY DEF RInv
  <2>2. \A i \in DOMAIN results' : results'[i].circ # None =>
           circs[results'[i].circ].live /\ circs[results'[i].circ].extending
           /\ circs[results'[i].circ].next = None
    BY <1>n, <1>s, <2>1 DEF WorkKnown, Waits
  <2>3. (\A i \in DOMAIN results : results[i].circ # None => Waits(results[i].circ))'
    BY <1>g, <2>2 DEF Waits
  <2>4. (\A v \in works : v.circ # None => Waits(v.circ))'  BY <1>g, <2>1 DEF WorkKnown, Waits
  <2>5. \A a, b \in works' : a.circ = b.circ /\ a.circ # None => a = b
    BY <1>g, <2>1 DEF WorkKnown
  <2>6. \A v \in works' : v.circ # None => v.circ # w.circ  BY <1>g, <2>1 DEF WorkKnown
  <2>7. \A v \in works', i \in DOMAIN results' : v.circ # None => results'[i].circ # v.circ
    BY <1>g, <1>n, <1>s, <2>1, <2>6 DEF WorkKnown
  <2>8. \A i, j \in DOMAIN results' :
           results'[i].circ = results'[j].circ /\ results'[i].circ # None => i = j
    BY <1>n, <1>s, <2>1 DEF WorkKnown
  <2> QED BY <2>3, <2>4, <2>5, <2>7, <2>8 DEF WorkKnown
<1>7. ResultLinks'
  <2>1. ResultLinks  BY DEF RInv
  <2>2. \A i \in DOMAIN results : results[i].next \in Outs \cup {None}
    <3>1. \A i \in DOMAIN results : results[i] \in Result  BY <1>t
    <3> QED BY <3>1 DEF Result
  <2>3. \A i \in DOMAIN results : results[i].next # None => results[i].next # o
    BY <2>1, NoneFacts DEF ResultLinks
  <2> QED BY <1>n, <1>s, <1>x, <2>1, <2>2, <2>3 DEF ResultLinks, Conns
<1>8. OpenHasFd'  BY <1>x, NoneFacts DEF RInv, OpenHasFd
<1>9. /\ PendingExact' /\ MarkedSound' /\ PartnersMutual' /\ ChanKnows'
      /\ CookiesLive' /\ TableExact'
  BY <1>g DEF RInv, PendingExact, MarkedSound, PartnersMutual, ChanKnows,
              CookiesLive, TableExact
<1> QED BY <1>1, <1>2, <1>3, <1>4, <1>5, <1>6, <1>7, <1>8, <1>9 DEF RInv

\* ESTABLISH_RENDEZVOUS on a circuit that is joined to nothing.
LEMMA StepEstablish ==
    ASSUME RInv, NEW c \in Circuits, EstablishRendezvous(c)
    PROVE  RInv'
<1>t. /\ circs \in [Circuits -> CircRec] /\ chans \in [Chans -> ChanRec]
      /\ works \subseteq Work /\ results \in Seq(Result) /\ cookies \in [Slots -> Circuits \cup {None}]
  BY TypeFacts DEF RInv, WorkTypeOK
<1>g. /\ circs[c].live
      /\ UNCHANGED <<circs, pending, table, chans, works, results>>
  BY DEF EstablishRendezvous, Handles
<1>k. /\ cookies' \in [Slots -> Circuits \cup {None}]
      /\ \A i \in Slots : cookies'[i] \in {None, c, cookies[i]}
  BY <1>t DEF EstablishRendezvous
<1>d. conns' \in [Conns -> ConnRec] /\ Deader
  <2>1. CASE UNCHANGED conns
    BY <2>1, TypeFacts DEF RInv, Deader
  <2>2. CASE \E F \in SendOn({circs[c].prev}) : conns' = Dead(conns, F)
    BY <2>2, SendOnDeader
  <2> QED BY <2>1, <2>2 DEF EstablishRendezvous
<1>1. Typed'  BY <1>t, <1>g, <1>d, <1>k DEF RInv, Typed, ConnRec
<1>2. LinksAlive'  BY <1>t, <1>g, <1>d, LinksKept DEF RInv, Deader
<1>3. RefcountExact'  BY <1>g, <1>d, RefsKept DEF RInv, Deader, SameLinks, Conns
<1>4. ResultLinks'  BY <1>t, <1>g, <1>d, ResultsKept DEF RInv, Deader, Conns
<1>5. ChansSound'  BY <1>t, <1>g, <1>d, ChansKept DEF RInv, Deader
<1>6. CookiesLive'  BY <1>g, <1>k DEF RInv, CookiesLive
<1>7. OpenHasFd'  BY <1>d DEF RInv, OpenHasFd, Deader
<1>8. /\ WorkTypeOK' /\ PendingExact' /\ MarkedSound' /\ PartnersMutual'
      /\ TableExact' /\ WorkKnown' /\ ChanKnows'
  BY <1>g DEF RInv, WorkTypeOK, PendingExact, MarkedSound, PartnersMutual,
         TableExact, WorkKnown, Waits, ChanKnows
<1> QED BY <1>1, <1>2, <1>3, <1>4, <1>5, <1>6, <1>7, <1>8 DEF RInv

\* RENDEZVOUS1: neither of the two circuits had a partner.
LEMMA StepRendezvous ==
    ASSUME RInv, NEW c \in Circuits, NEW i \in Slots, Rendezvous(c, i), ~again'
    PROVE  RInv'
<1> DEFINE k == cookies[i]
<1>t. /\ circs \in [Circuits -> CircRec] /\ chans \in [Chans -> ChanRec]
      /\ conns \in [Conns -> ConnRec]
      /\ works \subseteq Work /\ results \in Seq(Result) /\ cookies \in [Slots -> Circuits \cup {None}]
  BY TypeFacts DEF RInv, WorkTypeOK
<1>g. /\ circs[c].live /\ ~circs[c].marked
      /\ k # None /\ cookies' = [cookies EXCEPT ![i] = None]
      /\ UNCHANGED <<pending, table, chans, works, results>>
  BY DEF Rendezvous, Handles
<1>k. k \in Circuits /\ circs[k].live  BY <1>t, <1>g DEF RInv, CookiesLive
<1>d. conns' \in [Conns -> ConnRec] /\ Deader
  <2>1. CASE UNCHANGED conns
    BY <1>t, <2>1 DEF Deader
  <2>2. CASE \E F \in SendOn({circs[k].prev}) : conns' = Dead(conns, F)
    BY <2>2, SendOnDeader
  <2> QED BY <2>1, <2>2 DEF Rendezvous
<1>o. \/ circs' = circs
      \/ /\ circs' = [circs EXCEPT ![c].partner = k, ![k].partner = c]
         /\ ~circs[k].marked /\ circs[c].partner = None /\ circs[k].partner = None
  BY DEF Rendezvous, Finds
<1> HIDE DEF k
<1>c. /\ circs' \in [Circuits -> CircRec]
      /\ \A d \in Circuits :
           /\ circs'[d].live = circs[d].live /\ circs'[d].prev = circs[d].prev
           /\ circs'[d].next = circs[d].next /\ circs'[d].chan = circs[d].chan
           /\ circs'[d].marked = circs[d].marked
           /\ circs'[d].extending = circs[d].extending
           /\ d # c /\ d # k => circs'[d].partner = circs[d].partner
           /\ circs[d].marked => circs'[d].partner = circs[d].partner
  BY <1>t, <1>g, <1>k, <1>o DEF CircRec
<1>1. Typed'  BY <1>t, <1>g, <1>d, <1>c DEF RInv, Typed, ConnRec, CircRec
<1>2. PendingExact' /\ MarkedSound'  BY <1>g, <1>c DEF RInv, PendingExact, MarkedSound
<1>3. PartnersMutual'
  <2>1. PartnersMutual  BY DEF RInv
  <2>2. CASE circs' = circs
    BY <2>1, <2>2 DEF PartnersMutual
  <2>3. CASE /\ circs' = [circs EXCEPT ![c].partner = k, ![k].partner = c]
             /\ circs[c].partner = None /\ circs[k].partner = None
    <3>1. circs'[c].partner = k /\ circs'[k].partner = c  BY <1>t, <1>k, <2>3 DEF CircRec
    <3>2. ASSUME NEW d \in Circuits, d # c, d # k, circs'[d].live, circs'[d].partner # None
          PROVE  /\ circs'[circs'[d].partner].live
                 /\ circs'[circs'[d].partner].partner = d
      <4> DEFINE p == circs[d].partner
      <4>1. circs'[d].partner = p /\ p # None  BY <1>c, <3>2
      <4>2. p \in Circuits  BY <1>t, <4>1 DEF CircRec
      <4>3. circs[p].live /\ circs[p].partner = d  BY <1>c, <2>1, <3>2, <4>1 DEF PartnersMutual
      <4>4. p # c /\ p # k  BY <2>3, <4>3, NoneFacts
      <4> QED BY <1>c, <4>1, <4>2, <4>3, <4>4
    <3> QED BY <1>c, <1>g, <1>k, <3>1, <3>2 DEF PartnersMutual
  <2> QED BY <1>o, <2>2, <2>3
<1>4. SameLinks  BY <1>c DEF SameLinks
<1>5. RefcountExact' /\ TableExact'
  BY <1>g, <1>d, <1>4, RefsKept, TableKept DEF RInv, Deader, Conns
<1>6. LinksAlive'  BY <1>t, <1>c, <1>d, LinksKept DEF RInv, Deader
<1>7. ChanKnows'  BY <1>t, <1>g, <1>c, ChanKept DEF RInv
<1>8. ChansSound'  BY <1>t, <1>g, <1>c, <1>d, ChansKept DEF RInv, Deader
<1>9. CookiesLive'
  <2>1. \A j \in Slots : cookies'[j] \in {None, cookies[j]}  BY <1>t, <1>g
  <2> QED BY <1>t, <1>c, <2>1 DEF RInv, CookiesLive
<1>10. WorkTypeOK' /\ WorkKnown'
  <2>1. \A d \in Circuits : Waits(d) => Waits(d)'  BY <1>c DEF Waits
  <2> QED BY <1>t, <1>g, <2>1, WorkKept DEF RInv, WorkTypeOK
<1>11. ResultLinks'  BY <1>t, <1>g, <1>d, ResultsKept DEF RInv, Deader, Conns
<1>12. OpenHasFd'  BY <1>d DEF RInv, OpenHasFd, Deader
<1> QED BY <1>1, <1>2, <1>3, <1>5, <1>6, <1>7, <1>8, <1>9, <1>10, <1>11, <1>12 DEF RInv

\* extend_complete_cb for a link that is used: the circuit had no other.
LEMMA StepSucceeded ==
    ASSUME RInv, ExtendSucceeded
    PROVE  RInv'
<1>t. /\ circs \in [Circuits -> CircRec] /\ pending \in [Circuits -> Nat]
      /\ conns \in [Conns -> ConnRec] /\ chans \in [Chans -> ChanRec]
      /\ table \subseteq Conns \X Circuits
      /\ works \subseteq Work /\ results \in Seq(Result) /\ cookies \in [Slots -> Circuits \cup {None}]
  BY TypeFacts DEF RInv, WorkTypeOK
<1>p. PICK c \in Circuits, o \in Outs, v \in Conns :
        /\ c = Head(results).circ /\ o = Head(results).next /\ v = Head(results).prev
        /\ circs[c].live /\ circs[c].next = None /\ ~circs[c].marked
        /\ conns[o].fd /\ ~conns[o].watched
  <2>1. results # <<>> /\ Wanted(Head(results)) /\ Head(results).next # None
    BY DEF ExtendSucceeded
  <2>2. Head(results).circ # None /\ ~circs[Head(results).circ].marked
    BY <2>1 DEF Wanted, Finds
  <2> QED BY <2>1, <2>2, WantedFacts DEF Waits
<1>q. PICK h : h = OutboundChan  OBVIOUS
<1>f. /\ results # <<>> /\ results' = Tail(results)
      /\ circs' = [circs EXCEPT ![c].extending = FALSE, ![c].next = o, ![c].chan = h]
      /\ chans' = IF h = None THEN chans
                  ELSE IF PeerChan # None
                  THEN [chans EXCEPT ![h].mux = @ \cup {c}]
                  ELSE [chans EXCEPT ![h] = [state |-> "OPEN", conn |-> o, mux |-> {c}]]
      /\ table' = table \cup {<<o, c>>}
      /\ \E F \in SendOn({v}) : conns' = [Dead(conns, F) EXCEPT ![o].watched = TRUE]
      /\ UNCHANGED <<pending, cookies, works>>
  BY <1>p, <1>q DEF ExtendSucceeded
<1>o. o \in Conns /\ o \notin Links  BY RelayAssumption DEF Conns
<1>x. /\ conns' \in [Conns -> ConnRec]
      /\ \A y \in Conns : /\ conns'[y].fd = conns[y].fd
                          /\ y # o /\ conns'[y].watched => conns[y].watched
                          /\ conns'[y].open => conns[y].open /\ conns'[y].ref = conns[y].ref
  <2>1. PICK F \in SendOn({v}) : conns' = [Dead(conns, F) EXCEPT ![o].watched = TRUE]  BY <1>f
  <2> DEFINE cn == Dead(conns, F)
  <2>2. /\ cn \in [Conns -> ConnRec]
        /\ \A y \in Conns : /\ cn[y].fd = conns[y].fd
                            /\ cn[y].watched => conns[y].watched
                            /\ cn[y].open => conns[y].open /\ cn[y].ref = conns[y].ref
    BY <1>t DEF Dead, ConnRec
  <2>3. conns' = [cn EXCEPT ![o].watched = TRUE]  BY <2>1
  <2> HIDE DEF cn
  <2>4. /\ conns' \in [Conns -> ConnRec]
        /\ \A y \in Conns : /\ conns'[y].fd = cn[y].fd /\ conns'[y].open = cn[y].open
                            /\ conns'[y].ref = cn[y].ref
                            /\ y # o => conns'[y].watched = cn[y].watched
    BY <1>o, <2>2, <2>3 DEF ConnRec
  <2> QED BY <2>2, <2>4
<1>h. \/ h = None
      \/ h \in Chans /\ chans[h].state = "OPEN" /\ PeerChan # None
      \/ h \in Chans /\ chans[h].state = "CLOSED" /\ PeerChan = None
  BY <1>t, <1>q, PeerChanFacts
<1>c. /\ circs' \in [Circuits -> CircRec]
      /\ \A d \in Circuits : /\ circs'[d].live = circs[d].live
                             /\ circs'[d].marked = circs[d].marked
                             /\ circs'[d].prev = circs[d].prev
                             /\ circs'[d].partner = circs[d].partner
      /\ \A d \in Circuits \ {c} : circs'[d] = circs[d]
      /\ circs'[c].chan = h /\ circs'[c].next = o
  <2>1. circs' = [circs EXCEPT ![c] = [circs[c] EXCEPT !.extending = FALSE, !.next = o,
                                                       !.chan = h]]
    BY <1>f, <1>t
  <2> DEFINE r == [circs[c] EXCEPT !.extending = FALSE, !.next = o, !.chan = h]
  <2>2. h \in Chans \cup {None}  BY <1>h
  <2>3. /\ r \in CircRec /\ r.live = circs[c].live /\ r.marked = circs[c].marked
        /\ r.prev = circs[c].prev /\ r.partner = circs[c].partner
        /\ r.chan = h /\ r.next = o
    BY <1>o, <1>t, <2>2 DEF CircRec
  <2> HIDE DEF r
  <2> QED BY <1>t, <2>1, <2>3 DEF r
<1>k. /\ chans' \in [Chans -> ChanRec]
      /\ \A k \in Chans \ {h} : chans'[k] = chans[k]
      /\ h # None => /\ chans'[h].state = "OPEN" /\ c \in chans'[h].mux
                     /\ chans'[h].conn \in {chans[h].conn, o}
                     /\ chans'[h].mux \subseteq chans[h].mux \cup {c}
      /\ h # None /\ chans[h].state = "OPEN" => chans[h].mux \subseteq chans'[h].mux
  <2>1. CASE h = None
    BY <1>f, <1>t, <2>1, NoneFacts
  <2>2. CASE h \in Chans /\ chans[h].state = "OPEN" /\ PeerChan # None
    BY <1>f, <1>t, <2>2, NoneFacts DEF ChanRec
  <2>3. CASE h \in Chans /\ chans[h].state = "CLOSED" /\ PeerChan = None
    <3> DEFINE r == [state |-> "OPEN", conn |-> o, mux |-> {c}]
    <3>1. r \in ChanRec /\ r.state = "OPEN" /\ r.mux = {c} /\ r.conn = o  BY <1>o DEF ChanRec
    <3>2. chans' = [chans EXCEPT ![h] = r]  BY <1>f, <2>3, NoneFacts
    <3> HIDE DEF r
    <3> QED BY <1>t, <2>3, <3>1, <3>2, NoneFacts
  <2> QED BY <1>h, <2>1, <2>2, <2>3
<1>1. Typed'
  <2>1. table' \subseteq Conns \X Circuits  BY <1>f, <1>o, <1>t
  <2> QED BY <1>f, <1>t, <1>c, <1>x, <1>k, <2>1 DEF Typed, CircRec, ConnRec, ChanRec
<1>2. PendingExact' /\ MarkedSound'  BY <1>f, <1>c DEF RInv, PendingExact, MarkedSound
<1>3. PartnersMutual'
  <2>1. \A d \in Circuits : circs[d].partner \in Circuits \cup {None}  BY <1>t DEF CircRec
  <2> QED BY <1>c, <2>1 DEF RInv, PartnersMutual
<1>4. OpenHasFd'  BY <1>x DEF RInv, OpenHasFd
<1>5. LinksAlive'
  <2>1. \A d \in Circuits : /\ circs[d].prev \in Conns \cup {None}
                            /\ circs[d].next \in Conns \cup {None}
    BY <1>t DEF CircRec
  <2>2. LinksAlive  BY DEF RInv
  <2> QED BY <1>o, <1>p, <1>c, <1>x, <2>1, <2>2 DEF LinksAlive
<1>6. ChanKnows'
  <2>1. ChanKnows  BY DEF RInv
  <2>2. \A d \in Circuits : circs[d].chan \in Chans \cup {None}  BY <1>t DEF CircRec
  <2>3. ASSUME NEW d \in Circuits, d # c,
               circs'[d].live, ~circs'[d].marked, circs'[d].chan # None
        PROVE  /\ chans'[circs'[d].chan].state = "OPEN"
               /\ d \in chans'[circs'[d].chan].mux
    <3>1. PICK j \in Chans : j = circs[d].chan /\ circs'[d].chan = j  BY <1>c, <2>2, <2>3
    <3>2. chans[j].state = "OPEN" /\ d \in chans[j].mux  BY <1>c, <2>1, <2>3, <3>1 DEF ChanKnows
    <3> QED BY <1>k, <3>1, <3>2, NoneFacts
  <2> QED BY <1>c, <1>k, <2>3 DEF ChanKnows
<1>7. ChansSound'
  <2>1. \A k \in Chans : chans[k].mux \subseteq Circuits /\ chans[k].conn \in Conns \cup {None}
    BY <1>t DEF ChanRec
  <2>2. ChansSound  BY DEF RInv
  <2>3. ASSUME NEW k \in Chans, k # h
        PROVE  /\ \A d \in chans'[k].mux : circs'[d].live
               /\ chans'[k].conn # None => conns'[chans'[k].conn].fd
    BY <1>c, <1>k, <1>x, <2>1, <2>2, <2>3 DEF ChansSound
  <2>4. ASSUME h \in Chans
        PROVE  /\ \A d \in chans'[h].mux : circs'[d].live
               /\ chans'[h].conn # None => conns'[chans'[h].conn].fd
    <3>1. h # None  BY <2>4, NoneFacts
    <3>2. \A d \in chans'[h].mux : circs'[d].live
      BY <1>c, <1>k, <1>p, <2>1, <2>2, <2>4, <3>1 DEF ChansSound
    <3>3. chans'[h].conn # None => conns'[chans'[h].conn].fd
      BY <1>k, <1>o, <1>p, <1>x, <2>1, <2>2, <2>4, <3>1 DEF ChansSound
    <3> QED BY <3>2, <3>3
  <2> QED BY <2>3, <2>4 DEF ChansSound
<1>8. CookiesLive'  BY <1>f, <1>t, <1>c DEF RInv, CookiesLive
<1>9. TableExact'
  <2>1. TableExact  BY DEF RInv
  <2>2. \A e \in Conns \X Circuits :
          /\ circs'[e[2]].live = circs[e[2]].live /\ circs'[e[2]].prev = circs[e[2]].prev
          /\ e[2] # c => circs'[e[2]].next = circs[e[2]].next
          /\ e[2] = c => circs'[e[2]].next = o /\ circs[e[2]].next = None
    BY <1>c, <1>p
  <2>3. \A e \in Conns \X Circuits :
          e \in table' <=> e \in table \/ (e[1] = o /\ e[2] = c)
    BY <1>f
  <2>4. table' \subseteq Conns \X Circuits  BY <1>f, <1>o, <1>t
  <2>5. \A e \in Conns \X Circuits : e[1] \in Conns  OBVIOUS
  <2> QED BY <1>p, <2>1, <2>2, <2>3, <2>4, <2>5, NoneFacts DEF TableExact
<1>10. RefcountExact'
  <2>1. ASSUME NEW y \in Links
        PROVE  PrevUsers(y)' = PrevUsers(y) /\ NextUsers(y)' = NextUsers(y)
    <3>1. y # None /\ y # o  BY <1>o, NoneFacts DEF Conns
    <3> QED BY <1>c, <1>p, <3>1 DEF PrevUsers, NextUsers
  <2> QED BY <1>x, <2>1 DEF RInv, RefcountExact, Conns
<1>11. WorkTypeOK'  BY <1>f, <1>t, TailFacts DEF WorkTypeOK
<1>12. WorkKnown'
  <2>1. \A d \in Circuits \ {c} : Waits(d) => Waits(d)'  BY <1>c DEF Waits
  <2> QED BY <1>f, <1>p, <1>t, <2>1, TailWork DEF RInv
<1>13. ResultLinks'  BY <1>f, <1>p, <1>t, <1>x, TailLinks DEF RInv, Conns
<1> QED BY <1>1, <1>2, <1>3, <1>4, <1>5, <1>6, <1>7, <1>8, <1>9, <1>10, <1>11, <1>12,
           <1>13 DEF RInv

-----------------------------------------------------------------------------
(* The post-loop pass.                                                     *)

\* Of the circuits that use a link, the doomed ones leave.
LEMMA SplitCardinality ==
    ASSUME NEW S, IsFiniteSet(S), NEW D, NEW N, S = D \cup N, D \cap N = {}
    PROVE  /\ Cardinality(S) = Cardinality(D) + Cardinality(N)
           /\ Cardinality(D) \in Nat /\ Cardinality(N) \in Nat
<1>1. IsFiniteSet(D) /\ IsFiniteSet(N)  BY FS_Subset
<1>2. /\ Cardinality(D) \in Nat /\ Cardinality(N) \in Nat  BY <1>1, FS_CardinalityType
<1>3. Cardinality(D \cup N) = Cardinality(D) + Cardinality(N) - Cardinality(D \cap N)
  BY <1>1, FS_Union
<1>4. Cardinality(D \cap N) = 0  BY FS_EmptySet
<1> QED BY <1>2, <1>3, <1>4

\* moor_circuit_close_all_marked and moor_channel_close_all_marked.
LEMMA StepPostLoop ==
    ASSUME RInv, PostLoop
    PROVE  RInv'
<1>t. /\ circs \in [Circuits -> CircRec] /\ pending \in [Circuits -> Nat]
      /\ conns \in [Conns -> ConnRec] /\ chans \in [Chans -> ChanRec]
      /\ table \subseteq Conns \X Circuits
      /\ works \subseteq Work /\ results \in Seq(Result) /\ cookies \in [Slots -> Circuits \cup {None}]
  BY TypeFacts DEF RInv, WorkTypeOK
<1>p. PICK D : D = Doomed  OBVIOUS
<1>d. D = {c \in Circuits : circs[c].marked}
  <2>1. ASSUME NEW c \in Circuits PROVE pending[c] > 0 <=> circs[c].marked
    <3>1. pending[c] = IF circs[c].marked THEN 1 ELSE 0  BY DEF RInv, PendingExact
    <3> QED BY <3>1
  <2> QED BY <1>p, <2>1 DEF Doomed
<1>l. \A c \in D : c \in Circuits /\ circs[c].live  BY <1>d DEF RInv, MarkedSound
<1>f. /\ circs' = [c \in Circuits |-> IF c \in D THEN NoCirc ELSE circs[c]]
      /\ pending' = [c \in Circuits |-> 0]
      /\ table' = {e \in table : e[2] \notin D}
      /\ chans' = [h \in Chans |-> IF chans[h].state = "CLOSING" THEN NoChan
                                   ELSE [chans[h] EXCEPT !.mux = @ \ D]]
      /\ cookies' = [i \in Slots |-> IF cookies[i] \in D THEN None ELSE cookies[i]]
      /\ works' = {[w EXCEPT !.circ = IF @ \in D THEN None ELSE @] : w \in works}
      /\ results' = [i \in DOMAIN results |->
                       [results[i] EXCEPT !.circ = IF @ \in D THEN None ELSE @]]
  BY <1>p DEF PostLoop, Unregister
<1>n. /\ NoCirc \in CircRec /\ ~NoCirc.live /\ ~NoCirc.marked /\ NoCirc.prev = None
      /\ NoCirc.next = None /\ NoCirc.partner = None
  BY DEF NoCirc, CircRec
<1>c. /\ circs' \in [Circuits -> CircRec]
      /\ \A c \in D : circs'[c] = NoCirc
      /\ \A c \in Circuits \ D : circs'[c] = circs[c]
  BY <1>f, <1>l, <1>n, <1>t
<1>x. /\ conns' \in [Conns -> ConnRec]
      /\ \A y \in Conns : /\ conns'[y].fd = conns[y].fd
                          /\ conns'[y].watched => conns[y].watched
                          /\ conns'[y].open => conns[y].open
                          /\ conns'[y].ref = Uncounted(conns[y].ref, Refs(y))
  <2>1. PICK F : conns' = [y \in Conns |->
                    [Dead(conns, F)[y] EXCEPT !.ref = Uncounted(@, Refs(y))]]
    BY DEF PostLoop
  <2>2. ASSUME NEW y \in Conns
        PROVE  /\ Dead(conns, F)[y] \in ConnRec
               /\ Dead(conns, F)[y].fd = conns[y].fd
               /\ Dead(conns, F)[y].watched => conns[y].watched
               /\ Dead(conns, F)[y].open => conns[y].open
               /\ Dead(conns, F)[y].ref = conns[y].ref
    BY <1>t DEF Dead, ConnRec
  <2>3. ASSUME NEW y \in Conns PROVE Uncounted(conns[y].ref, Refs(y)) \in Nat
    <3>1. IsFiniteSet({c \in Doomed : circs[c].prev = y})
          /\ IsFiniteSet({c \in Doomed : circs[c].next = y})
      <4>1. IsFiniteSet(Circuits)  BY RelayAssumption
      <4> QED BY <4>1, FS_Subset DEF Doomed
    <3>2. Refs(y) \in Nat  BY <3>1, FS_CardinalityType DEF Refs
    <3>3. conns[y].ref \in Nat  BY <1>t DEF ConnRec
    <3> QED BY <3>2, <3>3 DEF Uncounted
  <2>4. ASSUME NEW y \in Conns
        PROVE  /\ conns'[y] \in ConnRec
               /\ conns'[y].fd = conns[y].fd
               /\ conns'[y].watched => conns[y].watched
               /\ conns'[y].open => conns[y].open
               /\ conns'[y].ref = Uncounted(conns[y].ref, Refs(y))
    <3> DEFINE dy == Dead(conns, F)[y]
               u == Uncounted(conns[y].ref, Refs(y))
    <3>1. dy \in ConnRec /\ u \in Nat  BY <2>2, <2>3
    <3>2. conns'[y] = [dy EXCEPT !.ref = u]  BY <2>1, <2>2
    <3>3. dy.fd = conns[y].fd /\ (dy.watched => conns[y].watched) /\ (dy.open => conns[y].open)
      BY <2>2
    <3> HIDE DEF dy, u
    <3>4. /\ conns'[y] \in ConnRec /\ conns'[y].ref = u /\ conns'[y].fd = dy.fd
          /\ conns'[y].watched = dy.watched /\ conns'[y].open = dy.open
      BY <3>1, <3>2 DEF ConnRec
    <3> QED BY <3>3, <3>4 DEF u
  <2>5. conns' \in [Conns -> ConnRec]
    <3>1. conns' = [y \in Conns |-> conns'[y]]  BY <2>1
    <3> QED BY <2>4, <3>1
  <2> QED BY <2>4, <2>5
<1>h. /\ chans' \in [Chans -> ChanRec]
      /\ \A h \in Chans :
           /\ chans'[h].mux \subseteq chans[h].mux \ D
           /\ chans'[h].conn \in {chans[h].conn, None}
           /\ chans[h].state = "OPEN" =>
                chans'[h].state = "OPEN" /\ chans'[h].mux = chans[h].mux \ D
  BY <1>f, <1>t DEF ChanRec, NoChan
<1>1. Typed'
  <2>1. /\ pending' \in [Circuits -> Nat] /\ table' \subseteq Conns \X Circuits
        /\ cookies' \in [Slots -> Circuits \cup {None}]
    BY <1>f, <1>t
  <2> QED BY <1>c, <1>x, <1>h, <2>1 DEF Typed, CircRec, ConnRec, ChanRec
<1>2. PendingExact' /\ MarkedSound'
  <2>1. \A c \in Circuits : ~circs'[c].marked /\ pending'[c] = 0  BY <1>c, <1>d, <1>f, <1>n
  <2> QED BY <2>1 DEF PendingExact, MarkedSound
<1>3. PartnersMutual'
  <2> SUFFICES ASSUME NEW c \in Circuits, circs'[c].live, circs'[c].partner # None
               PROVE  /\ circs'[circs'[c].partner].live
                      /\ circs'[circs'[c].partner].partner = c
    BY DEF PartnersMutual
  <2>1. c \notin D /\ circs'[c] = circs[c]  BY <1>c, <1>n
  <2>2. PICK p \in Circuits : p = circs[c].partner  BY <1>t, <2>1 DEF CircRec
  <2>3. circs[p].live /\ circs[p].partner = c  BY <2>1, <2>2, NoneFacts DEF RInv, PartnersMutual
  <2>4. p \notin D  BY <1>d, <2>3, NoneFacts DEF RInv, MarkedSound
  <2> QED BY <1>c, <2>1, <2>2, <2>3, <2>4
<1>4. LinksAlive'
  <2>1. \A c \in Circuits : /\ circs'[c].live => circs[c].live
                            /\ circs'[c].prev \in {circs[c].prev, None}
                            /\ circs'[c].next \in {circs[c].next, None}
    BY <1>c, <1>n
  <2> QED BY <1>t, <1>x, <2>1, LinksKept DEF RInv
<1>5. ChanKnows'
  <2> SUFFICES ASSUME NEW c \in Circuits, circs'[c].live, ~circs'[c].marked,
                      circs'[c].chan # None
               PROVE  /\ chans'[circs'[c].chan].state = "OPEN"
                      /\ c \in chans'[circs'[c].chan].mux
    BY DEF ChanKnows
  <2>1. c \notin D /\ circs'[c] = circs[c]  BY <1>c, <1>n
  <2>2. PICK h \in Chans : h = circs[c].chan  BY <1>t, <2>1 DEF CircRec
  <2>3. chans[h].state = "OPEN" /\ c \in chans[h].mux
    BY <2>1, <2>2, NoneFacts DEF RInv, ChanKnows
  <2> QED BY <1>h, <2>1, <2>2, <2>3
<1>6. ChansSound'
  <2>1. ChansSound  BY DEF RInv
  <2>2. \A h \in Chans : chans[h].mux \subseteq Circuits /\ chans[h].conn \in Conns \cup {None}
    BY <1>t DEF ChanRec
  <2> QED BY <1>c, <1>h, <1>x, <2>1, <2>2 DEF ChansSound
<1>7. CookiesLive'  BY <1>c, <1>f, <1>t DEF RInv, CookiesLive
<1>8. TableExact'
  <2>1. TableExact  BY DEF RInv
  <2>2. \A e \in Conns \X Circuits : e[2] \in Circuits  OBVIOUS
  <2>3. \A e \in Conns \X Circuits :
          /\ e[2] \in D => ~circs'[e[2]].live
          /\ e[2] \notin D => circs'[e[2]] = circs[e[2]]
    BY <1>c, <1>n, <2>2
  <2> QED BY <1>f, <2>1, <2>3 DEF TableExact
<1>9. RefcountExact'
  <2>1. ASSUME NEW y \in Links, conns'[y].open
        PROVE  conns'[y].ref = Cardinality(PrevUsers(y)') + Cardinality(NextUsers(y)')
    <3> DEFINE DP == {c \in D : circs[c].prev = y}
               DN == {c \in D : circs[c].next = y}
    <3>1. y \in Conns /\ conns[y].open /\ y # None  BY <1>x, <2>1, NoneFacts DEF Conns
    <3>2. conns[y].ref = Cardinality(PrevUsers(y)) + Cardinality(NextUsers(y))
      BY <3>1 DEF RInv, RefcountExact
    <3>3. Refs(y) = Cardinality(DP) + Cardinality(DN)  BY <1>p DEF Refs
    <3>4. PrevUsers(y) = DP \cup PrevUsers(y)' /\ DP \cap PrevUsers(y)' = {}
      BY <1>c, <1>l, <1>n, <3>1 DEF PrevUsers
    <3>5. NextUsers(y) = DN \cup NextUsers(y)' /\ DN \cap NextUsers(y)' = {}
      BY <1>c, <1>l, <1>n, <3>1 DEF NextUsers
    <3>6. conns'[y].ref = Uncounted(conns[y].ref, Refs(y))  BY <1>x, <3>1
    <3> HIDE DEF DP, DN
    <3>7. /\ Cardinality(PrevUsers(y)) = Cardinality(DP) + Cardinality(PrevUsers(y)')
          /\ Cardinality(DP) \in Nat /\ Cardinality(PrevUsers(y)') \in Nat
      BY <3>4, UsersFinite, SplitCardinality
    <3>8. /\ Cardinality(NextUsers(y)) = Cardinality(DN) + Cardinality(NextUsers(y)')
          /\ Cardinality(DN) \in Nat /\ Cardinality(NextUsers(y)') \in Nat
      BY <3>5, UsersFinite, SplitCardinality
    <3>9. PICK a \in Nat, b \in Nat, k \in Nat, n \in Nat :
             /\ a = Cardinality(DP) /\ b = Cardinality(PrevUsers(y)')
             /\ k = Cardinality(DN) /\ n = Cardinality(NextUsers(y)')
      BY <3>7, <3>8
    <3>10. conns'[y].ref = Uncounted((a + b) + (k + n), a + k)
      BY <3>2, <3>3, <3>6, <3>7, <3>8, <3>9
    <3>11. Uncounted((a + b) + (k + n), a + k) = b + n  BY DEF Uncounted
    <3>12. conns'[y].ref = b + n  BY <3>10, <3>11
    <3> QED BY <3>9, <3>12
  <2> QED BY <2>1 DEF RefcountExact
<1>w. \A w \in works' : \E v \in works :
        /\ v \in Work /\ w \in Work
        /\ w.thread = v.thread /\ w.prev = v.prev
        /\ w.circ = IF v.circ \in D THEN None ELSE v.circ
  <2>1. ASSUME NEW v \in works
        PROVE  LET w == [v EXCEPT !.circ = IF @ \in D THEN None ELSE @]
               IN  /\ v \in Work /\ w \in Work
                   /\ w.thread = v.thread /\ w.prev = v.prev
                   /\ w.circ = IF v.circ \in D THEN None ELSE v.circ
    BY <1>t DEF Work
  <2> SUFFICES ASSUME NEW w \in works'
               PROVE  \E v \in works :
                        /\ v \in Work /\ w \in Work
                        /\ w.thread = v.thread /\ w.prev = v.prev
                        /\ w.circ = IF v.circ \in D THEN None ELSE v.circ
    OBVIOUS
  <2>2. PICK v \in works : w = [v EXCEPT !.circ = IF @ \in D THEN None ELSE @]  BY <1>f
  <2> QED BY <2>1, <2>2
<1>r. /\ DOMAIN results' = DOMAIN results
      /\ \A i \in DOMAIN results :
           /\ results[i] \in Result /\ results'[i] \in Result
           /\ results'[i].next = results[i].next
           /\ results'[i].circ = IF results[i].circ \in D THEN None ELSE results[i].circ
  <2>1. \A i \in DOMAIN results : results[i] \in Result  BY <1>t
  <2> QED BY <1>f, <2>1 DEF Result
<1>10. WorkTypeOK'
  <2>1. works' \subseteq Work  BY <1>w
  <2>2. DOMAIN results' = 1..Len(results) /\ Len(results) \in Nat  BY <1>r, <1>t
  <2>3. results' \in [1..Len(results) -> Result]  BY <1>f, <1>r, <2>2
  <2>4. results' \in Seq(Result)  BY <2>2, <2>3, SeqDef
  <2> QED BY <2>1, <2>4 DEF WorkTypeOK
<1>11. WorkKnown'
  <2>1. WorkKnown  BY DEF RInv
  <2>2. \A c \in Circuits \ D : Waits(c) => Waits(c)'  BY <1>c DEF Waits
  <2>3. \A i \in DOMAIN results : results[i].circ \in Circuits \cup {None}  BY <1>r DEF Result
  <2>4. \A v \in works : v.circ \in Circuits \cup {None}  BY <1>t DEF Work
  <2>5. \A w \in works' : w.circ # None => Waits(w.circ)'
    BY <1>w, <2>1, <2>2, <2>4 DEF WorkKnown
  <2>6. \A i \in DOMAIN results', c \in Circuits : results'[i].circ = c => Waits(c)'
    BY <1>r, <2>1, <2>2, NoneFacts DEF WorkKnown
  <2>7. \A i \in DOMAIN results' : results'[i].circ \in Circuits \cup {None}  BY <1>r, <2>3
  <2>8. (\A i \in DOMAIN results : results[i].circ # None => Waits(results[i].circ))'
    BY <2>6, <2>7 DEF Waits
  <2>9. \A a, b \in works' : a.circ = b.circ /\ a.circ # None => a = b
    <3> SUFFICES ASSUME NEW a \in works', NEW b \in works', a.circ = b.circ, a.circ # None
                 PROVE  a = b
      OBVIOUS
    <3>1. PICK va \in works : /\ va \in Work /\ a \in Work
                              /\ a.thread = va.thread /\ a.prev = va.prev
                              /\ a.circ = va.circ
      BY <1>w
    <3>2. PICK vb \in works : /\ vb \in Work /\ b \in Work
                              /\ b.thread = vb.thread /\ b.prev = vb.prev
                              /\ b.circ = vb.circ
      BY <1>w
    <3>3. va = vb  BY <2>1, <3>1, <3>2 DEF WorkKnown
    <3> QED BY <3>1, <3>2, <3>3 DEF Work
  <2>10. \A w \in works', i \in DOMAIN results' : w.circ # None => results'[i].circ # w.circ
    BY <1>r, <1>w, <2>1 DEF WorkKnown
  <2>11. \A i, j \in DOMAIN results' :
           results'[i].circ = results'[j].circ /\ results'[i].circ # None => i = j
    BY <1>r, <2>1 DEF WorkKnown
  <2> QED BY <2>5, <2>8, <2>9, <2>10, <2>11 DEF WorkKnown
<1>12. ResultLinks'
  <2>1. ResultLinks  BY DEF RInv
  <2>2. \A i \in DOMAIN results : results[i].next \in Outs \cup {None}  BY <1>r DEF Result
  <2> QED BY <1>r, <1>x, <2>1, <2>2 DEF ResultLinks, Conns
<1>13. OpenHasFd'  BY <1>x DEF RInv, OpenHasFd
<1> QED BY <1>1, <1>2, <1>3, <1>4, <1>5, <1>6, <1>7, <1>8, <1>9, <1>10, <1>11, <1>12,
           <1>13 DEF RInv

-----------------------------------------------------------------------------
(* The theorems.                                                           *)

\* A relay starts with empty pools.
LEMMA InitRInv == Init => RInv
<1> SUFFICES ASSUME Init PROVE RInv
  OBVIOUS
<1>c. /\ NoCirc \in CircRec /\ ~NoCirc.live /\ ~NoCirc.marked /\ NoCirc.prev = None
      /\ NoCirc.next = None /\ NoCirc.partner = None
      /\ NoConn \in ConnRec /\ ~NoConn.open /\ ~NoConn.fd
      /\ NoChan \in ChanRec /\ NoChan.mux = {} /\ NoChan.conn = None
  BY DEF NoCirc, CircRec, NoConn, ConnRec, NoChan, ChanRec
<1>f. /\ circs \in [Circuits -> CircRec] /\ conns \in [Conns -> ConnRec]
      /\ chans \in [Chans -> ChanRec] /\ pending \in [Circuits -> Nat]
      /\ table = {} /\ works = {} /\ results = <<>>
      /\ cookies \in [Slots -> Circuits \cup {None}] /\ \A i \in Slots : cookies[i] = None
      /\ \A c \in Circuits : circs[c] = NoCirc /\ pending[c] = 0
      /\ \A x \in Conns : conns[x] = NoConn
      /\ \A h \in Chans : chans[h] = NoChan
  BY <1>c DEF Init
<1>1. Typed  BY <1>f, TypeFacts
<1>2. WorkTypeOK /\ WorkKnown /\ ResultLinks  BY <1>f DEF WorkTypeOK, WorkKnown, ResultLinks
<1>3. PendingExact /\ MarkedSound /\ PartnersMutual /\ LinksAlive /\ ChanKnows
  BY <1>c, <1>f DEF PendingExact, MarkedSound, PartnersMutual, LinksAlive, ChanKnows
<1>4. ChansSound /\ CookiesLive /\ OpenHasFd
  BY <1>c, <1>f DEF ChansSound, CookiesLive, OpenHasFd
<1>5. TableExact  BY <1>c, <1>f DEF TableExact
<1>6. RefcountExact  BY <1>c, <1>f DEF RefcountExact, Conns
<1> QED BY <1>1, <1>2, <1>3, <1>4, <1>5, <1>6 DEF RInv

\* A step that does nothing keeps it.
LEMMA StutterRInv == RInv /\ UNCHANGED vars => RInv'
<1> SUFFICES ASSUME RInv, UNCHANGED vars PROVE RInv'
  OBVIOUS
<1>1. UNCHANGED <<circs, pending, table, conns, chans, cookies, works, results>>  BY DEF vars
<1>2. conns' \in [Conns -> ConnRec] /\ Deader  BY <1>1, TypeFacts DEF RInv, Deader
<1> QED BY <1>1, <1>2, StepDead

\* Every step that neither extends a circuit nor joins two keeps the invariant.
LEMMA StepRInv == RInv /\ Step => RInv'
<1> SUFFICES ASSUME RInv, Step PROVE RInv'
  OBVIOUS
<1>l. Links \subseteq Conns  BY DEF Conns
<1>k. ASSUME NEW x \in Conns PROVE LinkedTo(x) \in SUBSET Circuits
  BY DEF LinkedTo
<1>1. ASSUME NEW x \in Links, NEW p \in BOOLEAN, Accept(x, p) PROVE RInv'
  BY <1>1, StepAccept
<1>2. ASSUME NEW x \in Links, Reap(x) PROVE RInv'
  BY <1>2, <1>l, <1>k, StepClose DEF Reap, Teardown
<1>3. ASSUME NEW x \in Links, StaleEvent(x) PROVE RInv'
  BY <1>3, <1>l, StepClose DEF StaleEvent
<1>4. ASSUME NEW x \in Conns, ConnLost(x) PROVE RInv'
  BY <1>4, <1>k, StepClose DEF ConnLost, Readable, Teardown
<1>5. ASSUME NEW x \in Conns, SendFails(x) \/ QueueFull(x) \/ CreateFails(x) PROVE RInv'
  BY <1>5, StepSendFails
<1>6. ASSUME NEW x \in Conns, NEW c \in Circuits, Create(x, c) PROVE RInv'
  BY <1>6, StepCreate
<1>7. ASSUME NEW c \in Circuits, MarkForClose(c) PROVE RInv'
  BY <1>7, StepMark DEF MarkForClose
<1>8. ASSUME NEW c \in Circuits, Timeout(c) PROVE RInv'
  BY <1>7, <1>8 DEF Timeout
<1>9. ASSUME NEW x \in Conns, NEW c \in Circuits, HandleDestroy(x, c) PROVE RInv'
  BY <1>7, <1>9 DEF HandleDestroy
<1>10. ASSUME NEW w \in works, WorkerDone(w, None) PROVE RInv'
  BY <1>10, StepDone
<1>11. ASSUME NEW w \in works, NEW o \in {y \in Outs : ~conns[y].fd}, WorkerDone(w, o)
       PROVE  RInv'
  BY <1>11, StepDone
<1> QED BY <1>1, <1>2, <1>3, <1>4, <1>5, <1>6, <1>8, <1>9, <1>10, <1>11, <1>l,
           StepCreated, StepEstablish, StepDropped, StepDiscarded, StepFailed,
           StepSucceeded, StepPostLoop
        DEF Step

\* So does every first extend and every first join.
LEMMA JoinRInv == RInv /\ Join /\ ~again' => RInv'
BY StepExtendFast, StepExtendSlow, StepRendezvous DEF Join

\* Extends and joins mark no circuit, be they the first or not.
LEMMA JoinPending ==
    ASSUME RInv, Join, again \in BOOLEAN
    PROVE  PendingExact' /\ again' \in BOOLEAN
<1>t. circs \in [Circuits -> CircRec] /\ cookies \in [Slots -> Circuits \cup {None}]
  BY TypeFacts DEF RInv
<1>p. PendingExact  BY DEF RInv
<1>1. ASSUME pending' = pending,
             \A c \in Circuits : circs'[c].marked = circs[c].marked
      PROVE  PendingExact'
  BY <1>p, <1>1, Zenon DEF PendingExact
<1>2. ASSUME NEW c \in Circuits, ExtendFast(c) PROVE PendingExact' /\ again' \in BOOLEAN
  <2>1. PICK h, x :
          /\ pending' = pending /\ again' \in BOOLEAN
          /\ \/ circs' = circs
             \/ circs' = [circs EXCEPT ![c].chan = h, ![c].next = x, ![c].extending = TRUE]
    BY <1>2 DEF ExtendFast
  <2>2. \A d \in Circuits : circs'[d].marked = circs[d].marked  BY <1>t, <2>1 DEF CircRec
  <2> QED BY <1>1, <2>1, <2>2
<1>3. ASSUME NEW c \in Circuits, ExtendSlow(c) PROVE PendingExact' /\ again' \in BOOLEAN
  BY <1>1, <1>3, <1>t DEF ExtendSlow, CircRec
<1>4. ASSUME NEW c \in Circuits, NEW i \in Slots, Rendezvous(c, i)
      PROVE  PendingExact' /\ again' \in BOOLEAN
  <2> DEFINE k == cookies[i]
  <2>1. /\ pending' = pending /\ again' \in BOOLEAN
        /\ \/ circs' = circs
           \/ circs' = [circs EXCEPT ![c].partner = k, ![k].partner = c]
    BY <1>4 DEF Rendezvous
  <2> HIDE DEF k
  <2>2. \A d \in Circuits : circs'[d].marked = circs[d].marked  BY <1>t, <2>1 DEF CircRec
  <2> QED BY <1>1, <2>1, <2>2
<1> QED BY <1>2, <1>3, <1>4 DEF Join

\* What holds throughout: RInv until a circuit is extended or joined a second
\* time, and the close list also then.
RAll == PendingExact /\ again \in BOOLEAN /\ (~again => RInv)

LEMMA InitRAll == Init => RAll
BY InitRInv DEF RAll, RInv, Init

LEMMA NextRAll == RAll /\ [Next]_vars => RAll'
<1> SUFFICES ASSUME RAll, [Next]_vars PROVE RAll'
  OBVIOUS
<1>1. CASE UNCHANGED vars
  <2>1. PendingExact' /\ again' = again  BY <1>1 DEF RAll, PendingExact, vars
  <2> QED BY <1>1, <2>1, StutterRInv DEF RAll
<1>2. CASE ~again /\ Step /\ UNCHANGED again
  <2>1. RInv'  BY <1>2, StepRInv DEF RAll
  <2> QED BY <1>2, <2>1 DEF RAll, RInv
<1>3. CASE ~again /\ Join
  BY <1>3, JoinRInv, JoinPending DEF RAll
<1> QED BY <1>1, <1>2, <1>3 DEF Next

\* The invariant holds throughout.
LEMMA RAllAlways == SafeSpec => []RAll
BY InitRAll, NextRAll, PTL DEF SafeSpec

\* For any number of circuits, links, channels and workers: g_circ_ht holds
\* exactly the links of the live circuits, and circuit_refcount of an open pool
\* link is the number of circuits that use it, until a circuit is extended or
\* joined a second time.
THEOREM RelayTablesExact == SafeSpec => []TablesExact
<1>1. RAll => TablesExact  BY DEF RAll, RInv, TablesExact, Typed, TypeOK
<1> QED BY <1>1, RAllAlways, PTL

\* For any sizes: g_pending_close holds every marked circuit once and no other,
\* so that moor_circuit_close_all_marked frees each exactly once.
THEOREM RelayPendingExact == SafeSpec => []PendingExact
<1>1. RAll => PendingExact  BY DEF RAll
<1> QED BY <1>1, RAllAlways, PTL

\* For any sizes: no pointer between circuits, links, channels and cookies
\* outlives what it points to, until a circuit is extended or joined a second
\* time.
THEOREM RelayNoDangling == SafeSpec => []NoDangling
<1>1. RAll => NoDangling
  BY DEF RAll, RInv, NoDangling, PartnersMutual, LinksAlive, ChanKnows, ChansSound,
         CookiesLive
<1> QED BY <1>1, RAllAlways, PTL
=============================================================================
