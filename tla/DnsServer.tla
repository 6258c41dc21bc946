------------------------------ MODULE DnsServer ------------------------------
(***************************************************************************)
(* The DNS-over-TCP server for hidden services (dns_server.c): one query    *)
(* per connection, answered from a cache of responses or by a connection to *)
(* the upstream resolver, all in callbacks of one event loop.               *)
(***************************************************************************)
EXTENDS Integers, FiniteSets, FiniteSetsExt

CONSTANTS DsConns,      \* connections
          DsQuestions,  \* questions with exactly one name: name, type and class
          DsTxids,      \* transaction ids
          DsReplies,    \* what the resolver may reply: [rcode, ttls]
          DsSize,       \* DNS_CACHE_SIZE (1024)
          DsTtlMin, DsTtlMax, DsTtlNx,   \* DNS_TTL_MIN (10), DNS_TTL_MAX (86400), 60
          DsMaxTime,    \* bound: clock
          DsMaxClients  \* bound: clients accepted

ASSUME DsAssumption ==
  /\ DsReplies \subseteq [rcode : Nat, ttls : SUBSET Nat]
  /\ DsSize \in Nat /\ DsTtlMin \in Nat /\ DsTtlMax \in Nat /\ DsTtlNx \in Nat

VARIABLES dsConn,   \* per connection: state ("none" when free), the client's question and id,
                    \* the length read (0 none, 1 part, 2 whole), the id sent upstream, the
                    \* response staged
          dsCache,  \* g_cache: key (DsNone: never used), resp, expires, used
          dsTime, dsClients

dsVars == <<dsConn, dsCache, dsTime, dsClients>>

\* No question, and none that a response can be kept under.
DsNone == "none"
DsNoReply == [q |-> DsNone, id |-> 0, ttl |-> 0, at |-> 0]
DsClosed == [state |-> "none", q |-> DsNone, id |-> 0, have |-> 0, buf |-> 0, resp |-> DsNoReply]
DsUnused == [key |-> DsNone, resp |-> DsNoReply, expires |-> 0, used |-> 0]

DsInit ==
  /\ dsConn = [c \in DsConns |-> DsClosed]
  /\ dsCache = [k \in 1..DsSize |-> DsUnused]
  /\ dsTime = 0 /\ dsClients = 0

(* min_answer_ttl: a name that does not exist is kept for a minute, another *)
(* error or an empty answer not at all, an answer for its smallest TTL      *)
(* within the bounds.                                                       *)
DsTtl(r) ==
  IF r.rcode = 3 THEN DsTtlNx
  ELSE IF r.rcode # 0 \/ r.ttls = {} THEN 0
  ELSE Max({DsTtlMin, Min({DsTtlMax, Min(r.ttls)})})

(* cache_lookup: the first unexpired entry under the key.                   *)
DsHits(q) == {k \in 1..DsSize : dsCache[k].key = q /\ dsTime < dsCache[k].expires}

(* cache_insert: the key's own slot, else the first unused or expired one,  *)
(* else the one least recently used.  An answer with no TTL is not kept.    *)
MutDsSlot(q) ==
  LET spare == {k \in 1..DsSize : dsCache[k].key = DsNone \/ dsCache[k].expires <= dsTime}
  IN IF spare # {} THEN Min(spare) ELSE 1
DsSlot(q) ==
  LET own == {k \in 1..DsSize : dsCache[k].key = q}
      spare == {k \in 1..DsSize : dsCache[k].key = DsNone \/ dsCache[k].expires <= dsTime}
      lru == {k \in 1..DsSize : \A j \in 1..DsSize : dsCache[k].used <= dsCache[j].used}
  IN IF own # {} THEN Min(own) ELSE IF spare # {} THEN Min(spare) ELSE Min(lru)

DsInsert(q, resp) ==
  IF resp.ttl = 0 THEN dsCache
  ELSE [dsCache EXCEPT ![DsSlot(q)] =
          [key |-> q, resp |-> resp, expires |-> dsTime + resp.ttl, used |-> dsTime]]

DsFree(c) == [dsConn EXCEPT ![c] = DsClosed]

(* deliver_to_client: the client's own id goes back into the response.      *)
DsDeliver(c, resp) ==
  [dsConn EXCEPT ![c].state = "writing", ![c].resp = [resp EXCEPT !.id = dsConn[c].id]]

(* listen_accept_cb                                                         *)
DsAccept(c) ==
  /\ dsConn[c].state = "none" /\ dsClients < DsMaxClients
  /\ dsConn' = [dsConn EXCEPT ![c].state = "length"]
  /\ dsClients' = dsClients + 1
  /\ UNCHANGED <<dsCache, dsTime>>

(* client_read_cb: the length prefix, in one piece or two.                  *)
DsReadLength(c) ==
  /\ dsConn[c].state = "length"
  /\ \E n \in 1..(2 - dsConn[c].have) :
       dsConn' = [dsConn EXCEPT ![c].have = @ + n,
                                ![c].state = IF dsConn[c].have + n = 2 THEN "body" ELSE "length"]
  /\ UNCHANGED <<dsCache, dsTime, dsClients>>

(* client_read_cb with the whole query: the id is kept aside, the cache     *)
(* asked when the question has a key (DsNone has none), and otherwise       *)
(* upstream_dispatch overwrites the id in the buffer and connects, or fails *)
(* and closes the client.                                                   *)
DsReadBody(c, q, id, up) ==
  /\ dsConn[c].state = "body"
  /\ LET hits == IF q = DsNone THEN {} ELSE DsHits(q)
         asked == [dsConn EXCEPT ![c].q = q, ![c].id = id, ![c].buf = id]
     IN \/ /\ hits # {}
           /\ dsCache' = [dsCache EXCEPT ![Min(hits)].used = dsTime]
           /\ dsConn' = [asked EXCEPT ![c].state = "writing",
                                      ![c].resp = [dsCache[Min(hits)].resp EXCEPT !.id = id]]
        \/ /\ hits = {}
           /\ \/ dsConn' = [asked EXCEPT ![c].state = "connecting", ![c].buf = up]
              \/ dsConn' = DsFree(c)
           /\ UNCHANGED dsCache
  /\ UNCHANGED <<dsTime, dsClients>>

(* upstream_write_cb: the connect has to have succeeded, then the query is  *)
(* written, in pieces or whole.                                             *)
DsUpWrite(c) ==
  /\ dsConn[c].state \in {"connecting", "asking"}
  /\ \E to \in {"asking", "waiting"} : dsConn' = [dsConn EXCEPT ![c].state = to]
  /\ UNCHANGED <<dsCache, dsTime, dsClients>>

(* upstream_read_cb with a whole reply: cached under the client's question, *)
(* then delivered; a reply of a bad length closes the client (DsFails).     *)
DsUpRead(c, r) ==
  /\ dsConn[c].state = "waiting"
  /\ LET resp == [q |-> dsConn[c].q, id |-> dsConn[c].buf, ttl |-> DsTtl(r), at |-> dsTime]
     IN /\ dsCache' = IF dsConn[c].q = DsNone THEN dsCache ELSE DsInsert(dsConn[c].q, resp)
        /\ dsConn' = DsDeliver(c, resp)
  /\ UNCHANGED <<dsTime, dsClients>>

(* client_write_cb: one response, then the connection is closed.            *)
DsWritten(c) ==
  /\ dsConn[c].state = "writing"
  /\ dsConn' = DsFree(c)
  /\ UNCHANGED <<dsCache, dsTime, dsClients>>

(* An error on the socket in use, or the client hanging up before its query *)
(* is whole; afterwards its end of file goes unread until the response.     *)
DsFails(c) ==
  /\ dsConn[c].state # "none"
  /\ dsConn' = DsFree(c)
  /\ UNCHANGED <<dsCache, dsTime, dsClients>>

DsTick ==
  /\ dsTime < DsMaxTime /\ dsTime' = dsTime + 1
  /\ UNCHANGED <<dsConn, dsCache, dsClients>>

DsNext ==
  \/ \E c \in DsConns :
       \/ DsAccept(c) \/ DsReadLength(c) \/ DsUpWrite(c) \/ DsWritten(c) \/ DsFails(c)
       \/ \E q \in DsQuestions \cup {DsNone}, id, up \in DsTxids : DsReadBody(c, q, id, up)
       \/ \E r \in DsReplies : DsUpRead(c, r)
  \/ DsTick

DsSpec == DsInit /\ [][DsNext]_dsVars

-----------------------------------------------------------------------------
(* Whatever other clients ask meanwhile, the response staged for a client   *)
(* answers its own question under its own id; and the cache holds one live  *)
(* response per question, kept no longer than its TTL                       *)
(* (dns_server.c, deliver_to_client and cache_insert).                      *)
DsOwnAnswer ==
  /\ \A c \in DsConns : dsConn[c].state = "writing" =>
       dsConn[c].resp.q = dsConn[c].q /\ dsConn[c].resp.id = dsConn[c].id
  /\ \A k \in 1..DsSize : dsCache[k].key # DsNone =>
       /\ dsCache[k].resp.q = dsCache[k].key
       /\ dsCache[k].expires <= dsCache[k].resp.at + dsCache[k].resp.ttl
       /\ \A j \in 1..DsSize : dsCache[j].key = dsCache[k].key => j = k
=============================================================================
