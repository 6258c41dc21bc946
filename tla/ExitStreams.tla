----------------------------- MODULE ExitStreams -----------------------------
(***************************************************************************)
(* The exit relay's own sockets: RELAY_BEGIN and RELAY_RESOLVE, the name    *)
(* cache and the encrypted resolvers behind it, the table that leads from a *)
(* target's descriptor back to its circuit and stream, the callbacks of the *)
(* event loop on these descriptors, and what closing a circuit does to them.*)
(* Flow control is SendmeForward's and SendmeBackward's subject: here a     *)
(* window is either open or used up.  Descriptors are numbers handed out as *)
(* the kernel does, the lowest free one first.                              *)
(***************************************************************************)
EXTENDS Integers, Sequences, FiniteSets, SequencesExt

CONSTANTS ExCircs,       \* exit circuits, each opened once
          ExIds,         \* stream ids clients use (positive)
          ExSlots,       \* MOOR_MAX_STREAMS (64)
          ExFds,         \* descriptors 1..ExFds of the process
          ExMapMax,      \* MAX_EXIT_FDS (512)
          ExHosts,       \* host names: a function from names to the addresses they have
          ExLiterals,    \* addresses clients name as they are
          ExInternal,    \* names refused as dotless or internal
          ExPrivate,     \* addresses is_private_address refuses
          ExPolicy,      \* exit policy: sequence of [addrs, ports, accept]
          ExPorts,
          ExHash,        \* dns_hash: name -> bucket
          ExCacheSize,   \* MOOR_DNS_CACHE_SIZE (512)
          ExTtl,         \* MOOR_DNS_TTL_DEFAULT (300 s)
          ExCerts,       \* certificate sequences a provider may send
          ExProviders,   \* DNSCRYPT_NUM_PROVIDERS (3)
          ExMaxTime,     \* bound: clock
          ExMaxCells     \* bound: BEGIN and RESOLVE cells

VARIABLES exCirc,    \* per circuit: "open", "marked" (marked_for_close) or "gone"
          exStream,  \* per circuit: streams[] as [id, fd, up]; id 0: free, fd 0: target_fd = -1
          exMap,     \* g_exit_fds[0..g_exit_fd_count): [fd, circ, id]
          exEvent,   \* per descriptor: the registered callback, "read", "connect" or ""
          exKernel,  \* per descriptor: the stream it was opened for, <<>> when closed
          exAnswer,  \* per circuit and id: what the client last heard, "", "connected" or "end"
          exCache,   \* g_dns_cache: [slot: entries, chain: buckets, count]
          exTime, exCells

exVars == <<exCirc, exStream, exMap, exEvent, exKernel, exAnswer, exCache, exTime, exCells>>
exDesc == <<exStream, exMap, exEvent, exKernel>>

(* A name is not empty, and the cache has a slot.                           *)
ASSUME ExAssumption ==
  /\ ExCacheSize \in Nat \ {0} /\ ExTtl \in Nat /\ ExProviders \in Nat
  /\ "" \notin DOMAIN ExHosts

ExNoEntry == [host |-> "", ip |-> "", expires |-> 0, used |-> 0]
ExNoStream == [id |-> 0, fd |-> 0, up |-> FALSE]

ExInit ==
  /\ exCirc = [c \in ExCircs |-> "open"]
  /\ exStream = [c \in ExCircs |-> [s \in 1..ExSlots |-> ExNoStream]]
  /\ exMap = <<>>
  /\ exEvent = [f \in 1..ExFds |-> ""]
  /\ exKernel = [f \in 1..ExFds |-> <<>>]
  /\ exAnswer = [c \in ExCircs |-> [i \in ExIds |-> ""]]
  /\ exCache = [slot |-> [k \in 1..ExCacheSize |-> ExNoEntry],
                chain |-> [b \in {ExHash[h] : h \in DOMAIN ExHosts} |-> <<>>],
                count |-> 0]
  /\ exTime = 0 /\ exCells = ExMaxCells

-----------------------------------------------------------------------------
(* The name cache.  A name reaches it in any spelling; normalize_hostname   *)
(* lowers the case and strips trailing dots, so all spellings are one name. *)
ExSpellings == {"plain", "Capitals."}
ExNormalize(q) == q.host

(* The places in the chain of the name's bucket whose slot holds the name,  *)
(* and the first of these slots.                                            *)
ExHeld(ca, h) == LET chain == ca.chain[ExHash[h]]
                 IN {i \in DOMAIN chain : ca.slot[chain[i]].host = h}
ExSlotOf(ca, h) == ca.chain[ExHash[h]][Min(ExHeld(ca, h))]

(* hash_remove: the slot leaves the chain of its own name.                  *)
MutExUnlink(ca, k) == ca
ExUnlink(ca, k) ==
  LET b == ExHash[ca.slot[k].host]
      at == {i \in DOMAIN ca.chain[b] : ca.chain[b][i] = k}
  IN IF ca.slot[k].host = "" \/ at = {} THEN ca
     ELSE [ca EXCEPT !.chain[b] = RemoveAt(@, Min(at))]

(* hash_remove, then memset.                                                *)
ExForget(ca, k) == [ExUnlink(ca, k) EXCEPT !.slot[k] = ExNoEntry,
                                           !.count = IF @ > 0 THEN @ - 1 ELSE @]

(* moor_dns_cache_lookup: the address ("" on a miss) and the cache after.   *)
ExLookup(ca, h) ==
  IF ExHeld(ca, h) = {} THEN [ip |-> "", cache |-> ca]
  ELSE LET k == ExSlotOf(ca, h)
       IN IF exTime >= ca.slot[k].expires THEN [ip |-> "", cache |-> ExForget(ca, k)]
          ELSE [ip |-> ca.slot[k].ip, cache |-> [ca EXCEPT !.slot[k].used = exTime]]

(* moor_dns_cache_insert: the name's own entry, else the first empty slot,  *)
(* else the slot least recently used (the first of them).                   *)
ExInsert(ca, h, ip) ==
  LET entry == [host |-> h, ip |-> ip, expires |-> exTime + ExTtl, used |-> exTime]
      empty == {k \in 1..ExCacheSize : ca.slot[k].host = ""}
      oldest == {k \in 1..ExCacheSize : \A j \in 1..ExCacheSize : ca.slot[k].used <= ca.slot[j].used}
      put(cb, k) == [cb EXCEPT !.slot[k] = entry, !.chain[ExHash[h]] = <<k>> \o @]
  IN IF ExHeld(ca, h) # {} THEN [ca EXCEPT !.slot[ExSlotOf(ca, h)] = entry]
     ELSE IF ca.count < ExCacheSize /\ empty # {}
          THEN [put(ca, Min(empty)) EXCEPT !.count = @ + 1]
          ELSE put(ExUnlink(ca, Min(oldest)), Min(oldest))

-----------------------------------------------------------------------------
(* The encrypted resolvers.  What the network does with one provider: the   *)
(* certificates its TXT answer carries (none: unreachable), the key the     *)
(* reply to the query is sealed with, and the address in it ("": no A       *)
(* record, or no reply).                                                    *)
ExNets(h) == [certs : ExCerts, key : 0..1, ip : ExHosts[h] \cup {""}]

(* fetch_dnscrypt_cert: of the certificates the provider signed and that    *)
(* are valid now, the first with the highest serial number.                 *)
ExFetchCert(certs) ==
  LET valid == {i \in DOMAIN certs : /\ certs[i].signed
                                     /\ certs[i].start <= exTime /\ exTime <= certs[i].end}
      best == {i \in valid : \A j \in valid : certs[j].serial <= certs[i].serial}
  IN IF valid = {} THEN {} ELSE {certs[Min(best)].key}

(* dnscrypt_query and parse_dns_a_record: the reply opens under the shared  *)
(* key of the certificate and our nonce, and holds an A record.             *)
ExQuery(net) == IF net.key \in ExFetchCert(net.certs) THEN net.ip ELSE ""

(* resolve_dns_encrypted: the providers in turn, and no other resolver.     *)
ExResolved(nets) ==
  LET ok == {p \in 1..ExProviders : ExQuery(nets[p]) # ""}
  IN IF ok = {} THEN "" ELSE ExQuery(nets[Min(ok)])

(* What resolving the name can come to now ("": failure).                   *)
ExResolutions(q) ==
  IF q.host \in DOMAIN ExHosts THEN {ExResolved(nets) : nets \in [1..ExProviders -> ExNets(q.host)]}
  ELSE {""}

(* The cache, then the resolvers, whose answer is cached.                   *)
ExName(q, new) ==
  LET hit == ExLookup(exCache, ExNormalize(q))
  IN IF hit.ip # "" THEN hit
     ELSE IF new = "" THEN [ip |-> "", cache |-> hit.cache]
     ELSE [ip |-> new, cache |-> ExInsert(hit.cache, ExNormalize(q), new)]

(* is_private_address, over the addresses and names of the model.           *)
ExIsPrivate(a) == a \in ExPrivate

(* moor_exit_policy_allows: the first rule that matches, and no rules means *)
(* no policy.                                                               *)
ExAllows(ip, port) ==
  LET m == {i \in DOMAIN ExPolicy : ip \in ExPolicy[i].addrs /\ port \in ExPolicy[i].ports}
  IN ExPolicy = <<>> \/ (m # {} /\ ExPolicy[Min(m)].accept)

-----------------------------------------------------------------------------
(* The descriptor table: exit_fd_find takes the first entry, exit_fd_remove *)
(* moves the last entry into its place.                                     *)
ExFdAt(m, f) == {i \in DOMAIN m : m[i].fd = f}
ExCircAt(m, c) == {i \in DOMAIN m : m[i].circ = c}
ExMoved(m, i) == SubSeq([m EXCEPT ![i] = m[Len(m)]], 1, Len(m) - 1)

ExFdRemove(m, f) ==
  LET at == ExFdAt(m, f) IN IF at = {} THEN m ELSE ExMoved(m, Min(at))

(* moor_relay_cleanup_exit_fds: every entry of the circuit; the entry moved *)
(* into a hole is looked at again.                                          *)
MutExCleanup(m, c) ==
  LET at == ExCircAt(m, c) IN IF at = {} THEN m ELSE ExMoved(m, Min(at))
ExCleanup(m, c) ==
  LET step[n \in 0..Len(m)] ==
        IF n = 0 THEN m
        ELSE LET prev == step[n - 1]
                 at == ExCircAt(prev, c)
             IN IF at = {} THEN prev ELSE ExMoved(prev, Min(at))
  IN step[Len(m)]

(* moor_circuit_find sees no circuit marked for close.                      *)
ExLive(c) == exCirc[c] = "open"
ExStreamAt(c, i) == {s \in 1..ExSlots : exStream[c][s].id = i}

(* moor_event_remove, close and exit_fd_remove on a descriptor.             *)
ExDrop(f) ==
  /\ exEvent' = [exEvent EXCEPT ![f] = ""]
  /\ exKernel' = [exKernel EXCEPT ![f] = <<>>]
  /\ exMap' = ExFdRemove(exMap, f)

ExTell(c, i, what) == exAnswer' = [exAnswer EXCEPT ![c][i] = what]

(* The connect: refused at once, or in progress or done with a slot and an  *)
(* entry of the table taken, or without either.                             *)
ExConnect(c, i, how) ==
  LET closed == {f \in 1..ExFds : exKernel[f] = <<>>}
      fd == Min(closed)
      slot == ExStreamAt(c, 0)
  IN \/ /\ closed = {} \/ how = "refused"
        /\ ExTell(c, i, "end") /\ UNCHANGED exDesc
     \/ /\ closed # {} /\ how # "refused" /\ slot = {}
        /\ UNCHANGED <<exDesc, exAnswer>>
     \/ /\ closed # {} /\ how # "refused" /\ slot # {} /\ Len(exMap) >= ExMapMax
        /\ ExTell(c, i, "end") /\ UNCHANGED exDesc
     \/ /\ closed # {} /\ how # "refused" /\ slot # {} /\ Len(exMap) < ExMapMax
        /\ exStream' = [exStream EXCEPT ![c][Min(slot)] =
                          [id |-> i, fd |-> fd, up |-> how = "done"]]
        /\ exKernel' = [exKernel EXCEPT ![fd] = <<c, i>>]
        /\ exMap' = Append(exMap, [fd |-> fd, circ |-> c, id |-> i])
        /\ exEvent' = [exEvent EXCEPT ![fd] = IF how = "done" THEN "read" ELSE "connect"]
        /\ IF how = "done" THEN ExTell(c, i, "connected") ELSE UNCHANGED exAnswer

(* RELAY_BEGIN.  Refused without an answer: a private address, an internal  *)
(* name, a stream id in use.  Refused with RELAY_END: no address, a private *)
(* one behind the name, the exit policy.                                    *)
ExBegin(c, i, q, port, new, how) ==
  LET literal == q.host \notin DOMAIN ExHosts
      name == ExName(q, new)
      ip == IF literal THEN q.host ELSE name.ip
  IN /\ ExLive(c) /\ exCells' = exCells - 1
     /\ IF (literal /\ ExIsPrivate(ip)) \/ q.host \in ExInternal \/ ExStreamAt(c, i) # {}
        THEN UNCHANGED <<exDesc, exAnswer, exCache>>
        ELSE /\ exCache' = IF literal THEN exCache ELSE name.cache
             /\ IF ip = "" \/ ExIsPrivate(ip) \/ ~ExAllows(ip, port)
                THEN ExTell(c, i, "end") /\ UNCHANGED exDesc
                ELSE ExConnect(c, i, how)
     /\ UNCHANGED <<exCirc, exTime>>

(* RELAY_RESOLVE: the answer itself changes nothing here; the cache does.   *)
ExResolve(c, q, new) ==
  /\ ExLive(c) /\ exCells' = exCells - 1
  /\ q.host \in DOMAIN ExHosts
  /\ exCache' = ExName(q, new).cache
  /\ UNCHANGED <<exCirc, exDesc, exAnswer, exTime>>

(* What both callbacks do when the table has no entry for the descriptor,   *)
(* or its circuit is not found.                                             *)
ExOrphan(f) ==
  /\ LET at == ExFdAt(exMap, f) IN at = {} \/ ~ExLive(exMap[Min(at)].circ)
  /\ ExDrop(f)
  /\ UNCHANGED <<exCirc, exStream, exAnswer, exCache, exTime, exCells>>

ExFound(f) == exMap[Min(ExFdAt(exMap, f))]
ExHasLive(f) == ExFdAt(exMap, f) # {} /\ ExLive(ExFound(f).circ)
ExCleared(c, i) ==
  exStream' = [exStream EXCEPT ![c] = [s \in 1..ExSlots |->
                 IF s \in ExStreamAt(c, i) THEN ExNoStream ELSE @[s]]]

(* exit_connect_complete_cb                                                 *)
ExConnectDone(f, ok) ==
  /\ exEvent[f] = "connect"
  /\ \/ ExOrphan(f)
     \/ /\ ExHasLive(f)
        /\ LET e == ExFound(f)
           IN IF ok THEN /\ exStream' = [exStream EXCEPT ![e.circ] = [s \in 1..ExSlots |->
                               IF s \in ExStreamAt(e.circ, e.id) THEN [@[s] EXCEPT !.up = TRUE]
                               ELSE @[s]]]
                         /\ exEvent' = [exEvent EXCEPT ![f] = "read"]
                         /\ ExTell(e.circ, e.id, "connected")
                         /\ UNCHANGED <<exKernel, exMap>>
              ELSE ExDrop(f) /\ ExCleared(e.circ, e.id) /\ ExTell(e.circ, e.id, "end")
        /\ UNCHANGED <<exCirc, exCache, exTime, exCells>>

(* exit_target_read_cb: without a stream or a window reading stops; data is *)
(* sent on and the last of the window stops reading too; a closed target    *)
(* ends the stream.                                                         *)
ExTargetReadable(f, what) ==
  /\ exEvent[f] = "read"
  /\ \/ ExOrphan(f)
     \/ /\ ExHasLive(f)
        /\ LET e == ExFound(f)
           IN \/ /\ what = "no window" \/ ExStreamAt(e.circ, e.id) = {}
                 /\ exEvent' = [exEvent EXCEPT ![f] = ""]
                 /\ UNCHANGED <<exStream, exMap, exKernel, exAnswer>>
              \/ /\ what = "closed" /\ ExStreamAt(e.circ, e.id) # {}
                 /\ ExDrop(f) /\ ExCleared(e.circ, e.id) /\ ExTell(e.circ, e.id, "end")
        /\ UNCHANGED <<exCirc, exCache, exTime, exCells>>

(* RELAY_END, and a RELAY_DATA cell whose write to the target fails (which  *)
(* also answers with RELAY_END).                                            *)
ExEnd(c, s, failed) ==
  /\ ExLive(c) /\ exStream[c][s].id # 0 /\ exStream[c][s].fd # 0
  /\ failed => exStream[c][s].up
  /\ ExDrop(exStream[c][s].fd) /\ ExCleared(c, exStream[c][s].id)
  /\ IF failed THEN ExTell(c, exStream[c][s].id, "end") ELSE UNCHANGED exAnswer
  /\ UNCHANGED <<exCirc, exCache, exTime, exCells>>

(* RELAY_XOFF stops the descriptor's events, whatever they are.             *)
ExXoff(c, s) ==
  /\ ExLive(c) /\ exStream[c][s].id # 0 /\ exStream[c][s].fd # 0
  /\ exEvent' = [exEvent EXCEPT ![exStream[c][s].fd] = ""]
  /\ UNCHANGED <<exCirc, exStream, exMap, exKernel, exAnswer, exCache, exTime, exCells>>

(* RELAY_XON, a stream's RELAY_SENDME, and (ss all slots) the circuit's     *)
(* RELAY_SENDME: reading resumes on the connected streams.                  *)
ExResume(c, ss) ==
  LET fds == {exStream[c][s].fd : s \in {t \in ss : exStream[c][t].up /\ exStream[c][t].id # 0}} \ {0}
  IN /\ ExLive(c) /\ fds # {}
     /\ exEvent' = [f \in 1..ExFds |-> IF f \in fds THEN "read" ELSE exEvent[f]]
     /\ UNCHANGED <<exCirc, exStream, exMap, exKernel, exAnswer, exCache, exTime, exCells>>

(* moor_relay_handle_destroy, or the loss of the previous hop's connection. *)
ExMark(c) ==
  /\ ExLive(c)
  /\ exCirc' = [exCirc EXCEPT ![c] = "marked"]
  /\ UNCHANGED <<exDesc, exAnswer, exCache, exTime, exCells>>

(* moor_circuit_close_all_marked, from the loop's timer: the entries of the *)
(* table go, then each descriptor a stream holds is taken off the loop and  *)
(* closed.                                                                  *)
ExCloseMarked(c) ==
  /\ exCirc[c] = "marked"
  /\ exCirc' = [exCirc EXCEPT ![c] = "gone"]
  /\ exMap' = ExCleanup(exMap, c)
  /\ LET fds == {exStream[c][s].fd : s \in 1..ExSlots} \ {0}
     IN /\ exEvent' = [f \in 1..ExFds |-> IF f \in fds THEN "" ELSE exEvent[f]]
        /\ exKernel' = [f \in 1..ExFds |-> IF f \in fds THEN <<>> ELSE exKernel[f]]
  /\ exStream' = [exStream EXCEPT ![c] = [s \in 1..ExSlots |-> ExNoStream]]
  /\ UNCHANGED <<exAnswer, exCache, exTime, exCells>>

ExTick ==
  /\ exTime < ExMaxTime /\ exTime' = exTime + 1
  /\ UNCHANGED <<exCirc, exDesc, exAnswer, exCache, exCells>>

ExQueries == [host : DOMAIN ExHosts, spelt : ExSpellings]
               \cup [host : ExInternal \cup ExLiterals, spelt : {"plain"}]

ExCell ==
  /\ exCells > 0
  /\ \E q \in ExQueries : \E new \in ExResolutions(q), c \in ExCircs :
       \/ \E i \in ExIds, port \in ExPorts, how \in {"refused", "progress", "done"} :
            ExBegin(c, i, q, port, new, how)
       \/ ExResolve(c, q, new)

ExNext ==
  \/ ExCell
  \/ \E f \in 1..ExFds, ok \in BOOLEAN : ExConnectDone(f, ok)
  \/ \E f \in 1..ExFds, what \in {"no window", "closed"} : ExTargetReadable(f, what)
  \/ \E c \in ExCircs, s \in 1..ExSlots, failed \in BOOLEAN : ExEnd(c, s, failed)
  \/ \E c \in ExCircs, s \in 1..ExSlots : ExXoff(c, s)
  \/ \E c \in ExCircs, ss \in {1..ExSlots} \cup {{s} : s \in 1..ExSlots} : ExResume(c, ss)
  \/ \E c \in ExCircs : ExMark(c) \/ ExCloseMarked(c)
  \/ ExTick

ExSpec == ExInit /\ [][ExNext]_exVars

-----------------------------------------------------------------------------
(* The name cache is exact: a slot is in the chain of its own name's bucket *)
(* and in no other, exactly once, when it holds a name and in none when it  *)
(* does not; the count is the number of names; no name is held twice, and   *)
(* none with an address that was not resolved for it (dns_cache.c).         *)
ExCacheExact ==
  /\ \A b \in DOMAIN exCache.chain, k \in 1..ExCacheSize :
       Cardinality({i \in DOMAIN exCache.chain[b] : exCache.chain[b][i] = k})
         = IF exCache.slot[k].host # "" /\ ExHash[exCache.slot[k].host] = b THEN 1 ELSE 0
  /\ exCache.count = Cardinality({k \in 1..ExCacheSize : exCache.slot[k].host # ""})
  /\ \A k \in 1..ExCacheSize : exCache.slot[k].host # "" =>
       /\ exCache.slot[k].ip \in ExHosts[exCache.slot[k].host]
       /\ \A j \in 1..ExCacheSize : exCache.slot[j].host = exCache.slot[k].host => j = k

(* The descriptor table never leads to a circuit that was freed, whatever   *)
(* the order of targets closing, streams ending and circuits being torn     *)
(* down (relay.c, moor_relay_cleanup_exit_fds).                             *)
ExMapLive == \A i \in DOMAIN exMap : exCirc[exMap[i].circ] # "gone"

(* A stream of a live circuit that holds a target's descriptor holds an     *)
(* open one that was opened for it: nothing else closes it, so the table    *)
(* leads data back to the stream that asked for it (relay.c, exit_fd_map_t).*)
ExOwnTarget ==
  \A c \in ExCircs, s \in 1..ExSlots :
    ExLive(c) /\ exStream[c][s].fd # 0 => exKernel[exStream[c][s].fd] = <<c, exStream[c][s].id>>
=============================================================================
