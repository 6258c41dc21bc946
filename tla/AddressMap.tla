------------------------------ MODULE AddressMap ------------------------------
(***************************************************************************)
(* Virtual addresses for .moor names (addressmap.c): the DNS port and SOCKS *)
(* RESOLVE assign them, the transparent port maps a connection to one back  *)
(* to its name.  The program that asked keeps the answer for its TTL.       *)
(***************************************************************************)
EXTENDS Integers, Sequences, FiniteSetsExt

CONSTANTS NpMoor,      \* .moor names
          NpSpace,     \* last offset in the virtual range (0x3FFFFE)
          NpSkipped,   \* offsets that end in .0 or .255
          NpTries,     \* offsets tried for one name (1000)
          NpMapMax,    \* VIRT_MAP_SIZE (4096)
          NpLife,      \* seconds a mapping lives (600)
          NpTtl,       \* TTL in a DNS answer (60)
          NpMaxTime    \* bound: clock

ASSUME NpAssumption == NpSpace \in Nat \ {0} /\ NpTries \in Nat /\ NpMapMax \in Nat \ {0}

VARIABLES npMap,      \* g_virt_map[0..g_virt_count): [ip, name, at], oldest first
          npNext,     \* g_virt_next
          npHeld,     \* the answer a local program holds, [name, ip, until]
          npTime

npVars == <<npMap, npNext, npHeld, npTime>>

NpInit ==
  /\ npMap = <<>> /\ npNext = 1
  /\ npHeld = [name |-> "none", ip |-> 0, until |-> 0]
  /\ npTime = 0

(* The k-th offset tried from g_virt_next on; the range wraps around.       *)
NpOffset(k) == ((npNext - 1 + k) % NpSpace) + 1

MutNpFree(ip) == ip \notin NpSkipped
NpFree(ip) == ip \notin NpSkipped /\ \A i \in DOMAIN npMap : npMap[i].ip # ip

NpMapped(n) == {i \in DOMAIN npMap : npMap[i].name = n}

(* moor_addressmap_assign: a name that has an address keeps it; a new one   *)
(* takes the first free offset, and the oldest mapping makes room in a full *)
(* table.  The address, 0 on failure, and the table and counter after.      *)
NpAssign(n) ==
  LET good == {k \in 0..(NpTries - 1) : NpFree(NpOffset(k))}
      k == Min(good)
      room == IF Len(npMap) >= NpMapMax THEN Tail(npMap) ELSE npMap
  IN IF NpMapped(n) # {} THEN [ip |-> npMap[Min(NpMapped(n))].ip, map |-> npMap, next |-> npNext]
     ELSE IF good = {} THEN [ip |-> 0, map |-> npMap, next |-> NpOffset(NpTries)]
     ELSE [ip |-> NpOffset(k), next |-> NpOffset(k + 1),
           map |-> Append(room, [ip |-> NpOffset(k), name |-> n, at |-> npTime])]

(* moor_addressmap_reverse: a mapping past its life is removed instead.     *)
NpReverse(ip) ==
  LET at == {i \in DOMAIN npMap : npMap[i].ip = ip}
      i == Min(at)
  IN IF at # {} /\ npTime - npMap[i].at > NpLife
     THEN SubSeq(npMap, 1, i - 1) \o SubSeq(npMap, i + 1, Len(npMap))
     ELSE npMap

(* dns_read_cb: an address is assigned whatever the type of the query, and  *)
(* only an A query is answered with it.                                     *)
NpDnsRead(n, type) ==
  LET a == NpAssign(n)
  IN /\ npMap' = a.map /\ npNext' = a.next
     /\ npHeld' = IF type = "A" /\ a.ip # 0
                  THEN [name |-> n, ip |-> a.ip, until |-> npTime + NpTtl] ELSE npHeld
     /\ UNCHANGED npTime

(* trans_accept_cb: the program connects to the address it was told.        *)
NpTransAccept ==
  /\ npHeld.ip # 0 /\ npTime <= npHeld.until
  /\ npMap' = NpReverse(npHeld.ip)
  /\ UNCHANGED <<npNext, npHeld, npTime>>

NpTick ==
  /\ npTime < NpMaxTime /\ npTime' = npTime + 1
  /\ UNCHANGED <<npMap, npNext, npHeld>>

NpNext ==
  \/ \E n \in NpMoor, type \in {"A", "AAAA"} : NpDnsRead(n, type)
  \/ NpTransAccept
  \/ NpTick

NpSpec == NpInit /\ [][NpNext]_npVars

-----------------------------------------------------------------------------
(* The address map is one to one, also after the range wrapped around and   *)
(* mappings were evicted or expired: no address leads to two names and no   *)
(* name has two addresses (addressmap.c, moor_addressmap_assign).           *)
NpOneToOne ==
  /\ Len(npMap) <= NpMapMax
  /\ \A i, j \in DOMAIN npMap :
       npMap[i].ip = npMap[j].ip \/ npMap[i].name = npMap[j].name => i = j

(* As long as a program may use an answer, the address in it leads back to  *)
(* the name (addressmap.c: "When TransPort later sees a connection to that  *)
(* virtual IP, we reverse-map it to the .moor address.").                   *)
NpAnswerGood ==
  npHeld.ip # 0 /\ npTime <= npHeld.until =>
    \E i \in DOMAIN npMap : /\ npMap[i].ip = npHeld.ip /\ npMap[i].name = npHeld.name
                            /\ npTime - npMap[i].at <= NpLife
=============================================================================
