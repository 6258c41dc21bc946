# MOOR in TLA+

A verification development kept beside the C sources of MOOR, an onion-routing network with hybrid
post-quantum handshakes: a SOCKS client builds three-hop circuits through relays, an exit connects to
targets, hidden services meet their clients at rendezvous points, directory authorities vote a consensus.
Paths below are those of the C sources (`circuit.c` is `src/src/circuit.c` of the repository as mapped in
`PROJECT.json`, headers are under `include/moor/`).

## 1. The system: inventory

Every process runs one event loop (`event.c`: fd callbacks and timers). Worker threads exist for blocking
work: path selection and extends, hidden-service connects, registration and proof-of-work solving. Concurrency
is therefore of three kinds: callbacks of one loop, where one may free, mark or re-register what another holds;
threads that hand their result to the loop; and processes that exchange cells over ordered links that may
close at any moment.

| Component | State it keeps | Operations | What makes it correct | Module |
|---|---|---|---|---|
| Flow control, client to exit (`circuit.c`, `relay.c`, `socks5.c`) | package and deliver windows, FIFO of expected digests | send and count DATA, send and verify SENDME | credit is neither lost nor made; both ends mean the same digest | `SendmeForward`, `CreditWindow` |
| Flow control, exit to client | the same, and the registration of targets in the loop | read a target, pause, resume | also: nobody sleeps with credit | `SendmeBackward` |
| Stream data path (`socks5.c`, `relay.c`) | `paused`, `sendbuf`, output queue, XOFF/XON | forward, keep the rest, retry, resume | a prefix of what was written arrives; a pause ends | `StreamPump` |
| Hidden-service data path (`socks5.c`, `relay.c`, `main.c`) | windows of three parties, end-to-end nonces | seal, splice, open, acknowledge | credit kept, nonces in step (one stream, nothing passed over), pauses end | `RendezvousIn`, `RendezvousOut` |
| Relay circuits, links, channels (`relay.c`, `circuit.c`, `channel.c`, `connection.c`) | circuits, table, pools, close list, extend jobs | create, extend, join, mark, free, lose a link | no stale pointer and exact tables for circuits extended and joined once, everything marked is freed | `RelayCircuits` |
| Mux and scheduler (`scheduler.c`, `channel.c`) | cell queues, mux heap and counts, pending channels | queue, pick, send, park, wake | counts agree, queued cells leave | `SkipsScheduler` |
| Circuit building (`circuit.c`, `socks5.c`) | build contexts, timers, references, prebuilt pool | start, answer, time out, destroy, retry | no stale pointer, exact references | `CircuitBuild` |
| Key exchange of a circuit (`circuit.c`, `relay.c`) | hop keys, pending KEM exchanges, onion keys | CREATE, EXTEND, KEM offer, rotate | both ends of a hop hold one key while its relay runs on | `CircuitExtend` |
| Guards, vanguards, paths (`circuit.c`, `node.c`) | sampled, confirmed, primary guards; files | sample, choose, count, save, load | lists agree, paths are legal | `Guards` |
| Connections (`connection.c`) | handshake, link keys, nonces, output queue | connect, accept, send, rekey, close | both sides open what the other sealed | `LinkProtocol` |
| Transports (`transport*.c`) | session keys, partial records | handshake, send, receive, rotate | records in step across partial transfers | `Transports` |
| Exit streams (`relay.c`, `dns_cache.c`) | target table, descriptors, name cache | BEGIN, RESOLVE, connect, close | the table never leads to a freed circuit, chains exact | `ExitStreams` |
| SOCKS proxy (`socks5.c`) | clients, circuit cache, waiting queue, hidden-service connects | accept, build, attach, time out | isolation, no stale pointer, every client answered | `SocksClient` |
| Names (`addressmap.c`, `circuit.c`, `dns_server.c`) | virtual addresses, response cache | map, resolve, answer | one name per address, each answer its own question | `AddressMap`, `CircuitResolve`, `DnsServer` |
| Hidden-service control (`hidden_service.c`, `main.c`, `relay.c`, `directory.c`) | introduction points, descriptors, replay caches, key files | establish, publish, introduce, rendezvous, load, save | a rendezvous with its own client, one per introduction within the memory of the replay ring, whole key sets | `HiddenService`, `HsKeys` |
| DHT (`dht.c`) | replicas, store, rate slots | store in chunks, look up, expire, reload | a look-up yields what a replica holds of the name asked for, as far as the two replicas agree | `Dht` |
| Directory authorities (`directory.c`, `main.c`) | relays, votes, signatures, snapshot | register, vote, sign, serve, verify | what clients accept an authority built | `Directory` |
| Registration (`relay.c`, `main.c`, `pow.c`) | solution cache, nonce caches, threads | solve, register, refresh | a solution is accepted once | `Registration` |
| Conflux, fragmentation (`conflux.c`, `fragment.c`) | legs, reorder buffer, reassembly slots | send, receive, skip, expire | order, no duplicate, whole messages | `Conflux`, `Fragments` |

Hard behaviours: credit that callbacks of three processes keep complementary; digests recorded and compared
at the same cell; sockets taken out of the loop that someone must put back; circuits freed in the middle of a
callback chain; a worker's result that outlives what it points at; a step of several failing after a digest,
window or file has moved; caches full or stale; timers racing answers.

## 2. Plan

Written, in the order of importance: flow control with its abstract specification and proofs; the data paths;
the life of circuits, links and channels at a relay; the scheduler; circuit building, key exchange and guards
at the client; links and transports; exits, the SOCKS proxy and names; hidden services; the directory,
registration and the DHT. Proofs follow the same order; section 5 says how far they are.

Next, as theorems: `CeKeysAgree`, the pointer invariants of `CircuitBuild` and the record part of `LinkInStep`.

## 3. The modules

**What is abstracted.** Digests are the number of cells hashed into them (links are ordered, so equal counts
mean equal hashes); payloads are positions or names; keys are terms made of what was mixed into them; times
are ticks of the unit a component's timeouts are multiples of. Names of variables are those of the C fields
or carry the prefix of their module (`cb`, `sc`, `hs`, ...). Slots that the allocator reuses are reused in the
model, so that a stale pointer in the code is a stale slot. Definitions called `Mut...` are deliberately wrong
variants of the definition that follows them; `PROJECT.json` says which property each must break.

**An action is a whole handler.** A callback of the event loop runs to completion, with every save, notify
and unlink it calls; steps of a thread end where it gives up a lock or hands over to another thread. Bounds
are constants called `...Max...` in the guards.

* `SendmeForward`: `SendData`, the branches of `moor_relay_handle_relay` for BEGIN, DATA (unknown stream, no
  window, delivered, failed write) and END, target callbacks, `moor_circuit_handle_sendme` accepted, rejected,
  and for a stream. The exit's code after `sendme_check:` is `SendmeCheck`. `hist` counts what was sent,
  received and credited. `CreditWindow` is what it implements: three counters, a sender at most one window
  ahead of what was acknowledged, acknowledgements in increments and never ahead of what was received.
* `SendmeBackward`: the mirror image. `ExitReadPaused` takes a target out of the loop, a SENDME puts it back;
  `ClientDataRefused` is an application whose socket refuses a payload.
* `StreamPump`: one stream among others. `ClientRead` is a whole `recv` pushed against both windows,
  `LinkWritable` the WRITE half of `circuit_read_cb`, `ResumeReads` `moor_socks5_resume_reads`.
* `RendezvousIn`, `RendezvousOut`: the sealing loop of `moor_socks5_forward_to_circuit`, the splice at the
  rendezvous point, `hs_rp_read_cb` and `hs_target_read_cb`, with the nonces both ends count. `ClientBackpressure`
  and `LinkWritable` are the pause and the WRITE half of `circuit_read_cb`, as in `StreamPump`; `ClientTimeout` is
  `moor_socks5_check_stream_timeouts` for a stream whose CONNECTED does not come.
* `RelayCircuits`: circuit structures, pool links and heap links, channels to one peer relay, extend workers
  and their result ring. `PostLoop` is `moor_circuit_close_all_marked`; `Teardown`, `CloseMarking`, `Nullify`
  and `Unregister` are the chain `moor_connection_close` walks. A job remembers the circuit and link it came
  on, as `extend_work_t` does. The relay does not refuse a second EXTEND or a second join; with `Repeats` the model
  takes it, notes it in `again` and ends there.
* `SkipsScheduler`: queues, the mux heap as the code keeps it, the pending list, one pass of the timer in
  steps, write budgets and write events.
* `CircuitBuild`, `CircuitExtend`, `Guards`: the `cbuild_` state machine with its timers, the prebuilt
  pool and `moor_circuit_check_timeouts` (`CbReaped`); the blocking key exchange and the relays' answers, with relays
  that restart (`CeRestart`) and a decapsulation that rejects implicitly; the guard lists with their file, path
  bias, the worker's update of the primaries guard by guard (`GuSyncTest`, `GuSyncFill`), path choice and vanguards.
* `LinkProtocol`, `Transports`: the handshake in its blocking and event-driven forms, the record layer with
  output queue, rekeying and watchdog; the record transports with transfers cut at any piece.
* `ExitStreams`, `SocksClient`, `AddressMap`, `CircuitResolve`, `DnsServer`: the tables behind descriptors,
  clients, names and answers, with the callbacks that change them.
* `HiddenService`, `HsKeys`: main and republish thread of a service, its relays, the descriptor store and
  clients; the key files with a crash between any two writes.
* `Dht`, `Directory`, `Registration`: replica choice, stores cell by cell and two-server look-ups; votes,
  signatures and snapshots of authorities that hold a lock while they talk; solver and registration threads.
* `Conflux`, `Fragments`: the reorder buffer over several circuits; reassembly slots.

Modules that share no state are explored together: in `MCFlow`, `MCRendezvous`, `MCRelayLive`, `MCServices`,
`MCClient` and `MCNetwork` a behaviour runs one component, chosen by the variable `component`, and the others
stay in an initial state. Every reachable state of each is visited.

## 4. Runs

| Run | Question | Bounds |
|---|---|---|
| `forward_safety` | credit, digests and refinement, two streams, closes, a failing target | circuit window 4 = two increments, stream window 2 = one increment (as 100/100 in the code), FIFO of 2, five DATA cells: windows are exhausted and refilled, the FIFO wraps |
| `flow` | exit-to-client credit, wake-ups, digests; what the pump keeps; whatever stops moves again | circuit window 3 below the sum of two stream windows of 2, so that each can be the one that blocks; one refused write. Pump: windows of 3, increments and reads of 2, water marks of 1, seven cells, two of other streams, one stall, one full target |
| `rendezvous` | three-party credit and nonces, both directions | two streams of window 2, circuit window 3, so that either can be the one that blocks; reads of two, four chunks or cells |
| `relay_safety` | pools, table, counts, pointers | two circuits, two accepted links, one heap link, one worker, one cookie; every send may fail, the output queue may fill; circuits may be extended and joined again |
| `relay_live` | marked circuits are freed; queued cells leave | one accepted and one heap link, the cell queue may fill; three circuits on two channels, budget 1 |
| `services` | pointers, isolation and answers of the proxy; introduction points come back | two clients, two circuits, one pending connect, queue and cache of one; two slots on one relay, one fault |
| `client` | safety of eleven client and service components | three circuits on channels of two, so that a mux fills; two primary guards of two samples; a replay ring of one entry that expires after a tick, for two clients and a repeat; a DPF tree of two levels over four slots, two names in different slots, one of them stored from the start; otherwise pools of two, one or two faults, clocks of one or two ticks past each timeout |
| `network` | safety of six components between client, exit and authorities | a rekey after every record and by the clock, two cells each way; two circuits over two hops, one restart or other fault; two streams, two authorities and relays |
| `forward_target_error`, `pump_stall`, `rend_in_nonce`, `relay_route` | section 6, 1-4 | |

The bounds are chosen so that a pool, cache or window is exhausted once and used again, and so that every
action of every module is taken. Where a deviation of section 6 ends a guarantee, the property of the passing
run says up to which event it holds (`NothingRefused`, `LosslessAlone`, `NoncesInStepAlone`, ...), so that the
run still explores the behaviours after it for the other properties. Deadlock is not checked: a finished
transfer, or a bound that is used up, is a legitimate end of all the models. Symmetry (streams; circuits and
links) is used in safety runs only.

**Fairness.** Weak fairness of: handling cells on a link, reading a registered socket that has data,
completing a connect, the post-loop pass, the scheduler's timer, the steps of its pass and a registered write
event, the proxy's clock and stream timeouts, the service's introduction timer. `moor_event_loop` polls
level-triggered and calls every ready callback in each turn, and timers are re-armed by their callbacks.
Nothing is assumed of applications and targets: opening, closing and writing are not fair. `StreamPump`
assumes in addition that a stalled link recovers and that the application's data is read, since its liveness
is about data that exists.

## 5. Proofs

The theorems hold for every value of the constants under the named assumptions, which TLC evaluates in the
runs: increments are positive and no larger than the windows, and the circuit window is at most `AuthMax`
increments (1000, 10 and 100 in the code: `WindowAssumption`); `RelayAssumption` (finite sets of circuits,
links and channels, disjoint), `ExAssumption` (the name cache has a slot, times are natural numbers, no host has
the empty name), `GuAssumption` (finitely many relays, sizes are natural numbers, there is room for a primary),
`RgAssumption` (the authorities are numbered, the nonce cache has slots), `ScAssumption` (finitely many client
slots and circuits, no circuit is the null pointer, the circuit cache has a place),
`NpAssumption`, `DsAssumption`, `CfAssumption` (sizes are natural numbers), `DaAssumption` (finitely many
authorities), `TrAssumption` (the registry holds transports that exist, a read-ahead buffer holds a whole record,
the ratchet interval is positive), `LnAssumption` (a KEM key and a ciphertext take a whole number of cells), `HsAssumption` (finitely many clients, sizes and times are natural numbers), `FgAssumption` (a message has a
fragment, sizes are natural numbers), `PumpAssumption` (one read, 9 cells, is at most one increment of 100, and a stream's window is at
most the circuit's, both 1000 in `limits.h`), `RendezvousAssumption` and `OutAssumption` (the increment is within both
windows, a read yields a chunk). The last part of `PumpAssumption` is needed: with a stream window
above the circuit's TLC finds a kept payload that no SENDME of the stream pays for.

| Theorem | States | Inductive invariant, and why it is needed |
|---|---|---|
| `TypeCorrect`, `WindowConservation`, `Refinement` (`SendmeForwardProofs`) | `TypeOK`, `WindowConserved`, `RefinesCreditWindow` | `Totals`. `WindowConserved` counts cells of two sequences. `Totals` says that the numbers the cells carry form chains without gaps from what one end has to what the other has sent, and that the windows are differences of their ends; stated pointwise it needs no induction over sequences |
| `StreamWindowConservation` | `StreamWindowConserved` | `StreamsInv`: also for streams one end has closed it must be known which cells of theirs are still on the way, since a slot is found by its id |
| `NothingIsRefused` | `NothingRefused` | `AuthInv`: for every cell in flight, which entry of the client's FIFO is its digest; and that the FIFO is never full when one is recorded |
| `BackwardFlowSound` (`FlowProofs`) | `BackwardSound` | `BInv`: as above for the other direction, the entries found by counting (`Rank`) SENDMEs in flight, cells counted and DATA cells before; per stream `Slot` relates the windows of both ends to its BEGINs, SENDMEs and DATA in flight; only connected targets are in the loop |
| `PumpFlowSound` | `PumpSound` | `PuInv`: each cell is in at most one place (`PuOnce`), those on the way are in a row with what is kept after them (`PuOrder`), the two windows fall together and the SENDMEs come in pairs, the circuit's first; what is kept waits for the stream's SENDME, which pays for a whole read |
| `RendezvousFlowSound` (`RendezvousProofs`) | `RendezvousSound` | `InInv`: every cell on the way to the service is of a stream that was opened and its BEGIN is the first of them; credit is whole while the BEGIN is on its way and adds up while both ends are open; chunk numbers, and nonces as long as one stream is used, continue in line from what the service has to what the client sealed, less the chunk it keeps, and the latter as long as one stream is used and no client has read past its `sendbuf`; a pause is no part of it, since the write-ready link ends one at any time; a circuit that is closed while that lasts has nothing on the way. The loop of `moor_socks5_resume_reads` is a recursive function, followed client by client. `OutInv`: windows in their bounds, nonces in line |
| `RelayTablesExact`, `RelayPendingExact`, `RelayNoDangling` (`RelayCircuitsProofs`) | `TablesExact`, `PendingExact`, `NoDangling`, the first and the last until a circuit is extended or joined a second time | `RInv`: a marked circuit and one with a cookie have no partner, a job or result belongs to one waiting circuit without a next link, and a queued result's link has its descriptor and is not watched, so nothing closes it before the callback takes it |
| `RegistrationOneShot` (`NetworkProofs`) | `RgOneShot` | `RgInv`: where the nonce of each thread has been, and that no authority has seen the cached one |
| `AddressesOneToOne`, `DnsOwnAnswers` (`ProxyProofs`) | `NpOneToOne`, `DsOwnAnswer` | `NpInv`, `DsInv`: the tables hold mappings and responses of the right kind; a staged response is for the connection's own question |
| `ProxyPointersLive`, `ProxyIsolated` (`ProxyProofs`) | `ScPointersLive`, `ScIsolated` | `ScOk`: every table names living circuits, each of them once, and no circuit is in two tables; a client is on a circuit only after its request was read, under the isolation key of the cache entry of that circuit; a worker's queued result is an unmarked rendezvous circuit, so `close_all_marked` cannot free it before `hs_connect_complete_cb` takes it. The loops over clients, pending entries and cached circuits are recursive functions, followed turn by turn with the circuits still to be marked or cut as part of what is known |
| `ConfluxInOrder` (`ConfluxProofs`) | `CfInOrder` | `CfInv`: numbers on the way were sent, are all different and none of them is held, since the receiver does not look at its buffer when a cell is in turn |
| `DirectoryAcceptedBuilt` (`NetworkProofs`) | `DaAcceptedBuilt` | `DaInv`: a signature, wherever it is (in a vote, a snapshot, a message, what a client holds), is over a body that its authority built, or the slot is empty |
| `ExitMapLive` (`NetworkProofs`) | `ExMapLive` | `ExInv`: the property with the type of the table; the loop of `moor_relay_cleanup_exit_fds` is a recursive function, followed by an argument about the least index where it could go wrong |
| `CacheExact` (`NetworkProofs`) | `ExCacheExact` | `ExCacheInv`: the chains as sets without repetition, which partition the slots in use by bucket. The least recently used slot is taken out of its chain before it is linked under its new name, so the lemmas speak of a cache in which one slot is in no chain; the loop of the sweep is followed slot by slot |
| `GuardListsAgree` (`NetworkProofs`) | `GuListsAgree` | `GuListsInv`: the lists in memory and those on disk; a worker clears the primary list, tests one guard after the other and appends outside the lock, so while it is at it the list may be empty, and a guard disabled between test and append is in `raced` until the next path-bias check rebuilds the list |
| `GuardsPathsSound` (`NetworkProofs`) | `GuPathsSound` | `GuInv`: the property and the shape of what the threads hold; the work is in what node selection returns for each hop, whatever lists of guards, vanguards and exclusions it is given |
| `TransportsInStep` (`NetworkProofs`) | `TrInStep` | `TrInv`: the property speaks of the two ends, and only what is between them relates them. In the handshake each side is at a position of its script, and the messages that wait for it are those the other side's position has sent and its own has not received, in order and with their nonces; that the two scripts of every kind send what the other expects is shown from tables of what each prefix has sent, received, sealed, opened and derived. Afterwards the pieces of all records are numbered, and the receiver's buffer, its kernel and the flight hold a run of these numbers that starts behind the last record opened, until a receive call gives pieces up; the ratchet's epoch is a function of the number. The read event's loop is a recursive function, followed call by call |
| `HsKeysSound` (`HsKeysProofs`) | `HkKeysSound` | `HkInv`: which mixtures of generations can be on disk, and which of the pending writes have been done |
| `HsServesOnce` (`HsKeysProofs`) | `HsRendezvousOnce` | `HsInv` and `HsMemory`: a cookie is stored only while its client waits, an INTRODUCE2 is on the way only after that client's INTRODUCE1, and a join names the circuit by the introduction it was built for, so that a slot taken again is not mistaken for it; the ring has the entry of every circuit of the service that was not followed by `HsReplaySlots` others, and an entry counts for `HsReplayTtl` |
| `FragmentsReassembled` (`ConfluxProofs`) | `FgReassembled` | `FgInv`: the cells on the way are in line; a slot belongs to the message that opened it and has every cell of it read since; a slot of a message read to its end was cut short, and these slots are as many as messages in `FgHolding`, so a refused message had too many of them before it |
| `LinkAlwaysAnswered` (`ConfluxProofs`) | `LinkAnswered`, the part of `LinkInStep` about those who wait for a link | `LnInv`: the types of the answers, the queues and the senders, and a clock past 0, the value of a stamp that is not set. It holds for any rate of rekeying and any time, where the other part, that no record arrives under a key too old, depends on the bounds of the run |

Counting is by cardinality of sets of positions, and what would be an induction over a sequence is an argument
about the positions it changes.

Model-checked only: all liveness (outside the provers' reach, with `ENABLED`); `SkipsScheduler` and `Dht`
(recursive operators and bit operations, which the provers do not take); the rest of `LinkInStep`,
that no record arrives under a key its receiver has dropped, which holds within the bounds on time only, since
a record that travels for as long as two rekey intervals could not be read; the invariants built on folds and selections over
sequences (`CbNoDangling`, `CbRefsExact`), which need an induction over data; and `CeKeysAgree`, whose invariant would have
to follow a ciphertext, cut into relay cells, gathered in the buffer of a relay and cut again into link cells, byte by
byte along the circuit, and which has no proof yet.

## 6. Where the code and its comments part

Each of the first four has a run whose counterexample shows it; the others were found with the same models and
are reproduced by checking the named property with the constants of the module's run, or those given.

Flow control and data paths:

1. `forward_target_error` - a failed write to a target skips the count (`relay.c:2366`): every later circuit
   SENDME is rejected by the client.
2. `pump_stall` - write-readiness of the guard link unpauses a client that waits for a SENDME
   (`socks5.c:1655`): kept bytes are overtaken or overwritten. On a rendezvous circuit what is kept is ciphertext whose
   nonce is used up, so a lone stream is torn down too (`NoncesInStepAlone` of `RendezvousIn` without `late`).
3. `rend_in_nonce` - ciphertext kept for one stream is overtaken by another stream's later nonce
   (`socks5.c:2452`): the service tears the circuit down.
4. `relay_route` - of two concurrent extends to one relay the second gets the first one's channel and its own
   link (`relay.c:385`).
5. `socks5.c:1507`: a stream whose application refuses a payload is freed without RELAY_END; the exit keeps
   the target (`ClosedStreamReleased` of `SendmeBackward` without its last disjunct), or the service its local
   connection (`ServiceDrained` of `RendezvousOut` without `dropped`).
6. `socks5.c:2567`: a retry of `sendbuf` that the windows cut short counts as complete
   (`DeliveredInOrder` of `StreamPump`, `MaxOther = 3`, `MaxStalls = MaxFull = 0`, reads of 2).
7. `relay.c:2383`: a payload the target's socket does not take is dropped
   (`DeliveredInOrder`, `MaxFull = 1`, `MaxStalls = MaxOther = 0`).
8. `relay.c:2391`: XON is sent with the next cell, which the client that got XOFF never sends
   (`PauseEnds` of `StreamPump` without its last disjunct, `MaxFull = 1`).
9. `socks5.c:2458`: chunks after a refused one are lost (`DeliveredInOrder` of `RendezvousIn` without
   `lost = 0`, `N = 1`, `CircWindow = 6`, `MaxRead = 3`, `MaxChunks = 6`).
10. `relay.c:1908` against `circuit.c:1930`: the rendezvous point's circuit SENDME has no body, the client
    rejects it, and the circuit's credit is never refilled (`RendezvousIn`: `circ_package_window` never rises).
11. `main.c:2973`: a circuit SENDME refills the service's window and puts no paused connection back, against
    `main.c:2621` ("pause reads until client sends SENDME to refill"): one that lacks only circuit credit is put back
    by the next SENDME of its stream or not at all (`ServiceDrained` of `RendezvousOut` without `ShortOfCircuit`).
    `main.c:2817`: a BEGIN for which no socket can be had is not answered; the client's timeout ends the circuit.

Relay:

12. `connection.c:1558`: a link given up because the queue is full stays in the event loop, against the
    assertion at `relay.c:1190` (`WatchedIsOpen` of `RelayCircuits`, `QueueFills = {x1, o1}`).
13. `relay.c:339`: a worker's result may point at a heap link that was closed
    (`ResultsAlive`, `PeerCreates = TRUE`).
14. `connection.c:1569`: a pool link on which a send failed is neither watched nor reaped
    (`DeadLinkReclaimed`, `SendsFail = TRUE`).
15. `scheduler.c:442`: a channel parked with an empty output queue is woken by a new cell only; a full mux
    refuses a circuit and the callers ignore it (`relay.c:393`, `2032`, `2212`, `2831`, `2970`).
16. `relay.c:1249`, `circuit.c:586`: a descriptor can be closed twice, the second time for another stream
    (`ExOwnTarget` of `ExitStreams`). BEGIN without a free slot, with a used id or for a private address gets
    no RELAY_END (`RefusedSilently` of `SendmeForward`: a client that sends on such a stream gets no credit of the
    stream back), and `xoff_sent` of a slot survives its reuse.
17. `relay.c:2027`: a second EXTEND on a circuit overwrites its next hop, whose table entry and count stay
    (`circuit.c:198` removes the current one); `relay.c:2728`: a second join overwrites the partner, and the first one
    keeps a pointer that nobody clears (`TablesExact`, `NoDangling` of `RelayCircuits` without `~again`). MOOR's own
    client does neither.

Client:

18. `socks5.c:1110`: the count of builds in flight can differ from the builds (`CbInflightExact`);
    `circuit.c:4026`: a timer can outlive its owner (`CbTimersOwned` of `CircuitBuild`).
19. `circuit.c:2206`: `moor_circuit_check_timeouts` frees a build whose link is connecting and leaves the handshake's
    callback with it, which then reads the freed circuit (`circuit.c:4398`) to find out whether it was freed
    (`CbNoDangling` of `CircuitBuild` without `overdue`). `circuit.c:4522`: a build refused by the full mux of an open channel has
    its link but has not raised the link's count, which freeing it lowers (`CbRefsExact` without `short`).
20. `socks5.c:2212`: of the clients that wait for one service not all are found when it answers (`ScQueuedServed` of `SocksClient`).
21. `circuit.c`, `node.c`: threads that share the guard state can list a primary guard twice, a worker can list one that
    the path-bias timer disabled a moment before (`circuit.c:3186` is outside the lock; until the next path-bias
    check, `raced` in `GuListsAgree`), a relay that is
    middle-only (`docs/README.md:84`) can be the entry of a circuit, a vanguard can be lost before it expires (`GuPrimaryDistinct`, `GuMiddleOnlyKept`,
    `GuVanguardsKept` of `Guards`).
22. `circuit.c:1727`: cells of other streams that arrive while a name is resolved are dropped, and an answer
    to an earlier question is taken for this one (`CrDataKept`, `CrAnswersOwn` of `CircuitResolve`).
23. `addressmap.c`: a mapping's age is not renewed when it is handed out again (`NpAnswerGood` of
    `AddressMap`).
24. `circuit.c:2704`: a failed CREATE on a bridge link lowers its reference count twice (`CeBridgeRefs` of
    `CircuitExtend`, `CeBridged = {"c1", "c2"}`); the previous onion key is kept and never used
    (`CeRotationOverlap`, `relay.c:3669`). A relay makes a new KEM key at every start (`main.c:1826`) and restores its
    onion key (`main.c:4536`); ML-KEM rejects implicitly, so a client with the old consensus gets the right tag and
    other keys than the relay, against `circuit.c:1013` (`CeTagProves`, `CeSuperseded` in `CeKeysAgree`).
25. `conflux.c`: a failed send uses up a number; a buffer whose entries have all expired is never skipped.
    `fragment.c`: messages that share a random identifier can be mixed.

Links and directory:

26. `connection.c:1550`, `scheduler.c:481`: a cell can be sent ahead of a queued one (`LinkInOrder` of
    `LinkProtocol`). Each side also changes keys by its own clock, and the receiver retries with the previous key only:
    a sender whose clock is ahead is not understood and the link is closed, although `connection.c:1384` and `1690`
    speak of a peer that "rotated slightly before us" (`LinkStragglersOpen`; `lnTimed` in `LinkInStep`).
27. `connection.c:1632`, `connection.c:1659`: cells a transport has already taken from the kernel wait for the
    next arrival, and the end of the stream can go unnoticed (`TrNothingStranded` with `TrWire = 8`, `TrEofNoticed` of
    `Transports`).
28. `main.c:1186`, `relay.c:4136`: a new bandwidth and a rotated onion key are written to one configuration
    and registered from another (`RgNewBandwidthSent`, `RgKeySent` of `Registration`).
29. `directory.c`: a snapshot may be served without the peer's signature, an identity may be listed twice, a
    stale relay may come back by a sync (`DaSnapshotCosigned`, `DaOneEntryEach`, `DaStaleGone` of `Directory`).

Hidden services and DHT:

30. `hidden_service.c:933`, `main.c:3347`: a descriptor can be published whose introduction points do not know
    the service by its key (`HsDescriptorUsable`); the stored revision can fall (`HsStoreForward`), and a client
    with the current descriptor can be refused for its proof of work (`HsPowPasses` of `HiddenService`).
31. `hidden_service.c`: after a failed write a service may run with the halves of two key pairs, or under an
    address that is not the host name on disk
    (`HkServes`, `HkHostnameCurrent` of `HsKeys`). A crash between `fopen` and `fprintf` leaves an empty host file, which
    later starts do not write again (`hidden_service.c:575` tests for the file alone).
32. `dht.c:1634`: what a look-up returns may be cut short and not open, and from tables that differ it may be
    an entry neither replica holds (`DhYieldsEntry`,
    `DhResultHeld` of `Dht`).

## 7. Not modelled

Cryptography, parsing, byte formats and camouflage of the transports, logging, sandboxing, scoring, mixing and
padding are pure functions, statistics or I/O. The bridge database and onionbalance are small servers over the
same descriptors. Inside the modelled components: the open addressing behind the circuit table, failing
allocations, flags, families and the shared random value of the consensus, the rate limits, client
authorisation and the peer-address bookkeeping of links. Smaller simplifications, none of which a property looks at:
the age of a pooled circuit at the moment it is taken (`socks5.c:622`; `CircuitBuild` has it, `SocksClient` not); a
transparent client whose bytes happen to parse as a SOCKS request (`socks5.c:2795`); the default time to live of a DNS answer that
cannot be parsed (`dns_server.c:133`), which lies within the bounds the model clamps to; the moment between the flag
and the thread of a solver (`relay.c:3858`); the three seconds in which an authority builds for the next epoch
(`directory.c:869`), and VOTE and VOTE_PQ, which are one message; the liveness test among the reasons for a rotation of
introduction points (`hidden_service.c:2386`): in the model a lost circuit is known to be lost; the options that switch off private look-ups or
publication (`dht.c:1826`, `hidden_service.c:1316`); the permutation of conflux sequence numbers, taken as agreed by both ends
(`conflux.c:86` draws a random key at an end without hops; nothing calls `moor_conflux_create`). `PROJECT.json` says so per component, and lists under
`hazards` what is hard to test in the code, with the properties that watch it.
