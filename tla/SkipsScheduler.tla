--------------------------- MODULE SkipsScheduler ---------------------------
(***************************************************************************)
(* Cell queues, circuit mux and the SKIPS scheduler (scheduler.c,          *)
(* channel.c, moor_circuit_queue_cell of circuit.c).                       *)
(*                                                                         *)
(* A relayed cell is pushed on its circuit's queue, counted by the mux of  *)
(* the channel, and its channel put on the pending list; a timer visits    *)
(* the pending channels from the last to the first, lets the quietest      *)
(* circuit send within a budget asked of the kernel, and goes round again  *)
(* as long as something was sent.  Cells of a client's own circuits are    *)
(* flushed at once.                                                        *)
(*                                                                         *)
(* Cells are counted, not told apart; budgets are in cells; the decay of   *)
(* a mux entry halves it.  The heap is kept as the code keeps it.          *)
(***************************************************************************)
EXTENDS Integers, Sequences, FiniteSets, FiniteSetsExt

CONSTANTS
    SkCircuits, SkRelayed,   \* circuits; those that a relay forwards
    SkSlow,                  \* circuits with twice the others' round trip
    SkChannels,
    SkMuxMax,                \* MOOR_MUX_MAX
    SkBurstThreshold, SkBurstSize,
    SkHardLimit,             \* MOOR_GLOBAL_QUEUE_HARD_LIMIT
    SkMaxBudget,             \* bound: cells a kernel lets a channel send
    SkMaxCells,              \* bound: cells queued
    SkMaxTicks, SkMaxFails   \* bounds: EWMA ticks; dying links and circuits

VARIABLES
    chan_state,      \* "open" | "closing" | "closed"
    conn_open,       \* the channel's link is CONN_STATE_OPEN
    sched_state,     \* "IDLE" | "PENDING" | "WAITING_TO_WRITE"
    g_pending,       \* channels with cells, a sequence
    skips_left,      \* skips_limit - skips_written; dead off the list
    outq,            \* cells a link has queued for its socket
    mux_entries,     \* circuits attached to a channel's mux
    active_heap,     \* its min-heap, root first
    queued_cells, ewma, ewma_old,  \* a circuit's mux entry; not yet decayed
    mux_old,         \* the mux has not been recalibrated in this tick
    circuit,         \* [st, chan] of a circuit
    cell_queue_n,    \* cells on a circuit's queue
    g_global_queued,
    skips_at,        \* where moor_skips_run stands; phase 0 outside it
    skBudget         \* what the bounds leave: cells, ticks, failures

skLink == <<chan_state, conn_open, outq>>
skMux  == <<mux_entries, active_heap, queued_cells, ewma, ewma_old, mux_old>>
skPend == <<sched_state, g_pending, skips_left>>
skVars == <<skLink, skMux, skPend, circuit, cell_queue_n, g_global_queued,
            skips_at, skBudget>>

Outside == [phase |-> 0, i |-> 0, progress |-> FALSE]
SkNoChan == "none"

SkInit ==
    /\ chan_state = [ch \in SkChannels |-> "open"]
    /\ conn_open = [ch \in SkChannels |-> TRUE]
    /\ sched_state = [ch \in SkChannels |-> "IDLE"]
    /\ g_pending = <<>>
    /\ skips_left = [ch \in SkChannels |-> 0]
    /\ outq = [ch \in SkChannels |-> 0]
    /\ mux_entries = [ch \in SkChannels |-> {}]
    /\ active_heap = [ch \in SkChannels |-> <<>>]
    /\ queued_cells = [c \in SkCircuits |-> 0]
    /\ ewma = [c \in SkCircuits |-> 0]
    /\ ewma_old = [c \in SkCircuits |-> FALSE]
    /\ mux_old = [ch \in SkChannels |-> FALSE]
    /\ circuit = [c \in SkCircuits |-> [st |-> "free", chan |-> SkNoChan]]
    /\ cell_queue_n = [c \in SkCircuits |-> 0]
    /\ g_global_queued = 0
    /\ skips_at = Outside
    /\ skBudget = [cells |-> SkMaxCells, ticks |-> SkMaxTicks,
                   fails |-> SkMaxFails]

-----------------------------------------------------------------------------
(* The min-heap of a mux: h is the heap, k the EWMA counts.                *)

HeapSwap(h, a, b) == [h EXCEPT ![a] = h[b], ![b] = h[a]]

RECURSIVE HeapSiftUp(_, _, _)
HeapSiftUp(h, k, i) ==
    LET parent == i \div 2 IN
    IF i > 1 /\ k[h[i]] < k[h[parent]]
    THEN HeapSiftUp(HeapSwap(h, i, parent), k, parent)
    ELSE h

RECURSIVE HeapSiftDown(_, _, _)
HeapSiftDown(h, k, i) ==
    LET l == 2 * i
        r == 2 * i + 1
        a == IF l <= Len(h) /\ k[h[l]] < k[h[i]] THEN l ELSE i
        smallest == IF r <= Len(h) /\ k[h[r]] < k[h[a]] THEN r ELSE a
    IN IF smallest = i THEN h
       ELSE HeapSiftDown(HeapSwap(h, i, smallest), k, smallest)

RECURSIVE HeapBuild(_, _, _)
HeapBuild(h, k, i) ==
    IF i = 0 THEN h ELSE HeapBuild(HeapSiftDown(h, k, i), k, i - 1)

InHeap(h, c)  == \E i \in 1..Len(h) : h[i] = c
HeapIdx(h, c) == CHOOSE i \in 1..Len(h) : h[i] = c

HeapInsert(h, k, c) ==
    IF Len(h) >= SkMuxMax THEN h
    ELSE HeapSiftUp(Append(h, c), k, Len(h) + 1)

HeapRemove(h, k, c) ==
    LET pos  == HeapIdx(h, c)
        last == Len(h)
        cut  == SubSeq(h, 1, last - 1)
    IN IF pos = last THEN cut
       ELSE HeapSiftUp(HeapSiftDown([cut EXCEPT ![pos] = h[last]], k, pos),
                       k, pos)

-----------------------------------------------------------------------------
(* The mux.                                                                *)

\* moor_circuitmux_notify_cells(+1): the entry becomes active.
NotifyCells(ch, c) ==
    IF c \notin mux_entries[ch]
    THEN UNCHANGED <<queued_cells, active_heap>>
    ELSE /\ queued_cells' = [queued_cells EXCEPT ![c] = @ + 1]
         /\ active_heap' =
              IF InHeap(active_heap[ch], c) THEN active_heap
              ELSE [active_heap EXCEPT ![ch] = HeapInsert(@, ewma, c)]

\* Mutant: a cell that could not be sent is not counted.
MutNotifyXmit(ch, c, h, k, q, n) ==
    LET k2 == [k EXCEPT ![c] = (IF ewma_old[c] THEN @ \div 2 ELSE @) + n]
        q2 == IF n > 1 THEN (IF q >= n - 1 THEN q - (n - 1) ELSE 0) ELSE q
    IN [ewma |-> k2, queued |-> q2,
        heap |-> IF ~InHeap(h, c) THEN h
                 ELSE IF q2 = 0 THEN HeapRemove(h, k2, c)
                 ELSE HeapSiftDown(h, k2, HeapIdx(h, c))]

\* moor_circuitmux_notify_xmit: decay, count, leave the heap or sink in it.
NotifyXmit(ch, c, h, k, q, n) ==
    LET k2 == [k EXCEPT ![c] = (IF ewma_old[c] THEN @ \div 2 ELSE @) + n]
        q2 == IF q >= n THEN q - n ELSE 0
    IN [ewma |-> k2, queued |-> q2,
        heap |-> IF ~InHeap(h, c) THEN h
                 ELSE IF q2 = 0 THEN HeapRemove(h, k2, c)
                 ELSE HeapSiftDown(h, k2, HeapIdx(h, c))]

\* A circuit is attached when it is wired to its channel; a relay ignores
\* that the mux is full, a client gives the circuit up.
SkAttach(c, ch) ==
    /\ skips_at = Outside
    /\ circuit[c].st = "free" /\ chan_state[ch] = "open"
    /\ c \in SkRelayed \/ Cardinality(mux_entries[ch]) < SkMuxMax
    /\ circuit' = [circuit EXCEPT ![c] = [st |-> "open", chan |-> ch]]
    /\ IF Cardinality(mux_entries[ch]) < SkMuxMax
       THEN /\ mux_entries' = [mux_entries EXCEPT ![ch] = @ \cup {c}]
            /\ ewma' = [ewma EXCEPT ![c] = 0]
            /\ ewma_old' = [ewma_old EXCEPT ![c] = FALSE]
            /\ queued_cells' = [queued_cells EXCEPT ![c] = 0]
       ELSE UNCHANGED <<mux_entries, ewma, ewma_old, queued_cells>>
    /\ UNCHANGED <<skLink, skPend, active_heap, mux_old, cell_queue_n,
                   g_global_queued, skips_at, skBudget>>

\* The clock enters a new EWMA tick.
SkEwmaTick ==
    /\ skips_at = Outside /\ skBudget.ticks > 0
    /\ skBudget' = [skBudget EXCEPT !.ticks = @ - 1]
    /\ ewma_old' = [c \in SkCircuits |-> ewma[c] > 0]
    /\ mux_old' = [ch \in SkChannels |-> TRUE]
    /\ UNCHANGED <<skLink, skPend, mux_entries, active_heap, queued_cells,
                   ewma, circuit, cell_queue_n, g_global_queued, skips_at>>

-----------------------------------------------------------------------------
(* Queueing a cell.                                                        *)

\* moor_skips_channel_has_cells.
HasCells(ch) ==
    IF sched_state[ch] = "PENDING" \/ chan_state[ch] # "open"
    THEN UNCHANGED <<sched_state, g_pending>>
    ELSE /\ sched_state' = [sched_state EXCEPT ![ch] = "PENDING"]
         /\ g_pending' = Append(g_pending, ch)

\* moor_circuit_queue_cell of a relayed circuit: the scheduler will send it.
SkQueueRelayed(c) ==
    /\ skips_at = Outside
    /\ c \in SkRelayed /\ circuit[c].st = "open"
    /\ skBudget.cells > 0 /\ g_global_queued < SkHardLimit
    /\ skBudget' = [skBudget EXCEPT !.cells = @ - 1]
    /\ cell_queue_n' = [cell_queue_n EXCEPT ![c] = @ + 1]
    /\ g_global_queued' = g_global_queued + 1
    /\ NotifyCells(circuit[c].chan, c)
    /\ HasCells(circuit[c].chan)
    /\ UNCHANGED <<skLink, skips_left, mux_entries, ewma,
                   ewma_old, mux_old, circuit, skips_at>>

\* moor_connection_send_cell n times on ch, after the n cells were popped:
\* each is taken by the socket or queued for it; the last one may fail, and
\* then the link is dead.
SendCells(ch, n, ok, queued) ==
    /\ ok \in {n - 1, n} /\ queued \in 0..ok
    /\ ok = n => conn_open[ch] /\ g_global_queued - n + queued <= SkHardLimit
    /\ ~conn_open[ch] => n = 1
    /\ ok < n /\ conn_open[ch] => skBudget.fails > 0
    /\ skBudget' = IF ok < n /\ conn_open[ch]
                   THEN [skBudget EXCEPT !.fails = @ - 1] ELSE skBudget
    /\ conn_open' = [conn_open EXCEPT ![ch] = @ /\ ok = n]
    /\ outq' = [outq EXCEPT ![ch] = @ + queued]
    /\ g_global_queued' = g_global_queued - n + queued

\* Any other circuit: circ_queue_flush_direct drains the whole queue; with a
\* dead link the cell stays.
SkQueueDirect(c) ==
    LET ch == circuit[c].chan
        n  == cell_queue_n[c] + 1
        k  == [queued_cells EXCEPT ![c] = @ + 1]
    IN /\ skips_at = Outside
       /\ c \notin SkRelayed /\ circuit[c].st = "open"
       /\ skBudget.cells > 0 /\ g_global_queued < SkHardLimit
       /\ IF ~conn_open[ch]
          THEN /\ cell_queue_n' = [cell_queue_n EXCEPT ![c] = n]
               /\ g_global_queued' = g_global_queued + 1
               /\ NotifyCells(ch, c)
               /\ UNCHANGED <<conn_open, outq, ewma, ewma_old>>
               /\ skBudget' = [skBudget EXCEPT !.cells = @ - 1]
          ELSE \E queued \in 0..n, fails \in 0..1 :
                 LET s == NotifyXmit(ch, c, active_heap[ch], ewma, k[c], n) IN
                 /\ queued + fails <= n /\ fails <= skBudget.fails
                 /\ skBudget' = [skBudget EXCEPT !.cells = @ - 1,
                                                 !.fails = @ - fails]
                 /\ conn_open' = [conn_open EXCEPT ![ch] = fails = 0]
                 /\ outq' = [outq EXCEPT ![ch] = @ + queued]
                 /\ g_global_queued' = g_global_queued + 1 - n + queued
                 /\ g_global_queued' <= SkHardLimit
                 /\ cell_queue_n' = [cell_queue_n EXCEPT ![c] = 0]
                 /\ ewma' = s.ewma
                 /\ ewma_old' = [ewma_old EXCEPT ![c] = FALSE]
                 /\ queued_cells' = [queued_cells EXCEPT ![c] = s.queued]
                 /\ active_heap' = [active_heap EXCEPT ![ch] = s.heap]
       /\ UNCHANGED <<chan_state, skPend, mux_entries, mux_old, circuit,
                      skips_at>>

\* A WRITE event: moor_queue_flush hands cells to the socket; a link that
\* drains looks whether its mux has more.
SkWriteEvent(ch) ==
    /\ skips_at = Outside
    /\ chan_state[ch] = "open" /\ conn_open[ch] /\ outq[ch] > 0
    /\ \E n \in 1..outq[ch] :
         /\ outq' = [outq EXCEPT ![ch] = @ - n]
         /\ g_global_queued' = g_global_queued - n
         /\ IF n = outq[ch] /\ \E c \in mux_entries[ch] : queued_cells[c] > 0
            THEN HasCells(ch) ELSE UNCHANGED <<sched_state, g_pending>>
    /\ UNCHANGED <<chan_state, conn_open, skips_left, skMux,
                   circuit, cell_queue_n, skips_at, skBudget>>

-----------------------------------------------------------------------------
(* moor_skips_run.                                                         *)

\* Mutant: the last one is cut off without taking the place.
MutPendingRemove(p, i) == SubSeq(p, 1, Len(p) - 1)

\* pending_remove: the last one takes the place.
PendingRemove(p, i) ==
    SubSeq([p EXCEPT ![i] = p[Len(p)]], 1, Len(p) - 1)

\* The timer fires and something is pending.
SkTick ==
    /\ skips_at = Outside /\ g_pending # <<>>
    /\ skips_at' = [phase |-> 1, i |-> Len(g_pending), progress |-> FALSE]
    /\ UNCHANGED <<skLink, skMux, skPend, circuit, cell_queue_n,
                   g_global_queued, skBudget>>

\* Phase 1 for one channel: dropped if its link is gone, else
\* skips_query_tcp_info and skips_compute_limit; the limit may be 0.
SkRefresh ==
    /\ skips_at.phase = 1 /\ skips_at.i > 0
    /\ skips_at' = [skips_at EXCEPT !.i = @ - 1]
    /\ LET ch == g_pending[skips_at.i] IN
       IF chan_state[ch] = "open" /\ conn_open[ch]
       THEN /\ \E limit \in 0..SkMaxBudget :
                 skips_left' = [skips_left EXCEPT ![ch] = limit]
            /\ UNCHANGED <<sched_state, g_pending>>
       ELSE /\ sched_state' = [sched_state EXCEPT ![ch] = "IDLE"]
            /\ g_pending' = PendingRemove(g_pending, skips_at.i)
            /\ UNCHANGED <<skips_left>>
    /\ UNCHANGED <<skLink, skMux, circuit, cell_queue_n, g_global_queued,
                   skBudget>>

\* The end of a pass over the pending channels: again while cells went out.
SkPassEnds ==
    /\ skips_at.phase > 0 /\ skips_at.i = 0
    /\ skips_at' =
         IF g_pending # <<>> /\ (skips_at.phase = 1 \/ skips_at.progress)
         THEN [phase |-> 2, i |-> Len(g_pending), progress |-> FALSE]
         ELSE Outside
    /\ UNCHANGED <<skLink, skMux, skPend, circuit, cell_queue_n,
                   g_global_queued, skBudget>>

\* skips_ewma_boost_apply: circuits with twice the shortest round trip count
\* half, and stay so.
Boosted(h) ==
    IF Len(h) < 2 \/ \A i \in 1..Len(h) : h[i] \in SkSlow THEN ewma
    ELSE [c \in SkCircuits |-> IF InHeap(h, c) /\ c \in SkSlow
                               THEN ewma[c] \div 2 ELSE ewma[c]]

\* moor_circuitmux_pick in a new tick decays what is in the heap.
Recalibrated(ch, h, k) ==
    IF ~mux_old[ch] THEN k
    ELSE [c \in SkCircuits |-> IF InHeap(h, c) /\ ewma_old[c]
                               THEN k[c] \div 2 ELSE k[c]]

\* Phase 2 for one channel that has used its budget, or has nothing to send.
SkPark ==
    /\ skips_at.phase = 2 /\ skips_at.i > 0
    /\ skips_at' = [skips_at EXCEPT !.i = @ - 1]
    /\ LET ch == g_pending[skips_at.i] IN
       /\ \/ /\ skips_left[ch] = 0
             /\ sched_state' = [sched_state EXCEPT ![ch] = "WAITING_TO_WRITE"]
          \/ /\ skips_left[ch] > 0
             /\ active_heap[ch] = <<>>
             /\ sched_state' = [sched_state EXCEPT ![ch] = "IDLE"]
       /\ g_pending' = PendingRemove(g_pending, skips_at.i)
       /\ skips_left' = [skips_left EXCEPT ![ch] = 0]
    /\ UNCHANGED <<skLink, skMux, circuit,
                   cell_queue_n, g_global_queued, skBudget>>

\* Phase 2 for one channel: the quietest circuit sends a burst.
SkSend ==
    /\ skips_at.phase = 2 /\ skips_at.i > 0
    /\ LET ch == g_pending[skips_at.i]
           h0 == active_heap[ch]
           k1 == Boosted(h0)
           k2 == Recalibrated(ch, h0, k1)
           h1 == IF Len(h0) > 1 THEN HeapBuild(h0, k1, Len(h0) \div 2) ELSE h0
           h2 == IF mux_old[ch] THEN HeapBuild(h1, k2, Len(h1) \div 2) ELSE h1
           c  == h2[1]
           burst == IF Len(h2) > SkBurstThreshold THEN SkBurstSize ELSE 1
           most == Min({burst, skips_left[ch], cell_queue_n[c]})
       IN /\ skips_left[ch] > 0
          /\ h0 # <<>>
          /\ \E n \in 0..most : \E ok \in 0..n, queued \in 0..n :
               LET xm == NotifyXmit(ch, c, h2, k2, queued_cells[c], n) IN
               /\ n = most \/ ok < n        \* a failure ends the burst
               /\ n > 0 \/ most = 0
               /\ IF n = 0
                  THEN UNCHANGED <<conn_open, outq, g_global_queued, skBudget>>
                  ELSE SendCells(ch, n, ok, queued)
               /\ cell_queue_n' = [cell_queue_n EXCEPT ![c] = @ - n]
               /\ skips_left' = [skips_left EXCEPT ![ch] = @ - ok]
               /\ ewma' = IF n > 0 THEN xm.ewma ELSE k2
               /\ ewma_old' = [d \in SkCircuits |->
                                 ewma_old[d] /\ ~(mux_old[ch] /\ InHeap(h2, d))
                                             /\ ~(n > 0 /\ d = c)]
               /\ queued_cells' = IF n > 0
                                  THEN [queued_cells EXCEPT ![c] = xm.queued]
                                  ELSE queued_cells
               /\ active_heap' = [active_heap EXCEPT ![ch] =
                                    IF n > 0 THEN xm.heap ELSE h2]
               /\ skips_at' = [skips_at EXCEPT !.i = @ - 1,
                                 !.progress = @ \/ ok > 0]
          /\ mux_old' = [mux_old EXCEPT ![ch] = FALSE]
    /\ UNCHANGED <<chan_state, sched_state, g_pending, mux_entries, circuit>>

-----------------------------------------------------------------------------
(* Links and circuits end.                                                 *)

\* A link that is dead, or fails now, is freed: its channel is marked and
\* with it the circuits of its mux.
SkChannelDies(ch) ==
    /\ skips_at = Outside /\ chan_state[ch] = "open"
    /\ \/ ~conn_open[ch] /\ UNCHANGED skBudget
       \/ /\ conn_open[ch] /\ skBudget.fails > 0
          /\ skBudget' = [skBudget EXCEPT !.fails = @ - 1]
    /\ conn_open' = [conn_open EXCEPT ![ch] = FALSE]
    /\ chan_state' = [chan_state EXCEPT ![ch] = "closing"]
    /\ circuit' = [c \in SkCircuits |->
                     IF circuit[c].st = "open" /\ circuit[c].chan = ch
                     THEN [circuit[c] EXCEPT !.st = "marked"]
                     ELSE circuit[c]]
    /\ g_global_queued' = g_global_queued - outq[ch]  \* moor_queue_clear
    /\ outq' = [outq EXCEPT ![ch] = 0]
    /\ UNCHANGED <<skMux, skPend, cell_queue_n, skips_at>>

\* A circuit is marked for a reason of its own.
SkMarkCircuit(c) ==
    /\ skips_at = Outside /\ circuit[c].st = "open" /\ skBudget.fails > 0
    /\ skBudget' = [skBudget EXCEPT !.fails = @ - 1]
    /\ circuit' = [circuit EXCEPT ![c].st = "marked"]
    /\ UNCHANGED <<skLink, skMux, skPend, cell_queue_n, g_global_queued,
                   skips_at>>

\* moor_channel_close_all_marked: off the pending list, and the slot zeroed.
SkCloseChannel(ch) ==
    /\ skips_at = Outside /\ chan_state[ch] = "closing"
    /\ chan_state' = [chan_state EXCEPT ![ch] = "closed"]
    /\ sched_state' = [sched_state EXCEPT ![ch] = "IDLE"]
    /\ g_pending' = IF InHeap(g_pending, ch)
                    THEN PendingRemove(g_pending, HeapIdx(g_pending, ch))
                    ELSE g_pending
    /\ mux_entries' = [mux_entries EXCEPT ![ch] = {}]
    /\ active_heap' = [active_heap EXCEPT ![ch] = <<>>]
    /\ UNCHANGED <<conn_open, outq, skips_left, queued_cells,
                   ewma, ewma_old, mux_old, circuit, cell_queue_n,
                   g_global_queued, skips_at, skBudget>>

\* circ_cleanup_unlocked: the queue is cleared, the circuit detached.
SkFreeCircuit(c) ==
    /\ skips_at = Outside /\ circuit[c].st = "marked"
    /\ LET ch == circuit[c].chan IN
       /\ mux_entries' = [mux_entries EXCEPT ![ch] = @ \ {c}]
       /\ active_heap' = IF InHeap(active_heap[ch], c)
                         THEN [active_heap EXCEPT ![ch] =
                                 HeapRemove(@, ewma, c)]
                         ELSE active_heap
    /\ queued_cells' = [queued_cells EXCEPT ![c] = 0]
    /\ ewma' = [ewma EXCEPT ![c] = 0]
    /\ ewma_old' = [ewma_old EXCEPT ![c] = FALSE]
    /\ circuit' = [circuit EXCEPT ![c] = [st |-> "gone", chan |-> SkNoChan]]
    /\ g_global_queued' = g_global_queued - cell_queue_n[c]
    /\ cell_queue_n' = [cell_queue_n EXCEPT ![c] = 0]
    /\ UNCHANGED <<skLink, skPend, mux_old, skips_at, skBudget>>

SkNext ==
    \/ \E c \in SkCircuits, ch \in SkChannels : SkAttach(c, ch)
    \/ SkEwmaTick
    \/ \E c \in SkCircuits : SkQueueRelayed(c) \/ SkQueueDirect(c)
                             \/ SkMarkCircuit(c) \/ SkFreeCircuit(c)
    \/ \E ch \in SkChannels : SkWriteEvent(ch) \/ SkChannelDies(ch)
                              \/ SkCloseChannel(ch)
    \/ SkTick \/ SkRefresh \/ SkPassEnds \/ SkPark \/ SkSend

-----------------------------------------------------------------------------

SkTypeOK ==
    /\ chan_state \in [SkChannels -> {"open", "closing", "closed"}]
    /\ sched_state \in [SkChannels -> {"IDLE", "PENDING", "WAITING_TO_WRITE"}]
    /\ g_pending \in Seq(SkChannels)
    /\ \A ch \in SkChannels : outq[ch] \in Nat /\ mux_entries[ch] \subseteq SkCircuits
    /\ queued_cells \in [SkCircuits -> Nat]
    /\ cell_queue_n \in [SkCircuits -> Nat]
    /\ g_global_queued \in 0..SkHardLimit

IsHeap(h) == \A i \in 2..Len(h) : ewma[h[i \div 2]] <= ewma[h[i]]
Distinct(s) == \A i, j \in 1..Len(s) : s[i] = s[j] => i = j

\* Whatever is queued, sent, refused or torn down: the mux counts of a
\* circuit are its queue's, its heap holds exactly the circuits with cells,
\* in heap order (so the pick is the quietest one); the pending list names
\* each pending channel once; and the global count is what is queued.
SkAccountsAgree ==
    /\ SkTypeOK
    /\ \A ch \in SkChannels :
         LET h == active_heap[ch] IN
         /\ Distinct(h) /\ IsHeap(h)
         /\ {h[i] : i \in 1..Len(h)}
              = {c \in mux_entries[ch] : queued_cells[c] > 0}
         /\ \A c \in mux_entries[ch] : queued_cells[c] = cell_queue_n[c]
    /\ Distinct(g_pending)
    /\ {g_pending[i] : i \in 1..Len(g_pending)}
         = {ch \in SkChannels : sched_state[ch] = "PENDING"}
    /\ g_global_queued =
         MapThenSumSet(LAMBDA c : cell_queue_n[c], SkCircuits)
                    + MapThenSumSet(LAMBDA ch : outq[ch], SkChannels)

\* Cells of attached circuits move: an open channel with cells in its mux
\* gets rid of them, unless its budget parks it while its link has nothing
\* left to write (only a new cell wakes it then: scheduler.c:442).
SkDrains ==
    \A ch \in SkChannels :
      (active_heap[ch] # <<>> /\ conn_open[ch])
        ~> \/ active_heap[ch] = <<>> \/ ~conn_open[ch]
           \/ sched_state[ch] = "WAITING_TO_WRITE" /\ outq[ch] = 0
=============================================================================
