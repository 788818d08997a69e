# A verification project for the PolyGraph simulator

The repository is a cycle-level simulator of PolyGraph, a mesh of graph
processing cores: every core keeps queues of vertex tasks, reads the edges of a
task from memory, computes an update for each neighbour, sends it over a
network to the scratchpad bank of the neighbour's core, and a bank that sees an
improvement creates a new task. This directory holds TLA+ models of that
machine as the code implements it, TLC configurations that check them, and
TLAPS proofs about the task queues, the read path, the asynchronous engine, the
slice scheduler, the network and the cache. Paths below are relative to the repository.

## Inventory

| Component | Source | State | Operations | Talks to |
|---|---|---|---|---|
| task controller, fine-grained queues | `asic.cpp` 7545-8324, 8777-9000, `asic_core.cpp` 272-369, 1217-1252, 2380-2748, 4502-4520 | per core: sorted bounded queues with a free-entry counter, unbounded overflow FIFO, aggregation buffers, pending slot per queue, presence bit per vertex; a central queue with bits of its own | insert_local_task, insert_global_task, distribute_prio, distribute_lb, pull_tasks_from_fifo_to_tq, fill_task_queue, drain_aggregation_buffer, create_async_task, dispatch | banks (new tasks), completion buffer (edge reads), scratchpad (vertex value read again) |
| task controller, worklists | `asic.cpp` 8606-9145 | a worklist and duplicate bits per slice | push_task_into_worklist, move_tasks_from_wklist_to_tq, reset_task_queues | slice scheduler, hardware queues |
| task controller, coarse tasks | `asic.cpp` 7468-7543, 8359-8490, 8749-8775 | bounded queues of dense tasks | insert/distribute/schedule coarse tasks | multiplication core |
| completion buffer | `asic.cpp` 478-729 | a ring with push and pop pointer, free-entry counter; per entry a valid bit, a count of reads it waits for, a tuple; an output queue | allocate_cb_entry, cb_to_lsq, pipeline_inactive | dispatch, memory controller, core's load queue |
| memory controller | `asic.cpp` 9361-10086 | outstanding reads per line, each with the entries that wait for it; delay buffers; L2 | send_mem_request(_actual), read_complete, is_cache_hit | DRAMSim2 (call-back), completion buffers of all cores |
| scratch controller | `asic.cpp` 9628-9730 | vertex-to-core mapping, remote read queues | get_local_scratch_id, send/receive_scratch_request | cores |
| asic, control loop | `asic.cpp` 2285-3402 | cycle counter, round-robin dispatch pointer, edges dispatched in the cycle, termination flag | initialize_simulation, simulate, schedule_tasks, finish_simulation | everything, once per cycle |
| asic, slice scheduling | `asic.cpp` 2512-2802, 5964-6913 | current slice, phases, iteration counters | simulate_slice and its variants, task_recreation_during_sync, check_async_slice_switch | task controller |
| asic core, asynchronous | `asic_core.cpp` 910-3134, 3403-3506 | load queue, stage queues, bank queues | consume_lsq_responses, process, reduce, spec_serve_atomic_requests, pipeline_inactive | completion buffer, network, banks |
| asic core, synchronous and speculative | `asic_core.cpp` 2243-2370, 3136-3400 | commit queues, speculative state | graphmat, graphlab, dijkstra, swarm and espresso cycles | as above |
| network | `network.cpp` | input and output buffer per core, four internal buffers per link, labels of packets moved in the cycle, buffers of the memory controllers, the crossbar's delay ring | push_net_packet, pull_packets_to_network, push_packets_from_network, internal_routing, serve_memory_requests, cycle_pending_comp | cores, banks |
| coalescing buffer | `asic.cpp` 5-477 | per-vertex pending updates | insert, evict, drain | banks, caches |
| multiplication core | `multiply.cpp` | stage queues, batches | dispatch, process, reduce | task controller, scratchpad |
| cache | `simple_cache.cpp`, `replacement_state.cpp` | per set: valid ways, `evict_state`, LRU stack, tree bits, pending ways and masks | LookupCache, LookupAndFillCache, FindVictim, FillCache, ClearLineReplacementMask | memory controller |
| DRAM | `DRAMSim2/` | transaction queue, command queues, bank states of the controller and of the ranks, delays, refresh counters, buses | addTransaction, update, pop, needRefresh, powerDown, call-backs | memory controller |
| preparation of the graph | `asic.cpp` main, 1740-2230, 10185-12540 | offset and neighbor arrays, slices, mapping, correct answer | read_graph_structure, get_*_boundary_*, linear_mapping, DFS, optimize_load, perform_load_balancing2, fill_correct_vertex_data | everything that runs afterwards |
| configuration, statistics | `config.*`, `stats.*`, `accel_*`, `Makefile` | parameters, counters | parsing, printing | none that matter to behaviour |

The simulator is one thread, but what it simulates is concurrent: all cores
advance once per cycle in a fixed order, DRAM answers in an order of its own,
packets overtake each other, and the same vertex can have an update in the
network, a task in a queue, a half-issued task in the pending slot and edges in
the pipeline at once. That, bounded queues that spill, counters and bits kept
beside the data they describe, values cached in a task and read again later,
and the question when everything has really stopped, are the hard behaviours.
Nothing is persisted and no message is lost by design. The only clocks that
force anything are those of the DRAM: timing constraints and refreshes.

What makes each part correct:

- *task queues*: no update is lost through dropping by presence bit, spilling,
  pulling and splitting; counters match queues; what spilled comes back;
- *worklists and slices*: a slice switch keeps every task exactly once, and the
  scheduler ends only when no slice has work;
- *completion buffer and memory controller*: edges come back once each, in
  order, whatever the order of the answers, and all of them do;
- *asynchronous engine*: no relaxation is lost between two vertices, the loop
  ends, and only at the fixpoint;
- *synchronous engine*: an iteration sees the values of the iteration before;
- *network*: each destination of a packet is served once, in bounded time,
  through buffers that exist;
- *distribution*: a task that moves between cores, or waits centrally, is
  neither lost nor dropped on the strength of another core's bit;
- *cache*: a victim is one the policy means, never one that is being replaced;
- *DRAM*: commands keep the timing, no transaction is lost or starves, every
  refresh is sent;
- *preparation*: the arrays hold the graph of the file, slices and cores get
  their shares, and the answer to compare with is right;
- *coalescing buffer*: no pending update is lost on eviction.

## The modules

| Module | Models | Checked by |
|---|---|---|
| `TaskQueue` | the task queues of one core, from the update that creates a task to the edges dispatch issues | `TQ_*` through `MCTaskQueue` |
| `EdgeService` | abstract: an improved vertex makes its edges owe a value, each owed edge is issued | refined by `TaskQueue` |
| `Distribution` | the queues of several cores: the central queue, the ways tasks are handed out, overflow queues that other cores take from, PageRank's residuals | `DI_*` through `MCDistribution` |
| `CompletionBuffer` | the read path of several cores: dispatch, memory controller, completion buffer, load queues | `CB_builds` through `MCCompletionBuffer` |
| `OrderedReads` | abstract: a core gets its edges back once each, in the order of asking | refined by `CompletionBuffer` |
| `AsyncEngine` | the whole asynchronous machine, one part of the simulated cycle per action | `AE_builds` through `MCAsyncEngine` |
| `SliceScheduler` | sliced execution: worklists, slice switches and the drivers' loops, over a machine reduced to queues and bags | `SL_*` through `MCSliceScheduler` |
| `Relaxation` | abstract: values only improve, along arcs, and the machine stops at the fixpoint | refined by `AsyncEngine` and `SliceScheduler` |
| `Network` | the mesh: buffers, routing, multicast, memory controllers' buffers, crossbar delay | `NW_builds` through `MCNetwork` |
| `Delivery` | abstract: every message is handed on once, in any order | refined by `Network` |
| `Cache` | one cache set under every replacement policy | `CA_policies` through `MCCache` |
| `Dram` | one channel of DRAMSim2 | `DR_builds` through `MCDram` |
| `Preparation` | what main does with the graph before the simulation | `PR_builds` through `MCPreparation` |
| `TaskQueueProofs`, `DistributionProofs`, `CompletionBufferProofs`, `AsyncEngineProofs`, `SliceSchedulerProofs`, `NetworkProofs`, `CacheProofs` | theorems about the module each is named after | tlapm |
| `Selection` | loops that walk over a list once and keep some of its entries, for `TaskQueue` and `Network` | with those |
| `Numbers` | facts that the proofs share: least elements, induction for sets of numbers, recursive functions, the pigeonhole principle, positions in a ring, selections from a list | tlapm |

How they compose: `AsyncEngine` puts a count for `TaskQueue`, a ring released in
order for `CompletionBuffer` and a set for `Network`, the interfaces those
modules are shown to offer. `CompletionBuffer` takes any set of cached lines
for `Cache` and any order of answers for `Dram`. The mapping of vertices to
cores and slices, a constant elsewhere, is what `Preparation` computes.

The `MC` modules define graphs and the instances; operators marked `mutant` are
plausible bugs, each of which breaks the property it is paired with in
`PROJECT.json`. Options that are fixed when the simulator is compiled are the
fields of `build`, chosen in `Init` from the constant `Builds` and never
changed, so that one run covers several builds.

### TaskQueue

The build is the default one of the Makefile (`sim-polygraph`: asynchronous,
push mode, work stealing, `PRAC=1`, scalar algorithm with min as reduction);
`FIFO`, `ABORT`, `ENTRY_ABORT` and the sizes are constants.

| Model | Code |
|---|---|
| `tq[t]` (a sequence sorted by priority) | `_task_queue[tqid][0]`, a map from priority to a list, flattened |
| `remaining`, `present`, `fifo`, `agg`, `pending` | `_remaining_task_entries`, `_present_in_local_queue`, `_fifo_task_queue`, `_aggregation_buffer`, `_pending_task` |
| `Update` | spec_serve_atomic_requests on an improving update, create_async_task, push_live_task |
| `Drain` | drain_aggregation_buffer with insert_local_task |
| `InsertPlain`, `InsertAbort`, `Spills`, `Enqueue` | the parts of insert_local_task |
| `Pull`, `FillTaskQueue` | one iteration of the loops of pull_tasks_from_fifo_to_tq and fill_task_queue; `ctl` keeps all other actions out until the loop ends |
| `DispatchPending`, `DispatchFront` | dispatch |
| `sent` | history: the value each edge last carried |

How many edges a dispatch issues is a free choice of at least one: schedule_tasks
and dispatch look for free completion buffer entries before they start a task
(`CompletionBuffer` and `AsyncEngine` model that limit). insert_local_task looks
at the front of a queue whenever the room is below the reserve; with an exact
counter and a reserve smaller than the queue the queue is not empty then, so
`Occupancy` is also what makes that access legal. Under `ABORT` the scan is
modelled for one instance per vertex; `SingleInstance`, which is proved, says
that there is never more.

### CompletionBuffer

One action per operation: `AccessEdge` (access_edge with access_src_vertex_prop
or access_all_edges, and send_mem_request for each line), `ReadComplete`
(memory answers a line, for everyone who waits for it), `CbToLsq`,
`MoveToCore`, `Consume`. `burst` is the core inside dispatch's loop, so that no
other operation of the cycle comes between two of its edges. An edge's
`pref_tuple` is a model value; `issued` is the history of edges asked for and
not handed over. `remaining > 2` before a task and `> min_cb` before an edge are
kept, and with them one entry always stays free: equal pointers mean empty.
The fields `fresh`, `edgesOf` and `longTasks` of `build` say what an
uninitialised tuple may hold and which tasks the cores have.

### AsyncEngine

`phase` and `turn` follow asic::simulate: updates are served, every core runs
its pipeline (`CoreCycle` is the whole of sgu::cycle, the stages in the order of
the code: reduce before process before the load queue), the cores and the
network are asked whether they are inactive (`Check`), schedule_tasks goes
round the cores (`Continue`, `Start`, `Skip`), and the loop ends or goes on
(`EndCycle`). A core's queues are a count per vertex, its completion buffer a
ring released in order, the network a set: those are the interfaces the other
two modules justify. The first task is in core 0 whatever core owns the source,
as in initialize_simulation.

Two facts of the code that the model depends on:

- reduce pops at most `process_thr` results and network::cycle takes up to
  `process_thr` updates per core in the same cycle, so `can_push_in_network`
  always holds and reduce always empties its queue. Hence the packing test of
  reduce (`asic_core.cpp` 2204), which goes on with a packet if the source *or*
  the value is the same, never gives an update the value of another:
  `OneValuePerSource`.
- pipeline_inactive does not look at `_pending_task`. `NothingLeft` shows that
  the loop still never ends with a part of a task pending: an edge dispatched
  with it is in sight for several cycles, and the core dispatches again before
  it is out of sight.

### SliceScheduler

`phase` says where the driver is: between rounds, between two slices of a round
(`"slice"`), or inside simulate (`"run"`). `build.exec` selects the driver as
call_simulate does.

| Model | Code |
|---|---|
| `StartRound`, `SkipSlice`, `LoadSlice`, `EndRun`, `EndRound`, `End` | simulate_slice and simulate_blocked_async_slice, cut where they loop or call simulate |
| `worklist`, `duplicate` | `_worklists`, `_check_worklist_duplicate` |
| `ResetTaskQueues` with `Sweep` (the iterator's walk), `ErasedFrom`, `Moved`, `LeftIn`, `PushAll` | reset_task_queues |
| `Ascending` with `Taken` | a loop over all vertices that acts on some |
| `SwitchSlice` | check_async_slice_switch with `SLICE_HRST=1` |
| `Recreate` | task_recreation_during_sync and update_gradient_of_dependent_slices |
| `Dispatch`, `Process`, `Serve`, `Drain` | a run of simulate, reduced to what crosses a slice switch: `AsyncEngine` has the pipeline and shows that the run ends only when nothing is left |

The loop of reset_task_queues erases a task that has not started and then steps
over the next one, which stays in the queue with its presence bit and runs in
the finishing phase; after erasing the last entry it steps past the end of the
list. That is undefined in C++; the model has what the library's circular list
does, a new start at the first entry. `SL_builds` shows that no relaxation is
lost either way. With `SLICE_HRST=0` the number compared is counted for PageRank
only (`asic_core.cpp` 327), so that a scalar algorithm runs every slice to its
end: the builds with `hrst = FALSE`. `REUSE` is 1, its default, with which a
slice is chosen after every run and synchronizing_sync_reuse_lost_updates only
empties its lists. The limit `SLICE_NUM_ITER` on rounds, an assertion of the
code, is left out: `RelaxationSpec` shows that rounds end by themselves.

### Distribution

The cores' queues without priorities and partial dispatches, which `TaskQueue`
has. `build` selects `WORK_STEALING`, `PRAC`, `DYN_LOAD_BAL`, `ENTRY_ABORT` and
whether values are distances or residuals.

| Model | Code |
|---|---|
| `tq`, `remaining`, `fifo`, `present`, `agg` | as in `TaskQueue`, one queue per core |
| `central`, `inCentral` | `_global_task_queue`, `_present_in_queue` |
| `Update`, `push_live_task`, `InsertNewTask`, `Drain` | spec_serve_atomic_requests, create_async_task, push_live_task, insert_new_task, drain_aggregation_buffer |
| `InsertLocalTask`, `InsertGlobalTask` | insert_local_task with the residual moved into the task, insert_global_task |
| `Distribute` | one iteration of distribute_prio or distribute_lb; calc_least_busy_core reads past its array, so with `PRAC=1` the core is any; distribute_lb may leave tasks for the next cycle (`AfterTask`) |
| `Pull`, `PullSource`, `Steal`, `Dispatch` | pull_tasks_from_fifo_to_tq with its choice of an overflow queue, schedule_tasks, dispatch |

`received` and `sent` are histories: with PageRank, what was added to a vertex
is at the vertex, in its tasks, or issued (`ResidualConserved`).

### Network

Cores push packets between cycles (`SendUpdates`, `SendRead`); a cycle is
`BeginCycle` (cycle_pending_comp), a turn of the loop over one buffer per
action in the order of network::cycle (`Pull`, `Push`, `RouteFront`, `Serve`),
and `EndCycle`. `at` is the position in the cycle.

| Model | Code |
|---|---|
| `netIn`, `netOut`, `internal`, `mcBuf`, `isDone` | `_net_in_buffer`, `_net_out_buffer`, `_internal_buffers`, `_mc_buffers`, `_is_done` |
| `Route`, `LinkMap`, `get_core_id`, `Switch`, `MapDestBuf` | `_routing_table`, `_link_map`, get_core_id, the index arithmetic of internal_routing, `_map_dest_buf` |
| `TransferScalar`, `TransferMulticast` | transfer_scalar_packet, transfer_multicast_packet |
| `wait`, `ptr` | `_bank_to_crossbar`, `_bank_xbar_ptr` |
| `stray` | a push outside of the buffers, undefined in C++ |

A message is a packet and the index of one of its destinations. get_core_id and
fill_link_map number links differently (they agree on the first row only), so
that a packet may be routed as if it were elsewhere: it takes detours, but
`DeliverySpec`, `Prompt` (8 cycles per row of the mesh) and `InBounds` hold.
`_map_dest_buf` is read at four places and set at two; `junk` is what the other
two hold, which the code does not determine. The run has the buffers 0 and 1, the
theorems have every buffer.

### Cache

One set; a lookup finds its line in a way or not at all. `Hit`, `Fill` are
LookupCache and LookupAndFillCache, `FindVictim`, `FillCache`,
`ClearLineReplacementMask` the protocol with `ACCEL_L2_EVICT_ON_MISS_FIX`.
`since` is a history: the ways used since a way was last used.
`r` is LINE_REPLACEMENT_STATE; a tree is the set of its bits that are 1. For
eight ways the case lists of UpdatePseudoLRU are the tables `Sets` and `Clears`
and that of Get_PseudoLRU_Victim is `TreeWay`; `ALL` and `KNH`, for other numbers
of ways, walk their tree a level at a time (`Root` and `Child`, or the numbering
of a heap), as many levels as the largest set has. The
program itself builds only eight ways and `REPL_LRU`; the other policies are
modelled as the class offers them. `garbage` are the ways whose uninitialised
`evict_state` is not 0.

### Dram

A memory cycle is `RankUpdate`, `Bus`, a refresh and a pop (`Refresh`,
`PopRefresh`, `PopBeforeRefresh`, `PopPacket`, `PopPrecharge`, `PopNothing`),
`Schedule`, `Power`, `Return`, in the order of MemorySystem::update. Times are
counted down. `bs` are the bank states the controller believes in, `rb` those
the ranks check commands against; `error` is set where DRAMSim2 would print an
error and exit. `build` holds the configuration: row policy, queues per rank or
per bank, order of the round robin, low power, address mapping scheme, timing.
The machine's own configuration (`sgu_dram.ini`, `asic.cpp` 10147) is `Sgu` in
the small. `BuildsAssumption` asks `burst + tRTRS <= tRCD`, which that
configuration meets with 3 <= 4: without it two transfers meet on the data bus.

### Preparation

`pc` follows main: `ReadLine`, `EndOfFile` (read_graph_structure),
`CountBoundary`, `RenameBySlice`, `get_sync_boundary_nodes`, `linear_mapping`,
`Place`, `StartSearch`, `DFS`, `NumberRest`, `optimize_load`, `Balance`,
`PopHeap` (fill_correct_vertex_data). `name` is a history: the vertex of the
file that each number stands for. The thresholds 10 and 50 of
perform_load_balancing2 are constants, 1 and 2 in the instance.

`build.part` is `_spatial_part`. perform_spatial_part has cases for linear,
modulo, bdfs and random_spatial; every other value, so also bbfs, blocked_dfs and
noload, is its default, perform_load_balancing2: these are `"balanced"`. The
branch for bbfs inside perform_bdfs_load_balancing (`asic.cpp` 10244) is never
reached. `build.blocked` and `build.noload` are the macros `BLOCKED_DFS` and
`NOLOAD`, which get_local_scratch_id and optimize_load look at whatever
`_spatial_part` is.

`EvenLoad` says what each placement gives a core: with linear, modulo and
clustered placement the same part of each slice; by degree, at most its share of
each class; with `BDFS` and `NOLOAD` but without `BLOCKED_DFS`, an even first
slice and all later slices on core 0. Of placement by degree with `BLOCKED_DFS`
(the build `Scattered`) it says nothing, see below. `BoundaryCurrent` and
`SlicesKept` connect the METIS parts, and the counts taken from them, with the
vertices after two renumberings.

## What the runs show

| Run | Instance | Shows |
|---|---|---|
| `TQ_fifo` | 3 vertices of degree 0, 1, 2; 3 values; 2 queues of 2, reserve 1 | counters, bits, no lost update; refinement of `EdgeService` with liveness |
| `TQ_abort` | 4 vertices, queue of 4, reserve 3, priorities, `ABORT` | spilling by priority and replacement of queued tasks keep the counter and lose no update, single instance, the queues empty out |
| `CB_builds` | 1 core with 2 edges in six builds and 2 cores with shared lines in a seventh; ring of 4, queues of 1, 2 edge lines | ring, counts, order; refinement of `OrderedReads` with liveness |
| `AE_builds` | 2 cores, ring of 3, 2 edges per stage: weights and a cycle, `FIFO=0`, the source owned by core 1; unit weights, multicast, `FIFO=1` | no lost relaxation, packing is harmless, refinement of `Relaxation` with termination |
| `SL_builds` | 9 vertices in 2 slices, queue of 3; asynchronous with and without early slice switches, blocked asynchronous | no relaxation lost over a switch, queues hold the running slice only, worklists without duplicates, refinement of `Relaxation` with termination |
| `SL_sync` | 4 vertices, synchronous | violation, see below |
| `NW_builds` | meshes of 4 and 16 cores, 1 or 2 packets to up to 3 destinations, from every core or from two corners | delivery once, bounded transit, indices in range |
| `CA_policies` | one set of 1 to 12 ways, nine policies | exact LRU stack, free ways first, victims |
| `DR_builds` | 2 ranks of 2 banks, bursts of 4 transactions, six configurations | timing, conservation, refreshes, bounded answers |
| `DI_builds` | 3 vertices, 2 cores, queues of 1, 3 values or 4 units of residual, seven builds | truthful bits, no value or residual lost, the queues empty out |
| `DI_residual` | the same, default PageRank build | violation, see below |
| `PR_builds` | every subsequence of at least 4 edges of a file of 10, 8 vertices, 4 cores, 1 or 2 slices, two sources, eleven builds | the graph survives, slices keep their vertices, cores' shares, counts that stay true, the answer |

Bounds and why they are enough. *TaskQueue*: the smallest queue that has both a
reserve and an entry outside it (`TQ_fifo`) and the smallest in which a task spills
by its priority, with two entries left below a reserve of three (`TQ_abort`; one
entry left is always handed out); enough vertices that tasks spill; one queue
under `ABORT`, whose scan over several queues is left to the theorem
`OneEntryPerVertex`; a vertex of degree 2, so that a task is split; a value that can improve
twice, so that a stale one is possible. *CompletionBuffer*: the guards keep
`min_cb` entries free, so a ring of 4 is the smallest in which edges and dummy
entries of several accesses are in flight and the pointers wrap between them;
queues of one entry make every full-queue case happen; two lines are enough for one answer to
overtake another and for reads to meet. *AsyncEngine*: ring of 3, the smallest
that dispatches at all, so that every task of more than one or two edges is split;
graphs in which a vertex is improved while its old value is under way.
*Network*: two packets are enough to meet in a buffer, to hold each other up by
label and to follow each other; the mesh of 16 is the smallest with a core that
has four links. *Cache*: sets are independent; associativities include powers
of two and others, where trees have masked parts; the theorems have them all. *Dram*: timing parameters are
scaled down but keep the order of the real ones; a burst may begin at any
distance from a refresh; a stream of hits without end is not among them.
*Distribution*: a queue of one entry spills every
second task; three vertices, so that both cores' overflow queues fill.
*Preparation*: two vertices per core and slice, the smallest in which chunks of
a degree class overlap; files whose first, middle or last vertices have no
edges. *SliceScheduler*: a slice with more active vertices than its queue holds, so
that a switch finds the queue full, tasks spilled and tasks in the aggregation
buffer; vertices on both sides of the cut that improve twice, so that duplicate
bits matter; a switch after a quarter of a slice's edges, early enough to come
between any two steps of the rest. The count of edges stops where it no longer
matters. No
constraint cuts a state space: values are bounded by the graph, queues by what
the actions can produce. `CHECK_DEADLOCK FALSE` is set where the system stops:
the task queues when no vertex can improve, the engine and the slice loops when
they have ended, the network when every packet has arrived, the preparation
when it is done. `CB_builds`, `CA_policies` and `DR_builds` check deadlock.

Fairness. The simulator calls every stage in every cycle, so each stage of a
core is weakly fair. DRAM answers every transaction (weak fairness per line).
`TaskQueue` asks nothing of `Update`, the environment. `AsyncEngine` asks that
the loop goes on (weak fairness of `Next`), and strong fairness where its
abstractions hide a queue: memory answers some read if reads are outstanding
again and again, some update in the network is served, a queued task reaches
the front. Those stand for `CompletionBuffer`'s and `TaskQueue`'s liveness,
which are checked there under weak fairness. `SliceScheduler` asks only that the
loops go on: every step of a run takes something out of it. `Distribution` asks
weak fairness of distributing, draining, pulling and dispatching, which every
cycle does for every core, and nothing of stealing. `Network` and `Dram` need no
fairness: their actions follow the cycle, and `Prompt` bounds the answer in
cycles, which is stronger.

### Disagreements found

With a run that shows them:

- `SL_sync` (`sim-graphmat-slice`): simulate_slice skips a slice when no
  worklist has a task (`asic.cpp` 6635), but vertices that the last run improved
  in other slices are activated only after those slices' own runs. If they are
  all there is, the loop ends with wrong values, and correctness_check fails.
- `DI_residual` (PageRank, `ENTRY_ABORT=1`, the default): insert_local_task
  moves the residual of a vertex into the task (`asic.cpp` 8058) before the
  presence bit makes it drop the task. `DI_builds` takes PageRank with
  `ENTRY_ABORT=0`.

Left out of the passing runs by their choice of builds; TLC shows each when the
constant named is given instead:

- `CB_builds` with `Builds <- SyncUninitialised`: the constructor of the
  completion buffer leaves `cur_tuple.src_id` unset (`asic.cpp` 478), and on the
  first lap a dummy entry passes for an edge (`Ordered`).
- `CB_builds` with `Builds <- SyncCached`: a source vertex read that hits the L2
  never validates its dummy entry (`asic.cpp` 9795), and the ring stops
  (`WaitingExact`, deadlock).
- `SL_builds` with `Builds <- GradientBuilds` (`ABCD=1`):
  update_gradient_of_dependent_slices (`asic.cpp` 6094) ignores the duplicate
  bits, a worklist outgrows its slice, and the assertion of `asic.cpp` 6628
  fails (`WorklistOnce`).

Seen while modelling, with what the models do about it:

- insert_local_task announces that one entry is kept for priority -1
  (`asic.cpp` 8275); the test in the next line spills while more than one entry
  is left and inserts into the last one. Modelled as the code does.
- pr's should_spawn (`asic.cpp` 5151) compares the two values it is given with
  epsilon, one of which is the increment, not the sum. Modelled as the code does.
- `WORK_STEALING=0` with `ENTRY_ABORT=1`: every reduction has set the vertex's
  bit (`asic_core.cpp` 1389) that insert_global_task tests, so every task is
  dropped; `config.cpp` 274 says of the option "TODO: not working...!!". The
  builds `Central*` have `ENTRY_ABORT=0`.
- calc_least_busy_core reads past the end of an array (`asic.cpp` 8972).
  Modelled as any core.
- READY, PENDING_EVICT and EVICTED are all 0 (`simple_cache_defs.h` 36), so the
  test for a free way never holds for an `evict_state` of 0. Modelled; the LRU
  order makes up for it.
- `_map_dest_buf` has num_rows words (`network.cpp` 15), two of which are set and
  up to four used. 0 and 1 are
  harmless; with 2 or 3 a packet may circle, but no message is dropped or handed on
  twice (`DeliversOnce`); above 3 the packet leaves the buffers. `junk` is 0 or 1
  in the run.
- `network.cpp` 799 compares `!packet_type` with a packet type, which differs
  whatever the type is. Modelled as the code does.
- optimize_load renumbers `_src_vid` in the loop that compares with it
  (`asic.cpp` 10328), so that the source may be renumbered twice; `SameGraph`
  leaves the source out for those builds. get_linear_sgu_boundary_vertices raises
  its vertex before it uses it (`asic.cpp` 11984) and get_slice_boundary_nodes
  omits the last vertex of a slice (12064): `BoundaryCurrent` states the second
  as it is, and nothing is claimed of the first. The numbers of copies
  (`copies`, `copyLoc`) are computed as the code does, but nothing in the code
  reads them, and no property is about them.
- get_grp_id (`asic.cpp` 11443) takes numbers to start at 0 in every slice; those of
  the search run on. With `BDFS` and `NOLOAD` but without `BLOCKED_DFS` all vertices
  of the second and later slices are on core 0. Modelled; `EvenLoad` states it.
- With `BLOCKED_DFS` and placement by degree (`BLOCKED_DFS` alone, or with `BDFS`
  but without `NOLOAD`), perform_load_balancing2 deals out slots one core's part
  of the slice apart, which get_local_scratch_id then cuts into strides: cores get
  no particular share.
- get_hilbert_core is meant to keep consecutive partitions "spatially close to each
  other" (`asic.hh` 335). Every second lap of clusters goes back along the curve
  from `core_cnt - mod_core`, which for the first of them is `core_cnt` and wraps to
  the start (`asic.cpp` 11553): on a mesh of 16 cores the clusters 15 and 16, and 16
  and 17, are three hops apart. Modelled as the code does; on the four cores of the
  run it cannot be seen, and no property is about distances between cores.
- distribute_lb stops after 256 `num_pops` (`asic.cpp` 8784) but raises it twice per
  task: 128 tasks per cycle. Modelled as any number of at least one.
- A file all of whose edges leave one vertex other than 0 loses them, since no
  offset is ever set: excluded by `FilesAssumption`. METIS parts of unequal size are excluded too:
  slices are taken to divide the vertices evenly everywhere else.

## What is proved

The theorems hold for every value of the constants that meets the named
assumptions of the module; TLC evaluates those in every run. Each proof module
has an invariant `IInv` that is inductive, a lemma per action that the action
keeps it, and the theorems. Where a theorem needs a hypothesis about the builds
it is written into the theorem, and a run or a remark below shows what happens
without it.

| Theorems | State | For every | Hypothesis |
|---|---|---|---|
| `TaskQueueProofs`: `CounterExact`, `BitsNeverStale`, `UpdatesAreKept` | `Occupancy`, `PresentIsQueued`, `NoLostUpdate` | graph, number and size of queues, reserve; with and without `ABORT`, `FIFO`, `ENTRY_ABORT` | none |
| `TaskQueueProofs`: `OneEntryPerVertex` | `SingleInstance` | the same | `ABORT`, the scan that makes it true |
| `TaskQueueProofs`: `ImplementsService` | safety of `EdgeService` | the same | none |
| `DistributionProofs`: `BitsAreOwn` | `BitsOfOwnQueue` | number of cores, group and queue sizes, reserve | none |
| `DistributionProofs`: `NoImprovementIsLost` | `NoValueLost` | the same | builds of min have `WORK_STEALING` or not `ENTRY_ABORT` |
| `DistributionProofs`: `ResidualIsConserved` | `ResidualConserved` | the same | builds of PageRank do not have `ENTRY_ABORT` |
| `CompletionBufferProofs`: `RingIsExact`, `WaitingIsExact` | `RingExact`, `WaitingExact` | number of cores, edges and lines, ring and queue sizes | no build has both the synchronous model and `EDGE_CACHE` |
| `CompletionBufferProofs`: `EdgesStayOrdered`, `ImplementsOrderedReads` | `Ordered`, safety of `OrderedReads` | the same | and in the synchronous model the constructor leaves no stray tuple |
| `AsyncEngineProofs`: `NoRelaxationIsLost`, `PacketsAgree`, `EndsWithNothingLeft` | `RelaxationCovered`, `OneValuePerSource`, `NothingLeft` | graph, placement, number of cores, ring size, widths of the stages | none |
| `AsyncEngineProofs`: `ImplementsRelaxation` | safety of `Relaxation` | the same | none |
| `SliceSchedulerProofs`: `NoRelaxationIsLost`, `AnswerIsCorrect`, `ImplementsRelaxation` | `NoRelaxationLost`, `CorrectAnswer`, safety of `Relaxation` | graph, cut into slices, placement, number of cores, queue size, `SLICE_ITER` | no synchronous build |
| `SliceSchedulerProofs`: `WorklistsAreOnce`, `QueuesAreOfSlice` | `WorklistOnce`, `QueuesOfSlice` | the same | no build with `ABCD` |
| `NetworkProofs`: `StaysInBounds` | `InBounds` | size of the mesh, lists of destinations, reads, bandwidths, number of labels, depth of the memory controllers' buffers, latency of the crossbar | `JunkIsBuffer`: the words of `_map_dest_buf` that nothing sets hold one of the four buffers |
| `NetworkProofs`: `DeliversOnce` | `DeliverySpec` | the same | the same |
| `CacheProofs`: `LruStackIsExact`, `FreeWaysAreFirst` | `LruIsExact`, `FreeWaysFirst` | associativity, uninitialised `evict_state` | none |
| `CacheProofs`: `PendingWaysAreSafe`, `LatestUseIsSafe` | `PendingIsSafe`, `LatestIsSafe` | policy, and each associativity it is built for | none |

The type invariants are proved too, as a theorem of their own (`TypeCorrect`) or
as a part of the inductive invariant (`NetworkProofs`, `CacheProofs`); most are
checked by no run, since the theorem covers every instance.

None of the hypotheses is an artefact of the proof. `DI_residual` violates
`ResidualConserved` in a build with `ENTRY_ABORT`, `SL_sync` violates
`CorrectAnswer` in a synchronous one, `SyncCached` and `SyncUninitialised`
violate `WaitingExact` and `Ordered`, `GradientBuilds` violates `WorklistOnce`
by a failed assertion that stops the program with its queues loaded, a
central queue with `ENTRY_ABORT` drops every task, and a `junk` above 3 sends a
packet out of the buffers (see the disagreements above).

### The arguments

*TaskQueue.* `Occupancy` is not inductive alone: a pull step inserts into a
queue, and only `LoopsCanPull` (while a loop runs, the overflow queue is not
empty and the queue it fills has room above the reserve) says what it finds.
`NoLostUpdate` is not inductive alone either: an insertion may be dropped by a
presence bit, and only `PresentIsQueued` says that another task of the vertex
is queued; and dispatch settles an edge only if nothing was ever sent that is
better than the vertex, which is `SentBound`. `BitsUnused` says that without
`ENTRY_ABORT` no bit is set. The lemmas about the helpers say what Enqueue and
InsertLocalTask do to the set of waiting vertices (nothing leaves, and the
inserted vertex is waiting afterwards), how many entries InsertSorted adds, and
what a queue keeps when its head is taken. With `ABORT` an insertion first takes
the older task of the vertex out of whatever queue holds it: `SingleInstance`
belongs to the invariant, since the scan deletes at most one task, and the
counter and the bit of the right queue are given back because there is only one
to find. A pull inserts with the same scan, so that the room it was promised
(`LoopsCanPull`) can only have grown. The refinement follows from
`NoLostUpdate`'s ingredients: a step of Update makes all edges of one vertex
owe, dispatch removes a set of owed edges, every other step leaves `owed` alone.

*Distribution.* The same parts, per core (`RoomExact`, `PullGoesOn`,
`BitsUnused`), and `BitsOfOwnQueue` because insert_local_task drops by the bit
of the core that inserts: a steal or a hand-out that left a bit behind with
another core would lose the next task. `NoValueLost` needs `KeepsTasks`, since
insert_global_task tests the bit that the reduction has just set.
`ResidualConserved` is a sum over queues of tasks. `Total` is a recursive
function, so the proof first shows that it has the partial sums
(`RecursionExists` of `Numbers`), then that a sum of an appended, a removed or a
moved task changes by that task, and then that each action takes from one of
the three places what it adds to another.

*CompletionBuffer.* The entries in use are the `Used(c)` slots from the pop
pointer on; `EntryExact` says of each slot whether it is in use, for how many
outstanding requests it waits (the cardinality of a set of requests, one per
line and entry) and when it is valid. Allocation, an answer and a pop change one
slot each, and `RingStep`, `RingCovered` and `RingPosition` say where the wrap
puts it. For the order, `Pipeline(c)` is the concatenation of the two queues
and the tuples that the entries in use hold or are going to hold. That a
request still out already determines the tuple of its entry is
`OneEdgePerEntry`; that an entry allocated for a source vertex brings none is
`FreeDummies`. So allocation appends to that sequence or leaves it, answers leave
it, and only the core takes its head: the same step in `OrderedReads`.

*AsyncEngine.* `RelaxationCovered` needs that values on their way come from an
edge whose source is at least as good by now (`Justified`), that a pending task
has edges left (`PendingUnfinished`), and that a packet of reduce gives each of
its destinations the value it asked for (`OneValuePerSource`, from `Sizes`: the
network takes everything reduce has). The lemmas `CoreCycleMoves`, `IssueMoves`
and `ServeMoves` say that a stage only moves an edge or a value on. The
hard part is the end: pipeline_inactive does not look at the pending task, and
`QuietAtEnd` holds only because of `PendingActive`. Whoever has a pending task
has dispatched, so that an edge is in some core's ring or load path; it moves one
stage per cycle, and a core that is asked again dispatches again before the edge
is past the last stage that pipeline_inactive looks at. Without `FIFO` the cores
dispatch in every second cycle only, and the edges are one stage further.

*SliceScheduler.* `NoRelaxationLost` is inductive with: a worklist holds its
slice's tasks only and the machine those of the current slice (`ListsOfSlice`,
`TasksOfSlice`); a set bit, of either kind, has its task behind it
(`DuplicateIsListed`, `PresentIsQueued`), so that what is dropped is there; the
machine is empty between runs (`Idle`); `scratch` is never worse than
`vertexData` (`ValuesImprove`); and in blocked execution a round
ends with the two equal (`RoundSettled`). reset_task_queues is handled for its
walk with the skipping iterator as it is: every task of the queue is either
among the erased or among those left, whatever the walk skips. `EndsIdle` then
makes the answer correct, and with `UpdatesJustified` each step is one of
`Relaxation`. For `WorklistOnce` the invariant is joined by `Turns`: in
asynchronous execution the only task without a bit is slice_init's source, which
no edge improves (`OnlySourceUnmarked`); the synchronous driver empties a list
before it fills it (`ListTaken`), the blocked one serves the slices in order
(`InOrder`). The length in the assertion follows by the pigeonhole principle.

*Network.* The index arithmetic of internal_routing is within its arrays because
of where a packet has been: one that has crossed a horizontal link eastwards has
every destination further east (`East`), so that no router sends it back over a
link that `_map_dest_buf` and the link's number do not fit. This needs the routing
table only row by row and column by column, not its entries, and so holds for
every mesh. That a message is handed on once is an argument about places: the
buffers are one family (`Contents`), no packet names a message twice and no two
packets share one (`Separate`), nor do the crossbar and the history (`Settled`,
`Elsewhere`), and a message that is about to be sent is nowhere yet
(`WereSent`). Taking a packet, appending one, and splitting a multicast packet by
output are a lemma each about such a family; a step is then a composition of
them. In the refinement `Travelling` is the set of messages in buffers or on the
crossbar, and each step of the network hands some of them on or adds some.

*Cache.* The LRU stack positions are a permutation of the ways (`Permutation`)
and agree with the order of last uses (`StackIsOrder`); using a way moves the
ways above it down by one, which keeps both. With MRU and RRIP a bit or an age
tells used from free ways until the set is full (`BitsAreUses`, `NothingAged`).
`SparingInv` is the invariant about trees. With pending ways the masks say which
bits are forced, and what matters is not which history of requests and ends
produced them but `Steered`: where one side of a bit is pending altogether and the
other is not, the bit is forced to the other. UpdatepLRUMasks and ClearpLRUMasks
are followed bit by bit: the bits on the path to the way are set from the ways
below them, the others are kept, and only the path's sides have changed. Without
pending ways the tree leads to another way than the one used last
(`TreesSpare`), because using a way turns a bit on its path away from it, whatever
the other bits are; in sets of 10, 12 and 14 ways the walk cannot reach a way
that does not exist, since the bits that would lead there stay 0 (`Masked`).
MRU always has a way whose bit is 0, and it is not the last used (`BitsSpare`).

*Induction over data.* The induction theorems of the library take an operator and
cannot be instantiated here. `Numbers` proves, from the least element of a set of
naturals (`WFMin`), forms that take a set or a function instead
(`SetInduction`, `RangeInduction`, `RecursionExists`, `PigeonHole`). The models
are written so that those suffice: loops as recursive functions of a counter.

### Only model-checked

- Liveness, of every module: outside the prover's reach. So the refinements of
  `EdgeService`, `OrderedReads` and `Relaxation` are proved for safety and checked
  by TLC with liveness; `Delivery` has no liveness of its own, `Prompt` is checked
  in its place.
- `Network`'s `Prompt`, which bounds the cycles a message takes: it would need a
  measure of the way that is left through every detour, and of who may hold a
  packet up by its label.
- `Dram`: the argument is about sums of timing parameters along a schedule.
- `Preparation`: recursion (depth-first search, heap, Hilbert curve) throughout.

## What is not modelled

Vector algorithms (gcn, cf), tree search and the multiplication core; the
coalescing buffer and the working-set caches; pull mode; reuse of slices and
switching between algorithms at run time; the synchronous and the speculative
pipelines; statistics and printing. Of the modelled parts:

- network: `PATH_MULTICAST`, `WORST_NET`, `HATS`, dummy packets;
- distribution: central_task_schedule (`FIFO=0` outside sgu),
  arbit_aggregation_buffer, and what is never called (task_queue_stealing,
  distribute_one_task_per_core, distribute2);
- cache: the contestants' policies, whose state nothing initialises, and what
  the program never calls (EvictLine, InvalidateAddr, CountPartialMatches,
  UpdateVictimReplacementState); stores;
- DRAM: configuration files, several channels (they are independent), posted
  commands (`AL` is 0), the ratio of the two clocks;
- preparation: file formats, pull mode, `RANDOM_SPATIAL`, `DFSMAP`, `BFS_MAP`,
  in-degrees of gcn;
- everywhere else: placement (a constant mapping), the order in which memory
  answers (any), delays (free choices).

## Plan

In this order; each module is composed from the interfaces of the earlier ones.

1. `SyncEngine` (graphmat::cycle, serve_atomic_requests,
   task_recreation_during_sync, slices with reuse, remote scratchpad reads):
   values of one iteration come from the iteration before; refinement of an
   abstract synchronous relaxation.
2. `CoalescingBuffer`, with the working-set caches it belongs to.
3. `CoarseTasks` (coarse queues and the multiplication core).
4. The speculative pipelines.

Proofs worth having next: `Dram`'s `Conserved`, and `DataBusFree` for every
timing that meets `BuildsAssumption`; `Preparation`'s `SameGraph` for the steps
that only renumber; `Network`'s `Prompt`.
