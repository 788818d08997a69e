--------------------------- MODULE SliceScheduler ---------------------------
(***************************************************************************)
(* Sliced execution: the vertices are cut into slices, the machine works   *)
(* on the tasks of one slice at a time (asic::simulate), and tasks of the  *)
(* other slices wait in worklists.  Modelled are the drivers that          *)
(* asic::call_simulate chooses from, simulate_slice (asynchronous or       *)
(* synchronous) and simulate_blocked_async_slice, with the task_controller *)
(* operations that move tasks between worklists and task queues.           *)
(*                                                                         *)
(* One run of simulate is reduced to what crosses a slice switch: tasks    *)
(* waiting in the cores' queues, edges on their way to the point where the *)
(* value of their source is read, and updates on their way to the banks,   *)
(* in any order.  AsyncEngine has the pipeline in between and shows that   *)
(* the run ends only when nothing of that is left; TaskQueue has the       *)
(* detail of the queues.  Modelled build: push mode, scalar algorithm with *)
(* min as the reduction, FIFO=1, ENTRY_ABORT=1, NUM_TQ_PER_CORE=1,         *)
(* REUSE=1, no algorithm switching.                                        *)
(***************************************************************************)
EXTENDS Integers, Sequences, FiniteSets, Bags, BagsExt, Folds, SequencesExt

CONSTANTS
  NumVertices,         \* _graph_vertices
  NumCores,            \* core_cnt
  SLICE_COUNT,
  Out,                 \* Out[v]: the outgoing edges, a sequence of [dst, wgt]
  Owner,               \* get_local_scratch_id
  Source,              \* _src_vid
  MaxDist,             \* MAX_TIMESTAMP
  TASK_QUEUE_SIZE,
  HIGH_PRIO_RESERVE,
  SLICE_ITER,          \* edges per edge of a slice before it is switched
  Builds               \* the builds of the instance

Vertices == 0 .. NumVertices - 1
Cores == 0 .. NumCores - 1
Slices == 0 .. SLICE_COUNT - 1
Edges == UNION {{v} \X (1 .. Len(Out[v])) : v \in Vertices}
Dst(x) == Out[x[1]][x[2]].dst
Wgt(x) == Out[x[1]][x[2]].wgt

\* The execution model, and the Makefile's SLICE_HRST=1 (an asynchronous run
\* is cut short after a number of edges; with SLICE_HRST=0 a scalar algorithm
\* never is) and ABCD=1 (slices are chosen by gradient).
Build == [exec : {"async", "sync", "blocked"}, hrst : BOOLEAN, abcd : BOOLEAN]

ASSUME SizesAssumption ==
  /\ {NumVertices, NumCores, SLICE_COUNT} \subseteq Nat \ {0}
  /\ SLICE_COUNT <= NumVertices
  /\ HIGH_PRIO_RESERVE \in Nat
  /\ TASK_QUEUE_SIZE \in Nat
  /\ HIGH_PRIO_RESERVE < TASK_QUEUE_SIZE
  /\ SLICE_ITER \in Nat
ASSUME GraphAssumption ==
  /\ Source \in Vertices
  /\ Owner \in [Vertices -> Cores]
  /\ \A v \in Vertices : Out[v] \in Seq([dst : Vertices, wgt : Nat])
  /\ Out[Source] # <<>>
  /\ MaxDist \in Nat
ASSUME BuildsAssumption == Builds \subseteq Build

VARIABLES
  build,          \* fixed at compile time
  scratch,        \* _scratch
  vertexData,     \* _vertex_data
  worklist,       \* _worklists[slice]
  duplicate,      \* _check_worklist_duplicate[slice], the vertices set in it
  grad,           \* _grad[slice]
  slice,          \* slice_id, which is _current_slice during a run
  served,         \* served
  phase,          \* the part of the driver's loops
  finishing,      \* _async_finishing_phase
  finishedEdges,  \* _stat_tot_finished_edges, up to where it matters
  agg,            \* _aggregation_buffer of each core
  queues,         \* the task queues of all cores, see EmptyQueues
  edges,          \* a bag: edges dispatched and not processed
  updates         \* a bag: <<vertex, value>> in the network and at the banks

loopVars == <<grad, slice, served, phase>>
listVars == <<worklist, duplicate>>
engineVars == <<finishing, finishedEdges, agg, queues, edges, updates>>
vars == <<build, scratch, vertexData, listVars, loopVars, engineVars>>

CeilDiv(n, d) == (n + d - 1) \div d
SliceSize == CeilDiv(NumVertices, SLICE_COUNT)
SliceOf(v) == v \div SliceSize
Members(s) == {v \in Vertices : SliceOf(v) = s}

\* tq is the hardware queue, fifo the overflow queue, present the vertices
\* whose presence bit is set, each per core.
EmptyQueues ==
  [tq |-> [c \in Cores |-> <<>>], fifo |-> [c \in Cores |-> <<>>], present |-> {}]

\* slice_init pushes the source without setting its duplicate bit.
Init ==
  /\ build \in Builds
  /\ scratch = [v \in Vertices |-> IF v = Source THEN 0 ELSE MaxDist]
  /\ vertexData = scratch
  /\ worklist = [s \in Slices |-> IF s = SliceOf(Source) THEN <<Source>> ELSE <<>>]
  /\ duplicate = [s \in Slices |-> {}]
  /\ grad = [s \in Slices |-> 0]
  /\ slice = 0
  /\ served = 0
  /\ phase = "round"
  /\ finishing = FALSE
  /\ finishedEdges = 0
  /\ agg = [c \in Cores |-> <<>>]
  /\ queues = EmptyQueues
  /\ edges = EmptyBag
  /\ updates = EmptyBag

-----------------------------------------------------------------------------
(* Task queues and worklists                                                *)

\* With FIFO=1 the front of a queue is as urgent as any task.
Spills(room) == room = 0 \/ (room < HIGH_PRIO_RESERVE /\ room # 1)

\* insert_local_task: dropped by its presence bit, or queued, or spilled.
Insert(q, v) ==
  LET c == Owner[v]
      bits == q.present \cup {v}
  IN CASE v \in q.present -> q
       [] v \notin q.present /\ Spills(TASK_QUEUE_SIZE - Len(q.tq[c])) ->
            [tq |-> q.tq, fifo |-> [q.fifo EXCEPT ![c] = Append(@, v)], present |-> bits]
       [] OTHER ->
            [tq |-> [q.tq EXCEPT ![c] = Append(@, v)], fifo |-> q.fifo, present |-> bits]

InsertAll(q, tasks) ==
  LET after[n \in 0 .. Len(tasks)] == IF n = 0 THEN q ELSE Insert(after[n - 1], tasks[n])
  IN after[Len(tasks)]

\* push_task_into_worklist behind the test of the duplicate bit, as in
\* create_async_task and reset_task_queues.
PushAlways(w, v) == [w EXCEPT !.list[SliceOf(v)] = Append(@, v)]  \* mutant
PushUnlessDuplicate(w, v) ==
  LET s == SliceOf(v)
  IN IF v \in w.bits[s] THEN w
     ELSE [list |-> [w.list EXCEPT ![s] = Append(@, v)],
           bits |-> [w.bits EXCEPT ![s] = @ \cup {v}]]
PushAll(w, tasks) ==
  LET after[n \in 0 .. Len(tasks)] ==
        IF n = 0 THEN w ELSE PushUnlessDuplicate(after[n - 1], tasks[n])
  IN after[Len(tasks)]
Lists == [list |-> worklist, bits |-> duplicate]

\* The loop of reset_task_queues over the list of one priority erases an entry
\* and steps over the next.  When it erases the last entry of the list the
\* step wraps round to the first (the list of the C++ library is circular),
\* so that an odd length starts over with what was stepped over.  These are the
\* positions it erases, in that order, and those it leaves.
Sweep[n \in 0 .. TASK_QUEUE_SIZE] ==
  LET odd == [i \in 1 .. CeilDiv(n, 2) |-> 2 * i - 1]
      even == [i \in 1 .. n \div 2 |-> 2 * i]
      again == Sweep[n \div 2]
  IN IF n % 2 = 0 THEN [erased |-> odd, left |-> even]
     ELSE [erased |-> odd \o [i \in DOMAIN again.erased |-> even[again.erased[i]]],
           left |-> [i \in DOMAIN again.left |-> even[again.left[i]]]]
At(q, positions) == [i \in DOMAIN positions |-> q[positions[i]]]
ErasedFrom(q) == At(q, Sweep[Len(q)].erased)
LeftIn(q) == At(q, Sweep[Len(q)].left)

\* reset_task_queues: tasks of the hardware queues, then of the overflow
\* queues, go to the worklists; aggregation buffers are not looked at.
Joined(lists) ==
  LET join[n \in 0 .. NumCores] == IF n = 0 THEN <<>> ELSE join[n - 1] \o lists[n - 1]
  IN join[NumCores]
MovedButSpilled == Joined([c \in Cores |-> ErasedFrom(queues.tq[c])])  \* mutant
Moved == Joined([c \in Cores |-> ErasedFrom(queues.tq[c])]) \o Joined(queues.fifo)
ResetTaskQueues ==
  LET lists == PushAll(Lists, Moved)
  IN /\ worklist' = lists.list
     /\ duplicate' = lists.bits
     /\ queues' = [tq |-> [c \in Cores |-> LeftIn(queues.tq[c])],
                   fifo |-> [c \in Cores |-> <<>>],
                   present |-> queues.present \ ToSet(Moved)]
     /\ finishedEdges' = 0

-----------------------------------------------------------------------------
(* The driver's loops                                                       *)

\* worklists_empty; tot_pending_tasks counts the queues, too, which are empty
\* whenever no run is on (QueuesOfSlice).
NoWork == \A s \in Slices : worklist[s] = <<>>

\* chose_new_slice: round robin, or the first slice of the largest positive
\* gradient, and any slice if there is none.
NewSlices(old, g) ==
  IF ~build.abcd THEN {(old + 1) % SLICE_COUNT}
  ELSE LET best == {s \in Slices : g[s] > 0 /\ \A t \in Slices : g[t] <= g[s]}
       IN IF best = {} THEN Slices ELSE {s \in best : \A t \in best : s <= t}

StartRound ==
  /\ phase = "round"
  /\ ~NoWork
  /\ slice' \in NewSlices(-1, grad)
  /\ served' = 0
  /\ phase' = "slice"
  /\ UNCHANGED <<build, scratch, vertexData, listVars, grad, engineVars>>

\* simulate_slice ends by copying the values back.
End ==
  /\ phase = "round"
  /\ NoWork
  /\ phase' = "done"
  /\ vertexData' = IF build.exec = "blocked" THEN vertexData ELSE scratch
  /\ UNCHANGED <<build, scratch, listVars, grad, slice, served, engineVars>>

\* simulate_slice skips a slice when no slice has work,
\* simulate_blocked_async_slice when this one has none.
Skips == IF build.exec = "blocked" THEN worklist[slice] = <<>> ELSE NoWork
SkipSlice ==
  /\ phase = "slice"
  /\ served < SLICE_COUNT
  /\ Skips
  /\ served' = served + 1
  /\ slice' \in NewSlices(slice, grad)
  /\ UNCHANGED <<build, scratch, vertexData, listVars, grad, phase, engineVars>>

\* The assertion that simulate_slice makes before it loads a worklist.
WorklistTooLong == build.exec # "blocked" /\ Len(worklist[slice]) > SliceSize

\* move_tasks_from_wklist_to_tq; presence bits are cleared first by
\* simulate_slice.
LoadSlice ==
  /\ phase = "slice"
  /\ served < SLICE_COUNT
  /\ ~Skips
  /\ served' = served + 1
  /\ LET before == IF build.exec = "blocked" THEN queues
                   ELSE [queues EXCEPT !.present = {}]
     IN queues' = InsertAll(before, worklist[slice])
  /\ worklist' = [worklist EXCEPT ![slice] = <<>>]
  /\ duplicate' = [duplicate EXCEPT ![slice] = @ \ ToSet(worklist[slice])]
  /\ finishing' = FALSE
  /\ phase' = IF WorklistTooLong THEN "aborted" ELSE "run"
  /\ UNCHANGED <<build, scratch, vertexData, grad, slice, finishedEdges, agg, edges, updates>>

-----------------------------------------------------------------------------
(* A run of simulate                                                        *)

\* dispatch reads the edges of the front task and, with an entry free, pulls
\* from the overflow queue; insert_local_task takes what is pulled, as there
\* is more room than the reserve.
Dispatch(c) ==
  /\ phase = "run"
  /\ queues.tq[c] # <<>>
  /\ LET v == Head(queues.tq[c])
         room == TASK_QUEUE_SIZE - Len(queues.tq[c]) + 1 - HIGH_PRIO_RESERVE
         pulled == IF room < Len(queues.fifo[c]) THEN room ELSE Len(queues.fifo[c])
         n == IF pulled > 0 THEN pulled ELSE 0
     IN /\ queues' = [tq |-> [queues.tq EXCEPT ![c] = Tail(@) \o SubSeq(queues.fifo[c], 1, n)],
                      fifo |-> [queues.fifo EXCEPT ![c] = SubSeq(@, n + 1, Len(@))],
                      present |-> queues.present \ {v}]
        /\ edges' = edges (+) SetToBag({v} \X (1 .. Len(Out[v])))
  /\ UNCHANGED <<build, scratch, vertexData, listVars, loopVars, finishing,
                 finishedEdges, agg, updates>>

\* consume_lsq_responses reads the source's value, process adds the weight.
Process(x) ==
  /\ phase = "run"
  /\ BagIn(x, edges)
  /\ edges' = BagRemove(edges, x)
  /\ LET src == IF build.exec = "sync" THEN vertexData[x[1]] ELSE scratch[x[1]]
     IN updates' = BagAdd(updates, <<Dst(x), src + Wgt(x)>>)
  /\ UNCHANGED <<build, scratch, vertexData, listVars, loopVars, finishing,
                 finishedEdges, agg, queues>>

\* create_async_task: a task of another slice, or of any slice in the
\* finishing phase, waits in its worklist.
CreateAsyncTaskHere(v) ==  \* mutant
  /\ agg' = [agg EXCEPT ![Owner[v]] = Append(@, v)]
  /\ UNCHANGED listVars
CreateAsyncTask(v) ==
  IF SliceOf(v) # slice \/ finishing
  THEN /\ worklist' = PushUnlessDuplicate(Lists, v).list
       /\ duplicate' = PushUnlessDuplicate(Lists, v).bits
       /\ UNCHANGED agg
  ELSE /\ agg' = [agg EXCEPT ![Owner[v]] = Append(@, v)]
       /\ UNCHANGED listVars

\* The float comparison of check_async_slice_switch: SLICE_ITER times the
\* edges an average slice has, or a quarter of them if that is zero.
EdgesPerSlice == SliceSize * (Cardinality(Edges) \div NumVertices)
Passed(n) ==
  IF SLICE_ITER * EdgesPerSlice # 0 THEN n > SLICE_ITER * EdgesPerSlice
                                    ELSE 4 * n > EdgesPerSlice

\* spec_serve_atomic_requests, which creates a task for an improved vertex,
\* or serve_atomic_requests, which does not.  The count of edges is kept only
\* where it is compared (a bound of the model).
Serve(m) ==
  /\ phase = "run"
  /\ BagIn(m, updates)
  /\ updates' = BagRemove(updates, m)
  /\ finishedEdges' = IF build.hrst /\ ~Passed(finishedEdges) THEN finishedEdges + 1
                                                              ELSE finishedEdges
  /\ IF m[2] < scratch[m[1]]
     THEN /\ scratch' = [scratch EXCEPT ![m[1]] = m[2]]
          /\ IF build.exec = "async" THEN CreateAsyncTask(m[1])
                                     ELSE UNCHANGED <<listVars, agg>>
     ELSE UNCHANGED <<scratch, listVars, agg>>
  /\ UNCHANGED <<build, vertexData, loopVars, finishing, queues, edges>>

\* drain_aggregation_buffer.
Drain(c) ==
  /\ phase = "run"
  /\ agg[c] # <<>>
  /\ agg' = [agg EXCEPT ![c] = Tail(@)]
  /\ queues' = Insert(queues, Head(agg[c]))
  /\ UNCHANGED <<build, scratch, vertexData, listVars, loopVars, finishing,
                 finishedEdges, edges, updates>>

\* check_async_slice_switch, once per cycle: other steps of the cycle may come
\* between passing the threshold and this.
SwitchSlice ==
  /\ phase = "run"
  /\ build.exec = "async"
  /\ build.hrst
  /\ Passed(finishedEdges)
  /\ ~finishing
  /\ finishing' = TRUE
  /\ ResetTaskQueues
  /\ UNCHANGED <<build, scratch, vertexData, loopVars, agg, edges, updates>>

\* What term_flag of simulate stands for.
InactiveButServing ==  \* mutant
  /\ \A c \in Cores : agg[c] = <<>> /\ queues.tq[c] = <<>> /\ queues.fifo[c] = <<>>
  /\ edges = EmptyBag
Inactive ==
  /\ \A c \in Cores : agg[c] = <<>> /\ queues.tq[c] = <<>> /\ queues.fifo[c] = <<>>
  /\ edges = EmptyBag
  /\ updates = EmptyBag

\* a loop over all vertices that takes those of S
Taken(S, before, v) == IF v \in S THEN Append(before, v) ELSE before
Ascending(S) ==
  LET taken[n \in 0 .. NumVertices] ==
        IF n = 0 THEN <<>> ELSE Taken(S, taken[n - 1], n - 1)
  IN taken[NumVertices]
Diff(S) == FoldLeft(LAMBDA n, v : n + vertexData[v] - scratch[v], 0, Ascending(S))

\* After a run: task_recreation_during_sync of simulate_slice for the vertices
\* of this slice, and update_gradient_of_dependent_slices for the others.
\* Neither looks at the duplicate bits.
Improved(s) == {v \in Members(s) : scratch[v] # vertexData[v]}
Activated(s) ==
  IF s = slice THEN build.exec = "sync" ELSE build.abcd
Recreate ==
  LET active == {s \in Slices : Activated(s)}
      fresh == UNION {Improved(s) : s \in active}
  IN /\ worklist' = [s \in Slices |->
           IF s \in active THEN worklist[s] \o Ascending(Improved(s)) ELSE worklist[s]]
     /\ vertexData' = [v \in Vertices |-> IF v \in fresh THEN scratch[v] ELSE vertexData[v]]
     /\ grad' = [s \in Slices |->
           IF s \in active THEN Diff(Improved(s)) ELSE IF s = slice THEN 0 ELSE grad[s]]

\* simulate returns (an asynchronous one resets the queues, which are empty),
\* and the driver goes on to the next slice.
EndRun ==
  /\ phase = "run"
  /\ Inactive
  /\ phase' = "slice"
  /\ finishedEdges' = 0
  /\ IF build.exec = "blocked" THEN UNCHANGED <<worklist, vertexData, grad>> ELSE Recreate
  /\ slice' \in NewSlices(slice, grad')
  /\ UNCHANGED <<build, scratch, duplicate, served, finishing, agg, queues, edges, updates>>

\* A round is over.  simulate_blocked_async_slice activates all vertices that
\* the round has improved.  (Its choice of one more slice is overwritten.)
EndRound ==
  /\ phase = "slice"
  /\ served = SLICE_COUNT
  /\ phase' = "round"
  /\ IF build.exec = "blocked"
     THEN /\ worklist' = [s \in Slices |-> worklist[s] \o Ascending(Improved(s))]
          /\ vertexData' = scratch
     ELSE UNCHANGED <<worklist, vertexData>>
  /\ UNCHANGED <<build, scratch, duplicate, grad, slice, served, engineVars>>

Run ==
  \/ \E c \in Cores : Dispatch(c) \/ Drain(c)
  \/ \E x \in BagToSet(edges) : Process(x)
  \/ \E m \in BagToSet(updates) : Serve(m)
  \/ SwitchSlice
  \/ EndRun

Next ==
  \/ StartRound
  \/ End
  \/ SkipSlice
  \/ LoadSlice
  \/ Run
  \/ EndRound

\* One thread runs the loops, and each of them goes on.
Fairness == WF_vars(Next)

Spec == Init /\ [][Next]_vars /\ Fairness

-----------------------------------------------------------------------------
(* Properties                                                               *)

Queued(c) == ToSet(agg[c]) \cup ToSet(queues.tq[c]) \cup ToSet(queues.fifo[c])
InWorklist(v) == \E s \in Slices : v \in ToSet(worklist[s])

\* Edge x is going to bring its destination a value as good as its source's.
Coming(x) ==
  \/ InWorklist(x[1])
  \/ \E c \in Cores : x[1] \in Queued(c)
  \/ build.exec # "async" /\ phase # "done" /\ scratch[x[1]] # vertexData[x[1]]
  \/ BagIn(x, edges)
  \/ \E m \in BagToSet(updates) : m[1] = Dst(x) /\ m[2] <= scratch[x[1]] + Wgt(x)

\* No relaxation is lost over a slice switch: while an edge could improve its
\* destination, its source has a task in a worklist or a queue, or is to be
\* activated, or the edge is on its way, whatever was spilled, reset, dropped
\* as a duplicate or left in a queue before.
NoRelaxationLost ==
  \A x \in Edges : scratch[Dst(x)] <= scratch[x[1]] + Wgt(x) \/ Coming(x)

\* Only the slice that runs has tasks in the cores' queues, and between two
\* runs nobody has: what create_async_task, reset_task_queues and the draining
\* of the aggregation buffers leave behind is never another slice's.
QueuesOfSlice ==
  \A c \in Cores : \A v \in Queued(c) : phase = "run" /\ SliceOf(v) = slice

\* A worklist has its slice's vertices, each once.  In asynchronous execution
\* that is what the duplicate bits are for: a set bit is a vertex in the list,
\* and a vertex in the list has its bit set unless slice_init put it there.
\* With that the assertion of asic.cpp:6628 holds, that a worklist is not longer
\* than its slice has vertices.
WorklistOnce ==
  /\ phase # "aborted"
  /\ \A s \in Slices :
       /\ IsInjective(worklist[s])
       /\ ToSet(worklist[s]) \subseteq Members(s)
       /\ duplicate[s] \subseteq ToSet(worklist[s])
       /\ build.exec = "async" => ToSet(worklist[s]) \ duplicate[s] \subseteq {Source}

\* The graph as arcs, and sliced execution as a relaxation of them, that stops
\* only at the fixpoint, and does stop: the loops over rounds and slices end.
Arcs == {<<x[1], Dst(x), Wgt(x)>> : x \in Edges}
Machine == INSTANCE Relaxation WITH arcs <- Arcs, value <- scratch, stopped <- phase = "done"
RelaxationSpec == Machine!Spec

\* correctness_check of finish_simulation, which compares the values with the
\* shortest distances: no edge could still improve one.
CorrectAnswer ==
  phase = "done" => \A x \in Edges : scratch[Dst(x)] <= scratch[x[1]] + Wgt(x)
=============================================================================
