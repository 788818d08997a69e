------------------------------ MODULE TaskQueue ------------------------------
(***************************************************************************)
(* The task queue of one core: task_controller (asic.cpp) together with    *)
(* the parts of asic_core that feed it and empty it.                       *)
(*                                                                         *)
(* An improved vertex value (spec_serve_atomic_requests) creates a task in *)
(* the aggregation buffer; the buffer drains into a bounded hardware queue *)
(* sorted by priority; what does not fit spills into an unbounded overflow *)
(* FIFO; dispatch takes the front task and issues one memory request per   *)
(* edge, keeping a partially issued task in the pending slot of its queue. *)
(* A presence bit per vertex (ENTRY_ABORT) drops a task whose vertex is    *)
(* queued already.                                                         *)
(*                                                                         *)
(* Modelled build: asynchronous, push mode, work stealing, PRAC=1, scalar  *)
(* algorithm with min as the reduction (bfs, sssp).  The loops of          *)
(* pull_tasks_from_fifo_to_tq and fill_task_queue are one step per         *)
(* iteration; ctl keeps every other action out until the loop ends.        *)
(***************************************************************************)
EXTENDS Integers, Sequences, FiniteSets, Selection

CONSTANTS
  Vertices,           \* the vertices mapped to this core
  Degree,             \* Degree[v]: number of outgoing edges of v
  MaxDist,            \* MAX_TIMESTAMP: the value of an unreached vertex
  NUM_TQ_PER_CORE,    \* hardware queues of the core
  TASK_QUEUE_SIZE,    \* entries of a hardware queue
  HIGH_PRIO_RESERVE,  \* entries kept for high priority tasks
  FIFO,               \* FIFO=1: every priority is 0
  ABORT,              \* FIFO=0, ABORT=1: a better task replaces a queued one
  ENTRY_ABORT,        \* ENTRY_ABORT=1: presence bits
  NoTask              \* an empty pending slot (vid = -1)

TQ == 0 .. NUM_TQ_PER_CORE - 1
Dist == 0 .. MaxDist
EdgeSet == UNION {{v} \X (1 .. Degree[v]) : v \in Vertices}
Task == [vid : Vertices, dist : Dist, off : Nat]    \* off: edges already issued
Fresh == [vid : Vertices, dist : Dist, off : {0}]
Entry == [prio : Dist, task : Fresh]

ASSUME SizesAssumption ==
  /\ NUM_TQ_PER_CORE \in Nat \ {0}
  /\ TASK_QUEUE_SIZE \in Nat
  /\ HIGH_PRIO_RESERVE \in Nat
  /\ HIGH_PRIO_RESERVE < TASK_QUEUE_SIZE
  /\ MaxDist \in Nat
ASSUME DegreeAssumption == Degree \in [Vertices -> Nat]
ASSUME FlagsAssumption ==
  /\ FIFO \in BOOLEAN
  /\ ABORT \in BOOLEAN
  /\ ENTRY_ABORT \in BOOLEAN
  /\ ABORT => ~FIFO
ASSUME NoTaskAssumption == NoTask \notin Task

VARIABLES
  scratch,       \* _scratch: current value of each vertex
  agg,           \* _aggregation_buffer[tqid]
  aggPushIndex,  \* _agg_push_index
  tq,            \* _task_queue[tqid][0], the map flattened in priority order
  remaining,     \* _remaining_task_entries[core][tqid]
  fifo,          \* _fifo_task_queue
  present,       \* _present_in_local_queue[core]
  pending,       \* _pending_task[tqid]
  ctl,           \* which loop is running, and on which queue
  sent           \* history: sent[v, e] is the value last issued on edge e of v

queueVars == <<tq, remaining, fifo, present>>
vars == <<scratch, agg, aggPushIndex, tq, remaining, fifo, present, pending,
          ctl, sent>>

Idle == [op |-> "idle", tqid |-> 0]
Pulling(t) == [op |-> "pull", tqid |-> t]
Filling == [op |-> "fill", tqid |-> 0]

Init ==
  /\ scratch = [v \in Vertices |-> MaxDist]
  /\ agg = [t \in TQ |-> <<>>]
  /\ aggPushIndex = 0
  /\ tq = [t \in TQ |-> <<>>]
  /\ remaining = [t \in TQ |-> TASK_QUEUE_SIZE]
  /\ fifo = <<>>
  /\ present = [v \in Vertices |-> FALSE]
  /\ pending = [t \in TQ |-> NoTask]
  /\ ctl = Idle
  /\ sent = [x \in EdgeSet |-> MaxDist]

-----------------------------------------------------------------------------
(* insert_local_task                                                        *)

\* map<DTYPE, list<task_entry>>: behind every entry of the same or a smaller key
Place(q, p) == Cardinality({i \in DOMAIN q : q[i].prio <= p})
InsertSorted(q, entry) ==
  SubSeq(q, 1, Place(q, entry.prio)) \o <<entry>>
    \o SubSeq(q, Place(q, entry.prio) + 1, Len(q))

\* The vertices with a task in a sorted queue, and in the overflow FIFO.
Vids(q) == {q[i].task.vid : i \in DOMAIN q}
FifoVids(f) == {f[i].vid : i \in DOMAIN f}

\* With FIFO the priority of every task (none is inserted with -1) becomes 0.
Priority(p) == IF FIFO THEN 0 ELSE p

\* mutant: an older task of the vertex is not erased
WithoutNone(q, v) == q

Without(q, v) == Selected(q, {i \in DOMAIN q : q[i].task.vid # v})
Dominated(task) ==
  \E t \in TQ : \E i \in DOMAIN tq[t] :
    tq[t][i].task.vid = task.vid /\ tq[t][i].task.dist <= task.dist

\* No slot for the task: the queue is full, or inside the reserve while the
\* front is at least as urgent -- but the last slot is always handed out.
Spills(q, room, p) ==
  \/ room = 0
  \/ /\ room < HIGH_PRIO_RESERVE
     /\ q[1].prio <= p
     /\ room # 1

\* mutant: the free-entry counter is not decremented
EnqueueUncounted(t, p, task, q, room, ovf) ==
  /\ remaining' = room
  /\ IF Spills(q[t], room[t], p)
     THEN fifo' = Append(ovf, task) /\ tq' = q
     ELSE /\ tq' = [q EXCEPT ![t] = InsertSorted(@, [prio |-> p, task |-> task])]
          /\ fifo' = ovf

\* mutant: a task that does not fit is dropped
EnqueueOrDrop(t, p, task, q, room, ovf) ==
  /\ fifo' = ovf
  /\ IF Spills(q[t], room[t], p)
     THEN tq' = q /\ remaining' = room
     ELSE /\ tq' = [q EXCEPT ![t] = InsertSorted(@, [prio |-> p, task |-> task])]
          /\ remaining' = [room EXCEPT ![t] = @ - 1]

\* The end of insert_local_task, on the queues q, their free entries room and
\* the overflow queue ovf: the entry goes to queue t or to the overflow queue.
Enqueue(t, p, task, q, room, ovf) ==
  IF Spills(q[t], room[t], p)
  THEN /\ fifo' = Append(ovf, task)
       /\ tq' = q
       /\ remaining' = room
  ELSE /\ tq' = [q EXCEPT ![t] = InsertSorted(@, [prio |-> p, task |-> task])]
       /\ remaining' = [room EXCEPT ![t] = @ - 1]
       /\ fifo' = ovf

\* bits are the presence bits and ovf the overflow queue at the call (the
\* callers pop and reset first).
InsertPlain(t, p, task, bits, ovf) ==
  IF ENTRY_ABORT /\ bits[task.vid]
  THEN present' = bits /\ fifo' = ovf /\ UNCHANGED <<tq, remaining>>
  ELSE /\ present' = IF ENTRY_ABORT THEN [bits EXCEPT ![task.vid] = TRUE] ELSE bits
       /\ Enqueue(t, p, task, tq, remaining, ovf)

\* Under ABORT, the bit of a vertex that is queued in the overflow FIFO only.
DroppedByBit(v, bits) ==
  /\ ENTRY_ABORT
  /\ bits[v]
  /\ \A t \in TQ : v \notin Vids(tq[t])

\* mutant: the entry of the erased task is not given back
InsertAbortUncounted(t, p, task, bits, ovf) ==
  LET v == task.vid
      kept == [u \in TQ |-> Without(tq[u], v)]
  IN IF Dominated(task) \/ DroppedByBit(v, bits)
     THEN present' = bits /\ fifo' = ovf /\ UNCHANGED <<tq, remaining>>
     ELSE /\ present' = [bits EXCEPT ![v] = ENTRY_ABORT]
          /\ Enqueue(t, p, task, kept, remaining, ovf)

\* The scan that ABORT adds in front: an older task of the vertex with a worse
\* distance is erased (and its bit reset), one that is as good makes the new
\* task useless.
InsertAbort(t, p, task, bits, ovf) ==
  LET v == task.vid
      kept == [u \in TQ |-> Without(tq[u], v)]
      room == [u \in TQ |-> remaining[u] + Len(tq[u]) - Len(kept[u])]
  IN IF Dominated(task) \/ DroppedByBit(v, bits)
     THEN present' = bits /\ fifo' = ovf /\ UNCHANGED <<tq, remaining>>
     ELSE /\ present' = [bits EXCEPT ![v] = ENTRY_ABORT]
          /\ Enqueue(t, p, task, kept, room, ovf)

InsertLocalTask(t, p, task, bits, ovf) ==
  IF ABORT THEN InsertAbort(t, Priority(p), task, bits, ovf)
           ELSE InsertPlain(t, Priority(p), task, bits, ovf)

-----------------------------------------------------------------------------
(* Actions                                                                  *)

\* mutant: the overflow queue is pulled into a full queue
CanPullWhenFull(t) == fifo # <<>>

\* pull_tasks_from_fifo_to_tq and fill_task_queue go on while this holds.
CanPull(t) == fifo # <<>> /\ remaining[t] > HIGH_PRIO_RESERVE

\* spec_serve_atomic_requests on an update that improves v (should_spawn_task,
\* reduce), create_async_task and push_live_task.
Update(v, d) ==
  /\ ctl = Idle
  /\ d < scratch[v]
  /\ scratch' = [scratch EXCEPT ![v] = d]
  /\ agg' = [agg EXCEPT ![aggPushIndex] =
               Append(@, [prio |-> d, task |-> [vid |-> v, dist |-> d, off |-> 0]])]
  /\ aggPushIndex' = (aggPushIndex + 1) % NUM_TQ_PER_CORE
  /\ UNCHANGED <<queueVars, pending, ctl, sent>>

\* drain_aggregation_buffer.  Under ABORT a task dropped by its presence bit
\* makes insert_local_task pull from the overflow queue before it returns.
Drain(t) ==
  /\ ctl = Idle
  /\ agg[t] # <<>>
  /\ LET task == Head(agg[t]).task
     IN /\ InsertLocalTask(t, Head(agg[t]).prio, task, present, fifo)
        /\ ctl' = IF /\ ABORT
                     /\ ~Dominated(task)
                     /\ DroppedByBit(task.vid, present)
                     /\ CanPull(t)
                  THEN Pulling(t) ELSE Idle
  /\ agg' = [agg EXCEPT ![t] = Tail(@)]
  /\ UNCHANGED <<scratch, aggPushIndex, pending, sent>>

\* One iteration of pull_tasks_from_fifo_to_tq: the front task gets the
\* current value of its vertex.
Pull(t) ==
  /\ ctl = Pulling(t)
  /\ LET v == Head(fifo).vid
     IN InsertLocalTask(t, scratch[v], [Head(fifo) EXCEPT !.dist = scratch[v]],
                        [present EXCEPT ![v] = FALSE], Tail(fifo))
  /\ ctl' = IF CanPull(t)' THEN ctl ELSE Idle
  /\ UNCHANGED <<scratch, agg, aggPushIndex, pending, sent>>

\* One iteration of fill_task_queue, which every cycle starts with: it looks
\* at the room of queue 0 but inserts into the queue that is next in turn.
FillTaskQueue ==
  /\ ctl \in {Idle, Filling}
  /\ CanPull(0)
  /\ LET v == Head(fifo).vid
     IN InsertLocalTask(aggPushIndex, scratch[v], Head(fifo),
                        [present EXCEPT ![v] = FALSE], Tail(fifo))
  /\ aggPushIndex' = (aggPushIndex + 1) % NUM_TQ_PER_CORE
  /\ ctl' = IF CanPull(0)' THEN Filling ELSE Idle
  /\ UNCHANGED <<scratch, agg, pending, sent>>

\* The number of edges one dispatch issues: at least one (schedule_tasks and
\* dispatch test for free completion buffer entries), none of a sink vertex.
Burst(task) ==
  IF task.off = Degree[task.vid] THEN {0} ELSE 1 .. Degree[task.vid] - task.off

\* mutant: the edges carry the value of the moment of insertion
IssueStale(task, n) ==
  /\ sent' = [x \in EdgeSet |->
                IF x[1] = task.vid /\ x[2] \in task.off + 1 .. task.off + n
                THEN task.dist ELSE sent[x]]
  /\ present' = [present EXCEPT ![task.vid] = IF ENTRY_ABORT THEN FALSE ELSE @]

\* mutant: the presence bit survives the dispatch
IssueKeepsBit(task, n) ==
  /\ sent' = [x \in EdgeSet |->
                IF x[1] = task.vid /\ x[2] \in task.off + 1 .. task.off + n
                THEN scratch[x[1]] ELSE sent[x]]
  /\ UNCHANGED present

\* Issuing the next n edges: set_dist_at_dequeue reads the vertex value again
\* for every edge.
Issue(task, n) ==
  /\ sent' = [x \in EdgeSet |->
                IF x[1] = task.vid /\ x[2] \in task.off + 1 .. task.off + n
                THEN scratch[x[1]] ELSE sent[x]]
  /\ present' = [present EXCEPT ![task.vid] = IF ENTRY_ABORT THEN FALSE ELSE @]

\* mutant: a partially issued task is finished
RestDropped(task, n) == NoTask

\* What is left of the task goes to the pending slot.
Rest(task, n) ==
  IF task.off + n = Degree[task.vid] THEN NoTask ELSE [task EXCEPT !.off = @ + n]

\* dispatch, continuing the pending task.
DispatchPending(t) ==
  /\ ctl = Idle
  /\ pending[t] # NoTask
  /\ \E n \in Burst(pending[t]) :
       /\ Issue(pending[t], n)
       /\ pending' = [pending EXCEPT ![t] = Rest(@, n)]
  /\ UNCHANGED <<scratch, agg, aggPushIndex, tq, remaining, fifo, ctl>>

\* dispatch, starting the front task: it leaves the queue in either case, and
\* the freed entry may start a pull.  (The second test of dispatch, for a
\* freed entry inside the reserve, never lets the pull loop run.)
DispatchFront(t) ==
  /\ ctl = Idle
  /\ pending[t] = NoTask
  /\ tq[t] # <<>>
  /\ LET task == Head(tq[t]).task
     IN \E n \in Burst(task) :
          /\ Issue(task, n)
          /\ pending' = [pending EXCEPT ![t] = Rest(task, n)]
  /\ tq' = [tq EXCEPT ![t] = Tail(@)]
  /\ remaining' = [remaining EXCEPT ![t] = @ + 1]
  /\ ctl' = IF fifo # <<>> /\ remaining[t] + 1 > HIGH_PRIO_RESERVE
            THEN Pulling(t) ELSE Idle
  /\ UNCHANGED <<scratch, agg, aggPushIndex, fifo>>

Dispatch(t) == DispatchPending(t) \/ DispatchFront(t)

Next ==
  \/ \E v \in Vertices, d \in Dist : Update(v, d)
  \/ \E t \in TQ : Drain(t) \/ Pull(t) \/ Dispatch(t)
  \/ FillTaskQueue

\* sgu::cycle fills and drains every cycle and schedule_tasks dispatches from
\* every queue; updates are the environment's choice.
Fairness ==
  /\ \A t \in TQ : WF_vars(Drain(t)) /\ WF_vars(Pull(t)) /\ WF_vars(Dispatch(t))
  /\ WF_vars(FillTaskQueue)

Spec == Init /\ [][Next]_vars /\ Fairness

-----------------------------------------------------------------------------
(* Properties                                                               *)

\* Every variable has its type; a task that waits has issued no edge yet.
TypeOK ==
  /\ scratch \in [Vertices -> Dist]
  /\ agg \in [TQ -> Seq(Entry)]
  /\ aggPushIndex \in TQ
  /\ tq \in [TQ -> Seq(Entry)]
  /\ remaining \in [TQ -> Int]
  /\ fifo \in Seq(Fresh)
  /\ present \in [Vertices -> BOOLEAN]
  /\ pending \in [TQ -> Task \cup {NoTask}]
  /\ ctl \in {Idle, Filling} \cup {Pulling(t) : t \in TQ}
  /\ sent \in [EdgeSet -> Dist]

InAgg(v) == \E t \in TQ : v \in Vids(agg[t])
InTQ(v) == \E t \in TQ : v \in Vids(tq[t])
InFifo(v) == v \in FifoVids(fifo)
Waiting(v) == InAgg(v) \/ InTQ(v) \/ InFifo(v)

\* The free-entry counter is exact: it counts the entries the queue does not
\* hold, through insertions, erasures, partial dispatches and pulls; so it
\* never goes below zero and a queue never exceeds its size.
Occupancy ==
  \A t \in TQ : /\ remaining[t] + Len(tq[t]) = TASK_QUEUE_SIZE
                /\ remaining[t] >= 0

\* A presence bit is never stale: when it is set some queued task of the
\* vertex will read the vertex again, so dropping the new one loses nothing.
PresentIsQueued == \A v \in Vertices : present[v] => InTQ(v) \/ InFifo(v)

\* No update is lost: an edge whose last issued value is worse than the
\* vertex is still to be issued, by a waiting task or the pending one.
NoLostUpdate ==
  \A x \in EdgeSet :
    sent[x] > scratch[x[1]] =>
      \/ Waiting(x[1])
      \/ \E t \in TQ : /\ pending[t] # NoTask
                       /\ pending[t].vid = x[1]
                       /\ pending[t].off < x[2]

\* insert_local_task, asic.cpp:8209 "there cannot be multiple instances of
\* same vertex in task queue": the hardware queues of a core, together, hold
\* a vertex once when ABORT scans them.
SingleInstance ==
  \A t, u \in TQ : \A i \in DOMAIN tq[t], j \in DOMAIN tq[u] :
    tq[t][i].task.vid = tq[u][j].task.vid => t = u /\ i = j

\* Nothing is left to do.
Quiet ==
  /\ ctl = Idle
  /\ fifo = <<>>
  /\ \A t \in TQ : agg[t] = <<>> /\ tq[t] = <<>> /\ pending[t] = NoTask

\* The queues empty out, overflow FIFO and pending slots included, once the
\* vertices stop improving (they can improve MaxDist times each).
EventuallyQuiet == <>[]Quiet

\* The abstract service: an edge owes a value while the one last issued on it
\* is worse than its vertex.
Service == INSTANCE EdgeService WITH
  owed <- {x \in EdgeSet : sent[x] > scratch[x[1]]}

\* The queues implement the service: an update makes all edges of its vertex
\* owe, nothing but issuing them settles the debt, and each is settled.
EdgeServiceSpec == Service!Spec
=============================================================================
