---------------------------- MODULE AsyncEngine ----------------------------
(***************************************************************************)
(* The asynchronous machine: all cores of the mesh, one simulated cycle    *)
(* after the other (asic::simulate).  A cycle serves vertex updates at the *)
(* banks, runs the pipeline of every core (sgu::cycle), asks every core    *)
(* whether it is inactive, and dispatches tasks; the simulation ends after *)
(* a cycle in which everything was found inactive.                         *)
(*                                                                         *)
(* The queues of a core are abstracted to how many tasks of each vertex    *)
(* they hold (TaskQueue has their detail), and the memory system to a ring *)
(* of edges released in order (CompletionBuffer).  The network delivers    *)
(* updates in any order; two equal ones are one, the second changes        *)
(* nothing.  The stage queues are as long as AGG_FIFO_DEP_LEN lets them    *)
(* be, which is never a limit.  Modelled build: as in TaskQueue, with      *)
(* NUM_TQ_PER_CORE=1, ENTRY_ABORT=1, and one slice.                        *)
(***************************************************************************)
EXTENDS Integers, Sequences, FiniteSets

CONSTANTS
  NumCores,                \* core_cnt
  Vertices,
  Source,                  \* _src_vid
  MaxDist,                 \* MAX_TIMESTAMP
  PROCESS_THR,             \* edges a stage handles in a cycle
  COMPLETION_BUFFER_SIZE,
  MAX_ELEM_DISPATCH,       \* max_elem_dispatch: edges all cores dispatch in a cycle
  BUS_VEC_WIDTH,           \* _bus_vec_width: updates in one packet
  Builds,                  \* combinations of a graph and the options below
  NoTask

Cores == 0 .. NumCores - 1
Dist == 0 .. MaxDist
Task == Vertices \X Nat           \* the vertex and how many edges are issued

ASSUME SizesAssumption ==
  /\ NumCores \in Nat \ {0}
  /\ PROCESS_THR \in Nat \ {0}
  /\ MaxDist \in Nat
  /\ COMPLETION_BUFFER_SIZE \in Nat /\ COMPLETION_BUFFER_SIZE > 2
  /\ MAX_ELEM_DISPATCH \in Nat \ {0}
  /\ BUS_VEC_WIDTH \in Nat \ {0}
ASSUME GraphAssumption ==
  /\ Source \in Vertices
  /\ \A b \in Builds :
       /\ b.owner \in [Vertices -> Cores]
       /\ \A v \in Vertices : b.out[v] \in Seq([dst : Vertices, wgt : Nat])
       /\ b.fifo \in BOOLEAN /\ b.multicast \in BOOLEAN
       /\ b.multicast => \A v \in Vertices : \A i \in DOMAIN b.out[v] : b.out[v][i].wgt = 1
ASSUME NoTaskAssumption == NoTask \notin Task

VARIABLES
  build,            \* the graph, its placement and the options, which never change
  scratch,          \* _scratch
  tasks,            \* tasks[c][v]: tasks of v in the queues of core c
  pending,          \* _pending_task[0] of each core
  ring,             \* completion buffer entries in use, from the pop pointer on
  cbLsq,            \* completion_buffer::_pref_lsq
  lsq,              \* _pref_lsq[0]
  prefetchProcess,  \* _prefetch_process[0]
  processReduce,    \* _process_reduce[0]
  updates,          \* <<vertex, value>> in the network and in the bank queues
  phase,            \* the part of simulate's loop body
  turn,             \* cores done in this phase
  dispPtr,          \* _which_disp_ptr
  elemDispatch,     \* _elem_dispatch
  oddCycle,         \* _cur_cycle % 2
  termFlag          \* term_flag

stageVars == <<ring, cbLsq, lsq, prefetchProcess, processReduce>>
loopVars == <<phase, turn, dispPtr, elemDispatch, oddCycle, termFlag>>
vars == <<build, scratch, tasks, pending, stageVars, updates, loopVars>>

\* Out[v]: the outgoing edges, a sequence of [dst, wgt].  Owner:
\* get_local_scratch_id.  FIFO=0: a core dispatches every other cycle.
\* real_multicast: updates of one source share packets (process asserts that the
\* algorithm is not sssp then, and the other ones load every weight as 1).
Out == build.out
Owner == build.owner
FIFO == build.fifo
MULTICAST == build.multicast

Edges == UNION {{v} \X (1 .. Len(Out[v])) : v \in Vertices}

\* The source's task is inserted at core 0, whichever core owns the source.
Init ==
  /\ build \in Builds
  /\ scratch = [v \in Vertices |-> IF v = Source THEN 0 ELSE MaxDist]
  /\ tasks = [c \in Cores |-> [v \in Vertices |->
                IF c = 0 /\ v = Source THEN 1 ELSE 0]]
  /\ pending = [c \in Cores |-> NoTask]
  /\ ring = [c \in Cores |-> <<>>]
  /\ cbLsq = [c \in Cores |-> <<>>]
  /\ lsq = [c \in Cores |-> <<>>]
  /\ prefetchProcess = [c \in Cores |-> <<>>]
  /\ processReduce = [c \in Cores |-> <<>>]
  /\ updates = {}
  /\ phase = "serve"
  /\ turn = 0
  /\ dispPtr = 0
  /\ elemDispatch = 0
  /\ oddCycle = FALSE
  /\ termFlag = FALSE

Dst(x) == Out[x[1]][x[2]].dst
Wgt(x) == Out[x[1]][x[2]].wgt
Degree(v) == Len(Out[v])

-----------------------------------------------------------------------------
(* The phases of a cycle                                                    *)

\* spec_serve_atomic_requests, for an update that is at the front of its bank
\* in this cycle: one that improves its vertex creates a task, which its
\* presence bit may drop when one of the vertex is queued.
ShouldSpawn(old, new) == new < old
Serve(m) ==
  /\ phase = "serve"
  /\ m \in updates
  /\ updates' = updates \ {m}
  /\ IF ShouldSpawn(scratch[m[1]], m[2])
     THEN /\ scratch' = [scratch EXCEPT ![m[1]] = m[2]]
          /\ LET c == Owner[m[1]]
             IN \/ tasks' = [tasks EXCEPT ![c][m[1]] = @ + 1]
                \/ tasks[c][m[1]] > 0 /\ UNCHANGED tasks
     ELSE UNCHANGED <<build, scratch, tasks>>
  /\ UNCHANGED <<build, pending, stageVars, loopVars>>

EndServe ==
  /\ phase = "serve"
  /\ phase' = "core"
  /\ UNCHANGED <<build, scratch, tasks, pending, stageVars, updates, turn, dispPtr,
                 elemDispatch, oddCycle, termFlag>>

\* reduce packs the remote updates it pops in one cycle: an update joins the
\* open packet if its source or its value is the packet's, and there is room,
\* and arrives with the packet's value.  (The code tests for both to differ
\* before it starts a new packet.)  Packet(c, popped)[i]: the packet that is
\* open after i updates, as the update that started it and how many it carries.
Remote(c, r) == Owner[Dst(r.edge)] # c
Joins(open, first, r) ==
  /\ open.size \in 1 .. BUS_VEC_WIDTH - 1
  /\ r.edge[1] = first.edge[1] \/ r.val = first.val
Packed(c, popped, open, i) ==
  IF ~Remote(c, popped[i]) THEN open
  ELSE IF Joins(open, popped[open.first], popped[i]) THEN [open EXCEPT !.size = @ + 1]
  ELSE [first |-> i, size |-> 1]
Packet(c, popped) ==
  LET open[i \in 0 .. Len(popped)] ==
        IF i = 0 THEN [first |-> 0, size |-> 0] ELSE Packed(c, popped, open[i - 1], i)
  IN open
Carried(c, popped) ==
  LET carrier(i) == IF MULTICAST /\ Remote(c, popped[i])
                    THEN Packet(c, popped)[i].first ELSE i
  IN {<<Dst(popped[i].edge), popped[carrier(i)].val>> : i \in DOMAIN popped}

\* process reads the source's value again.
Processed(s) == [i \in DOMAIN s |->
  [edge |-> s[i], val |-> scratch[s[i][1]] + Wgt(s[i])]]

Upto(s) == IF Len(s) < PROCESS_THR THEN Len(s) ELSE PROCESS_THR
Rest(s, n) == SubSeq(s, n + 1, Len(s))

\* How many results reduce pops: what process pushes in a cycle, network::cycle
\* takes in the same cycle, so that there is always room (can_push_in_network).
ReducedFullBatch(c) == IF Len(processReduce[c]) < PROCESS_THR THEN 0 ELSE PROCESS_THR  \* mutant
Reduced(c) == Upto(processReduce[c])

\* sgu::cycle of the core whose turn it is: reduce, process, consume_lsq,
\* the transfer from the completion buffer's queue, and cb_to_lsq, which
\* releases the n entries that memory has answered.
CoreCycle(c, n) ==
  /\ phase = "core"
  /\ turn = c
  /\ n <= Len(ring[c])
  /\ LET reduced == Reduced(c)
         processed == Upto(prefetchProcess[c])
     IN /\ updates' = updates \cup Carried(c, SubSeq(processReduce[c], 1, reduced))
        /\ processReduce' = [processReduce EXCEPT ![c] =
             Rest(@, reduced) \o Processed(SubSeq(prefetchProcess[c], 1, processed))]
        /\ prefetchProcess' = [prefetchProcess EXCEPT ![c] = Rest(@, processed) \o lsq[c]]
        /\ lsq' = [lsq EXCEPT ![c] = cbLsq[c]]
        /\ cbLsq' = [cbLsq EXCEPT ![c] = SubSeq(ring[c], 1, n)]
        /\ ring' = [ring EXCEPT ![c] = Rest(@, n)]
  /\ turn' = turn + 1
  /\ UNCHANGED <<build, scratch, tasks, pending, phase, dispPtr, elemDispatch, oddCycle, termFlag>>

\* pipeline_inactive of a core; the pending task is not looked at.
PipelineInactiveRing(c) ==  \* mutant
  /\ \A v \in Vertices : tasks[c][v] = 0
  /\ ring[c] = <<>> /\ lsq[c] = <<>>
  /\ processReduce[c] = <<>>
PipelineInactive(c) ==
  /\ \A v \in Vertices : tasks[c][v] = 0
  /\ ring[c] = <<>> /\ cbLsq[c] = <<>> /\ lsq[c] = <<>>
  /\ prefetchProcess[c] = <<>> /\ processReduce[c] = <<>>

\* Every core and the network are asked before tasks are dispatched.
Check ==
  /\ phase = "core"
  /\ turn = NumCores
  /\ termFlag' = (updates = {} /\ \A c \in Cores : PipelineInactive(c))
  /\ phase' = "dispatch"
  /\ turn' = 0
  /\ UNCHANGED <<build, scratch, tasks, pending, stageVars, updates, dispPtr, elemDispatch, oddCycle>>

\* schedule_tasks goes round the cores until the edges of the cycle are used up.
CurCore == (dispPtr + turn) % NumCores
MaySchedule ==
  /\ phase = "dispatch"
  /\ turn < NumCores
  /\ elemDispatch < MAX_ELEM_DISPATCH

\* dispatch starts with more than two free entries and leaves one free.
Free(c) == COMPLETION_BUFFER_SIZE - Len(ring[c])
CanDispatchLater(c) == Free(c) > 3 /\ (FIFO \/ oddCycle)  \* mutant
CanDispatch(c) == Free(c) > 2 /\ (FIFO \/ oddCycle)
Burst(c, task) ==
  LET rest == Degree(task[1]) - task[2]
      room == IF Free(c) - 1 < PROCESS_THR THEN Free(c) - 1 ELSE PROCESS_THR
  IN IF rest < room THEN rest ELSE room

\* Issues the next edges of the task; what is left of it becomes pending.
LeftOverDropped(task, n) == NoTask  \* mutant
LeftOver(task, n) ==
  IF task[2] + n = Degree(task[1]) THEN NoTask ELSE <<task[1], task[2] + n>>
Issue(c, task) ==
  LET n == Burst(c, task)
  IN /\ ring' = [ring EXCEPT ![c] = @ \o [k \in 1 .. n |-> <<task[1], task[2] + k>>]]
     /\ pending' = [pending EXCEPT ![c] = LeftOver(task, n)]
     /\ elemDispatch' = elemDispatch + n
     /\ turn' = turn + 1
     /\ UNCHANGED <<build, scratch, cbLsq, lsq, prefetchProcess, processReduce, updates,
                    phase, dispPtr, oddCycle, termFlag>>

Continue ==
  /\ MaySchedule
  /\ CanDispatch(CurCore)
  /\ pending[CurCore] # NoTask
  /\ Issue(CurCore, pending[CurCore])
  /\ UNCHANGED tasks

Start(v) ==
  /\ MaySchedule
  /\ CanDispatch(CurCore)
  /\ pending[CurCore] = NoTask
  /\ tasks[CurCore][v] > 0
  /\ Issue(CurCore, <<v, 0>>)
  /\ tasks' = [tasks EXCEPT ![CurCore][v] = @ - 1]

\* Nothing to dispatch, no room, not this cycle, or every task still in the
\* aggregation buffer or the overflow queue.
Skip ==
  /\ MaySchedule
  /\ CanDispatch(CurCore) => pending[CurCore] = NoTask
  /\ turn' = turn + 1
  /\ UNCHANGED <<build, scratch, tasks, pending, stageVars, updates, phase, dispPtr,
                 elemDispatch, oddCycle, termFlag>>

\* The end of the loop body.
EndCycle ==
  /\ phase = "dispatch"
  /\ ~MaySchedule
  /\ phase' = IF termFlag THEN "done" ELSE "serve"
  /\ turn' = 0
  /\ dispPtr' = CurCore
  /\ elemDispatch' = 0
  /\ oddCycle' = ~oddCycle
  /\ UNCHANGED <<build, scratch, tasks, pending, stageVars, updates, termFlag>>

Next ==
  \/ \E m \in updates : Serve(m)
  \/ EndServe
  \/ \E c \in Cores : \E n \in 0 .. Len(ring[c]) : CoreCycle(c, n)
  \/ Check
  \/ Continue
  \/ \E v \in Vertices : Start(v)
  \/ Skip
  \/ EndCycle

\* simulate's loop goes on; while reads are outstanding, memory answers some;
\* while updates are under way, the banks serve some; the aggregation buffer is
\* drained, so that queued tasks reach the front.  (No read, update or task
\* needs more: their number is finite.)
Fairness ==
  /\ WF_vars(Next)
  /\ SF_vars(\E c \in Cores : \E n \in 1 .. Len(ring[c]) : CoreCycle(c, n))
  /\ SF_vars(\E m \in updates : Serve(m))
  /\ SF_vars(\E v \in Vertices : Start(v))

Spec == Init /\ [][Next]_vars /\ Fairness

-----------------------------------------------------------------------------
(* Properties                                                               *)

\* Edge x is on its way and will carry a value as good as the source's.
In(x, s) == \E i \in DOMAIN s : s[i] = x
Fresh(x) ==
  LET good(d) == d <= scratch[x[1]] + Wgt(x)
  IN \/ \E c \in Cores :
          \/ tasks[c][x[1]] > 0
          \/ pending[c] # NoTask /\ pending[c][1] = x[1] /\ pending[c][2] < x[2]
          \/ In(x, ring[c] \o cbLsq[c] \o lsq[c] \o prefetchProcess[c])
          \/ \E i \in DOMAIN processReduce[c] :
               processReduce[c][i].edge = x /\ good(processReduce[c][i].val)
     \/ \E m \in updates : m[1] = Dst(x) /\ good(m[2])

\* No relaxation is lost anywhere between a vertex and its neighbours: while
\* an edge could improve its destination, it is on its way through a queue, a
\* pipeline stage or the network with a value at least as good, whichever
\* value of the source its stages read and whichever packet it shared.
RelaxationCovered ==
  \A x \in Edges : scratch[Dst(x)] <= scratch[x[1]] + Wgt(x) \/ Fresh(x)

\* All results of one source that wait for reduce were computed from the same
\* value of it, because reduce empties its queue in every cycle: packing by
\* source alone would otherwise hand an old value to a new update.
OneValuePerSource ==
  \A c \in Cores : \A i, j \in DOMAIN processReduce[c] :
    processReduce[c][i].edge[1] = processReduce[c][j].edge[1] =>
      processReduce[c][i].val - Wgt(processReduce[c][i].edge)
        = processReduce[c][j].val - Wgt(processReduce[c][j].edge)

\* finish_simulation asserts pipeline_inactive once simulate's loop has ended,
\* that is after one more round of dispatch: no task, read or update is left,
\* although the check that ended the loop ignores pending tasks.
NothingLeft ==
  phase = "done" =>
    /\ updates = {}
    /\ \A c \in Cores : PipelineInactive(c) /\ pending[c] = NoTask

\* The graph as arcs, and the engine as a relaxation of them that stops only
\* at the fixpoint: the values it ends with are the shortest distances.  It does
\* stop: simulate asserts that it does not reach _max_iter.
Arcs == {<<x[1], Dst(x), Wgt(x)>> : x \in Edges}
Engine == INSTANCE Relaxation WITH arcs <- Arcs, value <- scratch, stopped <- phase = "done"
RelaxationSpec == Engine!Spec
=============================================================================
