----------------------------- MODULE Distribution -----------------------------
(***************************************************************************)
(* How tasks get to the cores: task_controller (asic.cpp) with several     *)
(* cores, each with a hardware queue and an overflow queue.                *)
(*                                                                         *)
(* With WORK_STEALING=1 a task goes to the core that owns its vertex,      *)
(* directly (PRAC=0) or through the aggregation buffer (PRAC=1).  With     *)
(* WORK_STEALING=0 it goes into a central queue that distribute_prio       *)
(* (PRAC=0) or distribute_lb (PRAC=1) empties into the cores.  With        *)
(* DYN_LOAD_BAL=1 a core that has room takes tasks from the overflow       *)
(* queues of its group, so that one vertex may be queued at two cores,     *)
(* with a presence bit in each.                                            *)
(*                                                                         *)
(* Two kinds of vertex values: min (bfs, sssp), where a task stands for    *)
(* the value its vertex has when it is dispatched, and pr, where inserting *)
(* a task moves the vertex's residual into the task.  TaskQueue has the    *)
(* detail left out here: priorities, several queues per core, and issuing  *)
(* a task in parts.  Modelled build: asynchronous, push mode, FIFO=1,      *)
(* NUM_TQ_PER_CORE=1, vertices with outgoing edges.  The loops of          *)
(* pull_tasks_from_fifo_to_tq and distribute_* are one step per iteration; *)
(* ctl keeps everything else out until they end.  fill_task_queue is left  *)
(* out: with one queue per core the pulls that follow a dispatch, a stolen *)
(* task and a dropped one leave it nothing to do.                          *)
(***************************************************************************)
EXTENDS Integers, Sequences, FiniteSets, FiniteSetsExt

CONSTANTS
  Vertices,
  NumCores,            \* core_cnt
  GroupSize,           \* cores that share overflow queues (4)
  Owner,               \* get_local_scratch_id
  Source,              \* _src_vid
  MaxDist,             \* MAX_TIMESTAMP, the value of an unreached vertex
  Epsilon,             \* epsilon, in units of residual
  MaxResidual,         \* bound: residual a vertex receives in one run
  TASK_QUEUE_SIZE,
  HIGH_PRIO_RESERVE,
  Builds

Cores == 0 .. NumCores - 1
Build == [alg : {"min", "pr"}, WORK_STEALING : BOOLEAN, PRAC : BOOLEAN,
          DYN_LOAD_BAL : BOOLEAN, ENTRY_ABORT : BOOLEAN]

ASSUME SizesAssumption ==
  /\ {NumCores, GroupSize, MaxDist, Epsilon} \subseteq Nat \ {0}
  /\ NumCores % GroupSize = 0
  /\ MaxResidual \in Nat
  /\ {TASK_QUEUE_SIZE, HIGH_PRIO_RESERVE} \subseteq Nat
  /\ HIGH_PRIO_RESERVE < TASK_QUEUE_SIZE
ASSUME MappingAssumption == Owner \in [Vertices -> Cores] /\ Source \in Vertices
ASSUME BuildsAssumption == Builds \subseteq Build

VARIABLES
  build,      \* fixed at compile time
  scratch,    \* _scratch: the value, or with pr the residual, of a vertex
  agg,        \* _aggregation_buffer of each core
  central,    \* _global_task_queue: FIFO=1 gives all tasks one timestamp
  inCentral,  \* _present_in_queue, as the set of its vertices
  tq,         \* _task_queue of each core
  remaining,  \* _remaining_task_entries of each core
  fifo,       \* _fifo_task_queue of each core
  present,    \* _present_in_local_queue of each core
  ctl,        \* the loop that is running
  received,   \* history: pr, the residual added to each vertex
  sent        \* history: the value last issued, with pr all residual issued

coreVars == <<tq, remaining, fifo, present>>
vars == <<build, scratch, agg, central, inCentral, coreVars, ctl, received, sent>>

Task == [vid : Vertices, dist : Nat]
IsPr == build.alg = "pr"
Idle == [op |-> "idle", core |-> 0, from |-> 0]
Pulling(c, d) == [op |-> "pull", core |-> c, from |-> d]
Distributing == [op |-> "distribute", core |-> 0, from |-> 0]

\* initialize_simulation: the source goes to core 0, whoever owns it, or into
\* the central queue; with pr, which starts from all vertices, the model
\* begins when the first tasks are gone.
FirstTasks(b) == IF b.alg = "min" THEN <<[vid |-> Source, dist |-> 0]>> ELSE <<>>
FirstBits(b) == IF b.alg = "min" /\ b.ENTRY_ABORT THEN {Source} ELSE {}

Init ==
  /\ build \in Builds
  /\ scratch = [v \in Vertices |->
                  IF IsPr \/ v = Source THEN 0 ELSE MaxDist]
  /\ agg = [c \in Cores |-> <<>>]
  /\ LET first == IF build.WORK_STEALING THEN FirstTasks(build) ELSE <<>>
         bits == IF build.WORK_STEALING THEN FirstBits(build) ELSE {}
     IN /\ tq = [c \in Cores |-> IF c = 0 THEN first ELSE <<>>]
        /\ remaining = [c \in Cores |-> TASK_QUEUE_SIZE - Len(tq[c])]
        /\ present = [c \in Cores |-> IF c = 0 THEN bits ELSE {}]
  /\ central = IF build.WORK_STEALING THEN <<>> ELSE FirstTasks(build)
  /\ inCentral = IF build.WORK_STEALING THEN {} ELSE FirstBits(build)
  /\ fifo = [c \in Cores |-> <<>>]
  /\ ctl = Idle
  /\ received = [v \in Vertices |-> 0]
  /\ sent = [v \in Vertices |-> IF IsPr THEN 0 ELSE MaxDist]

-----------------------------------------------------------------------------
(* Inserting a task                                                         *)

\* No slot: the queue is full, or inside the reserve (all priorities are
\* equal); the last slot is always handed out.
Spills(room) == room = 0 \/ (room < HIGH_PRIO_RESERVE /\ room # 1)

\* mutant: the residual is taken again when a task comes from the overflow queue
ReadsResidualAlways(fromFifo) == IsPr

\* With pr the first insertion moves the residual into the task.
ReadsResidual(fromFifo) == IsPr /\ ~fromFifo

\* The early returns: nothing to propagate, or the vertex is queued here.
Dropped(c, task, bits) ==
  \/ IsPr /\ task.dist = 0
  \/ build.ENTRY_ABORT /\ task.vid \in bits[c]

\* insert_local_task, on the values, presence bits and overflow queues that
\* its caller leaves.
InsertLocalTask(c, given, fromFifo, values, bits, overflow) ==
  LET v == given.vid
      task == IF ReadsResidual(fromFifo) THEN [given EXCEPT !.dist = values[v]]
                                         ELSE given
  IN /\ scratch' = IF ReadsResidual(fromFifo) THEN [values EXCEPT ![v] = 0]
                                              ELSE values
     /\ IF Dropped(c, task, bits)
        THEN present' = bits /\ fifo' = overflow /\ UNCHANGED <<tq, remaining>>
        ELSE /\ present' = IF build.ENTRY_ABORT
                           THEN [bits EXCEPT ![c] = @ \cup {v}] ELSE bits
             /\ IF Spills(remaining[c])
                THEN /\ fifo' = [overflow EXCEPT ![c] = Append(@, task)]
                     /\ UNCHANGED <<tq, remaining>>
                ELSE /\ tq' = [tq EXCEPT ![c] = Append(@, task)]
                     /\ remaining' = [remaining EXCEPT ![c] = @ - 1]
                     /\ fifo' = overflow

\* insert_global_task: ENTRY_ABORT drops a task whose vertex's bit is set.
InsertGlobalTask(task, bits) ==
  IF build.ENTRY_ABORT /\ (task.vid \in bits \/ (IsPr /\ task.dist = 0))
  THEN inCentral' = bits /\ UNCHANGED central
  ELSE /\ inCentral' = IF build.ENTRY_ABORT THEN bits \cup {task.vid} ELSE bits
       /\ central' = Append(central, task)

\* insert_new_task in push mode.
InsertNewTask(task, values, bits) ==
  IF build.WORK_STEALING
  THEN /\ InsertLocalTask(Owner[task.vid], task, FALSE, values, present, fifo)
       /\ inCentral' = bits
       /\ UNCHANGED central
  ELSE /\ InsertGlobalTask(task, bits)
       /\ scratch' = values
       /\ UNCHANGED coreVars

-----------------------------------------------------------------------------
(* Creating tasks                                                           *)

\* should_spawn_task; with pr it compares the increment, not the sum.
ShouldSpawnTask(old, new) ==
  IF IsPr THEN new >= Epsilon /\ old < Epsilon ELSE new < old

Reduce(old, new) == IF IsPr THEN old + new ELSE Min({old, new})

\* push_live_task: into the aggregation buffer, or to its queue at once.
push_live_task(task, values, bits) ==
  \/ /\ build.PRAC /\ build.WORK_STEALING
     /\ agg' = [agg EXCEPT ![Owner[task.vid]] = Append(@, task)]
     /\ scratch' = values
     /\ inCentral' = bits
     /\ UNCHANGED <<central, coreVars>>
  \/ /\ ~(build.PRAC /\ build.WORK_STEALING)
     /\ InsertNewTask(task, values, bits)
     /\ UNCHANGED agg

\* spec_serve_atomic_requests at the owner of v, with create_async_task.  Every
\* reduction sets the vertex's bit in _present_in_queue, which there counts the
\* vertices an iteration has touched.
Update(v, d) ==
  LET values == [scratch EXCEPT ![v] = Reduce(@, d)]
      bits == inCentral \cup {v}
      task == [vid |-> v, dist |-> d]
  IN /\ ctl = Idle
     /\ received' = IF IsPr THEN [received EXCEPT ![v] = @ + d] ELSE received
     /\ \/ /\ ~ShouldSpawnTask(scratch[v], d)
           /\ scratch' = values
           /\ inCentral' = bits
           /\ UNCHANGED <<agg, central, coreVars>>
        \/ /\ ShouldSpawnTask(scratch[v], d)
           /\ push_live_task(task, values, bits)
     /\ UNCHANGED <<build, ctl, sent>>

\* The updates the environment sends: bounded by the improvements a value can
\* see, or by MaxResidual.
Serve(v, d) ==
  /\ IF IsPr THEN d \in 1 .. Epsilon /\ received[v] + d <= MaxResidual
             ELSE d \in 0 .. MaxDist - 1
  /\ Update(v, d)

\* drain_aggregation_buffer.
Drain(c) ==
  /\ ctl = Idle
  /\ agg[c] # <<>>
  /\ agg' = [agg EXCEPT ![c] = Tail(@)]
  /\ InsertNewTask(Head(agg[c]), scratch, inCentral)
  /\ UNCHANGED <<build, ctl, received, sent>>

-----------------------------------------------------------------------------
(* Moving tasks                                                             *)

\* calc_least_busy_core adds up the lengths of MAX_TIMESTAMP lanes where a
\* core has LANE_WIDTH: what lies behind them decides, so it may be any core.
AssignedCores(v) == IF build.PRAC THEN Cores ELSE {Owner[v]}

\* The task reads its vertex when it is distributed.
AtDistribution(task) == [task EXCEPT !.dist = scratch[task.vid]]

\* Whether the loop goes on.  At the start of a cycle distribute_prio empties the
\* central queue; distribute_lb hands out 128 tasks at most (it stops at 256 and
\* counts each twice), here any number of at least one, and leaves the others for
\* later cycles.
AfterTask(rest) ==
  IF rest = <<>> THEN {Idle}
  ELSE IF build.PRAC THEN {Idle, Distributing} ELSE {Distributing}

\* One iteration of distribute_prio (PRAC=0) or distribute_lb (PRAC=1).
Distribute ==
  /\ ~build.WORK_STEALING
  /\ ctl \in {Idle, Distributing}
  /\ central # <<>>
  /\ LET task == AtDistribution(Head(central))
     IN /\ \E c \in AssignedCores(task.vid) :
             IF IsPr /\ task.dist = 0
             THEN UNCHANGED <<scratch, coreVars>>
             ELSE InsertLocalTask(c, task, FALSE, scratch, present, fifo)
        /\ inCentral' = IF build.ENTRY_ABORT THEN inCentral \ {task.vid} ELSE inCentral
  /\ central' = Tail(central)
  /\ ctl' \in AfterTask(Tail(central))
  /\ UNCHANGED <<build, agg, received, sent>>

\* mutant: the loop also pulls into the last entry of the reserve
PullsOnAtReserve(overflow, room) == overflow # <<>> /\ room >= HIGH_PRIO_RESERVE

\* pull_tasks_from_fifo_to_tq goes on while this holds.
PullsOn(overflow, room) == overflow # <<>> /\ room > HIGH_PRIO_RESERVE

Group(c) == {d \in Cores : d \div GroupSize = c \div GroupSize}

\* can_pull_from_overflow.
CanPullFromOverflow(c) ==
  IF build.DYN_LOAD_BAL THEN \E d \in Group(c) : fifo[d] # <<>> ELSE fifo[c] # <<>>

\* The core whose overflow queue c takes from: its own, and with DYN_LOAD_BAL
\* while that is empty the last one of the group that has a task.
PullSource(c) ==
  LET full == {d \in Group(c) : fifo[d] # <<>>}
  IN IF build.DYN_LOAD_BAL /\ fifo[c] = <<>> /\ full # {} THEN Max(full) ELSE c

\* mutant: the presence bit of the core that takes the task is reset
PullBitsOfTaker(c, from, v) == [present EXCEPT ![c] = @ \ {v}]

\* The task leaves the core from: its bit there is reset.
PullBits(c, from, v) == [present EXCEPT ![from] = @ \ {v}]

\* One iteration of that loop: a task of min reads its vertex again.
Pull(c) ==
  /\ ctl.op = "pull" /\ ctl.core = c
  /\ LET from == ctl.from
         head == Head(fifo[from])
         task == IF IsPr THEN head ELSE [head EXCEPT !.dist = scratch[head.vid]]
     IN InsertLocalTask(c, task, TRUE, scratch, PullBits(c, from, head.vid),
                        [fifo EXCEPT ![from] = Tail(@)])
  /\ ctl' = IF PullsOn(fifo'[ctl.from], remaining'[c]) THEN ctl ELSE Idle
  /\ UNCHANGED <<build, agg, central, inCentral, received, sent>>

\* schedule_tasks on a core without a task, with DYN_LOAD_BAL.
Steal(c) ==
  /\ ctl = Idle
  /\ build.DYN_LOAD_BAL
  /\ tq[c] = <<>>
  /\ remaining[c] >= HIGH_PRIO_RESERVE
  /\ CanPullFromOverflow(c)
  /\ PullsOn(fifo[PullSource(c)], remaining[c])
  /\ ctl' = Pulling(c, PullSource(c))
  /\ UNCHANGED <<build, scratch, agg, central, inCentral, coreVars, received, sent>>

\* mutant: the bit of the vertex's owner is reset
BitsAfterIssueAtOwner(c, v) ==
  IF build.ENTRY_ABORT THEN [present EXCEPT ![Owner[v]] = @ \ {v}] ELSE present

\* A vertex that is issued may be queued again.
BitsAfterIssue(c, v) ==
  IF build.ENTRY_ABORT THEN [present EXCEPT ![c] = @ \ {v}] ELSE present

\* dispatch: all edges of the front task; the freed entry may start a pull.
Dispatch(c) ==
  /\ ctl = Idle
  /\ tq[c] # <<>>
  /\ LET task == Head(tq[c])
         v == task.vid
         room == remaining[c] + 1
     IN /\ sent' = [sent EXCEPT ![v] = IF IsPr THEN @ + task.dist ELSE scratch[v]]
        /\ present' = BitsAfterIssue(c, v)
        /\ tq' = [tq EXCEPT ![c] = Tail(@)]
        /\ remaining' = [remaining EXCEPT ![c] = room]
        /\ ctl' = IF CanPullFromOverflow(c) /\ PullsOn(fifo[PullSource(c)], room)
                  THEN Pulling(c, PullSource(c)) ELSE Idle
  /\ UNCHANGED <<build, scratch, agg, central, inCentral, fifo, received>>

Next ==
  \/ \E v \in Vertices, d \in 0 .. Max({MaxDist, Epsilon}) : Serve(v, d)
  \/ Distribute
  \/ \E c \in Cores : Drain(c) \/ Pull(c) \/ Steal(c) \/ Dispatch(c)

\* Every cycle of simulate distributes, every core's cycle drains, and
\* schedule_tasks serves every core.
Fairness ==
  /\ WF_vars(Distribute)
  /\ \A c \in Cores : WF_vars(Drain(c)) /\ WF_vars(Pull(c)) /\ WF_vars(Dispatch(c))

Spec == Init /\ [][Next]_vars /\ Fairness

-----------------------------------------------------------------------------
(* Properties                                                               *)

VidsOf(q) == {q[i].vid : i \in DOMAIN q}
QueuedAt(c) == VidsOf(tq[c]) \cup VidsOf(fifo[c])
Waiting(v) ==
  v \in VidsOf(central) \/ \E c \in Cores : v \in VidsOf(agg[c]) \cup QueuedAt(c)

\* insert_local_task drops a task on the strength of the bit of its own core,
\* while DYN_LOAD_BAL moves tasks between cores: a bit that is set means that
\* this very core has a task of the vertex.
BitsOfOwnQueue == \A c \in Cores : present[c] \subseteq QueuedAt(c)

\* No improved value of min is left unissued: a task of the vertex waits
\* somewhere, through the central queue, overflow queues that send tasks back
\* to it, and cores that take each other's tasks.
NoValueLost ==
  ~IsPr => \A v \in Vertices : sent[v] > scratch[v] => Waiting(v)

\* f[1] + ... + f[n], the residual of v in a queue, and in all of them.
Total(f, n) ==
  LET sum[i \in 0 .. n] == IF i = 0 THEN 0 ELSE sum[i - 1] + f[i]
  IN sum[n]

Mass(q, v) ==
  Total([i \in 1 .. Len(q) |-> IF q[i].vid = v THEN q[i].dist ELSE 0], Len(q))
QueuedMass(v) ==
  Total([n \in 1 .. NumCores |-> Mass(tq[n - 1], v) + Mass(fifo[n - 1], v)], NumCores)

\* insert_local_task, asic.cpp:8047 "reset should done only at first
\* insertion, not from fifo": the residual of a vertex moves from the vertex
\* into a task and is issued from there, and none of it is lost on the way.
ResidualConserved ==
  IsPr => \A v \in Vertices : received[v] = scratch[v] + QueuedMass(v) + sent[v]

\* Tasks that spilled or wait centrally are all dispatched in the end.
EventuallyQuiet ==
  <>[](central = <<>> /\ \A c \in Cores : agg[c] = <<>> /\ QueuedAt(c) = {})

=============================================================================
