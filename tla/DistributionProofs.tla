-------------------------- MODULE DistributionProofs --------------------------
(***************************************************************************)
(* Proofs about Distribution for every number of cores and vertices, every *)
(* group size and every size of the queues.                                *)
(***************************************************************************)
EXTENDS Distribution, Numbers, TLAPS, SequenceTheorems

(***************************************************************************)
(* The inductive invariant.                                                *)
(***************************************************************************)

TypeOK ==
  /\ build \in Builds
  /\ scratch \in [Vertices -> Nat]
  /\ agg \in [Cores -> Seq(Task)]
  /\ central \in Seq(Task)
  /\ inCentral \in SUBSET Vertices
  /\ tq \in [Cores -> Seq(Task)]
  /\ remaining \in [Cores -> Nat]
  /\ fifo \in [Cores -> Seq(Task)]
  /\ present \in [Cores -> SUBSET Vertices]
  /\ ctl \in [op : {"idle", "pull", "distribute"}, core : Cores, from : Cores]
  /\ received \in [Vertices -> Nat]
  /\ sent \in [Vertices -> Nat]

\* The count of free entries is the queue's.
RoomExact == \A c \in Cores : remaining[c] + Len(tq[c]) = TASK_QUEUE_SIZE

\* A pull that goes on finds a task, and a free entry outside the reserve.
PullGoesOn ==
  ctl.op = "pull" => PullsOn(fifo[ctl.from], remaining[ctl.core])

\* Without ENTRY_ABORT no bit is ever set.
BitsUnused == ~build.ENTRY_ABORT => \A c \in Cores : present[c] = {}

IInv == TypeOK /\ RoomExact /\ PullGoesOn /\ BitsUnused /\ BitsOfOwnQueue

(***************************************************************************)
(* Numbers and queues.                                                     *)
(***************************************************************************)

\* The lesser of two numbers.
LEMMA MinOfTwo ==
  ASSUME NEW a \in Nat, NEW b \in Nat
  PROVE  Min({a, b}) = IF a <= b THEN a ELSE b
<1> DEFINE m == IF a <= b THEN a ELSE b
           L(x) == x \in {a, b} /\ \A y \in {a, b} : x =< y
<1>1. L(m)
  OBVIOUS
<1>2. \A x : L(x) => x = m
  OBVIOUS
<1>3. Min({a, b}) = CHOOSE x : L(x)
  BY DEF Min
<1> HIDE DEF L, m
<1>4. L(CHOOSE x : L(x))
  BY <1>1
<1>5. Min({a, b}) = m
  BY <1>2, <1>3, <1>4
<1>6. QED
  BY <1>5 DEF m

\* A set of core numbers has a greatest one.
LEMMA MaxIsIn ==
  ASSUME NEW S \in SUBSET Cores, S # {}
  PROVE  Max(S) \in S
<1> DEFINE T == {n \in Nat : \E x \in S : n = NumCores - x}
<1>1. NumCores \in Nat /\ \A x \in S : x \in Nat /\ NumCores - x \in Nat
  BY SizesAssumption DEF Cores
<1>2. T \in SUBSET Nat /\ T # {}
  BY <1>1
<1>3. PICK n \in T : \A m \in T : n <= m
  BY <1>2, NatLeast
<1>4. PICK x \in S : n = NumCores - x
  BY <1>3
<1>5. ASSUME NEW y \in S PROVE x >= y
  <2>1. n <= NumCores - y
    BY <1>1, <1>3
  <2>2. QED
    BY <1>1, <1>4, <2>1
<1>6. \E z \in S : \A y \in S : z >= y
  BY <1>5
<1>7. QED
  BY <1>6 DEF Max

\* The vertices of a queue, when a task joins it or leaves it.
LEMMA VidsOfAppend ==
  \A q \in Seq(Task), t \in Task : VidsOf(Append(q, t)) = VidsOf(q) \cup {t.vid}
<1> SUFFICES ASSUME NEW q \in Seq(Task), NEW t \in Task
             PROVE  VidsOf(Append(q, t)) = VidsOf(q) \cup {t.vid}
  OBVIOUS
<1> DEFINE r == Append(q, t)
<1>1. /\ r \in Seq(Task) /\ Len(r) = Len(q) + 1 /\ Len(q) \in Nat
      /\ DOMAIN r = 1 .. Len(q) + 1 /\ DOMAIN q = 1 .. Len(q)
  OBVIOUS
<1>2. \A i \in 1 .. Len(q) : r[i] = q[i]
  OBVIOUS
<1>3. r[Len(q) + 1] = t
  OBVIOUS
<1> HIDE DEF r
<1>4. \A i \in DOMAIN r : i \in DOMAIN q \/ i = Len(q) + 1
  BY <1>1
<1>5. DOMAIN q \subseteq DOMAIN r /\ Len(q) + 1 \in DOMAIN r
  BY <1>1
<1>6. VidsOf(r) = VidsOf(q) \cup {t.vid}
  BY <1>1, <1>2, <1>3, <1>4, <1>5 DEF VidsOf
<1>7. QED
  BY <1>6 DEF r

LEMMA VidsOfTail ==
  \A q \in Seq(Task) : q # <<>> =>
    /\ Head(q) \in Task /\ Tail(q) \in Seq(Task) /\ Len(Tail(q)) = Len(q) - 1
    /\ VidsOf(q) = VidsOf(Tail(q)) \cup {Head(q).vid}
<1> SUFFICES ASSUME NEW q \in Seq(Task), q # <<>>
             PROVE  /\ Head(q) \in Task /\ Tail(q) \in Seq(Task)
                    /\ Len(Tail(q)) = Len(q) - 1
                    /\ VidsOf(q) = VidsOf(Tail(q)) \cup {Head(q).vid}
  OBVIOUS
<1> DEFINE r == Tail(q)
<1>1. /\ r \in Seq(Task) /\ Head(q) \in Task /\ Head(q) = q[1]
      /\ Len(r) = Len(q) - 1 /\ Len(q) \in Nat \ {0}
      /\ DOMAIN r = 1 .. Len(q) - 1 /\ DOMAIN q = 1 .. Len(q)
  OBVIOUS
<1>2. \A i \in 1 .. Len(q) - 1 : r[i] = q[i + 1]
  OBVIOUS
<1> HIDE DEF r
<1>3. \A i \in DOMAIN q : i = 1 \/ (i - 1 \in DOMAIN r /\ r[i - 1] = q[i])
  BY <1>1, <1>2
<1>4. \A i \in DOMAIN r : i + 1 \in DOMAIN q /\ r[i] = q[i + 1]
  BY <1>1, <1>2
<1>5. 1 \in DOMAIN q
  BY <1>1
<1>6. VidsOf(q) = VidsOf(r) \cup {Head(q).vid}
  BY <1>1, <1>3, <1>4, <1>5 DEF VidsOf
<1>7. QED
  BY <1>1, <1>6 DEF r

\* A queue without vertices is empty.
LEMMA VidsOfEmpty == VidsOf(<<>>) = {}
BY DEF VidsOf

(***************************************************************************)
(* Inserting a task.                                                       *)
(***************************************************************************)

\* The bits, queues and overflow queues agree, as a caller of insert_local_task
\* leaves them.
Truthful(bits, overflow) ==
  /\ \A d \in Cores : bits[d] \subseteq VidsOf(tq[d]) \cup VidsOf(overflow[d])
  /\ ~build.ENTRY_ABORT => \A d \in Cores : bits[d] = {}

\* What insert_local_task does with the task, once it has read the residual.
Stored(c, task, bits, overflow) ==
  \/ /\ (IsPr /\ task.dist = 0) \/ (build.ENTRY_ABORT /\ task.vid \in bits[c])
     /\ present' = bits /\ fifo' = overflow
     /\ tq' = tq /\ remaining' = remaining
  \/ /\ present' = IF build.ENTRY_ABORT THEN [bits EXCEPT ![c] = @ \cup {task.vid}]
                                        ELSE bits
     /\ fifo' = [overflow EXCEPT ![c] = Append(@, task)]
     /\ tq' = tq /\ remaining' = remaining
  \/ /\ present' = IF build.ENTRY_ABORT THEN [bits EXCEPT ![c] = @ \cup {task.vid}]
                                        ELSE bits
     /\ fifo' = overflow
     /\ remaining[c] # 0
     /\ tq' = [tq EXCEPT ![c] = Append(@, task)]
     /\ remaining' = [remaining EXCEPT ![c] = @ - 1]

\* The task that insert_local_task queues, and what it leaves of the values.
Reads(given, fromFifo, values, task) ==
  /\ task.vid = given.vid
  /\ IF ReadsResidual(fromFifo)
     THEN task.dist = values[given.vid] /\ scratch' = [values EXCEPT ![given.vid] = 0]
     ELSE task = given /\ scratch' = values

LEMMA InsertStores ==
  ASSUME NEW c \in Cores, NEW given \in Task, NEW fromFifo \in BOOLEAN,
         NEW values \in [Vertices -> Nat],
         NEW bits \in [Cores -> SUBSET Vertices],
         NEW overflow \in [Cores -> Seq(Task)],
         InsertLocalTask(c, given, fromFifo, values, bits, overflow)
  PROVE  \E task \in Task :
           Reads(given, fromFifo, values, task) /\ Stored(c, task, bits, overflow)
<1> DEFINE v == given.vid
           task == IF ReadsResidual(fromFifo) THEN [given EXCEPT !.dist = values[v]]
                                              ELSE given
<1>1. v \in Vertices /\ values[v] \in Nat
  BY DEF Task
<1>2. task \in Task /\ task.vid = v
  BY <1>1 DEF Task
<1>3. ReadsResidual(fromFifo) => task.dist = values[v]
  BY <1>1 DEF Task
<1>4. /\ scratch' = IF ReadsResidual(fromFifo) THEN [values EXCEPT ![v] = 0] ELSE values
      /\ IF Dropped(c, task, bits)
         THEN present' = bits /\ fifo' = overflow /\ UNCHANGED <<tq, remaining>>
         ELSE /\ present' = IF build.ENTRY_ABORT
                            THEN [bits EXCEPT ![c] = @ \cup {v}] ELSE bits
              /\ IF Spills(remaining[c])
                 THEN /\ fifo' = [overflow EXCEPT ![c] = Append(@, task)]
                      /\ UNCHANGED <<tq, remaining>>
                 ELSE /\ tq' = [tq EXCEPT ![c] = Append(@, task)]
                      /\ remaining' = [remaining EXCEPT ![c] = @ - 1]
                      /\ fifo' = overflow
  BY DEF InsertLocalTask
<1>5. ~ReadsResidual(fromFifo) => task = given
  OBVIOUS
<1> HIDE DEF task
<1>6. Reads(given, fromFifo, values, task)
  BY <1>2, <1>3, <1>4, <1>5 DEF Reads
<1>7. Stored(c, task, bits, overflow)
  BY <1>2, <1>4 DEF Stored, Dropped, Spills
<1>8. QED
  BY <1>2, <1>6, <1>7

\* It keeps the types and the count of free entries.
LEMMA StoredTypes ==
  ASSUME TypeOK, RoomExact, NEW c \in Cores, NEW task \in Task,
         NEW bits \in [Cores -> SUBSET Vertices],
         NEW overflow \in [Cores -> Seq(Task)],
         Stored(c, task, bits, overflow)
  PROVE  /\ tq' \in [Cores -> Seq(Task)]
         /\ remaining' \in [Cores -> Nat]
         /\ fifo' \in [Cores -> Seq(Task)]
         /\ present' \in [Cores -> SUBSET Vertices]
         /\ \A d \in Cores : remaining'[d] + Len(tq'[d]) = TASK_QUEUE_SIZE
<1>1. /\ tq \in [Cores -> Seq(Task)] /\ remaining \in [Cores -> Nat]
      /\ task.vid \in Vertices
  BY DEF TypeOK, Task
<1>2. \A q \in Seq(Task) : Append(q, task) \in Seq(Task) /\ Len(Append(q, task)) = Len(q) + 1
  OBVIOUS
<1>3. \A d \in Cores : Len(tq[d]) \in Nat /\ remaining[d] + Len(tq[d]) = TASK_QUEUE_SIZE
  BY <1>1 DEF RoomExact
<1>4. fifo' \in [Cores -> Seq(Task)]
  BY <1>2 DEF Stored
<1>5. present' \in [Cores -> SUBSET Vertices]
  <2>1. [bits EXCEPT ![c] = @ \cup {task.vid}] \in [Cores -> SUBSET Vertices]
    BY <1>1
  <2>2. QED
    BY <2>1, Zenon DEF Stored
<1>6. CASE tq' = tq /\ remaining' = remaining
  BY <1>1, <1>3, <1>4, <1>5, <1>6
<1>7. CASE /\ remaining[c] # 0
           /\ tq' = [tq EXCEPT ![c] = Append(@, task)]
           /\ remaining' = [remaining EXCEPT ![c] = @ - 1]
  <2>1. tq' \in [Cores -> Seq(Task)]
    BY <1>1, <1>2, <1>7
  <2>2. remaining[c] - 1 \in Nat
    BY <1>1, <1>7
  <2>3. remaining' \in [Cores -> Nat]
    BY <1>1, <1>7, <2>2
  <2>4. ASSUME NEW d \in Cores PROVE remaining'[d] + Len(tq'[d]) = TASK_QUEUE_SIZE
    <3>1. CASE d = c
      <4>1. remaining'[c] = remaining[c] - 1 /\ Len(tq'[c]) = Len(tq[c]) + 1
        BY <1>1, <1>2, <1>7
      <4>2. remaining[c] \in Nat /\ Len(tq[c]) \in Nat /\ remaining[c] + Len(tq[c]) = TASK_QUEUE_SIZE
        BY <1>1, <1>3
      <4>3. \A m, n \in Nat : (m - 1) + (n + 1) = m + n
        OBVIOUS
      <4>4. remaining'[c] + Len(tq'[c]) = remaining[c] + Len(tq[c])
        BY <4>1, <4>2, <4>3
      <4>5. QED
        BY <3>1, <4>2, <4>4
    <3>2. CASE d # c
      BY <1>1, <1>3, <1>7, <3>2
    <3>3. QED
      BY <3>1, <3>2
  <2>5. QED
    BY <1>4, <1>5, <2>1, <2>3, <2>4
<1>8. QED
  BY <1>6, <1>7 DEF Stored

\* No task leaves a queue, and the vertex of the task has one unless there was
\* no residual to move.
LEMMA StoredQueues ==
  ASSUME TypeOK, NEW c \in Cores, NEW task \in Task,
         NEW bits \in [Cores -> SUBSET Vertices],
         NEW overflow \in [Cores -> Seq(Task)],
         Truthful(bits, overflow),
         Stored(c, task, bits, overflow)
  PROVE  /\ \A d \in Cores : VidsOf(tq[d]) \cup VidsOf(overflow[d])
                               \subseteq VidsOf(tq'[d]) \cup VidsOf(fifo'[d])
         /\ ~(IsPr /\ task.dist = 0) => task.vid \in VidsOf(tq'[c]) \cup VidsOf(fifo'[c])
         /\ \A d \in Cores : present'[d] \subseteq VidsOf(tq'[d]) \cup VidsOf(fifo'[d])
         /\ ~build.ENTRY_ABORT => \A d \in Cores : present'[d] = {}
<1> DEFINE added == IF build.ENTRY_ABORT THEN [bits EXCEPT ![c] = @ \cup {task.vid}]
                                         ELSE bits
<1>1. tq \in [Cores -> Seq(Task)]
  BY DEF TypeOK
<1>2. \A q \in Seq(Task) : VidsOf(Append(q, task)) = VidsOf(q) \cup {task.vid}
  BY VidsOfAppend
<1>3. /\ \A d \in Cores \ {c} : added[d] = bits[d]
      /\ added[c] \subseteq bits[c] \cup {task.vid}
      /\ ~build.ENTRY_ABORT => added = bits
  OBVIOUS
<1> HIDE DEF added
<1>4. CASE /\ (IsPr /\ task.dist = 0) \/ (build.ENTRY_ABORT /\ task.vid \in bits[c])
           /\ present' = bits /\ fifo' = overflow /\ tq' = tq
  BY <1>4 DEF Truthful
<1>5. CASE /\ present' = added
           /\ fifo' = [overflow EXCEPT ![c] = Append(@, task)] /\ tq' = tq
  <2>1. /\ VidsOf(fifo'[c]) = VidsOf(overflow[c]) \cup {task.vid}
        /\ \A d \in Cores \ {c} : fifo'[d] = overflow[d]
    BY <1>2, <1>5
  <2>2. QED
    BY <1>3, <1>5, <2>1 DEF Truthful
<1>6. CASE /\ present' = added
           /\ tq' = [tq EXCEPT ![c] = Append(@, task)] /\ fifo' = overflow
  <2>1. /\ VidsOf(tq'[c]) = VidsOf(tq[c]) \cup {task.vid}
        /\ \A d \in Cores \ {c} : tq'[d] = tq[d]
    BY <1>1, <1>2, <1>6
  <2>2. QED
    BY <1>3, <1>6, <2>1 DEF Truthful
<1>7. QED
  BY <1>4, <1>5, <1>6 DEF Stored, added

\* The values stay values.
LEMMA ReadsTypes ==
  ASSUME NEW given \in Task, NEW fromFifo, NEW values \in [Vertices -> Nat],
         NEW task, Reads(given, fromFifo, values, task)
  PROVE  scratch' \in [Vertices -> Nat]
BY DEF Reads, Task

\* What the invariant says of the cores' queues.
QueuesOK ==
  /\ tq \in [Cores -> Seq(Task)]
  /\ remaining \in [Cores -> Nat]
  /\ fifo \in [Cores -> Seq(Task)]
  /\ present \in [Cores -> SUBSET Vertices]
  /\ RoomExact
  /\ BitsUnused
  /\ BitsOfOwnQueue

LEMMA StoredKeeps ==
  ASSUME TypeOK, RoomExact, build' = build, NEW c \in Cores, NEW task \in Task,
         NEW bits \in [Cores -> SUBSET Vertices],
         NEW overflow \in [Cores -> Seq(Task)],
         Truthful(bits, overflow),
         Stored(c, task, bits, overflow)
  PROVE  QueuesOK'
<1>1. /\ tq' \in [Cores -> Seq(Task)]
      /\ remaining' \in [Cores -> Nat]
      /\ fifo' \in [Cores -> Seq(Task)]
      /\ present' \in [Cores -> SUBSET Vertices]
      /\ \A d \in Cores : remaining'[d] + Len(tq'[d]) = TASK_QUEUE_SIZE
  BY StoredTypes
<1>2. /\ \A d \in Cores : present'[d] \subseteq VidsOf(tq'[d]) \cup VidsOf(fifo'[d])
      /\ ~build.ENTRY_ABORT => \A d \in Cores : present'[d] = {}
  BY StoredQueues
<1>3. RoomExact' /\ BitsUnused' /\ BitsOfOwnQueue'
  BY <1>1, <1>2 DEF RoomExact, BitsUnused, BitsOfOwnQueue, QueuedAt, VidsOf
<1>4. QED
  BY <1>1, <1>3 DEF QueuesOK

LEMMA QueuesStay ==
  IInv /\ build' = build /\ UNCHANGED coreVars => QueuesOK'
<1> SUFFICES ASSUME IInv, build' = build, UNCHANGED coreVars PROVE QueuesOK'
  OBVIOUS
<1>1. tq' = tq /\ remaining' = remaining /\ fifo' = fifo /\ present' = present
  BY DEF coreVars
<1>2. /\ tq' \in [Cores -> Seq(Task)]
      /\ remaining' \in [Cores -> Nat]
      /\ fifo' \in [Cores -> Seq(Task)]
      /\ present' \in [Cores -> SUBSET Vertices]
  BY <1>1 DEF IInv, TypeOK
<1>3. RoomExact'
  BY <1>1 DEF IInv, RoomExact
<1>4. BitsUnused'
  BY <1>1 DEF IInv, BitsUnused
<1>5. BitsOfOwnQueue'
  BY <1>1 DEF IInv, BitsOfOwnQueue, QueuedAt, VidsOf
<1>6. QED
  BY <1>2, <1>3, <1>4, <1>5 DEF QueuesOK

\* The queues as they are agree.
LEMMA PresentIsTruthful ==
  IInv => Truthful(present, fifo)
BY DEF IInv, Truthful, BitsOfOwnQueue, BitsUnused, QueuedAt

\* insert_new_task: the queues stay as the invariant has them, no task leaves
\* one, and a task of min is queued unless the central queue drops it.
LEMMA InsertNewKeeps ==
  ASSUME IInv, build' = build, NEW task \in Task, NEW values \in [Vertices -> Nat],
         NEW bits \in SUBSET Vertices, InsertNewTask(task, values, bits)
  PROVE  /\ QueuesOK'
         /\ scratch' \in [Vertices -> Nat]
         /\ central' \in Seq(Task)
         /\ inCentral' \in SUBSET Vertices
         /\ VidsOf(central) \subseteq VidsOf(central')
         /\ \A d \in Cores : VidsOf(tq[d]) \cup VidsOf(fifo[d])
                               \subseteq VidsOf(tq'[d]) \cup VidsOf(fifo'[d])
         /\ ~IsPr => scratch' = values
         /\ ~IsPr /\ (build.WORK_STEALING \/ ~build.ENTRY_ABORT) =>
              \/ task.vid \in VidsOf(central')
              \/ \E d \in Cores : task.vid \in VidsOf(tq'[d]) \cup VidsOf(fifo'[d])
<1>1. /\ TypeOK /\ RoomExact
      /\ fifo \in [Cores -> Seq(Task)] /\ present \in [Cores -> SUBSET Vertices]
      /\ central \in Seq(Task) /\ task.vid \in Vertices
  BY DEF IInv, TypeOK, Task
<1>2. Truthful(present, fifo)
  BY PresentIsTruthful
<1>3. CASE build.WORK_STEALING
  <2> DEFINE c == Owner[task.vid]
  <2>1. c \in Cores
    BY <1>1, MappingAssumption
  <2>2. /\ InsertLocalTask(c, task, FALSE, values, present, fifo)
        /\ inCentral' = bits /\ central' = central
    BY <1>3 DEF InsertNewTask
  <2>3. PICK t \in Task : Reads(task, FALSE, values, t) /\ Stored(c, t, present, fifo)
    BY <1>1, <2>1, <2>2, InsertStores
  <2> HIDE DEF c
  <2>4. QueuesOK'
    BY <1>1, <1>2, <2>1, <2>3, StoredKeeps
  <2>5. scratch' \in [Vertices -> Nat]
    BY <2>3, ReadsTypes
  <2>6. /\ \A d \in Cores : VidsOf(tq[d]) \cup VidsOf(fifo[d])
                              \subseteq VidsOf(tq'[d]) \cup VidsOf(fifo'[d])
        /\ ~(IsPr /\ t.dist = 0) => t.vid \in VidsOf(tq'[c]) \cup VidsOf(fifo'[c])
    BY <1>1, <1>2, <2>1, <2>3, StoredQueues
  <2>7. t.vid = task.vid /\ (~IsPr => scratch' = values)
    BY <2>3 DEF Reads, ReadsResidual
  <2>8. QED
    BY <1>1, <2>1, <2>2, <2>4, <2>5, <2>6, <2>7
<1>4. CASE ~build.WORK_STEALING
  <2>1. InsertGlobalTask(task, bits) /\ scratch' = values /\ UNCHANGED coreVars
    BY <1>4 DEF InsertNewTask
  <2>2. QueuesOK'
    BY <2>1, QueuesStay
  <2>3. /\ inCentral' \in SUBSET Vertices
        /\ central' = central \/ central' = Append(central, task)
        /\ ~build.ENTRY_ABORT => central' = Append(central, task)
    BY <1>1, <2>1 DEF InsertGlobalTask
  <2>4. /\ Append(central, task) \in Seq(Task)
        /\ VidsOf(Append(central, task)) = VidsOf(central) \cup {task.vid}
    BY <1>1, VidsOfAppend
  <2>5. QED
    BY <1>1, <1>4, <2>1, <2>2, <2>3, <2>4 DEF coreVars
<1>5. QED
  BY <1>3, <1>4

(***************************************************************************)
(* The invariant is inductive, one lemma per action.                       *)
(***************************************************************************)

\* What is left to show of an action that keeps the queues.
LEMMA FromParts ==
  ASSUME build' = build, IInv, QueuesOK',
         scratch' \in [Vertices -> Nat], agg' \in [Cores -> Seq(Task)],
         central' \in Seq(Task), inCentral' \in SUBSET Vertices,
         ctl' \in [op : {"idle", "pull", "distribute"}, core : Cores, from : Cores],
         received' \in [Vertices -> Nat], sent' \in [Vertices -> Nat],
         PullGoesOn'
  PROVE  IInv'
BY DEF IInv, TypeOK, QueuesOK

\* The positions of the loops.
LEMMA CtlTypes ==
  /\ Idle.op = "idle" /\ Distributing.op = "distribute"
  /\ Idle \in [op : {"idle", "pull", "distribute"}, core : Cores, from : Cores]
  /\ Distributing \in [op : {"idle", "pull", "distribute"}, core : Cores, from : Cores]
  /\ \A c, d \in Cores :
       /\ Pulling(c, d) \in [op : {"idle", "pull", "distribute"}, core : Cores, from : Cores]
       /\ Pulling(c, d).core = c /\ Pulling(c, d).from = d
  /\ \A c \in Cores : PullSource(c) \in Cores
<1>1. 0 \in Cores
  BY SizesAssumption DEF Cores
<1>2. ASSUME NEW c \in Cores PROVE PullSource(c) \in Cores
  <2> DEFINE full == {d \in Group(c) : fifo[d] # <<>>}
  <2>1. full \in SUBSET Cores
    BY DEF Group
  <2>2. full # {} => Max(full) \in full
    BY <2>1, MaxIsIn
  <2>3. PullSource(c) \in {Max(full), c} /\ (PullSource(c) = Max(full) /\ PullSource(c) # c => full # {})
    BY DEF PullSource
  <2>4. QED
    BY <2>1, <2>2, <2>3
<1>3. QED
  BY <1>1, <1>2 DEF Idle, Distributing, Pulling

LEMMA UpdateKeeps ==
  ASSUME IInv, NEW v \in Vertices, NEW d \in Nat, Update(v, d)
  PROVE  IInv'
<1> DEFINE values == [scratch EXCEPT ![v] = Reduce(@, d)]
           bits == inCentral \cup {v}
           task == [vid |-> v, dist |-> d]
<1>1. /\ TypeOK /\ build' = build /\ ctl' = ctl /\ sent' = sent /\ ctl = Idle
      /\ received' = IF IsPr THEN [received EXCEPT ![v] = @ + d] ELSE received
  BY DEF IInv, Update
<1>2. Reduce(scratch[v], d) \in Nat
  <2>1. scratch[v] \in Nat
    BY <1>1 DEF TypeOK
  <2>2. QED
    BY <2>1, MinOfTwo DEF Reduce
<1>3. values \in [Vertices -> Nat] /\ bits \in SUBSET Vertices /\ task \in Task
  BY <1>1, <1>2 DEF TypeOK, Task
<1>4. received' \in [Vertices -> Nat]
  BY <1>1 DEF TypeOK
<1>5. PullGoesOn'
  BY <1>1, CtlTypes DEF PullGoesOn
<1>6. QueuesOK' \/ ~UNCHANGED coreVars
  BY <1>1, QueuesStay
<1> HIDE DEF values, bits, task
<1>7. CASE scratch' = values /\ inCentral' = bits /\ UNCHANGED <<agg, central, coreVars>>
  BY <1>1, <1>3, <1>4, <1>5, <1>6, <1>7, FromParts DEF TypeOK
<1>8. CASE /\ agg' = [agg EXCEPT ![Owner[task.vid]] = Append(@, task)]
           /\ scratch' = values /\ inCentral' = bits
           /\ UNCHANGED <<central, coreVars>>
  <2>1. agg' \in [Cores -> Seq(Task)]
    <3>1. agg \in [Cores -> Seq(Task)] /\ \A q \in Seq(Task) : Append(q, task) \in Seq(Task)
      BY <1>1, <1>3 DEF TypeOK
    <3>2. QED
      BY <1>8, <3>1
  <2>2. QED
    BY <1>1, <1>3, <1>4, <1>5, <1>6, <1>8, <2>1, FromParts DEF TypeOK
<1>9. CASE InsertNewTask(task, values, bits) /\ UNCHANGED agg
  <2>1. /\ QueuesOK' /\ scratch' \in [Vertices -> Nat]
        /\ central' \in Seq(Task) /\ inCentral' \in SUBSET Vertices
    BY <1>1, <1>3, <1>9, InsertNewKeeps
  <2>2. QED
    BY <1>1, <1>4, <1>5, <1>9, <2>1, FromParts DEF TypeOK
<1>10. QED
  BY <1>7, <1>8, <1>9 DEF Update, push_live_task, values, bits, task

LEMMA DrainKeeps ==
  ASSUME IInv, NEW c \in Cores, Drain(c)
  PROVE  IInv'
<1>1. /\ TypeOK /\ build' = build /\ ctl' = ctl /\ ctl = Idle
      /\ agg[c] # <<>> /\ agg' = [agg EXCEPT ![c] = Tail(@)]
      /\ InsertNewTask(Head(agg[c]), scratch, inCentral)
      /\ UNCHANGED <<received, sent>>
  BY DEF IInv, Drain
<1>2. Head(agg[c]) \in Task /\ Tail(agg[c]) \in Seq(Task)
  BY <1>1, VidsOfTail DEF TypeOK
<1>3. agg' \in [Cores -> Seq(Task)]
  BY <1>1, <1>2 DEF TypeOK
<1>4. scratch \in [Vertices -> Nat] /\ inCentral \in SUBSET Vertices
  BY <1>1 DEF TypeOK
<1>5. /\ QueuesOK' /\ scratch' \in [Vertices -> Nat]
      /\ central' \in Seq(Task) /\ inCentral' \in SUBSET Vertices
  BY <1>1, <1>2, <1>4, InsertNewKeeps
<1>6. PullGoesOn'
  BY <1>1, CtlTypes DEF PullGoesOn
<1>7. QED
  BY <1>1, <1>3, <1>5, <1>6, FromParts DEF TypeOK

LEMMA DistributeKeeps ==
  ASSUME IInv, Distribute
  PROVE  IInv'
<1> DEFINE task == AtDistribution(Head(central))
<1>1. /\ TypeOK /\ RoomExact /\ build' = build /\ ctl' \in {Idle, Distributing}
      /\ central # <<>> /\ central' = Tail(central)
      /\ inCentral' \in {inCentral, inCentral \ {task.vid}}
      /\ UNCHANGED <<agg, received, sent>>
  BY DEF IInv, Distribute, AfterTask
<1>2. PICK c \in AssignedCores(task.vid) :
        IF IsPr /\ task.dist = 0
        THEN UNCHANGED <<scratch, coreVars>>
        ELSE InsertLocalTask(c, task, FALSE, scratch, present, fifo)
  BY DEF Distribute
<1>3. /\ Head(central) \in Task /\ Tail(central) \in Seq(Task)
      /\ scratch \in [Vertices -> Nat] /\ inCentral \in SUBSET Vertices
      /\ present \in [Cores -> SUBSET Vertices] /\ fifo \in [Cores -> Seq(Task)]
  BY <1>1, VidsOfTail DEF TypeOK
<1>4. task \in Task
  BY <1>3 DEF AtDistribution, Task
<1> HIDE DEF task
<1>5. c \in Cores
  BY <1>4, MappingAssumption DEF AssignedCores, Task
<1>6. PullGoesOn'
  BY <1>1, CtlTypes DEF PullGoesOn
<1>7. QueuesOK' /\ scratch' \in [Vertices -> Nat]
  <2>1. CASE UNCHANGED <<scratch, coreVars>>
    BY <1>1, <2>1, QueuesStay DEF TypeOK
  <2>2. CASE InsertLocalTask(c, task, FALSE, scratch, present, fifo)
    <3>1. PICK t \in Task : Reads(task, FALSE, scratch, t) /\ Stored(c, t, present, fifo)
      BY <1>3, <1>4, <1>5, <2>2, InsertStores
    <3>2. Truthful(present, fifo)
      BY PresentIsTruthful
    <3>3. QED
      BY <1>1, <1>3, <1>4, <1>5, <3>1, <3>2, StoredKeeps, ReadsTypes
  <2>3. QED
    BY <1>2, <2>1, <2>2
<1>8. /\ ctl' \in [op : {"idle", "pull", "distribute"}, core : Cores, from : Cores]
      /\ inCentral' \in SUBSET Vertices /\ central' \in Seq(Task)
  BY <1>1, <1>3, CtlTypes
<1>9. agg' \in [Cores -> Seq(Task)] /\ received' \in [Vertices -> Nat] /\ sent' \in [Vertices -> Nat]
  BY <1>1 DEF TypeOK
<1>10. QED
  BY <1>1, <1>6, <1>7, <1>8, <1>9, FromParts

\* The head of an overflow queue leaves it, with the bit of its core.
LEMMA PullIsTruthful ==
  ASSUME IInv, NEW c \in Cores, NEW from \in Cores, fifo[from] # <<>>
  PROVE  LET head == Head(fifo[from])
             bits == PullBits(c, from, head.vid)
             overflow == [fifo EXCEPT ![from] = Tail(@)]
         IN  /\ head \in Task
             /\ bits \in [Cores -> SUBSET Vertices]
             /\ overflow \in [Cores -> Seq(Task)]
             /\ Truthful(bits, overflow)
             /\ \A d \in Cores : VidsOf(fifo[d]) \subseteq VidsOf(overflow[d]) \cup {head.vid}
<1> DEFINE head == Head(fifo[from])
           bits == PullBits(c, from, head.vid)
           overflow == [fifo EXCEPT ![from] = Tail(@)]
<1>1. /\ fifo \in [Cores -> Seq(Task)] /\ present \in [Cores -> SUBSET Vertices]
      /\ Truthful(present, fifo)
  BY PresentIsTruthful DEF IInv, TypeOK
<1>2. /\ head \in Task /\ Tail(fifo[from]) \in Seq(Task)
      /\ VidsOf(fifo[from]) = VidsOf(Tail(fifo[from])) \cup {head.vid}
  BY <1>1, VidsOfTail
<1>3. /\ overflow \in [Cores -> Seq(Task)] /\ overflow[from] = Tail(fifo[from])
      /\ \A d \in Cores : d # from => overflow[d] = fifo[d]
  BY <1>1, <1>2
<1>4. /\ bits \in [Cores -> SUBSET Vertices] /\ bits[from] = present[from] \ {head.vid}
      /\ \A d \in Cores : d # from => bits[d] = present[d]
  BY <1>1 DEF PullBits
<1> HIDE DEF head, bits, overflow
<1>5. ASSUME NEW d \in Cores
      PROVE  /\ bits[d] \subseteq VidsOf(tq[d]) \cup VidsOf(overflow[d])
             /\ ~build.ENTRY_ABORT => bits[d] = {}
             /\ VidsOf(fifo[d]) \subseteq VidsOf(overflow[d]) \cup {head.vid}
  <2>1. CASE d = from
    BY <1>1, <1>2, <1>3, <1>4, <2>1 DEF Truthful
  <2>2. CASE d # from
    BY <1>1, <1>3, <1>4, <2>2 DEF Truthful
  <2>3. QED
    BY <2>1, <2>2
<1>6. QED
  BY <1>2, <1>3, <1>4, <1>5 DEF Truthful, head, bits, overflow

LEMMA PullKeeps ==
  ASSUME IInv, NEW c \in Cores, Pull(c)
  PROVE  IInv'
<1> DEFINE from == ctl.from
           head == Head(fifo[from])
           task == IF IsPr THEN head ELSE [head EXCEPT !.dist = scratch[head.vid]]
           bits == PullBits(c, from, head.vid)
           overflow == [fifo EXCEPT ![from] = Tail(@)]
<1>1. /\ TypeOK /\ RoomExact /\ build' = build /\ ctl.op = "pull" /\ ctl.core = c
      /\ InsertLocalTask(c, task, TRUE, scratch, bits, overflow)
      /\ ctl' = IF PullsOn(fifo'[ctl.from], remaining'[c]) THEN ctl ELSE Idle
      /\ UNCHANGED <<agg, central, inCentral, received, sent>>
  BY DEF IInv, Pull
<1>2. /\ scratch \in [Vertices -> Nat] /\ from \in Cores
      /\ fifo[from] # <<>>
      /\ ctl \in [op : {"idle", "pull", "distribute"}, core : Cores, from : Cores]
  BY <1>1 DEF IInv, TypeOK, PullGoesOn, PullsOn
<1>3. /\ head \in Task /\ bits \in [Cores -> SUBSET Vertices]
      /\ overflow \in [Cores -> Seq(Task)] /\ Truthful(bits, overflow)
  BY <1>2, PullIsTruthful
<1>4. task \in Task
  BY <1>2, <1>3 DEF Task
<1> HIDE DEF head, task, bits, overflow
<1>5. PICK t \in Task : Reads(task, TRUE, scratch, t) /\ Stored(c, t, bits, overflow)
  BY <1>1, <1>2, <1>3, <1>4, InsertStores
<1>6. QueuesOK' /\ scratch' \in [Vertices -> Nat]
  BY <1>1, <1>2, <1>3, <1>4, <1>5, StoredKeeps, ReadsTypes
<1>7. ctl' \in [op : {"idle", "pull", "distribute"}, core : Cores, from : Cores] /\ PullGoesOn'
  BY <1>1, <1>2, CtlTypes DEF PullGoesOn
<1>8. /\ agg' \in [Cores -> Seq(Task)] /\ received' \in [Vertices -> Nat]
      /\ sent' \in [Vertices -> Nat] /\ central' \in Seq(Task)
      /\ inCentral' \in SUBSET Vertices
  BY <1>1 DEF TypeOK
<1>9. QED
  BY <1>1, <1>6, <1>7, <1>8, FromParts

LEMMA StealKeeps ==
  ASSUME IInv, NEW c \in Cores, Steal(c)
  PROVE  IInv'
<1>1. /\ TypeOK /\ build' = build /\ UNCHANGED coreVars
      /\ PullsOn(fifo[PullSource(c)], remaining[c])
      /\ ctl' = Pulling(c, PullSource(c))
      /\ UNCHANGED <<scratch, agg, central, inCentral, received, sent>>
  BY DEF IInv, Steal
<1>2. ctl' \in [op : {"idle", "pull", "distribute"}, core : Cores, from : Cores] /\ PullGoesOn'
  BY <1>1, CtlTypes DEF PullGoesOn, coreVars
<1>3. /\ agg' \in [Cores -> Seq(Task)] /\ received' \in [Vertices -> Nat]
      /\ sent' \in [Vertices -> Nat] /\ central' \in Seq(Task)
      /\ inCentral' \in SUBSET Vertices /\ scratch' \in [Vertices -> Nat]
  BY <1>1 DEF TypeOK
<1>4. QED
  BY <1>1, <1>2, <1>3, QueuesStay, FromParts

LEMMA DispatchKeeps ==
  ASSUME IInv, NEW c \in Cores, Dispatch(c)
  PROVE  IInv'
<1> DEFINE task == Head(tq[c])
           v == task.vid
<1>1. /\ TypeOK /\ RoomExact /\ BitsUnused /\ Truthful(present, fifo)
      /\ build' = build /\ ctl = Idle /\ tq[c] # <<>>
      /\ sent' = [sent EXCEPT ![v] = IF IsPr THEN @ + task.dist ELSE scratch[v]]
      /\ present' = BitsAfterIssue(c, v)
      /\ tq' = [tq EXCEPT ![c] = Tail(@)]
      /\ remaining' = [remaining EXCEPT ![c] = remaining[c] + 1]
      /\ ctl' = IF CanPullFromOverflow(c) /\ PullsOn(fifo[PullSource(c)], remaining[c] + 1)
                THEN Pulling(c, PullSource(c)) ELSE Idle
      /\ UNCHANGED <<scratch, agg, central, inCentral, fifo, received>>
  BY PresentIsTruthful DEF IInv, Dispatch
<1>2. /\ tq \in [Cores -> Seq(Task)] /\ remaining \in [Cores -> Nat]
      /\ present \in [Cores -> SUBSET Vertices] /\ scratch \in [Vertices -> Nat]
      /\ sent \in [Vertices -> Nat]
  BY <1>1 DEF TypeOK
<1>3. /\ task \in Task /\ Tail(tq[c]) \in Seq(Task)
      /\ Len(Tail(tq[c])) = Len(tq[c]) - 1 /\ Len(tq[c]) \in Nat
      /\ VidsOf(tq[c]) = VidsOf(Tail(tq[c])) \cup {v}
  BY <1>1, <1>2, VidsOfTail
<1>4. v \in Vertices /\ task.dist \in Nat
  BY <1>3 DEF Task
<1> HIDE DEF task, v
<1>5. /\ tq' \in [Cores -> Seq(Task)] /\ tq'[c] = Tail(tq[c])
      /\ \A d \in Cores : d # c => tq'[d] = tq[d]
  BY <1>1, <1>2, <1>3
<1>6. /\ remaining' \in [Cores -> Nat] /\ remaining'[c] = remaining[c] + 1
      /\ \A d \in Cores : d # c => remaining'[d] = remaining[d]
  BY <1>1, <1>2
<1>7. RoomExact'
  <2>1. \A m, n \in Nat : (m + 1) + (n - 1) = m + n
    OBVIOUS
  <2>2. remaining'[c] + Len(tq'[c]) = remaining[c] + Len(tq[c])
    BY <1>2, <1>3, <1>5, <1>6, <2>1
  <2>3. ASSUME NEW d \in Cores PROVE remaining'[d] + Len(tq'[d]) = TASK_QUEUE_SIZE
    BY <1>1, <1>5, <1>6, <2>2 DEF RoomExact
  <2>4. QED
    BY <2>3 DEF RoomExact
<1>8. /\ present' \in [Cores -> SUBSET Vertices]
      /\ present'[c] \subseteq present[c]
      /\ build.ENTRY_ABORT => present'[c] = present[c] \ {v}
      /\ \A d \in Cores : d # c => present'[d] = present[d]
  <2>1. CASE build.ENTRY_ABORT
    BY <1>1, <1>2, <2>1 DEF BitsAfterIssue
  <2>2. CASE ~build.ENTRY_ABORT
    BY <1>1, <1>2, <2>2 DEF BitsAfterIssue
  <2>3. QED
    BY <2>1, <2>2
<1>9. BitsUnused'
  <2>1. ASSUME ~build.ENTRY_ABORT, NEW d \in Cores PROVE present'[d] = {}
    <3>1. present[d] = {}
      BY <1>1, <2>1 DEF BitsUnused
    <3>2. QED
      BY <1>8, <3>1
  <2>2. QED
    BY <1>1, <2>1 DEF BitsUnused
<1>10. BitsOfOwnQueue'
  <2>1. ASSUME NEW d \in Cores PROVE present'[d] \subseteq VidsOf(tq'[d]) \cup VidsOf(fifo[d])
    <3>1. CASE d = c
      BY <1>1, <1>3, <1>5, <1>8, <3>1 DEF Truthful
    <3>2. CASE d # c
      BY <1>1, <1>5, <1>8, <3>2 DEF Truthful
    <3>3. QED
      BY <3>1, <3>2
  <2>2. QED
    BY <1>1, <2>1 DEF BitsOfOwnQueue, QueuedAt, VidsOf
<1>11. QueuesOK'
  BY <1>1, <1>5, <1>6, <1>7, <1>8, <1>9, <1>10 DEF QueuesOK, TypeOK
<1>12. ctl' \in [op : {"idle", "pull", "distribute"}, core : Cores, from : Cores] /\ PullGoesOn'
  <2>1. CASE ctl' = Idle
    BY <2>1, CtlTypes DEF PullGoesOn
  <2>2. CASE ctl' = Pulling(c, PullSource(c)) /\ PullsOn(fifo[PullSource(c)], remaining[c] + 1)
    BY <1>1, <1>6, <2>2, CtlTypes DEF PullGoesOn
  <2>3. QED
    BY <1>1, <2>1, <2>2
<1>13. sent' \in [Vertices -> Nat]
  <2>1. (IF IsPr THEN sent[v] + task.dist ELSE scratch[v]) \in Nat
    BY <1>2, <1>4
  <2>2. QED
    BY <1>1, <1>2, <1>4, <2>1
<1>14. /\ agg' \in [Cores -> Seq(Task)] /\ received' \in [Vertices -> Nat]
       /\ central' \in Seq(Task)
       /\ inCentral' \in SUBSET Vertices /\ scratch' \in [Vertices -> Nat]
  BY <1>1 DEF TypeOK
<1>15. QED
  BY <1>1, <1>11, <1>12, <1>13, <1>14, FromParts

LEMMA InitIInv == Init => IInv
<1> SUFFICES ASSUME Init PROVE IInv
  OBVIOUS
<1>1. /\ 0 \in Cores /\ MaxDist \in Nat /\ TASK_QUEUE_SIZE \in Nat \ {0}
      /\ Source \in Vertices
  BY SizesAssumption, MappingAssumption DEF Cores
<1>2. /\ FirstTasks(build) \in Seq(Task) /\ Len(FirstTasks(build)) \in 0 .. 1
      /\ FirstBits(build) \in SUBSET Vertices
      /\ FirstBits(build) \subseteq VidsOf(FirstTasks(build))
      /\ ~build.ENTRY_ABORT => FirstBits(build) = {}
  <2>1. [vid |-> Source, dist |-> 0] \in Task
    BY <1>1 DEF Task
  <2>2. CASE build.alg = "min"
    <3>1. FirstTasks(build) = <<[vid |-> Source, dist |-> 0]>>
      BY <2>2 DEF FirstTasks
    <3>2. VidsOf(FirstTasks(build)) = {Source}
      BY <3>1 DEF VidsOf
    <3>3. QED
      BY <1>1, <2>1, <3>1, <3>2 DEF FirstBits
  <2>3. CASE build.alg # "min"
    BY <2>3 DEF FirstTasks, FirstBits
  <2>4. QED
    BY <2>2, <2>3
<1> DEFINE first == IF build.WORK_STEALING THEN FirstTasks(build) ELSE <<>>
           bits == IF build.WORK_STEALING THEN FirstBits(build) ELSE {}
<1>3. /\ first \in Seq(Task) /\ Len(first) \in 0 .. 1 /\ bits \in SUBSET Vertices
      /\ bits \subseteq VidsOf(first) /\ (~build.ENTRY_ABORT => bits = {})
  BY <1>2
<1>4. /\ tq = [c \in Cores |-> IF c = 0 THEN first ELSE <<>>]
      /\ remaining = [c \in Cores |-> TASK_QUEUE_SIZE - Len(tq[c])]
      /\ present = [c \in Cores |-> IF c = 0 THEN bits ELSE {}]
  BY DEF Init
<1> HIDE DEF first, bits
<1>5. tq \in [Cores -> Seq(Task)] /\ \A c \in Cores : Len(tq[c]) \in 0 .. 1
  BY <1>3, <1>4
<1>6. remaining \in [Cores -> Nat] /\ RoomExact
  BY <1>1, <1>4, <1>5 DEF RoomExact
<1>7. present \in [Cores -> SUBSET Vertices] /\ BitsUnused /\ BitsOfOwnQueue
  <2>1. \A c \in Cores : present[c] \subseteq VidsOf(tq[c])
    BY <1>3, <1>4
  <2>2. QED
    BY <1>3, <1>4, <2>1 DEF BitsUnused, BitsOfOwnQueue, QueuedAt
<1>8. /\ build \in Builds /\ scratch \in [Vertices -> Nat]
      /\ agg \in [Cores -> Seq(Task)] /\ central \in Seq(Task)
      /\ inCentral \in SUBSET Vertices /\ fifo \in [Cores -> Seq(Task)]
      /\ received \in [Vertices -> Nat] /\ sent \in [Vertices -> Nat]
  BY <1>1, <1>2 DEF Init
<1>9. ctl = Idle
  BY DEF Init
<1>10. QED
  BY <1>5, <1>6, <1>7, <1>8, <1>9, CtlTypes DEF IInv, TypeOK, PullGoesOn

LEMMA StepIInv == IInv /\ [Next]_vars => IInv'
<1> SUFFICES ASSUME IInv, [Next]_vars PROVE IInv'
  OBVIOUS
<1>1. CASE UNCHANGED vars
  <2>1. /\ QueuesOK' /\ UNCHANGED coreVars /\ build' = build
        /\ UNCHANGED <<scratch, agg, central, inCentral, ctl, received, sent>>
    BY <1>1, QueuesStay DEF vars
  <2>2. PullGoesOn'
    BY <2>1 DEF IInv, PullGoesOn, coreVars
  <2>3. QED
    BY <2>1, <2>2, FromParts DEF IInv, TypeOK
<1>2. ASSUME NEW v \in Vertices, NEW d \in 0 .. Max({MaxDist, Epsilon}), Serve(v, d)
      PROVE  IInv'
  <2>1. d \in Nat /\ Update(v, d)
    BY <1>2, SizesAssumption DEF Serve
  <2>2. QED
    BY <2>1, UpdateKeeps
<1>3. CASE Distribute
  BY <1>3, DistributeKeeps
<1>4. ASSUME NEW c \in Cores, Drain(c) \/ Pull(c) \/ Steal(c) \/ Dispatch(c) PROVE IInv'
  BY <1>4, DrainKeeps, PullKeeps, StealKeeps, DispatchKeeps
<1>5. QED
  BY <1>1, <1>2, <1>3, <1>4 DEF Next

\* The invariant holds in every state.
THEOREM Invariance == Spec => []IInv
BY InitIInv, StepIInv, PTL DEF Spec

\* Every state keeps its types.
THEOREM TypeCorrect == Spec => []TypeOK
<1>1. IInv => TypeOK
  BY DEF IInv
<1>2. QED
  BY <1>1, Invariance, PTL

\* A core's presence bits stand for tasks in that very core's queues, although
\* DYN_LOAD_BAL moves tasks between cores (insert_local_task,
\* pull_tasks_from_fifo_to_tq).
THEOREM BitsAreOwn == Spec => []BitsOfOwnQueue
<1>1. IInv => BitsOfOwnQueue
  BY DEF IInv
<1>2. QED
  BY <1>1, Invariance, PTL

(***************************************************************************)
(* No improved value is lost.                                              *)
(***************************************************************************)

\* insert_global_task asks for the bit that the reduction has just set: with a
\* central queue, ENTRY_ABORT would drop every task.  These are the builds that
\* have one of the two.
KeepsTasks(b) == b.WORK_STEALING \/ ~b.ENTRY_ABORT

\* Where a vertex waits, now and next.
LEMMA WaitingWhere ==
  /\ \A u : Waiting(u) <=>
       \/ u \in VidsOf(central)
       \/ \E d \in Cores : u \in VidsOf(agg[d]) \cup (VidsOf(tq[d]) \cup VidsOf(fifo[d]))
  /\ \A u : Waiting(u)' <=>
       \/ u \in VidsOf(central')
       \/ \E d \in Cores : u \in VidsOf(agg'[d]) \cup (VidsOf(tq'[d]) \cup VidsOf(fifo'[d]))
BY DEF Waiting, QueuedAt, VidsOf

\* A vertex goes on waiting if no queue loses it.
LEMMA WaitingGrows ==
  ASSUME VidsOf(central) \subseteq VidsOf(central'),
         \A d \in Cores : VidsOf(agg[d]) \subseteq VidsOf(agg'[d]),
         \A d \in Cores : VidsOf(tq[d]) \cup VidsOf(fifo[d])
                            \subseteq VidsOf(tq'[d]) \cup VidsOf(fifo'[d])
  PROVE  \A v : Waiting(v) => Waiting(v)'
BY DEF Waiting, QueuedAt, VidsOf

\* Only improved values and issued tasks change what is to be shown.
LEMMA StaysLossless ==
  ASSUME ~IsPr, NoValueLost, build' = build, sent' = sent,
         \A v \in Vertices : \/ Waiting(v)'
                             \/ scratch'[v] = scratch[v] /\ (Waiting(v) => Waiting(v)')
  PROVE  NoValueLost'
<1>1. ASSUME NEW v \in Vertices, sent'[v] > scratch'[v] PROVE Waiting(v)'
  BY <1>1 DEF NoValueLost
<1>2. QED
  BY <1>1 DEF NoValueLost

LEMMA UpdateLossless ==
  ASSUME IInv, ~IsPr, KeepsTasks(build), NoValueLost,
         NEW v \in Vertices, NEW d \in Nat, Update(v, d)
  PROVE  NoValueLost'
<1> DEFINE values == [scratch EXCEPT ![v] = Reduce(@, d)]
           bits == inCentral \cup {v}
           task == [vid |-> v, dist |-> d]
<1>1. TypeOK /\ build' = build /\ sent' = sent
  BY DEF IInv, Update
<1>2. scratch[v] \in Nat /\ agg \in [Cores -> Seq(Task)] /\ scratch \in [Vertices -> Nat]
  BY <1>1 DEF TypeOK
<1>3. Reduce(scratch[v], d) = IF scratch[v] <= d THEN scratch[v] ELSE d
  BY <1>2, MinOfTwo DEF Reduce
<1>4. /\ values \in [Vertices -> Nat] /\ bits \in SUBSET Vertices
      /\ task \in Task /\ task.vid = v
      /\ \A u \in Vertices \ {v} : values[u] = scratch[u]
      /\ ~(d < scratch[v]) => values = scratch
  BY <1>1, <1>2, <1>3 DEF TypeOK, Task
<1> HIDE DEF values, bits, task
<1>5. CASE /\ ~ShouldSpawnTask(scratch[v], d) /\ scratch' = values
           /\ UNCHANGED <<agg, central, coreVars>>
  <2>1. scratch' = scratch
    BY <1>4, <1>5 DEF ShouldSpawnTask
  <2>2. \A u : Waiting(u) => Waiting(u)'
    BY <1>5, WaitingGrows DEF coreVars
  <2>3. QED
    BY <1>1, <2>1, <2>2, StaysLossless, Zenon
<1>6. CASE /\ agg' = [agg EXCEPT ![Owner[task.vid]] = Append(@, task)]
           /\ scratch' = values /\ UNCHANGED <<central, coreVars>>
  <2> DEFINE c == Owner[v]
  <2>1. c \in Cores
    BY MappingAssumption
  <2>2. /\ VidsOf(agg'[c]) = VidsOf(agg[c]) \cup {v}
        /\ \A e \in Cores \ {c} : agg'[e] = agg[e]
    BY <1>2, <1>4, <1>6, <2>1, VidsOfAppend
  <2>3. \A u : Waiting(u) => Waiting(u)'
    BY <1>6, <2>2, WaitingGrows DEF coreVars
  <2>4. Waiting(v)'
    BY <2>1, <2>2 DEF Waiting, VidsOf
  <2>5. ASSUME NEW u \in Vertices
        PROVE  \/ Waiting(u)'
               \/ scratch'[u] = scratch[u] /\ (Waiting(u) => Waiting(u)')
    <3>1. CASE u = v
      BY <2>4, <3>1
    <3>2. CASE u # v
      BY <1>4, <1>6, <2>3, <3>2
    <3>3. QED
      BY <3>1, <3>2
  <2>6. QED
    BY <1>1, <2>5, StaysLossless
<1>7. CASE InsertNewTask(task, values, bits) /\ UNCHANGED agg
  <2>1. /\ VidsOf(central) \subseteq VidsOf(central')
        /\ \A e \in Cores : VidsOf(tq[e]) \cup VidsOf(fifo[e])
                              \subseteq VidsOf(tq'[e]) \cup VidsOf(fifo'[e])
        /\ scratch' = values
        /\ \/ v \in VidsOf(central')
           \/ \E e \in Cores : v \in VidsOf(tq'[e]) \cup VidsOf(fifo'[e])
    BY <1>1, <1>4, <1>7, InsertNewKeeps DEF KeepsTasks
  <2>2. \A u : Waiting(u) => Waiting(u)'
    BY <1>7, <2>1, WaitingGrows
  <2>3. Waiting(v)'
    BY <2>1 DEF Waiting, QueuedAt, VidsOf
  <2>4. ASSUME NEW u \in Vertices
        PROVE  \/ Waiting(u)'
               \/ scratch'[u] = scratch[u] /\ (Waiting(u) => Waiting(u)')
    <3>1. CASE u = v
      BY <2>3, <3>1
    <3>2. CASE u # v
      BY <1>4, <2>1, <2>2, <3>2
    <3>3. QED
      BY <3>1, <3>2
  <2>5. QED
    BY <1>1, <2>4, StaysLossless
<1>8. QED
  BY <1>5, <1>6, <1>7 DEF Update, push_live_task, values, bits, task

LEMMA DrainLossless ==
  ASSUME IInv, ~IsPr, KeepsTasks(build), NoValueLost, NEW c \in Cores, Drain(c)
  PROVE  NoValueLost'
<1> DEFINE task == Head(agg[c])
<1>1. /\ TypeOK /\ build' = build /\ sent' = sent
      /\ agg[c] # <<>> /\ agg' = [agg EXCEPT ![c] = Tail(@)]
      /\ InsertNewTask(task, scratch, inCentral)
      /\ agg \in [Cores -> Seq(Task)] /\ scratch \in [Vertices -> Nat]
      /\ inCentral \in SUBSET Vertices
  BY DEF IInv, Drain, TypeOK
<1>2. task \in Task /\ VidsOf(agg[c]) = VidsOf(Tail(agg[c])) \cup {task.vid}
  BY <1>1, VidsOfTail
<1>3. \A e \in Cores : VidsOf(agg[e]) \subseteq VidsOf(agg'[e]) \cup {task.vid}
  BY <1>1, <1>2
<1> HIDE DEF task
<1>w. PICK w : w = task.vid
  OBVIOUS
<1>4. /\ VidsOf(central) \subseteq VidsOf(central')
      /\ \A e \in Cores : VidsOf(tq[e]) \cup VidsOf(fifo[e])
                            \subseteq VidsOf(tq'[e]) \cup VidsOf(fifo'[e])
      /\ scratch' = scratch
      /\ \/ task.vid \in VidsOf(central')
         \/ \E e \in Cores : task.vid \in VidsOf(tq'[e]) \cup VidsOf(fifo'[e])
  BY <1>1, <1>2, InsertNewKeeps DEF KeepsTasks
<1>5. Waiting(w)'
  BY <1>w, <1>4 DEF Waiting, QueuedAt, VidsOf
<1>6. \A u : u # w /\ Waiting(u) => Waiting(u)'
  BY <1>w, <1>3, <1>4, WaitingWhere
<1>7. QED
  BY <1>1, <1>4, <1>5, <1>6, StaysLossless

LEMMA DistributeLossless ==
  ASSUME IInv, ~IsPr, NoValueLost, Distribute
  PROVE  NoValueLost'
<1> DEFINE task == AtDistribution(Head(central))
<1>1. /\ TypeOK /\ build' = build /\ sent' = sent
      /\ central # <<>> /\ central' = Tail(central) /\ agg' = agg
      /\ central \in Seq(Task) /\ scratch \in [Vertices -> Nat]
      /\ present \in [Cores -> SUBSET Vertices] /\ fifo \in [Cores -> Seq(Task)]
  BY DEF IInv, Distribute, TypeOK
<1>2. PICK c \in AssignedCores(task.vid) :
        InsertLocalTask(c, task, FALSE, scratch, present, fifo)
  BY DEF Distribute
<1>3. /\ Head(central) \in Task
      /\ VidsOf(central) = VidsOf(Tail(central)) \cup {Head(central).vid}
  BY <1>1, VidsOfTail
<1>4. task \in Task /\ task.vid = Head(central).vid
  BY <1>1, <1>3 DEF AtDistribution, Task
<1>5. c \in Cores
  BY <1>4, MappingAssumption DEF AssignedCores, Task
<1> HIDE DEF task
<1>w. PICK w : w = task.vid
  OBVIOUS
<1>6. PICK t \in Task : Reads(task, FALSE, scratch, t) /\ Stored(c, t, present, fifo)
  BY <1>1, <1>2, <1>4, <1>5, InsertStores
<1>7. t.vid = task.vid /\ scratch' = scratch
  BY <1>6 DEF Reads, ReadsResidual
<1>8. Truthful(present, fifo)
  BY PresentIsTruthful
<1>9. /\ \A d \in Cores : VidsOf(tq[d]) \cup VidsOf(fifo[d])
                            \subseteq VidsOf(tq'[d]) \cup VidsOf(fifo'[d])
      /\ t.vid \in VidsOf(tq'[c]) \cup VidsOf(fifo'[c])
  BY <1>1, <1>5, <1>6, <1>8, StoredQueues
<1>10. Waiting(w)'
  BY <1>w, <1>5, <1>7, <1>9 DEF Waiting, QueuedAt, VidsOf
<1>11. \A u : u # w /\ Waiting(u) => Waiting(u)'
  BY <1>w, <1>1, <1>3, <1>4, <1>9, WaitingWhere
<1>12. QED
  BY <1>1, <1>7, <1>10, <1>11, StaysLossless

LEMMA PullLossless ==
  ASSUME IInv, ~IsPr, NoValueLost, NEW c \in Cores, Pull(c)
  PROVE  NoValueLost'
<1> DEFINE from == ctl.from
           head == Head(fifo[from])
           task == IF IsPr THEN head ELSE [head EXCEPT !.dist = scratch[head.vid]]
           bits == PullBits(c, from, head.vid)
           overflow == [fifo EXCEPT ![from] = Tail(@)]
<1>1. /\ TypeOK /\ build' = build /\ ctl.op = "pull" /\ sent' = sent
      /\ InsertLocalTask(c, task, TRUE, scratch, bits, overflow)
      /\ agg' = agg /\ central' = central
  BY DEF IInv, Pull
<1>2. scratch \in [Vertices -> Nat] /\ from \in Cores /\ fifo[from] # <<>>
  BY <1>1 DEF IInv, TypeOK, PullGoesOn, PullsOn
<1>3. /\ head \in Task /\ bits \in [Cores -> SUBSET Vertices]
      /\ overflow \in [Cores -> Seq(Task)] /\ Truthful(bits, overflow)
      /\ \A d \in Cores : VidsOf(fifo[d]) \subseteq VidsOf(overflow[d]) \cup {head.vid}
  BY <1>2, PullIsTruthful
<1>4. task \in Task /\ task.vid = head.vid
  BY <1>2, <1>3 DEF Task
<1> HIDE DEF head, task, bits, overflow
<1>w. PICK w : w = head.vid
  OBVIOUS
<1>5. PICK t \in Task : Reads(task, TRUE, scratch, t) /\ Stored(c, t, bits, overflow)
  BY <1>1, <1>2, <1>3, <1>4, InsertStores
<1>6. t.vid = head.vid /\ scratch' = scratch
  BY <1>4, <1>5 DEF Reads, ReadsResidual
<1>7. /\ \A d \in Cores : VidsOf(tq[d]) \cup VidsOf(overflow[d])
                            \subseteq VidsOf(tq'[d]) \cup VidsOf(fifo'[d])
      /\ t.vid \in VidsOf(tq'[c]) \cup VidsOf(fifo'[c])
  BY <1>1, <1>3, <1>5, StoredQueues
<1>8. Waiting(w)'
  BY <1>w, <1>6, <1>7 DEF Waiting, QueuedAt, VidsOf
<1>9. \A u : u # w /\ Waiting(u) => Waiting(u)'
  <2>1. ASSUME NEW d \in Cores
        PROVE  VidsOf(tq[d]) \cup VidsOf(fifo[d])
                 \subseteq (VidsOf(tq'[d]) \cup VidsOf(fifo'[d])) \cup {w}
    BY <1>w, <1>3, <1>7
  <2>2. agg' = agg /\ central' = central
    BY <1>1
  <2>3. QED
    BY <2>1, <2>2, WaitingWhere
<1>10. QED
  BY <1>1, <1>6, <1>8, <1>9, StaysLossless

LEMMA DispatchLossless ==
  ASSUME IInv, ~IsPr, NoValueLost, NEW c \in Cores, Dispatch(c)
  PROVE  NoValueLost'
<1> DEFINE v == Head(tq[c]).vid
<1>1. /\ TypeOK /\ build' = build /\ tq[c] # <<>>
      /\ sent' = [sent EXCEPT ![v] = scratch[v]]
      /\ tq' = [tq EXCEPT ![c] = Tail(@)]
      /\ UNCHANGED <<scratch, agg, central, fifo>>
  BY DEF IInv, Dispatch
<1>2. /\ tq \in [Cores -> Seq(Task)] /\ scratch \in [Vertices -> Nat]
      /\ sent \in [Vertices -> Nat]
  BY <1>1 DEF TypeOK
<1>3. /\ Head(tq[c]) \in Task /\ VidsOf(tq[c]) = VidsOf(Tail(tq[c])) \cup {v}
  BY <1>1, <1>2, VidsOfTail
<1>4. v \in Vertices
  BY <1>3 DEF Task
<1> HIDE DEF v
<1>w. PICK w : w = v
  OBVIOUS
<1>5. \A d \in Cores : VidsOf(tq[d]) \subseteq VidsOf(tq'[d]) \cup {v}
  BY <1>1, <1>2, <1>3
<1>6. \A u : u # w /\ Waiting(u) => Waiting(u)'
  BY <1>w, <1>1, <1>5, WaitingWhere
<1>7. ASSUME NEW u \in Vertices, sent'[u] > scratch'[u] PROVE Waiting(u)'
  <2>1. sent'[v] = scratch[v] /\ scratch' = scratch /\ scratch[v] \in Nat
    BY <1>1, <1>2, <1>4
  <2>2. u # v /\ u # w
    BY <1>w, <1>7, <2>1
  <2>3. sent'[u] = sent[u]
    BY <1>1, <1>2, <1>4, <2>2
  <2>4. QED
    BY <1>6, <1>7, <2>1, <2>2, <2>3 DEF NoValueLost
<1>8. QED
  BY <1>7 DEF NoValueLost

LEMMA InitLossless == Init => NoValueLost
<1> SUFFICES ASSUME Init, ~IsPr, NEW v \in Vertices, sent[v] > scratch[v]
             PROVE  Waiting(v)
  BY DEF NoValueLost
<1>1. build \in Build
  BY BuildsAssumption DEF Init
<1>2. build.alg = "min"
  BY <1>1 DEF Build, IsPr
<1>3. v = Source
  <2>1. sent[v] = MaxDist /\ MaxDist \in Nat /\ (v # Source => scratch[v] = MaxDist)
    BY SizesAssumption DEF Init
  <2>2. QED
    BY <2>1
<1>4. FirstTasks(build) = <<[vid |-> Source, dist |-> 0]>>
  BY <1>2 DEF FirstTasks
<1>5. VidsOf(FirstTasks(build)) = {Source}
  BY <1>4 DEF VidsOf
<1>6. 0 \in Cores
  BY SizesAssumption DEF Cores
<1>7. CASE build.WORK_STEALING
  <2>1. tq[0] = FirstTasks(build)
    BY <1>6, <1>7 DEF Init
  <2>2. QED
    BY <1>3, <1>5, <1>6, <2>1 DEF Waiting, QueuedAt
<1>8. CASE ~build.WORK_STEALING
  <2>1. central = FirstTasks(build)
    BY <1>8 DEF Init
  <2>2. QED
    BY <1>3, <1>5, <2>1 DEF Waiting
<1>9. QED
  BY <1>7, <1>8

LEMMA StepLossless ==
  ASSUME \A b \in Builds : b.alg = "min" => KeepsTasks(b)
  PROVE  IInv /\ NoValueLost /\ [Next]_vars => NoValueLost'
<1> SUFFICES ASSUME IInv, NoValueLost, [Next]_vars PROVE NoValueLost'
  OBVIOUS
<1>1. build' = build
  BY DEF Next, vars, Serve, Update, Distribute, Drain, Pull, Steal, Dispatch
<1>2. CASE IsPr
  BY <1>1, <1>2 DEF NoValueLost, IsPr
<1>3. CASE ~IsPr
  <2>1. KeepsTasks(build)
    <3>1. build \in Builds /\ build \in Build
      BY BuildsAssumption DEF IInv, TypeOK
    <3>2. QED
      BY <1>3, <3>1 DEF Build, IsPr
  <2>2. CASE UNCHANGED vars
    BY <2>2 DEF vars, coreVars, NoValueLost, Waiting, QueuedAt, VidsOf, IsPr
  <2>3. ASSUME NEW v \in Vertices, NEW d \in 0 .. Max({MaxDist, Epsilon}), Serve(v, d)
        PROVE  NoValueLost'
    <3>1. d \in Nat /\ Update(v, d)
      BY <2>3, SizesAssumption DEF Serve
    <3>2. QED
      BY <1>3, <2>1, <3>1, UpdateLossless
  <2>4. CASE Distribute
    BY <1>3, <2>4, DistributeLossless
  <2>5. ASSUME NEW c \in Cores, Drain(c) \/ Pull(c) \/ Dispatch(c) PROVE NoValueLost'
    BY <1>3, <2>1, <2>5, DrainLossless, PullLossless, DispatchLossless
  <2>6. ASSUME NEW c \in Cores, Steal(c) PROVE NoValueLost'
    BY <2>6 DEF Steal, coreVars, NoValueLost, Waiting, QueuedAt, VidsOf, IsPr
  <2>7. QED
    BY <2>2, <2>3, <2>4, <2>5, <2>6 DEF Next
<1>4. QED
  BY <1>2, <1>3

\* An improved value of min that has not been issued has a task waiting in some
\* queue, whichever way tasks are handed out: through the central queue
\* (distribute_prio, distribute_lb), the aggregation buffers, or the overflow
\* queues that other cores take from (pull_tasks_from_fifo_to_tq).
THEOREM NoImprovementIsLost ==
  ASSUME \A b \in Builds : b.alg = "min" => KeepsTasks(b)
  PROVE  Spec => []NoValueLost
<1>1. Init => IInv /\ NoValueLost
  BY InitIInv, InitLossless
<1>2. IInv /\ NoValueLost /\ [Next]_vars => (IInv /\ NoValueLost)'
  BY StepIInv, StepLossless
<1>3. QED
  BY <1>1, <1>2, PTL DEF Spec

(***************************************************************************)
(* Sums.                                                                   *)
(***************************************************************************)

\* sum has the sums of the first i values of f.
Sums(f, n, sum) ==
  /\ sum \in [0 .. n -> Nat]
  /\ sum[0] = 0
  /\ \A i \in 1 .. n : sum[i] = sum[i - 1] + f[i]

\* Total is the last of them.
LEMMA TotalIsSum ==
  \A n \in Nat : \A f \in [1 .. n -> Nat] : \E sum : Sums(f, n, sum) /\ Total(f, n) = sum[n]
<1> SUFFICES ASSUME NEW n \in Nat, NEW f \in [1 .. n -> Nat]
             PROVE  \E sum : Sums(f, n, sum) /\ Total(f, n) = sum[n]
  OBVIOUS
<1> DEFINE step == [i \in 1 .. n |-> [x \in Nat |-> x + f[i]]]
           Body(g) == [i \in 0 .. n |-> IF i = 0 THEN 0 ELSE g[i - 1] + f[i]]
           sum == CHOOSE g : g = Body(g)
<1>1. step \in [1 .. n -> [Nat -> Nat]]
  OBVIOUS
<1>2. PICK g \in [0 .. n -> Nat] : Unfolds(g, n, 0, step)
  <2> HIDE DEF step
  <2> QED BY <1>1, RecursionExists
<1>3. g = Body(g)
  <2>1. ASSUME NEW i \in 0 .. n PROVE g[i] = IF i = 0 THEN 0 ELSE g[i - 1] + f[i]
    <3>1. CASE i = 0
      BY <1>2, <3>1 DEF Unfolds
    <3>2. CASE i # 0
      <4>1. i \in 1 .. n /\ i - 1 \in 0 .. n
        BY <3>2
      <4>2. g[i] = step[i][g[i - 1]] /\ g[i - 1] \in Nat
        BY <1>2, <4>1 DEF Unfolds
      <4>3. QED
        BY <3>2, <4>1, <4>2
    <3>3. QED
      BY <3>1, <3>2
  <2>2. QED
    BY <2>1
<1>4. sum = Body(sum)
  <2> HIDE DEF Body
  <2> QED BY <1>3
<1>5. Total(f, n) = sum[n]
  BY DEF Total
<1> HIDE DEF sum
<1>6. sum[0] = 0 /\ \A i \in 1 .. n : sum[i] = sum[i - 1] + f[i]
  <2>1. \A i \in 0 .. n : sum[i] = IF i = 0 THEN 0 ELSE sum[i - 1] + f[i]
    BY <1>4
  <2>2. 0 \in 0 .. n /\ \A i \in 1 .. n : i \in 0 .. n /\ i # 0
    OBVIOUS
  <2>3. QED
    BY <2>1, <2>2
<1>7. \A i \in 0 .. n : sum[i] \in Nat
  <2> DEFINE S == {i \in Nat : sum[i] \in Nat}
  <2>1. 0 \in S
    BY <1>6
  <2>2. ASSUME NEW i \in 0 .. n - 1, i \in S PROVE i + 1 \in S
    <3>1. i + 1 \in 1 .. n /\ (i + 1) - 1 = i
      OBVIOUS
    <3>2. sum[i + 1] = sum[i] + f[i + 1] /\ f[i + 1] \in Nat
      BY <1>6, <3>1
    <3>3. QED
      BY <2>2, <3>2
  <2> HIDE DEF S
  <2>3. \A i \in 0 .. n : i \in S
    BY <2>1, <2>2, RangeInduction
  <2>4. QED
    BY <2>3 DEF S
<1>8. sum \in [0 .. n -> Nat]
  BY <1>4, <1>7
<1>9. QED
  BY <1>5, <1>6, <1>8 DEF Sums

\* One value of f more, at the end.
LEMMA TotalAppend ==
  \A n \in Nat : \A f \in [1 .. n + 1 -> Nat], g \in [1 .. n -> Nat] :
    (\A i \in 1 .. n : f[i] = g[i]) => Total(f, n + 1) = Total(g, n) + f[n + 1]
<1> SUFFICES ASSUME NEW n \in Nat, NEW f \in [1 .. n + 1 -> Nat],
                    NEW g \in [1 .. n -> Nat], \A i \in 1 .. n : f[i] = g[i]
             PROVE  Total(f, n + 1) = Total(g, n) + f[n + 1]
  OBVIOUS
<1>1. PICK s : Sums(f, n + 1, s) /\ Total(f, n + 1) = s[n + 1]
  BY TotalIsSum
<1>2. PICK t : Sums(g, n, t) /\ Total(g, n) = t[n]
  BY TotalIsSum
<1> DEFINE S == {i \in Nat : s[i] = t[i]}
<1>3. 0 \in S
  BY <1>1, <1>2 DEF Sums
<1>4. ASSUME NEW i \in 0 .. n - 1, i \in S PROVE i + 1 \in S
  <2>1. i + 1 \in 1 .. n /\ i + 1 \in 1 .. n + 1 /\ (i + 1) - 1 = i
    OBVIOUS
  <2>2. s[i + 1] = s[i] + f[i + 1] /\ t[i + 1] = t[i] + g[i + 1]
    BY <1>1, <1>2, <2>1 DEF Sums
  <2>3. QED
    BY <1>4, <2>1, <2>2
<1> HIDE DEF S
<1>5. \A i \in 0 .. n : i \in S
  BY <1>3, <1>4, RangeInduction
<1>6. s[n] = t[n]
  BY <1>5 DEF S
<1>7. n + 1 \in 1 .. n + 1 /\ (n + 1) - 1 = n
  OBVIOUS
<1>8. s[n + 1] = s[n] + f[n + 1]
  BY <1>1, <1>7 DEF Sums
<1>9. QED
  BY <1>1, <1>2, <1>6, <1>8

\* One value of f more, in front.
LEMMA TotalFront ==
  \A n \in Nat : \A f \in [1 .. n + 1 -> Nat], g \in [1 .. n -> Nat] :
    (\A i \in 1 .. n : f[i + 1] = g[i]) => Total(f, n + 1) = f[1] + Total(g, n)
<1> SUFFICES ASSUME NEW n \in Nat, NEW f \in [1 .. n + 1 -> Nat],
                    NEW g \in [1 .. n -> Nat], \A i \in 1 .. n : f[i + 1] = g[i]
             PROVE  Total(f, n + 1) = f[1] + Total(g, n)
  OBVIOUS
<1>1. PICK s : Sums(f, n + 1, s) /\ Total(f, n + 1) = s[n + 1]
  BY TotalIsSum
<1>2. PICK t : Sums(g, n, t) /\ Total(g, n) = t[n]
  BY TotalIsSum
<1>3. f[1] \in Nat /\ \A i \in 1 .. n : g[i] \in Nat
  OBVIOUS
<1> DEFINE S == {i \in Nat : s[i + 1] = f[1] + t[i]}
<1>4. 0 \in S
  <2>1. 1 \in 1 .. n + 1 /\ 1 - 1 = 0 /\ 0 + 1 = 1
    OBVIOUS
  <2>2. s[1] = s[0] + f[1] /\ s[0] = 0 /\ t[0] = 0
    BY <1>1, <1>2, <2>1 DEF Sums
  <2>3. QED
    BY <1>3, <2>2
<1>5. ASSUME NEW i \in 0 .. n - 1, i \in S PROVE i + 1 \in S
  <2>1. /\ i + 1 \in 1 .. n /\ (i + 1) + 1 \in 1 .. n + 1 /\ (i + 1) - 1 = i
        /\ ((i + 1) + 1) - 1 = i + 1 /\ i \in 0 .. n
    OBVIOUS
  <2>2. /\ s[(i + 1) + 1] = s[i + 1] + f[(i + 1) + 1]
        /\ t[i + 1] = t[i] + g[i + 1] /\ t[i] \in Nat
    BY <1>1, <1>2, <2>1 DEF Sums
  <2>3. f[(i + 1) + 1] = g[i + 1] /\ g[i + 1] \in Nat
    BY <2>1
  <2>4. s[i + 1] = f[1] + t[i]
    BY <1>5
  <2>5. \A a, b, c \in Nat : (a + b) + c = a + (b + c)
    OBVIOUS
  <2>6. s[(i + 1) + 1] = f[1] + t[i + 1]
    BY <1>3, <2>2, <2>3, <2>4, <2>5
  <2>7. QED
    BY <2>6
<1> HIDE DEF S
<1>6. \A i \in 0 .. n : i \in S
  BY <1>4, <1>5, RangeInduction
<1>7. QED
  BY <1>1, <1>2, <1>6 DEF S

\* One value of f changes.
LEMMA TotalMoves ==
  \A n \in Nat : \A f \in [1 .. n -> Nat], g \in [1 .. n -> Nat], k \in 1 .. n :
    (\A i \in 1 .. n : i # k => g[i] = f[i]) => Total(g, n) + f[k] = Total(f, n) + g[k]
<1> SUFFICES ASSUME NEW n \in Nat, NEW f \in [1 .. n -> Nat], NEW g \in [1 .. n -> Nat],
                    NEW k \in 1 .. n, \A i \in 1 .. n : i # k => g[i] = f[i]
             PROVE  Total(g, n) + f[k] = Total(f, n) + g[k]
  OBVIOUS
<1>1. PICK s : Sums(f, n, s) /\ Total(f, n) = s[n]
  BY TotalIsSum
<1>2. PICK t : Sums(g, n, t) /\ Total(g, n) = t[n]
  BY TotalIsSum
<1> DEFINE S == {i \in Nat : IF i < k THEN t[i] = s[i] ELSE t[i] + f[k] = s[i] + g[k]}
<1>3. 0 \in S
  BY <1>1, <1>2 DEF Sums
<1>4. ASSUME NEW i \in 0 .. n - 1, i \in S PROVE i + 1 \in S
  <2>1. i + 1 \in 1 .. n /\ (i + 1) - 1 = i /\ i \in 0 .. n
    OBVIOUS
  <2>2. /\ s[i + 1] = s[i] + f[i + 1] /\ t[i + 1] = t[i] + g[i + 1]
        /\ s[i] \in Nat /\ t[i] \in Nat
    BY <1>1, <1>2, <2>1 DEF Sums
  <2>3. f[i + 1] \in Nat /\ g[i + 1] \in Nat /\ f[k] \in Nat /\ g[k] \in Nat
    BY <2>1
  <2>4. CASE i + 1 < k
    <3>1. t[i] = s[i] /\ g[i + 1] = f[i + 1]
      BY <1>4, <2>1, <2>4
    <3>2. QED
      BY <2>2, <2>4, <3>1
  <2>5. CASE i + 1 = k
    <3>1. t[i] = s[i]
      BY <1>4, <2>5
    <3>2. \A a, b, c \in Nat : (a + b) + c = (a + c) + b
      OBVIOUS
    <3>3. s[i + 1] = s[i] + f[k] /\ t[i + 1] = s[i] + g[k]
      BY <2>2, <2>5, <3>1
    <3>4. t[i + 1] + f[k] = s[i + 1] + g[k]
      BY <2>2, <2>3, <3>2, <3>3
    <3>5. QED
      BY <2>5, <3>4
  <2>6. CASE i + 1 > k
    <3>1. t[i] + f[k] = s[i] + g[k] /\ g[i + 1] = f[i + 1] /\ ~(i + 1 < k)
      BY <1>4, <2>1, <2>6
    <3> DEFINE a == t[i]
               b == s[i]
               e == f[i + 1]
               x == f[k]
               y == g[k]
    <3>2. a \in Nat /\ b \in Nat /\ e \in Nat /\ x \in Nat /\ y \in Nat /\ a + x = b + y
      BY <2>2, <2>3, <3>1
    <3> HIDE DEF a, b, e, x, y
    <3>x. (a + e) + x = (b + e) + y
      BY <3>2
    <3>3. (t[i] + f[i + 1]) + f[k] = (s[i] + f[i + 1]) + g[k]
      BY <3>x DEF a, b, e, x, y
    <3>4. t[i + 1] + f[k] = s[i + 1] + g[k]
      BY <2>2, <3>1, <3>3
    <3>5. QED
      BY <3>1, <3>4
  <2>7. QED
    BY <2>4, <2>5, <2>6
<1> HIDE DEF S
<1>5. \A i \in 0 .. n : i \in S
  BY <1>3, <1>4, RangeInduction
<1>6. QED
  BY <1>1, <1>2, <1>5 DEF S

LEMMA TotalType == \A n \in Nat : \A f \in [1 .. n -> Nat] : Total(f, n) \in Nat
<1> SUFFICES ASSUME NEW n \in Nat, NEW f \in [1 .. n -> Nat] PROVE Total(f, n) \in Nat
  OBVIOUS
<1>1. PICK s : Sums(f, n, s) /\ Total(f, n) = s[n]
  BY TotalIsSum
<1>2. QED
  BY <1>1 DEF Sums

LEMMA TotalZero ==
  \A n \in Nat : \A f \in [1 .. n -> Nat] : (\A i \in 1 .. n : f[i] = 0) => Total(f, n) = 0
<1> SUFFICES ASSUME NEW n \in Nat, NEW f \in [1 .. n -> Nat], \A i \in 1 .. n : f[i] = 0
             PROVE  Total(f, n) = 0
  OBVIOUS
<1>1. PICK s : Sums(f, n, s) /\ Total(f, n) = s[n]
  BY TotalIsSum
<1> DEFINE S == {i \in Nat : s[i] = 0}
<1>2. 0 \in S
  BY <1>1 DEF Sums
<1>3. ASSUME NEW i \in 0 .. n - 1, i \in S PROVE i + 1 \in S
  <2>1. i + 1 \in 1 .. n /\ (i + 1) - 1 = i
    OBVIOUS
  <2>2. s[i + 1] = s[i] + f[i + 1] /\ f[i + 1] = 0 /\ s[i] = 0
    BY <1>1, <1>3, <2>1 DEF Sums
  <2>3. QED
    BY <2>2
<1> HIDE DEF S
<1>4. \A i \in 0 .. n : i \in S
  BY <1>2, <1>3, RangeInduction
<1>5. QED
  BY <1>1, <1>4 DEF S

(***************************************************************************)
(* Residual is neither lost nor doubled.                                   *)
(***************************************************************************)

\* The residual of v that a task carries, that is in the queues q and o of a
\* core, and in those of all cores.
Carries(t, v) == IF t.vid = v THEN t.dist ELSE 0
AtCore(q, o, v) == [n \in 1 .. NumCores |-> Mass(q[n - 1], v) + Mass(o[n - 1], v)]
MassOf(q, o, v) == Total(AtCore(q, o, v), NumCores)

LEMMA MassType == \A q \in Seq(Task), v \in Vertices : Mass(q, v) \in Nat
<1> SUFFICES ASSUME NEW q \in Seq(Task), NEW v \in Vertices PROVE Mass(q, v) \in Nat
  OBVIOUS
<1> DEFINE f == [i \in 1 .. Len(q) |-> IF q[i].vid = v THEN q[i].dist ELSE 0]
<1>1. Len(q) \in Nat /\ \A i \in 1 .. Len(q) : q[i].dist \in Nat
  <2>1. Len(q) \in Nat /\ \A i \in 1 .. Len(q) : q[i] \in Task
    OBVIOUS
  <2>2. \A u \in Task : u.dist \in Nat
    BY DEF Task
  <2>3. QED
    BY <2>1, <2>2
<1>2. f \in [1 .. Len(q) -> Nat]
  BY <1>1
<1> HIDE DEF f
<1>3. Total(f, Len(q)) \in Nat
  BY <1>1, <1>2, TotalType
<1>4. QED
  BY <1>3 DEF Mass, f

LEMMA MassOfAppend ==
  \A q \in Seq(Task), t \in Task, v \in Vertices :
    Mass(Append(q, t), v) = Mass(q, v) + Carries(t, v)
<1> SUFFICES ASSUME NEW q \in Seq(Task), NEW t \in Task, NEW v \in Vertices
             PROVE  Mass(Append(q, t), v) = Mass(q, v) + Carries(t, v)
  OBVIOUS
<1> DEFINE r == Append(q, t)
           n == Len(q)
           f == [i \in 1 .. n + 1 |-> IF r[i].vid = v THEN r[i].dist ELSE 0]
           g == [i \in 1 .. n |-> IF q[i].vid = v THEN q[i].dist ELSE 0]
<1>1. /\ n \in Nat /\ Len(r) = n + 1 /\ r[n + 1] = t /\ \A i \in 1 .. n : r[i] = q[i]
      /\ \A i \in 1 .. n : q[i] \in Task
  OBVIOUS
<1> HIDE DEF r, n
<1>2. \A u \in Task : u.dist \in Nat
  BY DEF Task
<1>3. \A i \in 1 .. n + 1 : r[i] \in Task
  BY <1>1
<1>4. f \in [1 .. n + 1 -> Nat] /\ g \in [1 .. n -> Nat]
  BY <1>1, <1>2, <1>3
<1>5. (\A i \in 1 .. n : f[i] = g[i]) /\ f[n + 1] = Carries(t, v)
  BY <1>1 DEF Carries
<1>6. Mass(r, v) = Total(f, n + 1) /\ Mass(q, v) = Total(g, n)
  BY <1>1 DEF Mass, n
<1> HIDE DEF f, g
<1>7. Total(f, n + 1) = Total(g, n) + f[n + 1]
  BY <1>1, <1>4, <1>5, TotalAppend
<1>8. QED
  BY <1>5, <1>6, <1>7 DEF r

LEMMA MassOfTail ==
  \A q \in Seq(Task), v \in Vertices :
    q # <<>> => Mass(q, v) = Carries(Head(q), v) + Mass(Tail(q), v)
<1> SUFFICES ASSUME NEW q \in Seq(Task), NEW v \in Vertices, q # <<>>
             PROVE  Mass(q, v) = Carries(Head(q), v) + Mass(Tail(q), v)
  OBVIOUS
<1> DEFINE r == Tail(q)
           n == Len(q) - 1
           f == [i \in 1 .. n + 1 |-> IF q[i].vid = v THEN q[i].dist ELSE 0]
           g == [i \in 1 .. n |-> IF r[i].vid = v THEN r[i].dist ELSE 0]
<1>1. /\ n \in Nat /\ Len(q) = n + 1 /\ Len(r) = n /\ q[1] = Head(q)
      /\ \A i \in 1 .. n : r[i] = q[i + 1]
      /\ \A i \in 1 .. n + 1 : q[i] \in Task
  OBVIOUS
<1> HIDE DEF r, n
<1>2. \A u \in Task : u.dist \in Nat
  BY DEF Task
<1>3. \A i \in 1 .. n : r[i] \in Task
  BY <1>1
<1>4. f \in [1 .. n + 1 -> Nat] /\ g \in [1 .. n -> Nat]
  BY <1>1, <1>2, <1>3
<1>5. \A i \in 1 .. n : f[i + 1] = g[i]
  BY <1>1
<1>6. f[1] = Carries(Head(q), v)
  BY <1>1 DEF Carries
<1>7. Mass(r, v) = Total(g, n) /\ Mass(q, v) = Total(f, n + 1)
  BY <1>1 DEF Mass
<1> HIDE DEF f, g
<1>8. Total(f, n + 1) = f[1] + Total(g, n)
  BY <1>1, <1>4, <1>5, TotalFront
<1>9. QED
  BY <1>6, <1>7, <1>8 DEF r

\* Changing the queues of core c, from q and o to q2 and o2.
Moves(q, o, q2, o2, c, v) ==
  MassOf(q2, o2, v) + (Mass(q[c], v) + Mass(o[c], v))
    = MassOf(q, o, v) + (Mass(q2[c], v) + Mass(o2[c], v))

LEMMA MassMoves ==
  ASSUME NEW q \in [Cores -> Seq(Task)], NEW o \in [Cores -> Seq(Task)],
         NEW q2 \in [Cores -> Seq(Task)], NEW o2 \in [Cores -> Seq(Task)],
         NEW c \in Cores, \A d \in Cores : d # c => q2[d] = q[d] /\ o2[d] = o[d],
         NEW v \in Vertices
  PROVE  Moves(q, o, q2, o2, c, v)
<1> DEFINE f == AtCore(q, o, v)
           g == AtCore(q2, o2, v)
           k == c + 1
<1>1. /\ NumCores \in Nat /\ k \in 1 .. NumCores /\ k - 1 = c
      /\ \A n \in 1 .. NumCores : n - 1 \in Cores /\ (n # k => n - 1 # c)
  BY SizesAssumption DEF Cores
<1>2. \A d \in Cores : /\ Mass(q[d], v) + Mass(o[d], v) \in Nat
                       /\ Mass(q2[d], v) + Mass(o2[d], v) \in Nat
  <2>1. ASSUME NEW d \in Cores
        PROVE  /\ Mass(q[d], v) + Mass(o[d], v) \in Nat
               /\ Mass(q2[d], v) + Mass(o2[d], v) \in Nat
    <3>1. q[d] \in Seq(Task) /\ o[d] \in Seq(Task) /\ q2[d] \in Seq(Task) /\ o2[d] \in Seq(Task)
      OBVIOUS
    <3>2. /\ Mass(q[d], v) \in Nat /\ Mass(o[d], v) \in Nat
          /\ Mass(q2[d], v) \in Nat /\ Mass(o2[d], v) \in Nat
      BY <3>1, MassType
    <3>3. QED
      BY <3>2
  <2>2. QED
    BY <2>1
<1>3. f \in [1 .. NumCores -> Nat] /\ g \in [1 .. NumCores -> Nat]
  BY <1>1, <1>2 DEF AtCore
<1>4. \A n \in 1 .. NumCores : n # k => g[n] = f[n]
  BY <1>1 DEF AtCore
<1>5. f[k] = Mass(q[c], v) + Mass(o[c], v) /\ g[k] = Mass(q2[c], v) + Mass(o2[c], v)
  BY <1>1 DEF AtCore
<1> HIDE DEF f, g, k
<1>6. Total(g, NumCores) + f[k] = Total(f, NumCores) + g[k]
  BY <1>1, <1>3, <1>4, TotalMoves
<1>7. QED
  BY <1>5, <1>6 DEF MassOf, Moves, f, g

LEMMA MassOfType ==
  \A q, o \in [Cores -> Seq(Task)], v \in Vertices : MassOf(q, o, v) \in Nat
<1> SUFFICES ASSUME NEW q \in [Cores -> Seq(Task)], NEW o \in [Cores -> Seq(Task)],
                    NEW v \in Vertices
             PROVE  MassOf(q, o, v) \in Nat
  OBVIOUS
<1>1. NumCores \in Nat /\ \A n \in 1 .. NumCores : n - 1 \in Cores
  BY SizesAssumption DEF Cores
<1>2. AtCore(q, o, v) \in [1 .. NumCores -> Nat]
  BY <1>1, MassType DEF AtCore
<1>3. QED
  BY <1>1, <1>2, TotalType DEF MassOf

\* A task joins one queue of a core.
LEMMA MassJoins ==
  ASSUME NEW q \in [Cores -> Seq(Task)], NEW o \in [Cores -> Seq(Task)],
         NEW c \in Cores, NEW t \in Task, NEW v \in Vertices
  PROVE  /\ MassOf([q EXCEPT ![c] = Append(@, t)], o, v) = MassOf(q, o, v) + Carries(t, v)
         /\ MassOf(q, [o EXCEPT ![c] = Append(@, t)], v) = MassOf(q, o, v) + Carries(t, v)
<1> DEFINE a == Mass(q[c], v)
           b == Mass(o[c], v)
           m == MassOf(q, o, v)
           x == Carries(t, v)
           q2 == [q EXCEPT ![c] = Append(@, t)]
           o2 == [o EXCEPT ![c] = Append(@, t)]
<1>1. a \in Nat /\ b \in Nat /\ m \in Nat /\ x \in Nat
  BY MassType, MassOfType DEF Carries, Task
<1>2. /\ q2 \in [Cores -> Seq(Task)] /\ o2 \in [Cores -> Seq(Task)]
      /\ q2[c] = Append(q[c], t) /\ o2[c] = Append(o[c], t)
      /\ \A d \in Cores : d # c => q2[d] = q[d] /\ o2[d] = o[d]
  OBVIOUS
<1>3. Mass(q2[c], v) = a + x /\ Mass(o2[c], v) = b + x
  BY <1>2, MassOfAppend
<1> HIDE DEF a, b, m, x, q2, o2
<1>4. MassOf(q2, o, v) \in Nat /\ MassOf(q, o2, v) \in Nat
  BY <1>2, MassOfType
<1>5. /\ MassOf(q2, o, v) + (a + b) = m + (Mass(q2[c], v) + b)
      /\ MassOf(q, o2, v) + (a + b) = m + (a + Mass(o2[c], v))
  <2>1. Moves(q, o, q2, o, c, v) /\ Moves(q, o, q, o2, c, v)
    BY <1>2, MassMoves
  <2>2. QED
    BY <2>1 DEF Moves, a, b, m
<1> DEFINE y == MassOf(q2, o, v)
           z == MassOf(q, o2, v)
<1>6. y \in Nat /\ z \in Nat /\ y + (a + b) = m + ((a + x) + b)
      /\ z + (a + b) = m + (a + (b + x))
  BY <1>3, <1>4, <1>5
<1> HIDE DEF y, z
<1>7. y = m + x /\ z = m + x
  BY <1>1, <1>6
<1>8. QED
  BY <1>7 DEF m, x, q2, o2, y, z

\* A task leaves one.
LEMMA MassLeaves ==
  ASSUME NEW q \in [Cores -> Seq(Task)], NEW o \in [Cores -> Seq(Task)],
         NEW c \in Cores, NEW v \in Vertices
  PROVE  /\ q[c] # <<>> => MassOf(q, o, v) =
              MassOf([q EXCEPT ![c] = Tail(@)], o, v) + Carries(Head(q[c]), v)
         /\ o[c] # <<>> => MassOf(q, o, v) =
              MassOf(q, [o EXCEPT ![c] = Tail(@)], v) + Carries(Head(o[c]), v)
<1> DEFINE a == Mass(q[c], v)
           b == Mass(o[c], v)
           m == MassOf(q, o, v)
           q2 == [q EXCEPT ![c] = Tail(@)]
           o2 == [o EXCEPT ![c] = Tail(@)]
<1>1. a \in Nat /\ b \in Nat /\ m \in Nat
  BY MassType, MassOfType
<1>2. ASSUME q[c] # <<>> PROVE m = MassOf(q2, o, v) + Carries(Head(q[c]), v)
  <2> DEFINE x == Carries(Head(q[c]), v)
             a2 == Mass(Tail(q[c]), v)
  <2>1. Tail(q[c]) \in Seq(Task) /\ Head(q[c]) \in Task
    BY <1>2, VidsOfTail
  <2>2. x \in Nat /\ a2 \in Nat
    BY <2>1, MassType DEF Carries, Task
  <2>3. q2 \in [Cores -> Seq(Task)] /\ q2[c] = Tail(q[c]) /\ \A d \in Cores : d # c => q2[d] = q[d]
    BY <2>1
  <2>4. a = x + a2
    BY <1>2, MassOfTail
  <2> HIDE DEF a, b, m, q2, x, a2
  <2>5. MassOf(q2, o, v) \in Nat
    BY <2>3, MassOfType
  <2>6. MassOf(q2, o, v) + (a + b) = m + (Mass(q2[c], v) + b)
    <3>1. Moves(q, o, q2, o, c, v)
      BY <2>3, MassMoves
    <3>2. QED
      BY <3>1 DEF Moves, a, b, m
  <2> DEFINE y == MassOf(q2, o, v)
  <2>7. y \in Nat /\ y + (a + b) = m + (a2 + b)
    BY <2>3, <2>5, <2>6 DEF a2
  <2> HIDE DEF y
  <2>8. m = y + x
    BY <1>1, <2>2, <2>4, <2>7
  <2>9. QED
    BY <2>8 DEF x, y
<1>3. ASSUME o[c] # <<>> PROVE m = MassOf(q, o2, v) + Carries(Head(o[c]), v)
  <2> DEFINE x == Carries(Head(o[c]), v)
             b2 == Mass(Tail(o[c]), v)
  <2>1. Tail(o[c]) \in Seq(Task) /\ Head(o[c]) \in Task
    BY <1>3, VidsOfTail
  <2>2. x \in Nat /\ b2 \in Nat
    BY <2>1, MassType DEF Carries, Task
  <2>3. o2 \in [Cores -> Seq(Task)] /\ o2[c] = Tail(o[c]) /\ \A d \in Cores : d # c => o2[d] = o[d]
    BY <2>1
  <2>4. b = x + b2
    BY <1>3, MassOfTail
  <2> HIDE DEF a, b, m, o2, x, b2
  <2>5. MassOf(q, o2, v) \in Nat
    BY <2>3, MassOfType
  <2>6. MassOf(q, o2, v) + (a + b) = m + (a + Mass(o2[c], v))
    <3>1. Moves(q, o, q, o2, c, v)
      BY <2>3, MassMoves
    <3>2. QED
      BY <3>1 DEF Moves, a, b, m
  <2> DEFINE y == MassOf(q, o2, v)
  <2>7. y \in Nat /\ y + (a + b) = m + (a + b2)
    BY <2>3, <2>5, <2>6 DEF b2
  <2> HIDE DEF y
  <2>8. m = y + x
    BY <1>1, <2>2, <2>4, <2>7
  <2>9. QED
    BY <2>8 DEF x, y
<1>4. QED
  BY <1>2, <1>3 DEF m

\* The definition of the property, in these terms.
LEMMA QueuedMassIs ==
  /\ \A v : QueuedMass(v) = MassOf(tq, fifo, v)
  /\ \A v : QueuedMass(v)' = MassOf(tq', fifo', v)
BY DEF QueuedMass, MassOf, AtCore, Mass, Total

\* What insert_local_task queues is added, nothing else changes.
LEMMA StoredMass ==
  ASSUME TypeOK, IsPr, ~build.ENTRY_ABORT, NEW c \in Cores, NEW t \in Task,
         NEW bits, NEW overflow \in [Cores -> Seq(Task)],
         Stored(c, t, bits, overflow), NEW v \in Vertices
  PROVE  MassOf(tq', fifo', v) = MassOf(tq, overflow, v) + Carries(t, v)
<1>1. tq \in [Cores -> Seq(Task)]
  BY DEF TypeOK
<1>2. MassOf(tq, overflow, v) \in Nat
  BY <1>1, MassOfType
<1>3. CASE t.dist = 0 /\ fifo' = overflow /\ tq' = tq
  <2>1. Carries(t, v) = 0
    BY <1>3 DEF Carries
  <2>2. QED
    BY <1>2, <1>3, <2>1
<1>4. CASE fifo' = [overflow EXCEPT ![c] = Append(@, t)] /\ tq' = tq
  BY <1>1, <1>4, MassJoins
<1>5. CASE tq' = [tq EXCEPT ![c] = Append(@, t)] /\ fifo' = overflow
  BY <1>1, <1>5, MassJoins
<1>6. QED
  BY <1>3, <1>4, <1>5 DEF Stored

\* Moving a residual into a task keeps the sum of both.
LEMMA ResidualMoves ==
  ASSUME IInv, IsPr, ~build.ENTRY_ABORT, NEW c \in Cores, NEW given \in Task,
         NEW values \in [Vertices -> Nat],
         InsertLocalTask(c, given, FALSE, values, present, fifo)
  PROVE  \A v \in Vertices :
           scratch'[v] + MassOf(tq', fifo', v) = values[v] + MassOf(tq, fifo, v)
<1>1. /\ TypeOK /\ present \in [Cores -> SUBSET Vertices]
      /\ fifo \in [Cores -> Seq(Task)] /\ tq \in [Cores -> Seq(Task)]
  BY DEF IInv, TypeOK
<1>2. PICK t \in Task : Reads(given, FALSE, values, t) /\ Stored(c, t, present, fifo)
  BY <1>1, InsertStores
<1>3. ASSUME NEW v \in Vertices
      PROVE  scratch'[v] + MassOf(tq', fifo', v) = values[v] + MassOf(tq, fifo, v)
  <2>1. MassOf(tq', fifo', v) = MassOf(tq, fifo, v) + Carries(t, v)
    BY <1>1, <1>2, StoredMass
  <2>2. /\ t.vid = given.vid /\ t.dist = values[t.vid] /\ t.vid \in Vertices
        /\ scratch' = [values EXCEPT ![t.vid] = 0]
    BY <1>2 DEF Reads, ReadsResidual, Task
  <2> DEFINE m == MassOf(tq, fifo, v)
  <2>3. m \in Nat
    BY <1>1, MassOfType
  <2> HIDE DEF m
  <2>4. values[v] \in Nat
    OBVIOUS
  <2>5. CASE v = t.vid
    <3>1. scratch'[v] = 0 /\ Carries(t, v) = values[v]
      BY <2>2, <2>5 DEF Carries
    <3>2. QED
      BY <2>1, <2>3, <2>4, <3>1 DEF m
  <2>6. CASE v # t.vid
    <3>1. scratch'[v] = values[v] /\ Carries(t, v) = 0
      BY <2>2, <2>6 DEF Carries
    <3>2. m + 0 = m
      BY <2>3
    <3>3. QED
      BY <2>1, <3>1, <3>2 DEF m
  <2>7. QED
    BY <2>5, <2>6
<1>4. QED
  BY <1>3

LEMMA InsertNewMoves ==
  ASSUME IInv, IsPr, ~build.ENTRY_ABORT, NEW task \in Task,
         NEW values \in [Vertices -> Nat], NEW bits, InsertNewTask(task, values, bits)
  PROVE  \A v \in Vertices :
           scratch'[v] + MassOf(tq', fifo', v) = values[v] + MassOf(tq, fifo, v)
<1>1. CASE build.WORK_STEALING
  <2>1. Owner[task.vid] \in Cores
    BY MappingAssumption DEF Task
  <2>2. InsertLocalTask(Owner[task.vid], task, FALSE, values, present, fifo)
    BY <1>1 DEF InsertNewTask
  <2>3. QED
    BY <2>1, <2>2, ResidualMoves
<1>2. CASE ~build.WORK_STEALING
  <2>1. scratch' = values /\ tq' = tq /\ fifo' = fifo
    BY <1>2 DEF InsertNewTask, coreVars
  <2>2. QED
    BY <2>1
<1>3. QED
  BY <1>1, <1>2

\* What a step has to keep.
Balanced(v) == received[v] = scratch[v] + MassOf(tq, fifo, v) + sent[v]

LEMMA BalanceIs ==
  /\ ResidualConserved <=> (IsPr => \A v \in Vertices : Balanced(v))
  /\ ResidualConserved' <=>
       (IsPr' => \A v \in Vertices :
                   received'[v] = scratch'[v] + MassOf(tq', fifo', v) + sent'[v])
<1>1. ResidualConserved <=> (IsPr => \A v \in Vertices : Balanced(v))
  BY QueuedMassIs DEF ResidualConserved, Balanced
<1>2. ResidualConserved' <=>
       (IsPr' => \A v \in Vertices :
                   received'[v] = scratch'[v] + QueuedMass(v)' + sent'[v])
  BY DEF ResidualConserved, QueuedMass, Mass, Total
<1>3. QED
  BY <1>1, <1>2, QueuedMassIs

LEMMA UpdateBalanced ==
  ASSUME IInv, IsPr, ~build.ENTRY_ABORT, ResidualConserved,
         NEW v \in Vertices, NEW d \in Nat, Update(v, d)
  PROVE  ResidualConserved'
<1> DEFINE values == [scratch EXCEPT ![v] = Reduce(@, d)]
           bits == inCentral \cup {v}
           task == [vid |-> v, dist |-> d]
<1>1. /\ scratch \in [Vertices -> Nat] /\ received \in [Vertices -> Nat]
      /\ sent \in [Vertices -> Nat]
      /\ tq \in [Cores -> Seq(Task)] /\ fifo \in [Cores -> Seq(Task)]
      /\ inCentral \in SUBSET Vertices
  BY DEF IInv, TypeOK
<1>2. sent' = sent /\ received' = [received EXCEPT ![v] = @ + d]
  BY DEF Update
<1>3. /\ values \in [Vertices -> Nat] /\ values[v] = scratch[v] + d
      /\ \A u \in Vertices : u # v => values[u] = scratch[u]
  BY <1>1 DEF Reduce
<1>4. task \in Task
  BY DEF Task
<1> HIDE DEF values, bits, task
<1>5. \A u \in Vertices : scratch'[u] + MassOf(tq', fifo', u) = values[u] + MassOf(tq, fifo, u)
  <2>1. CASE scratch' = values /\ UNCHANGED coreVars
    BY <2>1 DEF coreVars
  <2>2. CASE InsertNewTask(task, values, bits)
    BY <1>3, <1>4, <2>2, InsertNewMoves
  <2>3. QED
    BY <2>1, <2>2 DEF Update, push_live_task, values, bits, task
<1>6. ASSUME NEW u \in Vertices
      PROVE  received'[u] = scratch'[u] + MassOf(tq', fifo', u) + sent'[u]
  <2> DEFINE m == MassOf(tq, fifo, u)
             x == scratch[u]
             y == sent[u]
  <2>1. /\ m \in Nat /\ x \in Nat /\ y \in Nat /\ sent'[u] = y
        /\ scratch'[u] + MassOf(tq', fifo', u) = values[u] + m
    BY <1>1, <1>2, <1>5, MassOfType
  <2>2. received[u] = x + m + y
    BY BalanceIs DEF Balanced
  <2> HIDE DEF m, x, y
  <2>3. CASE u = v
    <3>1. received'[u] = received[u] + d /\ values[u] = x + d
      BY <1>1, <1>2, <1>3, <2>3 DEF x
    <3>2. (x + m + y) + d = (x + d) + m + y
      BY <2>1
    <3>3. QED
      BY <2>1, <2>2, <3>1, <3>2
  <2>4. CASE u # v
    <3>1. received'[u] = received[u] /\ values[u] = x
      BY <1>1, <1>2, <1>3, <2>4 DEF x
    <3>2. QED
      BY <2>1, <2>2, <3>1
  <2>5. QED
    BY <2>3, <2>4
<1>7. QED
  BY <1>6, BalanceIs

\* A step that receives and issues nothing, and keeps the sums.
LEMMA StaysBalanced ==
  ASSUME IsPr, ResidualConserved, received' = received, sent' = sent,
         \A v \in Vertices :
           scratch'[v] + MassOf(tq', fifo', v) = scratch[v] + MassOf(tq, fifo, v)
  PROVE  ResidualConserved'
<1>1. ASSUME NEW v \in Vertices
      PROVE  received'[v] = scratch'[v] + MassOf(tq', fifo', v) + sent'[v]
  BY BalanceIs DEF Balanced
<1>2. QED
  BY <1>1, BalanceIs

LEMMA DrainBalanced ==
  ASSUME IInv, IsPr, ~build.ENTRY_ABORT, ResidualConserved, NEW c \in Cores, Drain(c)
  PROVE  ResidualConserved'
<1>1. /\ received' = received /\ sent' = sent /\ agg[c] # <<>>
      /\ InsertNewTask(Head(agg[c]), scratch, inCentral)
      /\ agg[c] \in Seq(Task) /\ scratch \in [Vertices -> Nat]
  BY DEF IInv, TypeOK, Drain
<1>2. Head(agg[c]) \in Task
  BY <1>1, VidsOfTail
<1>3. QED
  BY <1>1, <1>2, InsertNewMoves, StaysBalanced

LEMMA DistributeBalanced ==
  ASSUME IInv, IsPr, ~build.ENTRY_ABORT, ResidualConserved, Distribute
  PROVE  ResidualConserved'
<1> DEFINE task == AtDistribution(Head(central))
<1>1. /\ received' = received /\ sent' = sent /\ central # <<>>
      /\ central \in Seq(Task) /\ scratch \in [Vertices -> Nat]
  BY DEF IInv, TypeOK, Distribute
<1>2. PICK c \in AssignedCores(task.vid) :
        IF IsPr /\ task.dist = 0
        THEN UNCHANGED <<scratch, coreVars>>
        ELSE InsertLocalTask(c, task, FALSE, scratch, present, fifo)
  BY DEF Distribute
<1>3. Head(central) \in Task
  BY <1>1, VidsOfTail
<1>4. task \in Task
  BY <1>1, <1>3 DEF AtDistribution, Task
<1> HIDE DEF task
<1>5. c \in Cores
  BY <1>4, MappingAssumption DEF AssignedCores, Task
<1>6. CASE UNCHANGED <<scratch, coreVars>>
  BY <1>1, <1>6, StaysBalanced DEF coreVars
<1>7. CASE InsertLocalTask(c, task, FALSE, scratch, present, fifo)
  BY <1>1, <1>4, <1>5, <1>7, ResidualMoves, StaysBalanced
<1>8. QED
  BY <1>2, <1>6, <1>7

LEMMA PullBalanced ==
  ASSUME IInv, IsPr, ~build.ENTRY_ABORT, ResidualConserved, NEW c \in Cores, Pull(c)
  PROVE  ResidualConserved'
<1> DEFINE from == ctl.from
           head == Head(fifo[from])
           bits == PullBits(c, from, head.vid)
           overflow == [fifo EXCEPT ![from] = Tail(@)]
<1>1. /\ TypeOK /\ received' = received /\ sent' = sent
      /\ InsertLocalTask(c, head, TRUE, scratch, bits, overflow)
  BY DEF IInv, Pull
<1>2. /\ scratch \in [Vertices -> Nat] /\ from \in Cores /\ fifo[from] # <<>>
      /\ tq \in [Cores -> Seq(Task)] /\ fifo \in [Cores -> Seq(Task)]
  BY <1>1 DEF IInv, TypeOK, PullGoesOn, PullsOn, Pull
<1>3. /\ head \in Task /\ bits \in [Cores -> SUBSET Vertices]
      /\ overflow \in [Cores -> Seq(Task)]
  BY <1>2, PullIsTruthful
<1>4. ASSUME NEW v \in Vertices
      PROVE  MassOf(tq, fifo, v) = MassOf(tq, overflow, v) + Carries(head, v)
  BY <1>2, MassLeaves
<1> HIDE DEF from, head, bits, overflow
<1>5. PICK t \in Task : Reads(head, TRUE, scratch, t) /\ Stored(c, t, bits, overflow)
  BY <1>1, <1>2, <1>3, InsertStores
<1>6. t = head /\ scratch' = scratch
  BY <1>5 DEF Reads, ReadsResidual
<1>7. ASSUME NEW v \in Vertices PROVE MassOf(tq', fifo', v) = MassOf(tq, fifo, v)
  <2>1. MassOf(tq', fifo', v) = MassOf(tq, overflow, v) + Carries(t, v)
    BY <1>1, <1>3, <1>5, StoredMass
  <2>2. QED
    BY <1>4, <1>6, <2>1
<1>8. QED
  BY <1>1, <1>6, <1>7, StaysBalanced

LEMMA DispatchBalanced ==
  ASSUME IInv, IsPr, ResidualConserved, NEW c \in Cores, Dispatch(c)
  PROVE  ResidualConserved'
<1> DEFINE task == Head(tq[c])
<1>1. /\ tq[c] # <<>> /\ received' = received /\ scratch' = scratch /\ fifo' = fifo
      /\ sent' = [sent EXCEPT ![task.vid] = @ + task.dist]
      /\ tq' = [tq EXCEPT ![c] = Tail(@)]
  BY DEF Dispatch
<1>2. /\ tq \in [Cores -> Seq(Task)] /\ fifo \in [Cores -> Seq(Task)]
      /\ scratch \in [Vertices -> Nat] /\ sent \in [Vertices -> Nat]
  BY DEF IInv, TypeOK
<1>3. task \in Task /\ Tail(tq[c]) \in Seq(Task)
  BY <1>1, <1>2, VidsOfTail
<1>4. tq' \in [Cores -> Seq(Task)]
  BY <1>1, <1>2, <1>3
<1>5. ASSUME NEW v \in Vertices
      PROVE  MassOf(tq, fifo, v) = MassOf(tq', fifo', v) + Carries(task, v)
  BY <1>1, <1>2, MassLeaves
<1>6. ASSUME NEW v \in Vertices
      PROVE  received'[v] = scratch'[v] + MassOf(tq', fifo', v) + sent'[v]
  <2> DEFINE m == MassOf(tq', fifo', v)
             x == scratch[v]
             y == sent[v]
             z == Carries(task, v)
  <2>1. sent'[v] = sent[v] + z
    BY <1>1, <1>2, <1>3 DEF Carries, Task
  <2>2. m \in Nat /\ x \in Nat /\ y \in Nat /\ z \in Nat
    BY <1>1, <1>2, <1>3, <1>4, MassOfType DEF Carries, Task
  <2>3. received[v] = x + (m + z) + y
    BY <1>5, BalanceIs DEF Balanced
  <2> HIDE DEF m, x, y, z
  <2>4. x + (m + z) + y = x + m + (y + z)
    BY <2>2
  <2>5. QED
    BY <1>1, <2>1, <2>3, <2>4 DEF m, x, y
<1>7. QED
  BY <1>6, BalanceIs

LEMMA InitBalanced == Init => ResidualConserved
<1> SUFFICES ASSUME Init, IsPr, NEW v \in Vertices PROVE Balanced(v)
  BY BalanceIs
<1>1. received[v] = 0 /\ scratch[v] = 0 /\ sent[v] = 0
  BY DEF Init
<1>2. build.alg # "min"
  BY DEF IsPr
<1>3. \A c \in Cores : tq[c] = <<>> /\ fifo[c] = <<>>
  BY <1>2 DEF Init, FirstTasks
<1>4. /\ NumCores \in Nat /\ \A n \in 1 .. NumCores : n - 1 \in Cores
  BY SizesAssumption DEF Cores
<1>5. Mass(<<>>, v) = 0
  <2> DEFINE f == [i \in 1 .. 0 |-> IF <<>>[i].vid = v THEN <<>>[i].dist ELSE 0]
  <2>1. f \in [1 .. 0 -> Nat] /\ \A i \in 1 .. 0 : f[i] = 0
    OBVIOUS
  <2>2. Mass(<<>>, v) = Total(f, 0)
    BY DEF Mass
  <2> HIDE DEF f
  <2>3. QED
    BY <2>1, <2>2, TotalZero
<1>6. /\ AtCore(tq, fifo, v) \in [1 .. NumCores -> Nat]
      /\ \A n \in 1 .. NumCores : AtCore(tq, fifo, v)[n] = 0
  BY <1>3, <1>4, <1>5 DEF AtCore
<1>7. MassOf(tq, fifo, v) = 0
  BY <1>4, <1>6, TotalZero DEF MassOf
<1>8. QED
  BY <1>1, <1>7 DEF Balanced

LEMMA StepBalanced ==
  ASSUME \A b \in Builds : b.alg = "pr" => ~b.ENTRY_ABORT
  PROVE  IInv /\ ResidualConserved /\ [Next]_vars => ResidualConserved'
<1> SUFFICES ASSUME IInv, ResidualConserved, [Next]_vars PROVE ResidualConserved'
  OBVIOUS
<1>1. build' = build
  BY DEF Next, vars, Serve, Update, Distribute, Drain, Pull, Steal, Dispatch
<1>2. CASE ~IsPr
  BY <1>1, <1>2 DEF ResidualConserved, IsPr
<1>3. CASE IsPr
  <2>1. ~build.ENTRY_ABORT
    BY <1>3 DEF IInv, TypeOK, IsPr
  <2>2. CASE UNCHANGED vars
    BY <1>3, <2>2, StaysBalanced DEF vars, coreVars
  <2>3. ASSUME NEW v \in Vertices, NEW d \in 0 .. Max({MaxDist, Epsilon}), Serve(v, d)
        PROVE  ResidualConserved'
    <3>1. d \in Nat /\ Update(v, d)
      BY <2>3, SizesAssumption DEF Serve
    <3>2. QED
      BY <1>3, <2>1, <3>1, UpdateBalanced
  <2>4. CASE Distribute
    BY <1>3, <2>1, <2>4, DistributeBalanced
  <2>5. ASSUME NEW c \in Cores, Drain(c) \/ Pull(c) \/ Dispatch(c) PROVE ResidualConserved'
    BY <1>3, <2>1, <2>5, DrainBalanced, PullBalanced, DispatchBalanced
  <2>6. ASSUME NEW c \in Cores, Steal(c) PROVE ResidualConserved'
    BY <1>3, <2>6, StaysBalanced DEF Steal, coreVars
  <2>7. QED
    BY <2>2, <2>3, <2>4, <2>5, <2>6 DEF Next
<1>4. QED
  BY <1>2, <1>3

\* PageRank without ENTRY_ABORT: what a vertex has received is in its residual,
\* in its queued tasks, or issued.  insert_local_task moves the residual into a
\* task, and a task that comes back from an overflow queue, its own core's or
\* another's, keeps what it carries.
THEOREM ResidualIsConserved ==
  ASSUME \A b \in Builds : b.alg = "pr" => ~b.ENTRY_ABORT
  PROVE  Spec => []ResidualConserved
<1>1. Init => IInv /\ ResidualConserved
  BY InitIInv, InitBalanced
<1>2. IInv /\ ResidualConserved /\ [Next]_vars => (IInv /\ ResidualConserved)'
  BY StepIInv, StepBalanced
<1>3. QED
  BY <1>1, <1>2, PTL DEF Spec

=============================================================================
