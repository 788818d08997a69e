------------------------ MODULE SliceSchedulerProofs ------------------------
(***************************************************************************)
(* Theorems about SliceScheduler: no relaxation is lost over a slice       *)
(* switch, the drivers end only at the fixpoint, tasks stay with their     *)
(* slice, and the duplicate bits keep the worklists within the assertion   *)
(* of the code.                                                            *)
(***************************************************************************)
EXTENDS SliceScheduler, Numbers, TLAPS, FiniteSetTheorems, SequenceTheorems

QueueStates ==
  [tq : [Cores -> Seq(Vertices)], fifo : [Cores -> Seq(Vertices)], present : SUBSET Vertices]
ListStates == [list : [Slices -> Seq(Vertices)], bits : [Slices -> SUBSET Vertices]]

TypeOK ==
  /\ build \in Builds
  /\ scratch \in [Vertices -> Nat]
  /\ vertexData \in [Vertices -> Nat]
  /\ worklist \in [Slices -> Seq(Vertices)]
  /\ duplicate \in [Slices -> SUBSET Vertices]
  /\ slice \in Slices
  /\ served \in 0 .. SLICE_COUNT
  /\ phase \in {"round", "slice", "run", "aborted", "done"}
  /\ finishing \in BOOLEAN
  /\ finishedEdges \in Nat
  /\ agg \in [Cores -> Seq(Vertices)]
  /\ queues \in QueueStates
  /\ \A c \in Cores : Len(queues.tq[c]) <= TASK_QUEUE_SIZE
  /\ DOMAIN edges \subseteq Edges
  /\ DOMAIN updates \subseteq Vertices \X Nat

\* a worklist has tasks of its slice only, and the machine tasks of its own
ListsOfSlice == \A s \in Slices : ToSet(worklist[s]) \subseteq Members(s)
TasksOfSlice == \A c \in Cores : Queued(c) \subseteq Members(slice)

\* a bit that drops a task has the same task behind it
DuplicateIsListed == \A s \in Slices : duplicate[s] \subseteq ToSet(worklist[s])
Held(q) == UNION {ToSet(q.tq[c]) \cup ToSet(q.fifo[c]) : c \in Cores}
PresentIsQueued == queues.present \subseteq Held(queues)

\* between the runs the machine is empty
Idle ==
  phase \notin {"run", "aborted"} =>
    /\ \A c \in Cores : Queued(c) = {}
    /\ DOMAIN edges = {}
    /\ DOMAIN updates = {}

\* values only improve, and the source's never
ValuesImprove ==
  /\ scratch[Source] = 0
  /\ \A v \in Vertices : scratch[v] <= vertexData[v] /\ scratch[v] <= MaxDist

\* an update carries what an edge brought, from its source's value then
UpdatesJustified ==
  \A m \in DOMAIN updates :
    \E x \in Edges : Dst(x) = m[1] /\ scratch[x[1]] + Wgt(x) <= m[2]

\* between the rounds of blocked execution every improvement is activated
RoundSettled == build.exec = "blocked" /\ phase = "round" => vertexData = scratch

\* the drivers end only without work
EndsIdle == phase = "done" => NoWork

Covered == build.exec # "sync" => NoRelaxationLost

IInv ==
  /\ TypeOK
  /\ ListsOfSlice
  /\ TasksOfSlice
  /\ DuplicateIsListed
  /\ PresentIsQueued
  /\ Idle
  /\ ValuesImprove
  /\ UpdatesJustified
  /\ RoundSettled
  /\ EndsIdle
  /\ Covered

----------------------------------------------------------------------------
(* Sequences and the sets of their elements.                               *)

LEMMA ToSetIs ==
  \A S : \A s \in Seq(S) :
    /\ ToSet(s) \subseteq S
    /\ \A x : x \in ToSet(s) <=> \E i \in 1 .. Len(s) : s[i] = x
    /\ ToSet(s) = {} <=> s = <<>>
BY DEF ToSet

LEMMA ToSetAppend ==
  \A S : \A s \in Seq(S), x \in S :
    Append(s, x) \in Seq(S) /\ ToSet(Append(s, x)) = ToSet(s) \cup {x}
BY AppendProperties DEF ToSet

LEMMA ToSetConcat ==
  \A S : \A s, t \in Seq(S) : s \o t \in Seq(S) /\ ToSet(s \o t) = ToSet(s) \cup ToSet(t)
<1> SUFFICES ASSUME NEW S, NEW s \in Seq(S), NEW t \in Seq(S)
             PROVE  s \o t \in Seq(S) /\ ToSet(s \o t) = ToSet(s) \cup ToSet(t)
  OBVIOUS
<1>1. /\ s \o t \in Seq(S)
      /\ Len(s \o t) = Len(s) + Len(t) /\ Len(s) \in Nat /\ Len(t) \in Nat
      /\ \A i \in 1 .. Len(s) : (s \o t)[i] = s[i]
      /\ \A i \in 1 .. Len(t) : (s \o t)[Len(s) + i] = t[i]
  BY ConcatProperties
<1>2. ASSUME NEW x \in ToSet(s \o t) PROVE x \in ToSet(s) \cup ToSet(t)
  <2>1. PICK i \in 1 .. Len(s \o t) : (s \o t)[i] = x
    BY <1>1 DEF ToSet
  <2>2. CASE i <= Len(s)
    <3>1. i \in 1 .. Len(s)
      BY <2>2
    <3>2. QED
      BY <1>1, <2>1, <3>1 DEF ToSet
  <2>3. CASE ~(i <= Len(s))
    <3>1. i - Len(s) \in 1 .. Len(t) /\ Len(s) + (i - Len(s)) = i
      BY <1>1, <2>3
    <3>2. t[i - Len(s)] = x
      BY <1>1, <2>1, <3>1
    <3>3. QED
      BY <3>1, <3>2 DEF ToSet
  <2>4. QED
    BY <2>2, <2>3
<1>3. ASSUME NEW x \in ToSet(s) PROVE x \in ToSet(s \o t)
  <2>1. PICK i \in 1 .. Len(s) : s[i] = x
    BY DEF ToSet
  <2>2. i \in 1 .. Len(s \o t) /\ (s \o t)[i] = x
    BY <1>1, <2>1
  <2>3. QED
    BY <1>1, <2>2 DEF ToSet
<1>4. ASSUME NEW x \in ToSet(t) PROVE x \in ToSet(s \o t)
  <2>1. PICK i \in 1 .. Len(t) : t[i] = x
    BY DEF ToSet
  <2>2. Len(s) + i \in 1 .. Len(s \o t) /\ (s \o t)[Len(s) + i] = x
    BY <1>1, <2>1
  <2>3. QED
    BY <1>1, <2>2 DEF ToSet
<1>5. QED
  BY <1>1, <1>2, <1>3, <1>4

LEMMA ToSetHead ==
  \A S : \A s \in Seq(S) : s # <<>> =>
    /\ Tail(s) \in Seq(S) /\ Head(s) \in S /\ Len(Tail(s)) = Len(s) - 1 /\ Len(s) \in Nat
    /\ ToSet(s) = {Head(s)} \cup ToSet(Tail(s))
<1> SUFFICES ASSUME NEW S, NEW s \in Seq(S), s # <<>>
             PROVE  /\ Tail(s) \in Seq(S) /\ Head(s) \in S /\ Len(Tail(s)) = Len(s) - 1
                    /\ Len(s) \in Nat
                    /\ ToSet(s) = {Head(s)} \cup ToSet(Tail(s))
  OBVIOUS
<1>1. /\ Tail(s) \in Seq(S) /\ Head(s) \in S /\ Len(Tail(s)) = Len(s) - 1 /\ Len(s) \in Nat
      /\ \A i \in 1 .. Len(Tail(s)) : Tail(s)[i] = s[i + 1]
      /\ Head(s) = s[1] /\ 1 \in 1 .. Len(s)
  BY HeadTailProperties, EmptySeq
<1>2. ASSUME NEW x \in ToSet(s), x # Head(s) PROVE x \in ToSet(Tail(s))
  <2>1. PICK i \in 1 .. Len(s) : s[i] = x
    BY DEF ToSet
  <2>2. i - 1 \in 1 .. Len(Tail(s)) /\ (i - 1) + 1 = i
    BY <1>1, <1>2, <2>1
  <2>3. Tail(s)[i - 1] = x
    BY <1>1, <2>1, <2>2
  <2>4. QED
    BY <1>1, <2>2, <2>3, ToSetIs
<1>3. ASSUME NEW x \in ToSet(Tail(s)) PROVE x \in ToSet(s)
  <2>1. PICK i \in 1 .. Len(Tail(s)) : Tail(s)[i] = x
    BY <1>1 DEF ToSet
  <2>2. i + 1 \in 1 .. Len(s) /\ s[i + 1] = x
    BY <1>1, <2>1
  <2>3. QED
    BY <2>2 DEF ToSet
<1>4. Head(s) \in ToSet(s)
  BY <1>1 DEF ToSet
<1>5. QED
  BY <1>1, <1>2, <1>3, <1>4

\* A sequence is what it is cut into.
LEMMA ToSetCut ==
  \A S : \A s \in Seq(S), n \in Nat : n <= Len(s) =>
    /\ SubSeq(s, 1, n) \in Seq(S) /\ SubSeq(s, n + 1, Len(s)) \in Seq(S)
    /\ Len(SubSeq(s, 1, n)) = n
    /\ ToSet(s) = ToSet(SubSeq(s, 1, n)) \cup ToSet(SubSeq(s, n + 1, Len(s)))
<1> SUFFICES ASSUME NEW S, NEW s \in Seq(S), NEW n \in Nat, n <= Len(s)
             PROVE  /\ SubSeq(s, 1, n) \in Seq(S) /\ SubSeq(s, n + 1, Len(s)) \in Seq(S)
                    /\ Len(SubSeq(s, 1, n)) = n
                    /\ ToSet(s) = ToSet(SubSeq(s, 1, n)) \cup ToSet(SubSeq(s, n + 1, Len(s)))
  OBVIOUS
<1>1. Len(s) \in Nat /\ \A i \in 1 .. Len(s) : s[i] \in S
  OBVIOUS
<1> DEFINE a == SubSeq(s, 1, n)
           b == SubSeq(s, n + 1, Len(s))
<1>2. a = [i \in 1 .. n |-> s[i]] /\ b = [i \in 1 .. Len(s) - n |-> s[i + n]]
  BY <1>1
<1>3. a \in Seq(S) /\ b \in Seq(S) /\ Len(a) = n /\ Len(b) = Len(s) - n
  BY <1>1, <1>2
<1> HIDE DEF a, b
<1>4. ASSUME NEW x \in ToSet(s) PROVE x \in ToSet(a) \cup ToSet(b)
  <2>1. PICK i \in 1 .. Len(s) : s[i] = x
    BY DEF ToSet
  <2>2. CASE i <= n
    BY <1>2, <2>1, <2>2 DEF ToSet
  <2>3. CASE ~(i <= n)
    <3>1. i - n \in 1 .. Len(s) - n /\ (i - n) + n = i
      BY <1>1, <2>3
    <3>2. b[i - n] = x
      BY <1>2, <2>1, <3>1
    <3>3. QED
      BY <1>2, <3>1, <3>2 DEF ToSet
  <2>4. QED
    BY <2>2, <2>3
<1>5. ASSUME NEW x, x \in ToSet(a) \cup ToSet(b) PROVE x \in ToSet(s)
  <2>1. CASE x \in ToSet(a)
    <3>1. PICK i \in 1 .. n : a[i] = x
      BY <1>2, <2>1 DEF ToSet
    <3>2. i \in 1 .. Len(s) /\ s[i] = x
      BY <1>1, <1>2, <3>1
    <3>3. QED
      BY <3>2 DEF ToSet
  <2>2. CASE x \in ToSet(b)
    <3>1. PICK i \in 1 .. Len(s) - n : b[i] = x
      BY <1>2, <2>2 DEF ToSet
    <3>2. i + n \in 1 .. Len(s) /\ s[i + n] = x
      BY <1>1, <1>2, <3>1
    <3>3. QED
      BY <3>2 DEF ToSet
  <2>3. QED
    BY <1>5, <2>1, <2>2
<1>6. QED
  BY <1>3, <1>4, <1>5 DEF a, b


----------------------------------------------------------------------------
(* Slices.                                                                 *)

LEMMA SlicesOf ==
  /\ SliceSize \in Nat \ {0} /\ SLICE_COUNT \in Nat \ {0}
  /\ NumVertices <= SLICE_COUNT * SliceSize
<1>1. NumVertices \in Nat \ {0} /\ SLICE_COUNT \in Nat \ {0} /\ SLICE_COUNT <= NumVertices
  BY SizesAssumption
<1> DEFINE a == NumVertices + SLICE_COUNT - 1
           q == a \div SLICE_COUNT
           m == a % SLICE_COUNT
<1>2. a \in Nat /\ a >= SLICE_COUNT
  BY <1>1
<1>3. a = SLICE_COUNT * q + m /\ m \in 0 .. SLICE_COUNT - 1 /\ q \in Int
  <2> HIDE DEF a
  <2> QED BY <1>1, <1>2
<1>4. q >= 1
  <2> HIDE DEF a
  <2> QED BY <1>1, <1>2
<1>5. SliceSize = q
  BY DEF SliceSize, CeilDiv
<1>6. NumVertices <= SLICE_COUNT * q
  <2>1. SLICE_COUNT * q \in Int
    BY <1>1, <1>3
  <2> DEFINE p == SLICE_COUNT * q
  <2> HIDE DEF q, m, p
  <2>2. p \in Int /\ NumVertices + SLICE_COUNT - 1 = p + m
    BY <1>3, <2>1 DEF p, a
  <2>3. NumVertices <= p
    BY <1>1, <1>3, <2>2
  <2>4. QED
    BY <2>3 DEF p
<1>7. QED
  BY <1>1, <1>3, <1>4, <1>5, <1>6

\* Every vertex is in a slice.
LEMMA SliceOfType ==
  \A v \in Vertices : SliceOf(v) \in Slices /\ v \in Members(SliceOf(v))
<1> SUFFICES ASSUME NEW v \in Vertices PROVE SliceOf(v) \in Slices
  BY DEF Members
<1> DEFINE q == v \div SliceSize
           m == v % SliceSize
<1>1. v \in Nat /\ v < NumVertices /\ NumVertices \in Nat
  BY SizesAssumption DEF Vertices
<1>2. v = SliceSize * q + m /\ m \in 0 .. SliceSize - 1 /\ q \in Nat
  BY <1>1, SlicesOf
<1>3. q < SLICE_COUNT
  <2> SUFFICES ASSUME q >= SLICE_COUNT PROVE FALSE
    BY <1>2, SlicesOf
  <2>1. SliceSize * q >= SliceSize * SLICE_COUNT
    <3> HIDE DEF q
    <3> DEFINE d == q - SLICE_COUNT
    <3>1. d \in Nat /\ q = SLICE_COUNT + d
      BY <1>2, SlicesOf
    <3>2. SliceSize * d >= 0 /\ SliceSize * d \in Int
      BY <3>1, SlicesOf
    <3>3. SliceSize * (SLICE_COUNT + d) = SliceSize * SLICE_COUNT + SliceSize * d
      BY <3>1, SlicesOf
    <3>4. SliceSize * SLICE_COUNT \in Int
      BY SlicesOf
    <3>5. QED
      BY <3>1, <3>2, <3>3, <3>4
  <2>2. SliceSize * SLICE_COUNT = SLICE_COUNT * SliceSize
    BY SlicesOf
  <2> DEFINE p == SliceSize * q
             b == SLICE_COUNT * SliceSize
  <2>3. p \in Int /\ b \in Int
    BY <1>2, SlicesOf
  <2> HIDE DEF q, m
  <2>4. v = p + m /\ p >= b /\ NumVertices <= b
    BY <1>2, <2>1, <2>2, SlicesOf
  <2> HIDE DEF p, b
  <2>5. QED
    BY <1>1, <1>2, <2>3, <2>4
<1>4. QED
  BY <1>2, <1>3, SlicesOf DEF SliceOf, Slices

----------------------------------------------------------------------------
(* Bags.                                                                   *)

LEMMA BagDomains ==
  /\ \A B, x : /\ DOMAIN BagRemove(B, x) \subseteq DOMAIN B
               /\ DOMAIN B \subseteq DOMAIN BagRemove(B, x) \cup {x}
  /\ \A B, x : DOMAIN BagAdd(B, x) = DOMAIN B \cup {x}
  /\ \A B, S : DOMAIN (B (+) SetToBag(S)) = DOMAIN B \cup S
  /\ DOMAIN EmptyBag = {}
  /\ \A B, x : BagIn(x, B) <=> x \in DOMAIN B
BY DEF BagRemove, BagAdd, (+), SetToBag, EmptyBag, BagIn, BagToSet


----------------------------------------------------------------------------
(* Task queues.                                                            *)

HeldBy(q, c) == ToSet(q.tq[c]) \cup ToSet(q.fifo[c])

\* a state of the queues as the machine may have it
Fits(q) ==
  /\ q \in QueueStates
  /\ \A c \in Cores : Len(q.tq[c]) <= TASK_QUEUE_SIZE
  /\ q.present \subseteq Held(q)

\* q2 has the tasks of q and those of T, no others
Gains(q, q2, T) ==
  /\ \A c \in Cores : HeldBy(q, c) \subseteq HeldBy(q2, c) /\ HeldBy(q2, c) \subseteq HeldBy(q, c) \cup T
  /\ T \subseteq Held(q2)

LEMMA HeldIs ==
  \A q, x : x \in Held(q) <=> \E c \in Cores : x \in HeldBy(q, c)
BY DEF Held, HeldBy

LEMMA QueueFields ==
  \A q \in QueueStates, c \in Cores :
    /\ q.tq[c] \in Seq(Vertices) /\ q.fifo[c] \in Seq(Vertices)
    /\ Len(q.tq[c]) \in Nat
BY DEF QueueStates

LEMMA InsertGains ==
  \A q, v : Fits(q) /\ v \in Vertices => Fits(Insert(q, v)) /\ Gains(q, Insert(q, v), {v})
<1> SUFFICES ASSUME NEW q, NEW v \in Vertices, Fits(q)
             PROVE  Fits(Insert(q, v)) /\ Gains(q, Insert(q, v), {v})
  OBVIOUS
<1> DEFINE k == Owner[v]
           P == q.present \cup {v}
           room == TASK_QUEUE_SIZE - Len(q.tq[k])
<1>1. k \in Cores /\ q \in QueueStates
  BY GraphAssumption DEF Fits
<1>2. /\ P \in SUBSET Vertices
      /\ q.tq[k] \in Seq(Vertices) /\ q.fifo[k] \in Seq(Vertices)
      /\ q.tq \in [Cores -> Seq(Vertices)] /\ q.fifo \in [Cores -> Seq(Vertices)]
  BY <1>1 DEF QueueStates
<1>3. CASE v \in q.present
  <2>1. Insert(q, v) = q
    BY <1>3 DEF Insert
  <2>2. QED
    BY <1>3, <2>1 DEF Fits, Gains
<1>4. CASE v \notin q.present /\ Spills(room)
  <2> DEFINE s == Append(q.fifo[k], v)
             q2 == [tq |-> q.tq, fifo |-> [q.fifo EXCEPT ![k] = s], present |-> P]
  <2>1. Insert(q, v) = q2
    BY <1>4 DEF Insert
  <2>2. s \in Seq(Vertices) /\ ToSet(s) = ToSet(q.fifo[k]) \cup {v}
    BY <1>2, ToSetAppend
  <2>3. q2 \in QueueStates /\ q2.present = P /\ q2.tq = q.tq /\ q2.fifo = [q.fifo EXCEPT ![k] = s]
    <3> HIDE DEF s, k, P
    <3>1. [q.fifo EXCEPT ![k] = s] \in [Cores -> Seq(Vertices)]
      BY <1>1, <1>2, <2>2
    <3>2. QED
      BY <1>2, <3>1 DEF QueueStates
  <2> HIDE DEF q2, k, P
  <2>4. \A c \in Cores : HeldBy(q2, c) = IF c = k THEN HeldBy(q, c) \cup {v} ELSE HeldBy(q, c)
    <3> HIDE DEF s
    <3> QED BY <1>1, <1>2, <2>2, <2>3 DEF HeldBy
  <2>5. Gains(q, q2, {v})
    BY <1>1, <2>4, HeldIs DEF Gains
  <2>6. q2.present \subseteq Held(q2)
    BY <2>3, <2>4, <2>5, HeldIs DEF P, Fits, Gains
  <2>7. QED
    BY <2>1, <2>3, <2>5, <2>6 DEF Fits
<1>5. CASE v \notin q.present /\ ~Spills(room)
  <2> DEFINE s == Append(q.tq[k], v)
             q2 == [tq |-> [q.tq EXCEPT ![k] = s], fifo |-> q.fifo, present |-> P]
  <2>1. Insert(q, v) = q2
    BY <1>5 DEF Insert
  <2>2. s \in Seq(Vertices) /\ ToSet(s) = ToSet(q.tq[k]) \cup {v} /\ Len(s) = Len(q.tq[k]) + 1
    BY <1>2, ToSetAppend, AppendProperties
  <2>3. q2 \in QueueStates /\ q2.present = P /\ q2.fifo = q.fifo /\ q2.tq = [q.tq EXCEPT ![k] = s]
    <3> HIDE DEF s, k, P
    <3>1. [q.tq EXCEPT ![k] = s] \in [Cores -> Seq(Vertices)]
      BY <1>1, <1>2, <2>2
    <3>2. QED
      BY <1>2, <3>1 DEF QueueStates
  <2>4. Len(s) <= TASK_QUEUE_SIZE
    <3>1. Len(q.tq[k]) \in Nat /\ Len(q.tq[k]) <= TASK_QUEUE_SIZE /\ TASK_QUEUE_SIZE \in Nat
      BY <1>1, <1>2, SizesAssumption DEF Fits
    <3>2. room # 0
      BY <1>5 DEF Spills
    <3>3. QED
      BY <2>2, <3>1, <3>2
  <2> HIDE DEF q2, k, P, s
  <2>5. \A c \in Cores : HeldBy(q2, c) = IF c = k THEN HeldBy(q, c) \cup {v} ELSE HeldBy(q, c)
    BY <1>1, <1>2, <2>2, <2>3 DEF HeldBy
  <2>6. Gains(q, q2, {v})
    BY <1>1, <2>5, HeldIs DEF Gains
  <2>7. q2.present \subseteq Held(q2)
    BY <2>3, <2>5, <2>6, HeldIs DEF P, Fits, Gains
  <2>8. \A c \in Cores : Len(q2.tq[c]) <= TASK_QUEUE_SIZE
    BY <1>1, <1>2, <2>3, <2>4 DEF Fits
  <2>9. QED
    BY <2>1, <2>3, <2>6, <2>7, <2>8 DEF Fits
<1>6. QED
  BY <1>3, <1>4, <1>5


\* move_tasks_from_wklist_to_tq: all tasks of the list are queued.
LEMMA InsertAllGains ==
  \A q, tasks : Fits(q) /\ tasks \in Seq(Vertices) =>
    Fits(InsertAll(q, tasks)) /\ Gains(q, InsertAll(q, tasks), ToSet(tasks))
<1> SUFFICES ASSUME NEW q, NEW tasks \in Seq(Vertices), Fits(q)
             PROVE  Fits(InsertAll(q, tasks)) /\ Gains(q, InsertAll(q, tasks), ToSet(tasks))
  OBVIOUS
<1> DEFINE n == Len(tasks)
           X == {x \in QueueStates : Fits(x)}
           add(x, i) == Insert(x, tasks[i])
           step == [i \in 1 .. n |-> [x \in X |-> add(x, i)]]
           Body(g) == [i \in 0 .. n |-> IF i = 0 THEN q ELSE add(g[i - 1], i)]
           after == CHOOSE g : g = Body(g)
<1>0. n \in Nat /\ \A i \in 1 .. n : tasks[i] \in Vertices
  OBVIOUS
<1> HIDE DEF n
<1>1. \A x \in X, i \in 1 .. n : add(x, i) \in X
  BY <1>0, InsertGains DEF Fits
<1>2. step \in [1 .. n -> [X -> X]] /\ q \in X
  <2> HIDE DEF add
  <2>1. q \in X
    BY DEF Fits
  <2> HIDE DEF X
  <2>2. QED
    BY <1>1, <2>1
<1>3. PICK g \in [0 .. n -> X] : Unfolds(g, n, q, step)
  <2> HIDE DEF step, X
  <2> QED BY <1>0, <1>2, RecursionExists
<1>4. g = Body(g)
  <2> HIDE DEF add, X
  <2>1. ASSUME NEW i \in 0 .. n PROVE g[i] = IF i = 0 THEN q ELSE add(g[i - 1], i)
    <3>1. CASE i = 0
      BY <1>3, <3>1 DEF Unfolds
    <3>2. CASE i # 0
      <4>1. i \in 1 .. n /\ i - 1 \in 0 .. n
        BY <1>0, <3>2
      <4>2. g[i] = step[i][g[i - 1]] /\ g[i - 1] \in X
        BY <1>3, <4>1 DEF Unfolds
      <4>3. QED
        BY <3>2, <4>1, <4>2
    <3>3. QED
      BY <3>1, <3>2
  <2>2. QED
    BY <2>1
<1>5. after = Body(after)
  <2> HIDE DEF Body
  <2> QED BY <1>4
<1>6. InsertAll(q, tasks) = after[n]
  BY DEF InsertAll, n
<1> HIDE DEF after
<1>7. after[0] = q /\ \A i \in 1 .. n : after[i] = add(after[i - 1], i)
  <2> HIDE DEF add
  <2>1. \A i \in 0 .. n : after[i] = IF i = 0 THEN q ELSE add(after[i - 1], i)
    BY <1>5
  <2>2. 0 \in 0 .. n /\ \A i \in 1 .. n : i \in 0 .. n /\ i # 0
    BY <1>0
  <2>3. QED
    BY <2>1, <2>2
<1> DEFINE Done(i) == {tasks[j] : j \in 1 .. i}
           S == {i \in Nat : Fits(after[i]) /\ Gains(q, after[i], Done(i))}
<1>8. 0 \in S
  BY <1>7 DEF Gains
<1>9. ASSUME NEW i \in 0 .. n - 1, i \in S PROVE i + 1 \in S
  <2>1. i + 1 \in 1 .. n /\ (i + 1) - 1 = i /\ i + 1 \in Nat
    BY <1>0
  <2>2. after[i + 1] = Insert(after[i], tasks[i + 1]) /\ tasks[i + 1] \in Vertices
    BY <1>0, <1>7, <2>1
  <2>3. Fits(after[i]) /\ Gains(q, after[i], Done(i))
    BY <1>9
  <2>4. Fits(after[i + 1]) /\ Gains(after[i], after[i + 1], {tasks[i + 1]})
    BY <2>2, <2>3, InsertGains
  <2>5. Done(i + 1) = Done(i) \cup {tasks[i + 1]}
    BY <2>1
  <2> HIDE DEF Done
  <2>6. Gains(q, after[i + 1], Done(i + 1))
    <3>1. \A c \in Cores : /\ HeldBy(q, c) \subseteq HeldBy(after[i], c)
                           /\ HeldBy(after[i], c) \subseteq HeldBy(q, c) \cup Done(i)
                           /\ HeldBy(after[i], c) \subseteq HeldBy(after[i + 1], c)
                           /\ HeldBy(after[i + 1], c) \subseteq HeldBy(after[i], c) \cup {tasks[i + 1]}
      BY <2>3, <2>4 DEF Gains
    <3>2. Done(i) \subseteq Held(after[i]) /\ tasks[i + 1] \in Held(after[i + 1])
      BY <2>3, <2>4 DEF Gains
    <3>3. Held(after[i]) \subseteq Held(after[i + 1])
      BY <3>1, HeldIs
    <3>4. QED
      BY <2>5, <3>1, <3>2, <3>3 DEF Gains
  <2>7. QED
    BY <2>1, <2>4, <2>6
<1>10. \A i \in 0 .. n : i \in S
  <2> HIDE DEF S
  <2> QED BY <1>0, <1>8, <1>9, RangeInduction
<1>11. Fits(after[n]) /\ Gains(q, after[n], Done(n))
  <2>1. n \in 0 .. n
    BY <1>0
  <2>2. n \in S
    BY <1>10, <2>1
  <2>3. QED
    BY <2>2
<1>12. Done(n) = ToSet(tasks)
  BY DEF n, ToSet
<1>13. QED
  BY <1>6, <1>11, <1>12


----------------------------------------------------------------------------
(* Worklists.                                                              *)

\* a state of the worklists as the driver may have it
Lawful(w) ==
  /\ w \in ListStates
  /\ \A s \in Slices : w.bits[s] \subseteq ToSet(w.list[s])
  /\ \A s \in Slices : ToSet(w.list[s]) \subseteq Members(s)

\* what IsInjective of the library says of a sequence
Once(s) == \A i, j \in DOMAIN s : s[i] = s[j] => i = j

\* the tasks of a list that a push does not see
Unmarked(w, s) == ToSet(w.list[s]) \ w.bits[s]

\* w2 has the tasks of w and those of T, no others, and none of them twice
ListsGain(w, w2, T) ==
  /\ \A s \in Slices :
       /\ ToSet(w.list[s]) \subseteq ToSet(w2.list[s])
       /\ ToSet(w2.list[s]) \subseteq ToSet(w.list[s]) \cup T
       /\ Unmarked(w2, s) \subseteq Unmarked(w, s)
  /\ \A v \in T : \E s \in Slices : v \in ToSet(w2.list[s])
  /\ (\A s \in Slices : Once(w.list[s]) /\ T \cap Unmarked(w, s) = {})
       => \A s \in Slices : Once(w2.list[s])

LEMMA AppendOnce ==
  \A S : \A s \in Seq(S), x \in S : Once(s) /\ x \notin ToSet(s) => Once(Append(s, x))
<1> SUFFICES ASSUME NEW S, NEW s \in Seq(S), NEW x \in S, Once(s), x \notin ToSet(s)
             PROVE  Once(Append(s, x))
  OBVIOUS
<1>1. /\ DOMAIN Append(s, x) = 1 .. Len(s) + 1 /\ DOMAIN s = 1 .. Len(s) /\ Len(s) \in Nat
      /\ \A i \in 1 .. Len(s) : Append(s, x)[i] = s[i]
      /\ Append(s, x)[Len(s) + 1] = x
  BY AppendProperties
<1>2. \A i \in 1 .. Len(s) : s[i] # x
  BY <1>1 DEF ToSet
<1>3. ASSUME NEW i \in 1 .. Len(s) + 1, NEW j \in 1 .. Len(s) + 1,
             Append(s, x)[i] = Append(s, x)[j]
      PROVE  i = j
  <2>1. \A k \in 1 .. Len(s) + 1 : k \in 1 .. Len(s) \/ k = Len(s) + 1
    BY <1>1
  <2>2. QED
    BY <1>1, <1>2, <1>3, <2>1 DEF Once
<1>4. QED
  BY <1>1, <1>3 DEF Once

LEMMA PushGains ==
  \A w, v : Lawful(w) /\ v \in Vertices =>
    Lawful(PushUnlessDuplicate(w, v)) /\ ListsGain(w, PushUnlessDuplicate(w, v), {v})
<1> SUFFICES ASSUME NEW w, NEW v \in Vertices, Lawful(w)
             PROVE  /\ Lawful(PushUnlessDuplicate(w, v))
                    /\ ListsGain(w, PushUnlessDuplicate(w, v), {v})
  OBVIOUS
<1> DEFINE k == SliceOf(v)
<1>1. k \in Slices /\ v \in Members(k)
  BY SliceOfType
<1>2. w.list \in [Slices -> Seq(Vertices)] /\ w.bits \in [Slices -> SUBSET Vertices]
  BY DEF Lawful, ListStates
<1>3. CASE v \in w.bits[k]
  <2>1. PushUnlessDuplicate(w, v) = w
    BY <1>3 DEF PushUnlessDuplicate
  <2>2. v \in ToSet(w.list[k])
    BY <1>1, <1>3 DEF Lawful
  <2>3. QED
    BY <1>1, <2>1, <2>2 DEF ListsGain
<1>4. CASE v \notin w.bits[k]
  <2> DEFINE a == Append(w.list[k], v)
             b == w.bits[k] \cup {v}
             w2 == [list |-> [w.list EXCEPT ![k] = a], bits |-> [w.bits EXCEPT ![k] = b]]
  <2>1. PushUnlessDuplicate(w, v) = w2
    BY <1>4 DEF PushUnlessDuplicate
  <2>2. a \in Seq(Vertices) /\ ToSet(a) = ToSet(w.list[k]) \cup {v} /\ b \in SUBSET Vertices
    BY <1>1, <1>2, ToSetAppend
  <2>3. w2 \in ListStates
    <3> HIDE DEF a, b, k
    <3>1. [w.list EXCEPT ![k] = a] \in [Slices -> Seq(Vertices)]
      BY <1>1, <1>2, <2>2
    <3>2. [w.bits EXCEPT ![k] = b] \in [Slices -> SUBSET Vertices]
      BY <1>1, <1>2, <2>2
    <3>3. QED
      BY <3>1, <3>2 DEF ListStates
  <2>4. \A s \in Slices : /\ w2.list[s] = IF s = k THEN a ELSE w.list[s]
                         /\ w2.bits[s] = IF s = k THEN b ELSE w.bits[s]
    <3> HIDE DEF a, b, k
    <3> QED BY <1>1, <1>2
  <2> HIDE DEF w2
  <2>5. \A s \in Slices : ToSet(w2.list[s]) = IF s = k THEN ToSet(w.list[s]) \cup {v}
                                                       ELSE ToSet(w.list[s])
    BY <2>2, <2>4
  <2>6. Lawful(w2)
    <3> HIDE DEF a, k
    <3> QED BY <1>1, <2>3, <2>4, <2>5 DEF Lawful
  <2>7. \A s \in Slices : Unmarked(w2, s) \subseteq Unmarked(w, s)
    <3> HIDE DEF a, k
    <3> QED BY <1>1, <2>4, <2>5 DEF Unmarked
  <2>8. ASSUME \A s \in Slices : Once(w.list[s]) /\ {v} \cap Unmarked(w, s) = {}
        PROVE  \A s \in Slices : Once(w2.list[s])
    <3>1. v \notin ToSet(w.list[k])
      BY <1>1, <1>4, <2>8 DEF Unmarked
    <3>2. Once(a)
      BY <1>1, <1>2, <2>8, <3>1, AppendOnce
    <3> HIDE DEF a, k
    <3>3. QED
      BY <2>4, <2>8, <3>2
  <2>9. ListsGain(w, w2, {v})
    <3> HIDE DEF a, k
    <3> QED BY <1>1, <2>5, <2>7, <2>8 DEF ListsGain
  <2>10. QED
    BY <2>1, <2>6, <2>9
<1>5. QED
  BY <1>3, <1>4

LEMMA ListsGainOn ==
  \A w, w1, w2, T, U :
    ListsGain(w, w1, T) /\ ListsGain(w1, w2, U) => ListsGain(w, w2, T \cup U)
<1> SUFFICES ASSUME NEW w, NEW w1, NEW w2, NEW T, NEW U, ListsGain(w, w1, T), ListsGain(w1, w2, U)
             PROVE  ListsGain(w, w2, T \cup U)
  OBVIOUS
<1>1. \A s \in Slices :
        /\ ToSet(w.list[s]) \subseteq ToSet(w1.list[s]) /\ ToSet(w1.list[s]) \subseteq ToSet(w2.list[s])
        /\ ToSet(w1.list[s]) \subseteq ToSet(w.list[s]) \cup T
        /\ ToSet(w2.list[s]) \subseteq ToSet(w1.list[s]) \cup U
        /\ Unmarked(w1, s) \subseteq Unmarked(w, s) /\ Unmarked(w2, s) \subseteq Unmarked(w1, s)
  BY DEF ListsGain
<1>2. /\ \A v \in T : \E s \in Slices : v \in ToSet(w1.list[s])
      /\ \A v \in U : \E s \in Slices : v \in ToSet(w2.list[s])
  BY DEF ListsGain
<1>3. \A v \in T \cup U : \E s \in Slices : v \in ToSet(w2.list[s])
  BY <1>1, <1>2
<1>4. ASSUME \A s \in Slices : Once(w.list[s]) /\ (T \cup U) \cap Unmarked(w, s) = {}
      PROVE  \A s \in Slices : Once(w2.list[s])
  <2>1. \A s \in Slices : Once(w1.list[s])
    BY <1>4 DEF ListsGain
  <2>2. \A s \in Slices : U \cap Unmarked(w1, s) = {}
    BY <1>1, <1>4
  <2>3. QED
    BY <2>1, <2>2 DEF ListsGain
<1>5. QED
  BY <1>1, <1>3, <1>4 DEF ListsGain

LEMMA PushAllGains ==
  \A w, tasks : Lawful(w) /\ tasks \in Seq(Vertices) =>
    Lawful(PushAll(w, tasks)) /\ ListsGain(w, PushAll(w, tasks), ToSet(tasks))
<1> SUFFICES ASSUME NEW w, NEW tasks \in Seq(Vertices), Lawful(w)
             PROVE  Lawful(PushAll(w, tasks)) /\ ListsGain(w, PushAll(w, tasks), ToSet(tasks))
  OBVIOUS
<1> DEFINE n == Len(tasks)
           X == {x \in ListStates : Lawful(x)}
           add(x, i) == PushUnlessDuplicate(x, tasks[i])
           step == [i \in 1 .. n |-> [x \in X |-> add(x, i)]]
           Body(g) == [i \in 0 .. n |-> IF i = 0 THEN w ELSE add(g[i - 1], i)]
           after == CHOOSE g : g = Body(g)
<1>0. n \in Nat /\ \A i \in 1 .. n : tasks[i] \in Vertices
  OBVIOUS
<1> HIDE DEF n
<1>1. \A x \in X, i \in 1 .. n : add(x, i) \in X
  BY <1>0, PushGains DEF Lawful
<1>2. step \in [1 .. n -> [X -> X]] /\ w \in X
  <2> HIDE DEF add
  <2>1. w \in X
    BY DEF Lawful
  <2> HIDE DEF X
  <2>2. QED
    BY <1>1, <2>1
<1>3. PICK g \in [0 .. n -> X] : Unfolds(g, n, w, step)
  <2> HIDE DEF step, X
  <2> QED BY <1>0, <1>2, RecursionExists
<1>4. g = Body(g)
  <2> HIDE DEF add, X
  <2>1. ASSUME NEW i \in 0 .. n PROVE g[i] = IF i = 0 THEN w ELSE add(g[i - 1], i)
    <3>1. CASE i = 0
      BY <1>3, <3>1 DEF Unfolds
    <3>2. CASE i # 0
      <4>1. i \in 1 .. n /\ i - 1 \in 0 .. n
        BY <1>0, <3>2
      <4>2. g[i] = step[i][g[i - 1]] /\ g[i - 1] \in X
        BY <1>3, <4>1 DEF Unfolds
      <4>3. QED
        BY <3>2, <4>1, <4>2
    <3>3. QED
      BY <3>1, <3>2
  <2>2. QED
    BY <2>1
<1>5. after = Body(after)
  <2> HIDE DEF Body
  <2> QED BY <1>4
<1>6. PushAll(w, tasks) = after[n]
  BY DEF PushAll, n
<1> HIDE DEF after
<1>7. after[0] = w /\ \A i \in 1 .. n : after[i] = add(after[i - 1], i)
  <2> HIDE DEF add
  <2>1. \A i \in 0 .. n : after[i] = IF i = 0 THEN w ELSE add(after[i - 1], i)
    BY <1>5
  <2>2. 0 \in 0 .. n /\ \A i \in 1 .. n : i \in 0 .. n /\ i # 0
    BY <1>0
  <2>3. QED
    BY <2>1, <2>2
<1> DEFINE Done(i) == {tasks[j] : j \in 1 .. i}
           S == {i \in Nat : Lawful(after[i]) /\ ListsGain(w, after[i], Done(i))}
<1>8. 0 \in S
  BY <1>7 DEF ListsGain
<1>9. ASSUME NEW i \in 0 .. n - 1, i \in S PROVE i + 1 \in S
  <2>1. i + 1 \in 1 .. n /\ (i + 1) - 1 = i /\ i + 1 \in Nat
    BY <1>0
  <2>2. after[i + 1] = PushUnlessDuplicate(after[i], tasks[i + 1]) /\ tasks[i + 1] \in Vertices
    BY <1>0, <1>7, <2>1
  <2>3. Lawful(after[i]) /\ ListsGain(w, after[i], Done(i))
    BY <1>9
  <2>4. Lawful(after[i + 1]) /\ ListsGain(after[i], after[i + 1], {tasks[i + 1]})
    BY <2>2, <2>3, PushGains
  <2>5. Done(i + 1) = Done(i) \cup {tasks[i + 1]}
    BY <2>1
  <2> HIDE DEF Done
  <2>6. ListsGain(w, after[i + 1], Done(i + 1))
    BY <2>3, <2>4, <2>5, ListsGainOn
  <2>7. QED
    BY <2>1, <2>4, <2>6
<1>10. \A i \in 0 .. n : i \in S
  <2> HIDE DEF S
  <2> QED BY <1>0, <1>8, <1>9, RangeInduction
<1>11. Lawful(after[n]) /\ ListsGain(w, after[n], Done(n))
  <2>1. n \in 0 .. n
    BY <1>0
  <2>2. n \in S
    BY <1>10, <2>1
  <2>3. QED
    BY <2>2
<1>12. Done(n) = ToSet(tasks)
  BY DEF n, ToSet
<1>13. QED
  BY <1>6, <1>11, <1>12



----------------------------------------------------------------------------
(* What the sweep of a queue erases and leaves, and what is joined.        *)

LEMMA EmptyList ==
  <<>> \in Seq(Vertices) /\ ToSet(<<>>) = {} /\ Once(<<>>)
<1>1. DOMAIN <<>> = {} /\ <<>> \in Seq(Vertices)
  <2>1. DOMAIN <<>> = 1 .. 0
    OBVIOUS
  <2>2. QED
    BY <2>1
<1>2. QED
  BY <1>1 DEF ToSet, Once

\* Elements of a sequence at given positions.
LEMMA AtIs ==
  \A S : \A q \in Seq(S) : \A p \in Seq(1 .. Len(q)) :
    /\ At(q, p) \in Seq(S) /\ Len(At(q, p)) = Len(p)
    /\ \A j \in ToSet(p) : q[j] \in ToSet(At(q, p))
    /\ ToSet(At(q, p)) \subseteq ToSet(q)
<1> SUFFICES ASSUME NEW S, NEW q \in Seq(S), NEW p \in Seq(1 .. Len(q))
             PROVE  /\ At(q, p) \in Seq(S) /\ Len(At(q, p)) = Len(p)
                    /\ \A j \in ToSet(p) : q[j] \in ToSet(At(q, p))
                    /\ ToSet(At(q, p)) \subseteq ToSet(q)
  OBVIOUS
<1>1. /\ Len(p) \in Nat /\ DOMAIN p = 1 .. Len(p) /\ \A i \in 1 .. Len(p) : p[i] \in 1 .. Len(q)
      /\ DOMAIN q = 1 .. Len(q) /\ \A i \in 1 .. Len(q) : q[i] \in S
  OBVIOUS
<1>2. At(q, p) = [i \in 1 .. Len(p) |-> q[p[i]]]
  BY <1>1 DEF At
<1>3. At(q, p) \in Seq(S) /\ Len(At(q, p)) = Len(p) /\ DOMAIN At(q, p) = 1 .. Len(p)
  BY <1>1, <1>2
<1>4. ASSUME NEW j \in ToSet(p) PROVE q[j] \in ToSet(At(q, p))
  <2>1. PICK i \in 1 .. Len(p) : p[i] = j
    BY <1>1 DEF ToSet
  <2>2. At(q, p)[i] = q[j]
    BY <1>2, <2>1
  <2>3. QED
    BY <1>3, <2>2 DEF ToSet
<1>5. ASSUME NEW x \in ToSet(At(q, p)) PROVE x \in ToSet(q)
  <2>1. PICK i \in 1 .. Len(p) : At(q, p)[i] = x
    BY <1>3 DEF ToSet
  <2>2. q[p[i]] = x /\ p[i] \in 1 .. Len(q)
    BY <1>1, <1>2, <2>1
  <2>3. QED
    BY <1>1, <2>2 DEF ToSet
<1>6. QED
  BY <1>3, <1>4, <1>5

\* one level of Sweep, from the results f for smaller lengths
SweepAt(f, n) ==
  LET odd == [i \in 1 .. CeilDiv(n, 2) |-> 2 * i - 1]
      even == [i \in 1 .. n \div 2 |-> 2 * i]
      again == f[n \div 2]
  IN IF n % 2 = 0 THEN [erased |-> odd, left |-> even]
     ELSE [erased |-> odd \o [i \in DOMAIN again.erased |-> even[again.erased[i]]],
           left |-> [i \in DOMAIN again.left |-> even[again.left[i]]]]

LEMMA Halves ==
  \A n \in Nat :
    /\ n \div 2 \in Nat /\ n \div 2 <= n /\ (n # 0 => n \div 2 <= n - 1)
    /\ CeilDiv(n, 2) \in Nat
    /\ \A i \in 1 .. n \div 2 : 2 * i \in 1 .. n
    /\ \A i \in 1 .. CeilDiv(n, 2) : 2 * i - 1 \in 1 .. n
    /\ \A j \in 1 .. n : \/ \E i \in 1 .. n \div 2 : j = 2 * i
                         \/ \E i \in 1 .. CeilDiv(n, 2) : j = 2 * i - 1
<1> SUFFICES ASSUME NEW n \in Nat
             PROVE  /\ n \div 2 \in Nat /\ n \div 2 <= n /\ (n # 0 => n \div 2 <= n - 1)
                    /\ CeilDiv(n, 2) \in Nat
                    /\ \A i \in 1 .. n \div 2 : 2 * i \in 1 .. n
                    /\ \A i \in 1 .. CeilDiv(n, 2) : 2 * i - 1 \in 1 .. n
                    /\ \A j \in 1 .. n : \/ \E i \in 1 .. n \div 2 : j = 2 * i
                                         \/ \E i \in 1 .. CeilDiv(n, 2) : j = 2 * i - 1
  OBVIOUS
<1>1. CeilDiv(n, 2) = (n + 1) \div 2
  BY DEF CeilDiv
<1>2. ASSUME NEW j \in 1 .. n
      PROVE  \/ \E i \in 1 .. n \div 2 : j = 2 * i
             \/ \E i \in 1 .. CeilDiv(n, 2) : j = 2 * i - 1
  <2>1. CASE j % 2 = 0
    <3>1. j = 2 * (j \div 2) /\ j \div 2 \in 1 .. n \div 2
      BY <2>1
    <3>2. QED
      BY <3>1
  <2>2. CASE j % 2 # 0
    <3>1. j = 2 * ((j + 1) \div 2) - 1 /\ (j + 1) \div 2 \in 1 .. (n + 1) \div 2
      BY <2>2
    <3>2. QED
      BY <1>1, <3>1
  <2>3. QED
    BY <2>1, <2>2
<1>3. QED
  BY <1>1, <1>2

\* The recursion has a solution, so that Sweep satisfies its equation.
LEMMA SweepUnfolds ==
  \A n \in 0 .. TASK_QUEUE_SIZE : Sweep[n] = SweepAt(Sweep, n)
<1> DEFINE N == TASK_QUEUE_SIZE
           Solves(f, n) == f = [i \in 0 .. n |-> SweepAt(f, i)]
           S == {n \in Nat : \E f : Solves(f, n)}
<1>0. N \in Nat
  BY SizesAssumption
<1>1. 0 \in S
  <2> DEFINE f == [i \in 0 .. 0 |-> SweepAt(<<>>, 0)]
  <2>1. \A h : SweepAt(h, 0) = SweepAt(<<>>, 0)
    BY DEF SweepAt
  <2>2. Solves(f, 0)
    <3>1. \A i \in 0 .. 0 : SweepAt(f, i) = SweepAt(<<>>, 0)
      BY <2>1
    <3>2. QED
      BY <3>1
  <2>3. QED
    BY <2>2
<1>2. ASSUME NEW n \in 0 .. N - 1, n \in S PROVE n + 1 \in S
  <2>1. PICK f : Solves(f, n)
    BY <1>2
  <2> DEFINE g == [i \in 0 .. n + 1 |-> IF i <= n THEN f[i] ELSE SweepAt(f, n + 1)]
  <2>2. \A i \in 0 .. n : g[i] = f[i] /\ f[i] = SweepAt(f, i)
    BY <2>1
  <2>3. ASSUME NEW i \in 0 .. n + 1 PROVE SweepAt(g, i) = SweepAt(f, i)
    <3>1. i \div 2 \in 0 .. n
      BY <2>3
    <3>2. g[i \div 2] = f[i \div 2]
      BY <2>2, <3>1
    <3> HIDE DEF g
    <3>3. QED
      BY <3>2 DEF SweepAt
  <2>4. ASSUME NEW i \in 0 .. n + 1 PROVE g[i] = SweepAt(g, i)
    <3>1. CASE i <= n
      <4>1. i \in 0 .. n
        BY <3>1
      <4> HIDE DEF g
      <4>2. QED
        BY <2>2, <2>3, <4>1
    <3>2. CASE ~(i <= n)
      <4>1. i = n + 1 /\ g[i] = SweepAt(f, n + 1)
        BY <3>2
      <4> HIDE DEF g
      <4>2. QED
        BY <2>3, <4>1
    <3>3. QED
      BY <3>1, <3>2
  <2>5. Solves(g, n + 1)
    <3>1. g = [i \in 0 .. n + 1 |-> g[i]]
      OBVIOUS
    <3> HIDE DEF g
    <3>2. QED
      BY <2>4, <3>1
  <2> HIDE DEF g, Solves
  <2>6. QED
    BY <2>5
<1>3. \A n \in 0 .. N : n \in S
  <2> HIDE DEF S, N
  <2> QED BY <1>0, <1>1, <1>2, RangeInduction
<1>4. N \in S
  <2> HIDE DEF S, N
  <2>1. N \in 0 .. N
    BY <1>0
  <2>2. QED
    BY <1>3, <2>1
<1>5. PICK f : Solves(f, N)
  BY <1>4
<1> DEFINE after == CHOOSE h : h = [n \in 0 .. N |-> SweepAt(h, n)]
<1>6. Sweep = after
  BY DEF Sweep, SweepAt
<1>7. after = [n \in 0 .. N |-> SweepAt(after, n)]
  BY <1>5
<1> HIDE DEF after
<1>8. QED
  BY <1>6, <1>7

\* Sweep takes every position of a list once it is done, or leaves it.
Splits(r, n) ==
  /\ r.erased \in Seq(1 .. n) /\ r.left \in Seq(1 .. n) /\ Len(r.left) <= n
  /\ \A j \in 1 .. n : j \in ToSet(r.erased) \/ j \in ToSet(r.left)

LEMMA SweepSplits ==
  \A n \in 0 .. TASK_QUEUE_SIZE : Splits(Sweep[n], n)
<1> DEFINE N == TASK_QUEUE_SIZE
           S == {n \in Nat : \A k \in 0 .. n : Splits(Sweep[k], k)}
<1>0. N \in Nat
  BY SizesAssumption
<1>1. ASSUME NEW n \in 0 .. N, n # 0 => Splits(Sweep[n \div 2], n \div 2)
      PROVE  Splits(Sweep[n], n)
  <2> DEFINE h == n \div 2
             c == CeilDiv(n, 2)
             odd == [i \in 1 .. c |-> 2 * i - 1]
             even == [i \in 1 .. h |-> 2 * i]
             again == Sweep[h]
  <2>0. n \in Nat
    BY <1>0
  <2>1. /\ h \in Nat /\ c \in Nat /\ h <= n
        /\ \A i \in 1 .. h : 2 * i \in 1 .. n
        /\ \A i \in 1 .. c : 2 * i - 1 \in 1 .. n
        /\ \A j \in 1 .. n : \/ \E i \in 1 .. h : j = 2 * i
                             \/ \E i \in 1 .. c : j = 2 * i - 1
    BY <2>0, Halves
  <2>2. Sweep[n] = IF n % 2 = 0 THEN [erased |-> odd, left |-> even]
                   ELSE [erased |-> odd \o At(even, again.erased), left |-> At(even, again.left)]
    BY SweepUnfolds DEF SweepAt, At
  <2>3. n % 2 # 0 => Splits(again, h)
    BY <1>0, <1>1
  <2> HIDE DEF h, c, again
  <2>4. odd \in Seq(1 .. n) /\ even \in Seq(1 .. n) /\ Len(even) = h
    BY <2>1
  <2>5. \A j \in 1 .. n : j \in ToSet(odd) \/ \E i \in 1 .. h : j = even[i]
    <3>1. ASSUME NEW i \in 1 .. c PROVE 2 * i - 1 \in ToSet(odd)
      BY <2>1 DEF ToSet
    <3>2. \A i \in 1 .. h : even[i] = 2 * i
      OBVIOUS
    <3> HIDE DEF odd, even
    <3>3. QED
      BY <2>1, <3>1, <3>2
  <2>6. \A i \in 1 .. h : even[i] \in ToSet(even)
    BY <2>1 DEF ToSet
  <2> HIDE DEF odd, even
  <2>7. CASE n % 2 = 0
    <3>1. Sweep[n].erased = odd /\ Sweep[n].left = even
      BY <2>2, <2>7
    <3>2. QED
      BY <2>1, <2>4, <2>5, <2>6, <3>1 DEF Splits
  <2>8. CASE n % 2 # 0
    <3> DEFINE e == At(even, again.erased)
               l == At(even, again.left)
    <3>1. Sweep[n].erased = odd \o e /\ Sweep[n].left = l
      BY <2>2, <2>8
    <3>2. /\ again.erased \in Seq(1 .. h) /\ again.left \in Seq(1 .. h) /\ Len(again.left) <= h
          /\ \A i \in 1 .. h : i \in ToSet(again.erased) \/ i \in ToSet(again.left)
      BY <2>3, <2>8 DEF Splits
    <3>3. /\ e \in Seq(1 .. n) /\ l \in Seq(1 .. n) /\ Len(l) = Len(again.left)
          /\ \A i \in ToSet(again.erased) : even[i] \in ToSet(e)
          /\ \A i \in ToSet(again.left) : even[i] \in ToSet(l)
      BY <2>4, <3>2, AtIs
    <3> HIDE DEF e, l
    <3>4. odd \o e \in Seq(1 .. n) /\ ToSet(odd \o e) = ToSet(odd) \cup ToSet(e)
      BY <2>4, <3>3, ToSetConcat
    <3>5. \A j \in 1 .. n : j \in ToSet(odd \o e) \/ j \in ToSet(l)
      BY <2>5, <3>2, <3>3, <3>4
    <3>6. Len(l) <= n
      BY <1>0, <2>1, <3>2, <3>3
    <3>7. QED
      BY <3>1, <3>3, <3>4, <3>5, <3>6 DEF Splits
  <2>9. QED
    BY <2>7, <2>8
<1>2. 0 \in S
  <2>1. Splits(Sweep[0], 0)
    BY <1>0, <1>1
  <2>2. \A k \in 0 .. 0 : k = 0
    OBVIOUS
  <2>3. QED
    BY <2>1, <2>2
<1>3. ASSUME NEW n \in 0 .. N - 1, n \in S PROVE n + 1 \in S
  <2>1. n + 1 \in 0 .. N /\ (n + 1) \div 2 \in 0 .. n
    BY <1>0
  <2>2. Splits(Sweep[n + 1], n + 1)
    BY <1>1, <1>3, <2>1
  <2>3. \A k \in 0 .. n + 1 : k \in 0 .. n \/ k = n + 1
    OBVIOUS
  <2>4. QED
    BY <1>3, <2>2, <2>3
<1>4. \A n \in 0 .. N : n \in S
  <2> HIDE DEF S, N
  <2> QED BY <1>0, <1>2, <1>3, RangeInduction
<1>5. QED
  BY <1>4

\* reset_task_queues neither loses nor invents a task of a hardware queue.
LEMMA ErasedOrLeft ==
  \A q \in Seq(Vertices) : Len(q) <= TASK_QUEUE_SIZE =>
    /\ ErasedFrom(q) \in Seq(Vertices) /\ LeftIn(q) \in Seq(Vertices)
    /\ Len(LeftIn(q)) <= TASK_QUEUE_SIZE
    /\ ToSet(q) = ToSet(ErasedFrom(q)) \cup ToSet(LeftIn(q))
<1> SUFFICES ASSUME NEW q \in Seq(Vertices), Len(q) <= TASK_QUEUE_SIZE
             PROVE  /\ ErasedFrom(q) \in Seq(Vertices) /\ LeftIn(q) \in Seq(Vertices)
                    /\ Len(LeftIn(q)) <= TASK_QUEUE_SIZE
                    /\ ToSet(q) = ToSet(ErasedFrom(q)) \cup ToSet(LeftIn(q))
  OBVIOUS
<1> DEFINE r == Sweep[Len(q)]
<1>1. Len(q) \in 0 .. TASK_QUEUE_SIZE /\ Len(q) \in Nat /\ TASK_QUEUE_SIZE \in Nat
  BY SizesAssumption
<1>2. Splits(r, Len(q))
  BY <1>1, SweepSplits
<1> HIDE DEF r
<1>3. /\ ErasedFrom(q) = At(q, r.erased) /\ LeftIn(q) = At(q, r.left)
  BY DEF ErasedFrom, LeftIn, r
<1>4. r.erased \in Seq(1 .. Len(q)) /\ r.left \in Seq(1 .. Len(q)) /\ Len(r.left) <= Len(q)
  BY <1>2 DEF Splits
<1>5. /\ ErasedFrom(q) \in Seq(Vertices) /\ LeftIn(q) \in Seq(Vertices)
      /\ Len(LeftIn(q)) = Len(r.left)
      /\ \A j \in ToSet(r.erased) : q[j] \in ToSet(ErasedFrom(q))
      /\ \A j \in ToSet(r.left) : q[j] \in ToSet(LeftIn(q))
      /\ ToSet(ErasedFrom(q)) \subseteq ToSet(q) /\ ToSet(LeftIn(q)) \subseteq ToSet(q)
  BY <1>3, <1>4, AtIs
<1>6. ASSUME NEW x \in ToSet(q) PROVE x \in ToSet(ErasedFrom(q)) \cup ToSet(LeftIn(q))
  <2>1. PICK j \in 1 .. Len(q) : q[j] = x
    BY DEF ToSet
  <2>2. QED
    BY <1>2, <1>5, <2>1 DEF Splits
<1>7. Len(LeftIn(q)) <= TASK_QUEUE_SIZE
  BY <1>1, <1>4, <1>5
<1>8. QED
  BY <1>5, <1>6, <1>7

LEMMA JoinedIs ==
  \A lists \in [Cores -> Seq(Vertices)] :
    /\ Joined(lists) \in Seq(Vertices)
    /\ ToSet(Joined(lists)) = UNION {ToSet(lists[c]) : c \in Cores}
<1> SUFFICES ASSUME NEW lists \in [Cores -> Seq(Vertices)]
             PROVE  /\ Joined(lists) \in Seq(Vertices)
                    /\ ToSet(Joined(lists)) = UNION {ToSet(lists[c]) : c \in Cores}
  OBVIOUS
<1> DEFINE n == NumCores
           X == Seq(Vertices)
           add(x, i) == x \o lists[i - 1]
           step == [i \in 1 .. n |-> [x \in X |-> add(x, i)]]
           Body(g) == [i \in 0 .. n |-> IF i = 0 THEN <<>> ELSE add(g[i - 1], i)]
           after == CHOOSE g : g = Body(g)
<1>0. n \in Nat /\ \A i \in 1 .. n : i - 1 \in Cores /\ lists[i - 1] \in Seq(Vertices)
  BY SizesAssumption DEF Cores
<1> HIDE DEF n
<1>1. \A x \in X, i \in 1 .. n : add(x, i) \in X
  BY <1>0, ToSetConcat
<1>2. step \in [1 .. n -> [X -> X]] /\ <<>> \in X
  <2> HIDE DEF add
  <2>1. <<>> \in X
    OBVIOUS
  <2> HIDE DEF X
  <2>2. QED
    BY <1>1, <2>1
<1>3. PICK g \in [0 .. n -> X] : Unfolds(g, n, <<>>, step)
  <2> HIDE DEF step, X
  <2> QED BY <1>0, <1>2, RecursionExists
<1>4. g = Body(g)
  <2> HIDE DEF add, X
  <2>1. ASSUME NEW i \in 0 .. n PROVE g[i] = IF i = 0 THEN <<>> ELSE add(g[i - 1], i)
    <3>1. CASE i = 0
      BY <1>3, <3>1 DEF Unfolds
    <3>2. CASE i # 0
      <4>1. i \in 1 .. n /\ i - 1 \in 0 .. n
        BY <1>0, <3>2
      <4>2. g[i] = step[i][g[i - 1]] /\ g[i - 1] \in X
        BY <1>3, <4>1 DEF Unfolds
      <4>3. QED
        BY <3>2, <4>1, <4>2
    <3>3. QED
      BY <3>1, <3>2
  <2>2. QED
    BY <2>1
<1>5. after = Body(after)
  <2> HIDE DEF Body
  <2> QED BY <1>4
<1>6. Joined(lists) = after[n]
  BY DEF Joined, n
<1> HIDE DEF after
<1>7. after[0] = <<>> /\ \A i \in 1 .. n : after[i] = add(after[i - 1], i)
  <2> HIDE DEF add
  <2>1. \A i \in 0 .. n : after[i] = IF i = 0 THEN <<>> ELSE add(after[i - 1], i)
    BY <1>5
  <2>2. 0 \in 0 .. n /\ \A i \in 1 .. n : i \in 0 .. n /\ i # 0
    BY <1>0
  <2>3. QED
    BY <2>1, <2>2
<1> DEFINE Done(i) == UNION {ToSet(lists[c]) : c \in 0 .. i - 1}
           S == {i \in Nat : after[i] \in X /\ ToSet(after[i]) = Done(i)}
<1>8. 0 \in S
  <2>1. <<>> \in Seq(Vertices) /\ ToSet(<<>>) = {}
    BY EmptyList
  <2>2. Done(0) = {}
    OBVIOUS
  <2> HIDE DEF Done
  <2>3. QED
    BY <1>7, <2>1, <2>2
<1>9. ASSUME NEW i \in 0 .. n - 1, i \in S PROVE i + 1 \in S
  <2>1. i + 1 \in 1 .. n /\ (i + 1) - 1 = i /\ i + 1 \in Nat
    BY <1>0
  <2>2. after[i + 1] = after[i] \o lists[i] /\ lists[i] \in Seq(Vertices) /\ after[i] \in Seq(Vertices)
    BY <1>0, <1>7, <1>9, <2>1
  <2>3. after[i + 1] \in Seq(Vertices) /\ ToSet(after[i + 1]) = ToSet(after[i]) \cup ToSet(lists[i])
    BY <2>2, ToSetConcat
  <2>4. Done(i + 1) = Done(i) \cup ToSet(lists[i])
    <3>1. \A c \in 0 .. (i + 1) - 1 : c \in 0 .. i - 1 \/ c = i
      OBVIOUS
    <3>2. i \in 0 .. (i + 1) - 1 /\ \A c \in 0 .. i - 1 : c \in 0 .. (i + 1) - 1
      OBVIOUS
    <3>3. QED
      BY <3>1, <3>2
  <2> HIDE DEF Done
  <2>5. QED
    BY <1>9, <2>1, <2>3, <2>4
<1>10. \A i \in 0 .. n : i \in S
  <2> HIDE DEF S
  <2> QED BY <1>0, <1>8, <1>9, RangeInduction
<1>11. after[n] \in X /\ ToSet(after[n]) = Done(n)
  <2>1. n \in 0 .. n
    BY <1>0
  <2>2. n \in S
    BY <1>10, <2>1
  <2>3. QED
    BY <2>2
<1>12. Done(n) = UNION {ToSet(lists[c]) : c \in Cores}
  BY DEF n, Cores
<1>13. QED
  BY <1>6, <1>11, <1>12

\* A loop over all vertices finds those of S, each once.
LEMMA AscendingIs ==
  \A S : S \subseteq Vertices =>
    Ascending(S) \in Seq(Vertices) /\ ToSet(Ascending(S)) = S /\ Once(Ascending(S))
<1> SUFFICES ASSUME NEW S, S \subseteq Vertices
             PROVE  Ascending(S) \in Seq(Vertices) /\ ToSet(Ascending(S)) = S /\ Once(Ascending(S))
  OBVIOUS
<1> DEFINE n == NumVertices
           X == Seq(Vertices)
           add(x, i) == Taken(S, x, i - 1)
           step == [i \in 1 .. n |-> [x \in X |-> add(x, i)]]
           Body(g) == [i \in 0 .. n |-> IF i = 0 THEN <<>> ELSE add(g[i - 1], i)]
           after == CHOOSE g : g = Body(g)
<1>0. n \in Nat /\ \A i \in 1 .. n : i - 1 \in Vertices
  BY SizesAssumption DEF Vertices
<1> HIDE DEF n
<1>1. \A x \in X, i \in 1 .. n : add(x, i) \in X
  BY <1>0, ToSetAppend DEF Taken
<1>2. step \in [1 .. n -> [X -> X]] /\ <<>> \in X
  <2> HIDE DEF add
  <2>1. <<>> \in X
    OBVIOUS
  <2> HIDE DEF X
  <2>2. QED
    BY <1>1, <2>1
<1>3. PICK g \in [0 .. n -> X] : Unfolds(g, n, <<>>, step)
  <2> HIDE DEF step, X
  <2> QED BY <1>0, <1>2, RecursionExists
<1>4. g = Body(g)
  <2> HIDE DEF add, X
  <2>1. ASSUME NEW i \in 0 .. n PROVE g[i] = IF i = 0 THEN <<>> ELSE add(g[i - 1], i)
    <3>1. CASE i = 0
      BY <1>3, <3>1 DEF Unfolds
    <3>2. CASE i # 0
      <4>1. i \in 1 .. n /\ i - 1 \in 0 .. n
        BY <1>0, <3>2
      <4>2. g[i] = step[i][g[i - 1]] /\ g[i - 1] \in X
        BY <1>3, <4>1 DEF Unfolds
      <4>3. QED
        BY <3>2, <4>1, <4>2
    <3>3. QED
      BY <3>1, <3>2
  <2>2. QED
    BY <2>1
<1>5. after = Body(after)
  <2> HIDE DEF Body
  <2> QED BY <1>4
<1>6. Ascending(S) = after[n]
  BY DEF Ascending, n
<1> HIDE DEF after
<1>7. after[0] = <<>> /\ \A i \in 1 .. n : after[i] = add(after[i - 1], i)
  <2> HIDE DEF add
  <2>1. \A i \in 0 .. n : after[i] = IF i = 0 THEN <<>> ELSE add(after[i - 1], i)
    BY <1>5
  <2>2. 0 \in 0 .. n /\ \A i \in 1 .. n : i \in 0 .. n /\ i # 0
    BY <1>0
  <2>3. QED
    BY <2>1, <2>2
<1> DEFINE I == {i \in Nat : /\ after[i] \in X /\ Once(after[i])
                             /\ ToSet(after[i]) = {v \in S : v < i}}
<1>8. 0 \in I
  <2>1. \A v \in S : ~(v < 0)
    BY DEF Vertices
  <2>2. {v \in S : v < 0} = {}
    BY <2>1
  <2>3. <<>> \in Seq(Vertices) /\ ToSet(<<>>) = {} /\ Once(<<>>)
    BY EmptyList
  <2>4. QED
    BY <1>7, <2>2, <2>3
<1>9. ASSUME NEW i \in 0 .. n - 1, i \in I PROVE i + 1 \in I
  <2>1. i + 1 \in 1 .. n /\ (i + 1) - 1 = i /\ i + 1 \in Nat /\ i \in Vertices
    BY <1>0
  <2>2. after[i + 1] = IF i \in S THEN Append(after[i], i) ELSE after[i]
    BY <1>7, <2>1 DEF Taken
  <2>3. after[i] \in Seq(Vertices) /\ Once(after[i]) /\ ToSet(after[i]) = {v \in S : v < i}
    BY <1>9
  <2>4. \A v \in S : v \in Int /\ (v < i + 1 <=> v < i \/ v = i)
    BY DEF Vertices
  <2>5. CASE i \in S
    <3>1. i \notin ToSet(after[i])
      BY <2>3
    <3>2. /\ after[i + 1] \in Seq(Vertices) /\ Once(after[i + 1])
          /\ ToSet(after[i + 1]) = ToSet(after[i]) \cup {i}
      BY <2>1, <2>2, <2>3, <2>5, <3>1, ToSetAppend, AppendOnce
    <3>3. ToSet(after[i + 1]) = {v \in S : v < i + 1}
      BY <2>3, <2>4, <2>5, <3>2
    <3>4. QED
      BY <2>1, <3>2, <3>3
  <2>6. CASE i \notin S
    <3>1. {v \in S : v < i + 1} = {v \in S : v < i}
      BY <2>4, <2>6
    <3>2. QED
      BY <2>1, <2>2, <2>3, <2>6, <3>1
  <2>7. QED
    BY <2>5, <2>6
<1>10. \A i \in 0 .. n : i \in I
  <2> HIDE DEF I
  <2> QED BY <1>0, <1>8, <1>9, RangeInduction
<1>11. after[n] \in X /\ Once(after[n]) /\ ToSet(after[n]) = {v \in S : v < n}
  <2>1. n \in 0 .. n
    BY <1>0
  <2>2. n \in I
    BY <1>10, <2>1
  <2>3. QED
    BY <2>2
<1>12. {v \in S : v < n} = S
  <2>1. \A v \in S : v < n
    BY SizesAssumption DEF Vertices, n
  <2>2. QED
    BY <2>1
<1>13. QED
  BY <1>6, <1>11, <1>12


----------------------------------------------------------------------------
(* Every action keeps the invariant.                                       *)

LEMMA EdgeType ==
  \A x \in Edges :
    /\ x[1] \in Vertices /\ x[2] \in 1 .. Len(Out[x[1]]) /\ x = <<x[1], x[2]>>
    /\ Dst(x) \in Vertices /\ Wgt(x) \in Nat
<1> SUFFICES ASSUME NEW x \in Edges
             PROVE  /\ x[1] \in Vertices /\ x[2] \in 1 .. Len(Out[x[1]]) /\ x = <<x[1], x[2]>>
                    /\ Dst(x) \in Vertices /\ Wgt(x) \in Nat
  OBVIOUS
<1>1. PICK v \in Vertices : x \in {v} \X (1 .. Len(Out[v]))
  BY DEF Edges
<1>2. x[1] = v /\ x[2] \in 1 .. Len(Out[v]) /\ x = <<x[1], x[2]>>
  BY <1>1
<1>3. Out[v] \in Seq([dst : Vertices, wgt : Nat])
  BY GraphAssumption
<1>4. Out[v][x[2]] \in [dst : Vertices, wgt : Nat]
  <2>1. \A E : \A s \in Seq(E) : \A i \in 1 .. Len(s) : s[i] \in E
    OBVIOUS
  <2>2. QED
    BY <1>2, <1>3, <2>1
<1>5. QED
  BY <1>2, <1>4 DEF Dst, Wgt

LEMMA EdgeOf ==
  \A v \in Vertices : \A i : i \in 1 .. Len(Out[v]) => <<v, i>> \in Edges
BY DEF Edges

LEMMA NewSliceIsSlice ==
  \A old \in -1 .. SLICE_COUNT - 1 : \A g : NewSlices(old, g) \subseteq Slices
<1> SUFFICES ASSUME NEW old \in -1 .. SLICE_COUNT - 1, NEW g
             PROVE  NewSlices(old, g) \subseteq Slices
  OBVIOUS
<1>1. SLICE_COUNT \in Nat \ {0} /\ old + 1 \in Nat
  BY SlicesOf
<1>2. (old + 1) % SLICE_COUNT \in Slices
  BY <1>1, RingPosition DEF Slices
<1>3. QED
  BY <1>2 DEF NewSlices

LEMMA Uncovered ==
  ASSUME IInv, build.exec # "sync", NEW x \in Edges
  PROVE  scratch[Dst(x)] <= scratch[x[1]] + Wgt(x) \/ Coming(x)
BY DEF IInv, Covered, NoRelaxationLost

\* Between the loops nothing but the slice and the place in the loops changes.
LEMMA LoopsGoOn ==
  ASSUME IInv, UNCHANGED <<build, scratch, vertexData, listVars, grad, engineVars>>,
         phase \in {"round", "slice"}, phase' = "slice",
         slice' \in Slices, served' \in 0 .. SLICE_COUNT
  PROVE  IInv'
<1>0. /\ build' = build /\ scratch' = scratch /\ vertexData' = vertexData
      /\ worklist' = worklist /\ duplicate' = duplicate /\ finishing' = finishing
      /\ finishedEdges' = finishedEdges /\ agg' = agg /\ queues' = queues
      /\ edges' = edges /\ updates' = updates
  BY DEF listVars, engineVars
<1>1. TypeOK'
  BY <1>0 DEF IInv, TypeOK
<1>2. ListsOfSlice' /\ DuplicateIsListed' /\ PresentIsQueued'
  BY <1>0 DEF IInv, ListsOfSlice, DuplicateIsListed, PresentIsQueued, Held
<1>3. TasksOfSlice' /\ Idle'
  BY <1>0 DEF IInv, TasksOfSlice, Idle, Queued
<1>4. ValuesImprove' /\ UpdatesJustified' /\ RoundSettled' /\ EndsIdle'
  BY <1>0 DEF IInv, ValuesImprove, UpdatesJustified, RoundSettled, EndsIdle, NoWork
<1>5. Covered'
  <2>1. \A x : Coming(x)' <=> Coming(x)
    BY <1>0 DEF Coming, InWorklist, Queued, BagIn, BagToSet
  <2>2. QED
    BY <1>0, <2>1 DEF IInv, Covered, NoRelaxationLost
<1>6. QED
  BY <1>1, <1>2, <1>3, <1>4, <1>5 DEF IInv

LEMMA StartRoundKeeps == IInv /\ StartRound => IInv'
<1> SUFFICES ASSUME IInv, StartRound PROVE IInv'
  OBVIOUS
<1>1. slice' \in Slices /\ served' \in 0 .. SLICE_COUNT
  <2>1. -1 \in -1 .. SLICE_COUNT - 1 /\ 0 \in 0 .. SLICE_COUNT
    BY SlicesOf
  <2>2. QED
    BY <2>1, NewSliceIsSlice DEF StartRound
<1>2. QED
  BY <1>1, LoopsGoOn DEF StartRound

LEMMA SkipSliceKeeps == IInv /\ SkipSlice => IInv'
<1> SUFFICES ASSUME IInv, SkipSlice PROVE IInv'
  OBVIOUS
<1>1. slice' \in Slices /\ served' \in 0 .. SLICE_COUNT
  <2>1. slice \in -1 .. SLICE_COUNT - 1
    BY SlicesOf DEF IInv, TypeOK, Slices
  <2>2. served' \in 0 .. SLICE_COUNT
    BY SlicesOf DEF IInv, TypeOK, SkipSlice
  <2>3. QED
    BY <2>1, <2>2, NewSliceIsSlice DEF SkipSlice
<1>2. QED
  BY <1>1, LoopsGoOn DEF SkipSlice

\* Without a task, a value to be activated and anything in the machine no edge
\* can improve a value.
LEMMA QuietIsFixpoint ==
  ASSUME IInv, build.exec # "sync", NoWork,
         \/ phase = "done"
         \/ phase = "round" /\ (build.exec = "blocked" => vertexData = scratch)
  PROVE  \A x \in Edges : scratch[Dst(x)] <= scratch[x[1]] + Wgt(x)
<1> SUFFICES ASSUME NEW x \in Edges PROVE ~Coming(x)
  BY Uncovered
<1>1. ~InWorklist(x[1])
  <2>1. \A s \in Slices : ToSet(worklist[s]) = {}
    BY EmptyList DEF NoWork
  <2>2. QED
    BY <2>1 DEF InWorklist
<1>2. \A c \in Cores : x[1] \notin Queued(c)
  BY DEF IInv, Idle
<1>3. ~(build.exec # "async" /\ phase # "done" /\ scratch[x[1]] # vertexData[x[1]])
  BY BuildsAssumption DEF IInv, TypeOK, Build
<1>4. ~BagIn(x, edges) /\ BagToSet(updates) = {}
  BY DEF IInv, Idle, BagIn, BagToSet
<1>5. QED
  BY <1>1, <1>2, <1>3, <1>4 DEF Coming

\* The driver ends when there is no task, and then there is nothing to cover.
LEMMA EndKeeps == IInv /\ End => IInv'
<1> SUFFICES ASSUME IInv, End PROVE IInv'
  OBVIOUS
<1>0. /\ build' = build /\ scratch' = scratch /\ slice' = slice /\ served' = served
      /\ worklist' = worklist /\ duplicate' = duplicate /\ finishing' = finishing
      /\ finishedEdges' = finishedEdges /\ agg' = agg /\ queues' = queues
      /\ edges' = edges /\ updates' = updates /\ phase = "round" /\ phase' = "done" /\ NoWork
      /\ vertexData' = IF build.exec = "blocked" THEN vertexData ELSE scratch
  BY DEF End, listVars, engineVars
<1>1. TypeOK'
  BY <1>0 DEF IInv, TypeOK
<1>2. ListsOfSlice' /\ DuplicateIsListed' /\ PresentIsQueued'
  BY <1>0 DEF IInv, ListsOfSlice, DuplicateIsListed, PresentIsQueued, Held
<1>3. TasksOfSlice' /\ Idle'
  BY <1>0 DEF IInv, TasksOfSlice, Idle, Queued
<1>4. ValuesImprove'
  BY <1>0 DEF IInv, ValuesImprove, TypeOK
<1>5. UpdatesJustified' /\ RoundSettled' /\ EndsIdle'
  BY <1>0 DEF IInv, UpdatesJustified, RoundSettled, EndsIdle, NoWork
<1>6. Covered'
  BY <1>0, QuietIsFixpoint DEF IInv, RoundSettled, Covered, NoRelaxationLost
<1>7. QED
  BY <1>1, <1>2, <1>3, <1>4, <1>5, <1>6 DEF IInv


\* what the queues' part of the invariant is good for
LEMMA QueuesFit ==
  ASSUME IInv
  PROVE  /\ Fits(queues) /\ queues.present \subseteq Held(queues)
         /\ \A c \in Cores : Queued(c) = ToSet(agg[c]) \cup HeldBy(queues, c)
BY DEF IInv, TypeOK, Fits, PresentIsQueued, Queued, HeldBy

LEMMA ListsAreLawful ==
  ASSUME IInv
  PROVE  Lawful(Lists) /\ Lists.list = worklist /\ Lists.bits = duplicate
<1>1. Lists.list = worklist /\ Lists.bits = duplicate /\ Lists \in ListStates
  BY DEF Lists, ListStates, IInv, TypeOK
<1>2. QED
  BY <1>1 DEF Lawful, IInv, ListsOfSlice, DuplicateIsListed

\* All tasks of the slice's list are in the machine's queues.
LEMMA LoadSliceKeeps == IInv /\ LoadSlice => IInv'
<1> SUFFICES ASSUME IInv, LoadSlice PROVE IInv'
  OBVIOUS
<1>0. /\ build' = build /\ scratch' = scratch /\ slice' = slice /\ vertexData' = vertexData
      /\ finishing' = FALSE /\ finishedEdges' = finishedEdges /\ agg' = agg
      /\ edges' = edges /\ updates' = updates /\ phase = "slice" /\ phase' \in {"run", "aborted"}
      /\ served < SLICE_COUNT /\ served' = served + 1
      /\ worklist' = [worklist EXCEPT ![slice] = <<>>]
      /\ duplicate' = [duplicate EXCEPT ![slice] = @ \ ToSet(worklist[slice])]
  BY DEF LoadSlice
<1>1. /\ slice \in Slices /\ worklist \in [Slices -> Seq(Vertices)] /\ worklist[slice] \in Seq(Vertices)
      /\ duplicate \in [Slices -> SUBSET Vertices] /\ queues \in QueueStates
  BY DEF IInv, TypeOK
<1>2. PICK before : /\ queues' = InsertAll(before, worklist[slice])
                    /\ before = queues \/ before = [queues EXCEPT !.present = {}]
  BY DEF LoadSlice
<1>3. Fits(before) /\ \A c \in Cores : HeldBy(before, c) = HeldBy(queues, c)
  <2>1. CASE before = queues
    BY <2>1, QueuesFit
  <2>2. CASE before = [queues EXCEPT !.present = {}]
    <3>1. before \in QueueStates /\ before.tq = queues.tq /\ before.fifo = queues.fifo /\ before.present = {}
      BY <1>1, <2>2 DEF QueueStates
    <3>2. QED
      BY <3>1 DEF Fits, HeldBy, IInv, TypeOK
  <2>3. QED
    BY <1>2, <2>1, <2>2
<1>4. PICK T : T = ToSet(worklist[slice])
  OBVIOUS
<1>5. PICK q2 : q2 = InsertAll(before, worklist[slice])
  OBVIOUS
<1>6. Fits(q2) /\ Gains(before, q2, T) /\ queues' = q2
  BY <1>1, <1>2, <1>3, <1>4, <1>5, InsertAllGains
<1>7. /\ \A c \in Cores : Queued(c) = {} /\ HeldBy(before, c) = {} /\ ToSet(agg[c]) = {}
      /\ DOMAIN edges = {} /\ DOMAIN updates = {}
  BY <1>0, <1>3, QueuesFit DEF IInv, Idle
<1>8. /\ \A c \in Cores : Queued(c)' = HeldBy(q2, c) /\ HeldBy(q2, c) \subseteq T
      /\ \A v \in T : \E c \in Cores : v \in HeldBy(q2, c)
  <2>1. \A c \in Cores : Queued(c)' = ToSet(agg[c]) \cup HeldBy(q2, c)
    BY <1>0, <1>6 DEF Queued, HeldBy
  <2>2. QED
    BY <1>6, <1>7, <2>1, HeldIs DEF Gains
<1>9. /\ worklist' \in [Slices -> Seq(Vertices)] /\ duplicate' \in [Slices -> SUBSET Vertices]
      /\ worklist'[slice] = <<>> /\ duplicate'[slice] = duplicate[slice] \ T
      /\ \A s \in Slices : s # slice => worklist'[s] = worklist[s] /\ duplicate'[s] = duplicate[s]
  BY <1>0, <1>1, <1>4, EmptyList
<1>10. TypeOK'
  <2>1. served' \in 0 .. SLICE_COUNT
    BY <1>0, SlicesOf DEF IInv, TypeOK
  <2>2. q2 \in QueueStates /\ \A c \in Cores : Len(q2.tq[c]) <= TASK_QUEUE_SIZE
    BY <1>6 DEF Fits
  <2>3. QED
    BY <1>0, <1>6, <1>9, <2>1, <2>2 DEF IInv, TypeOK
<1>11. ListsOfSlice' /\ DuplicateIsListed'
  <2>1. ToSet(worklist'[slice]) = {} /\ duplicate'[slice] = {}
    BY <1>1, <1>4, <1>9, EmptyList DEF IInv, DuplicateIsListed
  <2>2. QED
    BY <1>1, <1>9, <2>1 DEF IInv, ListsOfSlice, DuplicateIsListed
<1>12. TasksOfSlice'
  <2>1. T \subseteq Members(slice)
    BY <1>1, <1>4 DEF IInv, ListsOfSlice
  <2>2. QED
    BY <1>0, <1>8, <2>1 DEF TasksOfSlice
<1>13. PresentIsQueued' /\ Idle' /\ RoundSettled' /\ EndsIdle'
  BY <1>0, <1>6 DEF PresentIsQueued, Fits, Idle, RoundSettled, EndsIdle, NoWork
<1>14. ValuesImprove' /\ UpdatesJustified'
  BY <1>0 DEF IInv, ValuesImprove, UpdatesJustified
<1>15. Covered'
  <2>1. ASSUME NEW x \in Edges, Coming(x) PROVE Coming(x)'
    <3>1. CASE InWorklist(x[1])
      <4>1. PICK s \in Slices : x[1] \in ToSet(worklist[s])
        BY <3>1 DEF InWorklist
      <4>2. CASE s = slice
        <5>1. \E c \in Cores : x[1] \in Queued(c)'
          BY <1>4, <1>8, <4>1, <4>2
        <5>2. QED
          BY <5>1 DEF Coming
      <4>3. CASE s # slice
        BY <1>9, <4>1, <4>3 DEF Coming, InWorklist
      <4>4. QED
        BY <4>2, <4>3
    <3>2. CASE build.exec # "async" /\ phase # "done" /\ scratch[x[1]] # vertexData[x[1]]
      BY <1>0, <3>2 DEF Coming
    <3>3. ~(\E c \in Cores : x[1] \in Queued(c)) /\ ~BagIn(x, edges) /\ BagToSet(updates) = {}
      BY <1>7 DEF BagIn, BagToSet
    <3>4. QED
      BY <2>1, <3>1, <3>2, <3>3 DEF Coming
  <2>2. QED
    BY <1>0, <2>1 DEF IInv, Covered, NoRelaxationLost
<1>16. QED
  BY <1>10, <1>11, <1>12, <1>13, <1>14, <1>15 DEF IInv


\* The queues have no task that was not in one of them before.
NoNewTask == \A k \in Cores : \A v \in Queued(k)' : \E j \in Cores : v \in Queued(j)

\* Dispatching takes the front task and pulls what fits; all out-edges of its
\* vertex come.
LEMMA DispatchKeeps == \A c \in Cores : IInv /\ Dispatch(c) => IInv' /\ NoNewTask
<1> SUFFICES ASSUME NEW c \in Cores, IInv, Dispatch(c) PROVE IInv' /\ NoNewTask
  OBVIOUS
<1> DEFINE room == TASK_QUEUE_SIZE - Len(queues.tq[c]) + 1 - HIGH_PRIO_RESERVE
           pulled == IF room < Len(queues.fifo[c]) THEN room ELSE Len(queues.fifo[c])
<1>0. /\ build' = build /\ scratch' = scratch /\ slice' = slice /\ vertexData' = vertexData
      /\ served' = served /\ worklist' = worklist /\ duplicate' = duplicate
      /\ finishing' = finishing /\ finishedEdges' = finishedEdges /\ agg' = agg
      /\ updates' = updates /\ phase = "run" /\ phase' = "run" /\ queues.tq[c] # <<>>
  BY DEF Dispatch, listVars, loopVars
<1>1. PICK q2, v, n :
        /\ v = Head(queues.tq[c]) /\ n = IF pulled > 0 THEN pulled ELSE 0
        /\ q2 = [tq |-> [queues.tq EXCEPT ![c] = Tail(@) \o SubSeq(queues.fifo[c], 1, n)],
                 fifo |-> [queues.fifo EXCEPT ![c] = SubSeq(@, n + 1, Len(@))],
                 present |-> queues.present \ {v}]
        /\ queues' = q2
        /\ edges' = edges (+) SetToBag({v} \X (1 .. Len(Out[v])))
  BY DEF Dispatch
<1>2. /\ queues.tq \in [Cores -> Seq(Vertices)] /\ queues.fifo \in [Cores -> Seq(Vertices)]
      /\ queues.tq[c] \in Seq(Vertices) /\ queues.fifo[c] \in Seq(Vertices)
      /\ Len(queues.tq[c]) <= TASK_QUEUE_SIZE /\ queues.present \in SUBSET Vertices
  BY DEF IInv, TypeOK, QueueStates
<1>3. PICK t, f, rest : t = Tail(queues.tq[c]) /\ f = SubSeq(queues.fifo[c], 1, n)
                        /\ rest = SubSeq(queues.fifo[c], n + 1, Len(queues.fifo[c]))
  OBVIOUS
<1>4. /\ t \in Seq(Vertices) /\ v \in Vertices /\ Len(t) = Len(queues.tq[c]) - 1
      /\ Len(queues.tq[c]) \in Nat /\ ToSet(queues.tq[c]) = {v} \cup ToSet(t)
  BY <1>0, <1>1, <1>2, <1>3, ToSetHead
<1>5. n \in Nat /\ n <= Len(queues.fifo[c]) /\ (n = 0 \/ n <= room)
  <2>1. Len(queues.fifo[c]) \in Nat /\ room \in Int
    BY <1>2, <1>4, SizesAssumption
  <2>2. n = IF pulled > 0 THEN pulled ELSE 0
    BY <1>1
  <2> HIDE DEF room
  <2>3. QED
    BY <2>1, <2>2
<1>6. /\ f \in Seq(Vertices) /\ rest \in Seq(Vertices) /\ Len(f) = n
      /\ ToSet(queues.fifo[c]) = ToSet(f) \cup ToSet(rest)
  BY <1>2, <1>3, <1>5, ToSetCut
<1>7. /\ t \o f \in Seq(Vertices) /\ ToSet(t \o f) = ToSet(t) \cup ToSet(f)
      /\ Len(t \o f) = Len(t) + Len(f)
  <2>1. t \in Seq(Vertices) /\ f \in Seq(Vertices)
    BY <1>4, <1>6
  <2>2. Len(t \o f) = Len(t) + Len(f)
    BY <2>1, ConcatProperties
  <2>3. t \o f \in Seq(Vertices) /\ ToSet(t \o f) = ToSet(t) \cup ToSet(f)
    BY <2>1, ToSetConcat
  <2>4. QED
    BY <2>2, <2>3
<1>8. Len(t \o f) <= TASK_QUEUE_SIZE
  <2>1. PICK l : l = Len(queues.tq[c])
    OBVIOUS
  <2>2. /\ l \in Nat /\ l <= TASK_QUEUE_SIZE /\ Len(t \o f) = l - 1 + n /\ n \in Nat
        /\ TASK_QUEUE_SIZE \in Nat /\ HIGH_PRIO_RESERVE \in Nat
    BY <1>2, <1>4, <1>5, <1>6, <1>7, <2>1, SizesAssumption
  <2>3. n = 0 \/ n <= TASK_QUEUE_SIZE - l + 1 - HIGH_PRIO_RESERVE
    BY <1>5, <2>1
  <2>4. QED
    BY <2>2, <2>3
<1>9. /\ q2.tq = [queues.tq EXCEPT ![c] = t \o f] /\ q2.fifo = [queues.fifo EXCEPT ![c] = rest]
      /\ q2.present = queues.present \ {v} /\ q2 \in QueueStates
  <2>1. /\ [queues.tq EXCEPT ![c] = t \o f] \in [Cores -> Seq(Vertices)]
        /\ [queues.fifo EXCEPT ![c] = rest] \in [Cores -> Seq(Vertices)]
    BY <1>2, <1>6, <1>7
  <2>2. q2 = [tq |-> [queues.tq EXCEPT ![c] = t \o f], fifo |-> [queues.fifo EXCEPT ![c] = rest],
              present |-> queues.present \ {v}]
    BY <1>1, <1>2, <1>3
  <2>3. QED
    BY <1>2, <2>1, <2>2 DEF QueueStates
<1>10. \A k \in Cores : /\ HeldBy(queues, k) \subseteq HeldBy(q2, k) \cup {v}
                        /\ HeldBy(q2, k) \subseteq HeldBy(queues, k)
  <2>1. HeldBy(queues, c) = {v} \cup HeldBy(q2, c)
    BY <1>2, <1>4, <1>6, <1>7, <1>9 DEF HeldBy
  <2>2. \A k \in Cores : k # c => HeldBy(q2, k) = HeldBy(queues, k)
    BY <1>2, <1>9 DEF HeldBy
  <2>3. QED
    BY <2>1, <2>2
<1>11. \A k \in Cores : /\ Queued(k)' \subseteq Queued(k)
                        /\ Queued(k) \subseteq Queued(k)' \cup {v}
  <2>1. \A k \in Cores : Queued(k)' = ToSet(agg[k]) \cup HeldBy(q2, k)
    BY <1>0, <1>1 DEF Queued, HeldBy
  <2>2. QED
    BY <1>10, <2>1, QueuesFit
<1>12. DOMAIN edges' = DOMAIN edges \cup ({v} \X (1 .. Len(Out[v])))
  <2>1. PICK S : S = {v} \X (1 .. Len(Out[v]))
    OBVIOUS
  <2>2. edges' = edges (+) SetToBag(S)
    BY <1>1, <2>1
  <2>3. DOMAIN (edges (+) SetToBag(S)) = DOMAIN edges \cup S
    BY BagDomains
  <2>4. QED
    BY <2>1, <2>2, <2>3
<1>13. TypeOK'
  <2>1. DOMAIN edges' \subseteq Edges
    BY <1>4, <1>12 DEF IInv, TypeOK, Edges
  <2>2. \A k \in Cores : Len(q2.tq[k]) <= TASK_QUEUE_SIZE
    <3>1. \A k \in Cores : k # c => q2.tq[k] = queues.tq[k]
      BY <1>2, <1>9
    <3>2. q2.tq[c] = t \o f
      BY <1>2, <1>9
    <3>3. QED
      BY <1>8, <3>1, <3>2 DEF IInv, TypeOK
  <2>3. QED
    BY <1>0, <1>1, <1>9, <2>1, <2>2 DEF IInv, TypeOK
<1>14. ListsOfSlice' /\ DuplicateIsListed' /\ TasksOfSlice'
  BY <1>0, <1>11 DEF IInv, ListsOfSlice, DuplicateIsListed, TasksOfSlice
<1>15. PresentIsQueued'
  <2>1. queues.present \subseteq Held(queues)
    BY DEF IInv, PresentIsQueued
  <2>2. q2.present \subseteq Held(q2)
    BY <1>9, <1>10, <2>1, HeldIs
  <2>3. QED
    BY <1>1, <2>2 DEF PresentIsQueued
<1>16. Idle' /\ RoundSettled' /\ EndsIdle' /\ ValuesImprove' /\ UpdatesJustified'
  BY <1>0 DEF IInv, Idle, RoundSettled, EndsIdle, NoWork, ValuesImprove, UpdatesJustified
<1>17. Covered'
  <2>1. ASSUME NEW x \in Edges, Coming(x) PROVE Coming(x)'
    <3>1. CASE \E k \in Cores : x[1] \in Queued(k)
      <4>1. CASE x[1] = v
        <5>1. x \in DOMAIN edges'
          BY <1>12, <4>1, EdgeType
        <5>2. QED
          BY <5>1 DEF Coming, BagIn, BagToSet
      <4>2. CASE x[1] # v
        <5>1. \E k \in Cores : x[1] \in Queued(k)'
          BY <1>11, <3>1, <4>2
        <5>2. QED
          BY <5>1 DEF Coming
      <4>3. QED
        BY <4>1, <4>2
    <3>2. CASE BagIn(x, edges)
      BY <1>12, <3>2 DEF Coming, BagIn, BagToSet
    <3>3. CASE InWorklist(x[1])
      BY <1>0, <3>3 DEF Coming, InWorklist
    <3>4. CASE build.exec # "async" /\ phase # "done" /\ scratch[x[1]] # vertexData[x[1]]
      BY <1>0, <3>4 DEF Coming
    <3>5. CASE \E m \in BagToSet(updates) : m[1] = Dst(x) /\ m[2] <= scratch[x[1]] + Wgt(x)
      BY <1>0, <3>5 DEF Coming, BagToSet
    <3>6. QED
      BY <2>1, <3>1, <3>2, <3>3, <3>4, <3>5 DEF Coming
  <2>2. QED
    BY <1>0, <2>1 DEF IInv, Covered, NoRelaxationLost
<1>18. NoNewTask
  BY <1>11 DEF NoNewTask
<1>19. QED
  BY <1>13, <1>14, <1>15, <1>16, <1>17, <1>18 DEF IInv

\* Processing turns an edge into an update with its source's value.
LEMMA ProcessKeeps == \A e \in BagToSet(edges) : IInv /\ Process(e) => IInv'
<1> SUFFICES ASSUME NEW e \in BagToSet(edges), IInv, Process(e) PROVE IInv'
  OBVIOUS
<1>0. /\ build' = build /\ scratch' = scratch /\ slice' = slice /\ vertexData' = vertexData
      /\ served' = served /\ worklist' = worklist /\ duplicate' = duplicate
      /\ finishing' = finishing /\ finishedEdges' = finishedEdges /\ agg' = agg
      /\ queues' = queues /\ phase = "run" /\ phase' = "run"
      /\ edges' = BagRemove(edges, e)
  BY DEF Process, listVars, loopVars
<1>1. PICK src : /\ src = IF build.exec = "sync" THEN vertexData[e[1]] ELSE scratch[e[1]]
                 /\ updates' = BagAdd(updates, <<Dst(e), src + Wgt(e)>>)
  BY DEF Process
<1>2. e \in Edges
  BY DEF IInv, TypeOK, BagToSet
<1>3. /\ e[1] \in Vertices /\ Dst(e) \in Vertices /\ Wgt(e) \in Nat
      /\ scratch[e[1]] \in Nat /\ src \in Nat /\ scratch[e[1]] <= src
      /\ (build.exec # "sync" => src = scratch[e[1]])
  BY <1>1, <1>2, EdgeType DEF IInv, TypeOK, ValuesImprove
<1>4. PICK w : w = src + Wgt(e)
  OBVIOUS
<1>5. w \in Nat /\ scratch[e[1]] + Wgt(e) <= w /\ (build.exec # "sync" => w = scratch[e[1]] + Wgt(e))
  BY <1>3, <1>4
<1>6. /\ DOMAIN updates' = DOMAIN updates \cup {<<Dst(e), w>>}
      /\ DOMAIN edges' \subseteq DOMAIN edges /\ DOMAIN edges \subseteq DOMAIN edges' \cup {e}
  BY <1>0, <1>1, <1>4, BagDomains
<1>7. TypeOK'
  <2>1. DOMAIN edges' \subseteq Edges /\ DOMAIN updates' \subseteq Vertices \X Nat
    BY <1>3, <1>5, <1>6 DEF IInv, TypeOK
  <2>2. QED
    BY <1>0, <2>1 DEF IInv, TypeOK
<1>8. ListsOfSlice' /\ DuplicateIsListed' /\ TasksOfSlice' /\ PresentIsQueued'
  BY <1>0 DEF IInv, ListsOfSlice, DuplicateIsListed, TasksOfSlice, Queued, PresentIsQueued, Held
<1>9. Idle' /\ RoundSettled' /\ EndsIdle' /\ ValuesImprove'
  BY <1>0 DEF IInv, Idle, RoundSettled, EndsIdle, NoWork, ValuesImprove
<1>10. UpdatesJustified'
  <2>1. \E x \in Edges : Dst(x) = <<Dst(e), w>>[1] /\ scratch[x[1]] + Wgt(x) <= <<Dst(e), w>>[2]
    BY <1>2, <1>5
  <2>2. QED
    BY <1>0, <1>6, <2>1 DEF IInv, UpdatesJustified
<1>11. Covered'
  <2>1. ASSUME build.exec # "sync", NEW x \in Edges, Coming(x) PROVE Coming(x)'
    <3>1. CASE BagIn(x, edges)
      <4>1. CASE x = e
        <5>1. <<Dst(e), w>> \in BagToSet(updates)' /\ <<Dst(e), w>>[2] <= scratch'[x[1]] + Wgt(x)
          BY <1>0, <1>3, <1>5, <1>6, <2>1, <4>1 DEF BagToSet
        <5>2. <<Dst(e), w>>[1] = Dst(x)
          BY <4>1
        <5>3. QED
          BY <5>1, <5>2 DEF Coming
      <4>2. CASE x # e
        BY <1>6, <3>1, <4>2 DEF Coming, BagIn, BagToSet
      <4>3. QED
        BY <4>1, <4>2
    <3>2. CASE \E m \in BagToSet(updates) : m[1] = Dst(x) /\ m[2] <= scratch[x[1]] + Wgt(x)
      BY <1>0, <1>6, <3>2 DEF Coming, BagToSet
    <3>3. CASE InWorklist(x[1])
      BY <1>0, <3>3 DEF Coming, InWorklist
    <3>4. CASE build.exec # "async" /\ phase # "done" /\ scratch[x[1]] # vertexData[x[1]]
      BY <1>0, <3>4 DEF Coming
    <3>5. CASE \E k \in Cores : x[1] \in Queued(k)
      BY <1>0, <3>5 DEF Coming, Queued
    <3>6. QED
      BY <2>1, <3>1, <3>2, <3>3, <3>4, <3>5 DEF Coming
  <2>2. QED
    BY <1>0, <2>1 DEF IInv, Covered, NoRelaxationLost
<1>12. QED
  BY <1>7, <1>8, <1>9, <1>10, <1>11 DEF IInv

\* Draining moves a task from an aggregation buffer to the queues.
LEMMA DrainKeeps == \A c \in Cores : IInv /\ Drain(c) => IInv' /\ NoNewTask
<1> SUFFICES ASSUME NEW c \in Cores, IInv, Drain(c) PROVE IInv' /\ NoNewTask
  OBVIOUS
<1>0. /\ build' = build /\ scratch' = scratch /\ slice' = slice /\ vertexData' = vertexData
      /\ served' = served /\ worklist' = worklist /\ duplicate' = duplicate
      /\ finishing' = finishing /\ finishedEdges' = finishedEdges /\ edges' = edges
      /\ updates' = updates /\ phase = "run" /\ phase' = "run" /\ agg[c] # <<>>
      /\ agg' = [agg EXCEPT ![c] = Tail(@)] /\ queues' = Insert(queues, Head(agg[c]))
  BY DEF Drain, listVars, loopVars
<1>1. PICK v, q2 : v = Head(agg[c]) /\ q2 = Insert(queues, v)
  OBVIOUS
<1>2. agg \in [Cores -> Seq(Vertices)] /\ agg[c] \in Seq(Vertices)
  BY DEF IInv, TypeOK
<1>3. /\ v \in Vertices /\ Tail(agg[c]) \in Seq(Vertices)
      /\ ToSet(agg[c]) = {v} \cup ToSet(Tail(agg[c]))
  BY <1>0, <1>1, <1>2, ToSetHead
<1>4. Fits(q2) /\ Gains(queues, q2, {v}) /\ queues' = q2
  BY <1>0, <1>1, <1>3, InsertGains, QueuesFit
<1>5. \A k \in Cores : /\ agg'[k] \in Seq(Vertices)
                       /\ ToSet(agg'[k]) \subseteq ToSet(agg[k])
                       /\ ToSet(agg[k]) \subseteq ToSet(agg'[k]) \cup {v}
  BY <1>0, <1>2, <1>3
<1>6. /\ \A k \in Cores : Queued(k) \subseteq Queued(k)' \cup {v} /\ Queued(k)' \subseteq Queued(k) \cup {v}
      /\ \E k \in Cores : v \in Queued(k)'
      /\ v \in Queued(c)
  <2>1. \A k \in Cores : Queued(k)' = ToSet(agg'[k]) \cup HeldBy(q2, k)
    BY <1>4 DEF Queued, HeldBy
  <2>2. \A k \in Cores : Queued(k) = ToSet(agg[k]) \cup HeldBy(queues, k)
    BY QueuesFit
  <2>3. \A k \in Cores : /\ HeldBy(queues, k) \subseteq HeldBy(q2, k)
                         /\ HeldBy(q2, k) \subseteq HeldBy(queues, k) \cup {v}
    BY <1>4 DEF Gains
  <2>4. \E k \in Cores : v \in HeldBy(q2, k)
    BY <1>4, HeldIs DEF Gains
  <2>5. QED
    BY <1>3, <1>5, <2>1, <2>2, <2>3, <2>4
<1>7. TypeOK'
  <2>1. q2 \in QueueStates /\ \A k \in Cores : Len(q2.tq[k]) <= TASK_QUEUE_SIZE
    BY <1>4 DEF Fits
  <2>2. agg' \in [Cores -> Seq(Vertices)]
    BY <1>0, <1>2, <1>3
  <2>3. QED
    BY <1>0, <1>4, <2>1, <2>2 DEF IInv, TypeOK
<1>8. ListsOfSlice' /\ DuplicateIsListed'
  BY <1>0 DEF IInv, ListsOfSlice, DuplicateIsListed
<1>9. TasksOfSlice'
  BY <1>0, <1>6 DEF IInv, TasksOfSlice
<1>10. PresentIsQueued'
  BY <1>4 DEF PresentIsQueued, Fits
<1>11. Idle' /\ RoundSettled' /\ EndsIdle' /\ ValuesImprove' /\ UpdatesJustified'
  BY <1>0 DEF IInv, Idle, RoundSettled, EndsIdle, NoWork, ValuesImprove, UpdatesJustified
<1>12. Covered'
  <2>1. ASSUME NEW x \in Edges, Coming(x) PROVE Coming(x)'
    <3>1. CASE \E k \in Cores : x[1] \in Queued(k)
      <4>1. \E k \in Cores : x[1] \in Queued(k)'
        BY <1>6, <3>1
      <4>2. QED
        BY <4>1 DEF Coming
    <3>2. CASE ~(\E k \in Cores : x[1] \in Queued(k))
      BY <1>0, <2>1, <3>2 DEF Coming, InWorklist, BagIn, BagToSet
    <3>3. QED
      BY <3>1, <3>2
  <2>2. QED
    BY <1>0, <2>1 DEF IInv, Covered, NoRelaxationLost
<1>13. NoNewTask
  BY <1>6 DEF NoNewTask
<1>14. QED
  BY <1>7, <1>8, <1>9, <1>10, <1>11, <1>12, <1>13 DEF IInv


\* create_async_task finds the task a place, and changes only the lists and the
\* aggregation buffers.
LEMMA TaskCreated ==
  ASSUME IInv, NEW v \in Vertices, CreateAsyncTask(v), queues' = queues, slice' = slice
  PROVE  /\ worklist' \in [Slices -> Seq(Vertices)] /\ duplicate' \in [Slices -> SUBSET Vertices]
         /\ agg' \in [Cores -> Seq(Vertices)]
         /\ ListsOfSlice' /\ DuplicateIsListed' /\ TasksOfSlice'
         /\ \A s \in Slices : ToSet(worklist[s]) \subseteq ToSet(worklist'[s])
         /\ \A k \in Cores : Queued(k) \subseteq Queued(k)'
         /\ InWorklist(v)' \/ \E k \in Cores : v \in Queued(k)'
<1>0. /\ worklist \in [Slices -> Seq(Vertices)] /\ duplicate \in [Slices -> SUBSET Vertices]
      /\ agg \in [Cores -> Seq(Vertices)] /\ ListsOfSlice /\ DuplicateIsListed /\ TasksOfSlice
  BY DEF IInv, TypeOK
<1>1. CASE SliceOf(v) # slice \/ finishing
  <2>1. PICK w, w2 : w = Lists /\ w2 = PushUnlessDuplicate(w, v)
    OBVIOUS
  <2>2. worklist' = w2.list /\ duplicate' = w2.bits /\ agg' = agg
    BY <1>1, <2>1 DEF CreateAsyncTask
  <2>3. Lawful(w) /\ w.list = worklist /\ w.bits = duplicate
    BY <2>1, ListsAreLawful
  <2>4. Lawful(w2) /\ ListsGain(w, w2, {v})
    BY <2>1, <2>3, PushGains
  <2>5. /\ w2.list \in [Slices -> Seq(Vertices)] /\ w2.bits \in [Slices -> SUBSET Vertices]
        /\ \A s \in Slices : w2.bits[s] \subseteq ToSet(w2.list[s])
        /\ \A s \in Slices : ToSet(w2.list[s]) \subseteq Members(s)
    BY <2>4 DEF Lawful, ListStates
  <2>6. /\ \A s \in Slices : ToSet(w.list[s]) \subseteq ToSet(w2.list[s])
        /\ \E s \in Slices : v \in ToSet(w2.list[s])
    BY <2>4 DEF ListsGain
  <2>7. ListsOfSlice' /\ DuplicateIsListed'
    BY <2>2, <2>5 DEF ListsOfSlice, DuplicateIsListed
  <2>8. TasksOfSlice' /\ \A k \in Cores : Queued(k)' = Queued(k)
    BY <1>0, <2>2 DEF TasksOfSlice, Queued
  <2>9. QED
    BY <1>0, <2>2, <2>3, <2>5, <2>6, <2>7, <2>8 DEF InWorklist
<1>2. CASE ~(SliceOf(v) # slice \/ finishing)
  <2>1. PICK k, a : k = Owner[v] /\ a = Append(agg[k], v)
    OBVIOUS
  <2>2. /\ agg' = [agg EXCEPT ![k] = a] /\ worklist' = worklist /\ duplicate' = duplicate
    BY <1>2, <2>1 DEF CreateAsyncTask, listVars
  <2>3. k \in Cores /\ a \in Seq(Vertices) /\ ToSet(a) = ToSet(agg[k]) \cup {v}
    BY <1>0, <2>1, ToSetAppend, GraphAssumption
  <2>4. /\ agg' \in [Cores -> Seq(Vertices)]
        /\ \A c \in Cores : agg'[c] = IF c = k THEN a ELSE agg[c]
    BY <1>0, <2>2, <2>3
  <2>5. \A c \in Cores : Queued(c)' = IF c = k THEN Queued(c) \cup {v} ELSE Queued(c)
    BY <2>3, <2>4 DEF Queued
  <2>6. v \in Members(slice)
    BY <1>2, SliceOfType
  <2>7. TasksOfSlice'
    BY <1>0, <2>5, <2>6 DEF TasksOfSlice
  <2>8. ListsOfSlice' /\ DuplicateIsListed'
    BY <1>0, <2>2 DEF ListsOfSlice, DuplicateIsListed
  <2>9. QED
    BY <1>0, <2>2, <2>3, <2>4, <2>5, <2>7, <2>8
<1>3. QED
  BY <1>1, <1>2

\* An update that improves its vertex makes a task of it, or leaves it to be
\* activated; what other edges need stays as it is.
LEMMA ServeKeeps == \A m \in BagToSet(updates) : IInv /\ Serve(m) => IInv'
<1> SUFFICES ASSUME NEW m \in BagToSet(updates), IInv, Serve(m) PROVE IInv'
  OBVIOUS
<1>0. /\ build' = build /\ slice' = slice /\ vertexData' = vertexData
      /\ served' = served /\ finishing' = finishing /\ queues' = queues /\ edges' = edges
      /\ phase = "run" /\ phase' = "run" /\ updates' = BagRemove(updates, m)
      /\ finishedEdges' \in {finishedEdges, finishedEdges + 1}
  BY DEF Serve, loopVars
<1>1. /\ m \in DOMAIN updates /\ m[1] \in Vertices /\ m[2] \in Nat
      /\ scratch \in [Vertices -> Nat] /\ scratch[m[1]] \in Nat
      /\ DOMAIN updates \subseteq Vertices \X Nat
  BY DEF IInv, TypeOK, BagToSet
<1>2. DOMAIN updates' \subseteq DOMAIN updates /\ DOMAIN updates \subseteq DOMAIN updates' \cup {m}
  BY <1>0, BagDomains
<1>3. \/ m[2] >= scratch[m[1]] /\ scratch' = scratch
      \/ m[2] < scratch[m[1]] /\ scratch' = [scratch EXCEPT ![m[1]] = m[2]]
  BY <1>1 DEF Serve
<1>4. /\ scratch' \in [Vertices -> Nat]
      /\ \A v \in Vertices : v # m[1] => scratch'[v] = scratch[v]
      /\ \A v \in Vertices : scratch'[v] <= scratch[v] /\ scratch[v] \in Nat /\ scratch'[v] \in Nat
      /\ scratch'[m[1]] <= m[2]
  BY <1>1, <1>3
<1>5. /\ worklist' \in [Slices -> Seq(Vertices)] /\ duplicate' \in [Slices -> SUBSET Vertices]
      /\ agg' \in [Cores -> Seq(Vertices)]
      /\ ListsOfSlice' /\ DuplicateIsListed' /\ TasksOfSlice'
      /\ \A s \in Slices : ToSet(worklist[s]) \subseteq ToSet(worklist'[s])
      /\ \A k \in Cores : Queued(k) \subseteq Queued(k)'
      /\ m[2] < scratch[m[1]] /\ build.exec = "async" =>
           InWorklist(m[1])' \/ \E k \in Cores : m[1] \in Queued(k)'
  <2>1. CASE m[2] < scratch[m[1]] /\ build.exec = "async"
    <3>1. CreateAsyncTask(m[1])
      BY <2>1 DEF Serve
    <3>2. QED
      BY <1>0, <1>1, <3>1, TaskCreated
  <2>2. CASE ~(m[2] < scratch[m[1]] /\ build.exec = "async")
    <3>1. worklist' = worklist /\ duplicate' = duplicate /\ agg' = agg
      BY <2>2 DEF Serve, listVars
    <3>2. ListsOfSlice' /\ DuplicateIsListed' /\ TasksOfSlice' /\ \A k \in Cores : Queued(k)' = Queued(k)
      BY <1>0, <3>1 DEF IInv, ListsOfSlice, DuplicateIsListed, TasksOfSlice, Queued
    <3>3. QED
      BY <2>2, <3>1, <3>2 DEF IInv, TypeOK
  <2>3. QED
    BY <2>1, <2>2
<1>6. TypeOK'
  <2>1. finishedEdges' \in Nat /\ DOMAIN updates' \subseteq Vertices \X Nat
    BY <1>0, <1>1, <1>2 DEF IInv, TypeOK
  <2>2. QED
    BY <1>0, <1>4, <1>5, <2>1 DEF IInv, TypeOK
<1>7. PresentIsQueued' /\ Idle' /\ RoundSettled' /\ EndsIdle'
  BY <1>0 DEF IInv, PresentIsQueued, Held, Idle, RoundSettled, EndsIdle, NoWork
<1>8. ValuesImprove'
  <2>1. \A v \in Vertices : vertexData[v] \in Nat /\ scratch[v] <= vertexData[v] /\ scratch[v] <= MaxDist
    BY DEF IInv, TypeOK, ValuesImprove
  <2>2. \A v \in Vertices : scratch'[v] <= vertexData[v] /\ scratch'[v] <= MaxDist
    <3>1. ASSUME NEW v \in Vertices PROVE scratch'[v] <= vertexData[v] /\ scratch'[v] <= MaxDist
      <4>1. PICK n, o, d : n = scratch'[v] /\ o = scratch[v] /\ d = vertexData[v]
        OBVIOUS
      <4>2. n <= o /\ o <= d /\ o <= MaxDist /\ n \in Nat /\ o \in Nat /\ d \in Nat /\ MaxDist \in Nat
        BY <1>4, <2>1, <4>1, GraphAssumption
      <4>3. QED
        BY <4>1, <4>2
    <3>2. QED
      BY <3>1
  <2>3. scratch'[Source] = 0
    <3>1. Source \in Vertices /\ scratch[Source] = 0
      BY GraphAssumption DEF IInv, ValuesImprove
    <3>2. QED
      BY <1>4, <3>1
  <2>4. QED
    BY <1>0, <2>2, <2>3 DEF ValuesImprove
<1>9. UpdatesJustified'
  <2>1. ASSUME NEW u \in DOMAIN updates'
        PROVE  \E x \in Edges : Dst(x) = u[1] /\ scratch'[x[1]] + Wgt(x) <= u[2]
    <3>1. u \in DOMAIN updates /\ u[2] \in Nat
      BY <1>1, <1>2
    <3>2. PICK x \in Edges : Dst(x) = u[1] /\ scratch[x[1]] + Wgt(x) <= u[2]
      BY <3>1 DEF IInv, UpdatesJustified
    <3>3. scratch'[x[1]] + Wgt(x) <= u[2]
      BY <1>4, <3>1, <3>2, EdgeType
    <3>4. QED
      BY <3>2, <3>3
  <2>2. QED
    BY <2>1 DEF UpdatesJustified
<1>10. Covered'
  <2>1. ASSUME build.exec # "sync", NEW x \in Edges
        PROVE  scratch'[Dst(x)] <= scratch'[x[1]] + Wgt(x) \/ Coming(x)'
    <3>0. /\ x[1] \in Vertices /\ Dst(x) \in Vertices /\ Wgt(x) \in Nat
          /\ scratch[Dst(x)] \in Nat /\ scratch'[Dst(x)] \in Nat
          /\ scratch[x[1]] \in Nat /\ scratch'[x[1]] \in Nat
          /\ scratch'[Dst(x)] <= scratch[Dst(x)]
      BY <1>4, EdgeType
    <3>1. CASE m[2] < scratch[m[1]] /\ x[1] = m[1]
      <4>1. CASE build.exec = "async"
        <5>1. InWorklist(x[1])' \/ \E k \in Cores : x[1] \in Queued(k)'
          BY <1>5, <3>1, <4>1
        <5>2. QED
          BY <5>1 DEF Coming
      <4>2. CASE build.exec # "async"
        <5>1. scratch'[x[1]] # vertexData[x[1]]
          <6>1. scratch'[x[1]] = m[2] /\ vertexData[x[1]] \in Nat /\ scratch[x[1]] <= vertexData[x[1]]
            BY <1>1, <1>3, <3>1 DEF IInv, TypeOK, ValuesImprove
          <6>2. QED
            BY <1>1, <3>0, <3>1, <6>1
        <5>2. QED
          BY <1>0, <4>2, <5>1 DEF Coming
      <4>3. QED
        BY <4>1, <4>2
    <3>2. CASE ~(m[2] < scratch[m[1]] /\ x[1] = m[1])
      <4>0. scratch'[x[1]] = scratch[x[1]]
        BY <1>1, <1>3, <3>0, <3>2
      <4>1. CASE scratch[Dst(x)] <= scratch[x[1]] + Wgt(x)
        BY <3>0, <4>0, <4>1
      <4>2. CASE \E u \in BagToSet(updates) : u[1] = Dst(x) /\ u[2] <= scratch[x[1]] + Wgt(x)
        <5>1. PICK u \in BagToSet(updates) : u[1] = Dst(x) /\ u[2] <= scratch[x[1]] + Wgt(x)
          BY <4>2
        <5>2. CASE u = m
          <6>1. m[2] <= scratch[x[1]] + Wgt(x) /\ scratch'[Dst(x)] <= m[2]
            BY <1>4, <5>1, <5>2
          <6>2. QED
            BY <1>1, <3>0, <4>0, <6>1
        <5>3. CASE u # m
          <6>1. u \in BagToSet(updates)' /\ u[2] <= scratch'[x[1]] + Wgt(x)
            BY <1>2, <4>0, <5>1, <5>3 DEF BagToSet
          <6>2. QED
            BY <5>1, <6>1 DEF Coming
        <5>4. QED
          BY <5>2, <5>3
      <4>3. CASE InWorklist(x[1])
        BY <1>5, <4>3 DEF Coming, InWorklist
      <4>4. CASE \E k \in Cores : x[1] \in Queued(k)
        <5>1. \E k \in Cores : x[1] \in Queued(k)'
          BY <1>5, <4>4
        <5>2. QED
          BY <5>1 DEF Coming
      <4>5. CASE BagIn(x, edges)
        BY <1>0, <4>5 DEF Coming, BagIn, BagToSet
      <4>6. CASE build.exec # "async" /\ phase # "done" /\ scratch[x[1]] # vertexData[x[1]]
        BY <1>0, <4>0, <4>6 DEF Coming
      <4>7. QED
        BY <2>1, <4>1, <4>2, <4>3, <4>4, <4>5, <4>6, Uncovered DEF Coming
    <3>3. QED
      BY <3>1, <3>2
  <2>2. QED
    BY <1>0, <2>1 DEF Covered, NoRelaxationLost
<1>11. QED
  BY <1>5, <1>6, <1>7, <1>8, <1>9, <1>10 DEF IInv

\* What reset_task_queues moves is what it erases and the overflow queues.
LEMMA MovedIs ==
  ASSUME IInv
  PROVE  /\ Moved \in Seq(Vertices)
         /\ ToSet(Moved) = UNION {ToSet(ErasedFrom(queues.tq[c])) \cup ToSet(queues.fifo[c]) : c \in Cores}
<1>1. /\ queues.tq \in [Cores -> Seq(Vertices)] /\ queues.fifo \in [Cores -> Seq(Vertices)]
      /\ \A c \in Cores : queues.tq[c] \in Seq(Vertices) /\ Len(queues.tq[c]) <= TASK_QUEUE_SIZE
  BY DEF IInv, TypeOK, QueueStates
<1>2. PICK E : E = [c \in Cores |-> ErasedFrom(queues.tq[c])]
  OBVIOUS
<1>3. E \in [Cores -> Seq(Vertices)] /\ \A c \in Cores : E[c] = ErasedFrom(queues.tq[c])
  BY <1>1, <1>2, ErasedOrLeft
<1>4. /\ Joined(E) \in Seq(Vertices) /\ ToSet(Joined(E)) = UNION {ToSet(E[c]) : c \in Cores}
      /\ Joined(queues.fifo) \in Seq(Vertices)
      /\ ToSet(Joined(queues.fifo)) = UNION {ToSet(queues.fifo[c]) : c \in Cores}
  BY <1>1, <1>3, JoinedIs
<1>5. Moved = Joined(E) \o Joined(queues.fifo)
  BY <1>2 DEF Moved
<1>6. /\ Moved \in Seq(Vertices)
      /\ ToSet(Moved) = ToSet(Joined(E)) \cup ToSet(Joined(queues.fifo))
  BY <1>4, <1>5, ToSetConcat
<1>7. QED
  BY <1>3, <1>4, <1>6

\* reset_task_queues moves a task to its worklist or leaves it where it is.
LEMMA SwitchSliceKeeps == IInv /\ SwitchSlice => IInv' /\ NoNewTask
<1> SUFFICES ASSUME IInv, SwitchSlice PROVE IInv' /\ NoNewTask
  OBVIOUS
<1>0. /\ build' = build /\ scratch' = scratch /\ slice' = slice /\ vertexData' = vertexData
      /\ served' = served /\ finishing' = TRUE /\ finishedEdges' = 0 /\ agg' = agg /\ edges' = edges
      /\ updates' = updates /\ phase = "run" /\ phase' = "run"
  BY DEF SwitchSlice, ResetTaskQueues, loopVars
<1>1. PICK w, w2, M, q2 :
        /\ w = Lists /\ M = Moved /\ w2 = PushAll(w, M)
        /\ q2 = [tq |-> [c \in Cores |-> LeftIn(queues.tq[c])],
                 fifo |-> [c \in Cores |-> <<>>],
                 present |-> queues.present \ ToSet(M)]
        /\ worklist' = w2.list /\ duplicate' = w2.bits /\ queues' = q2
  BY DEF SwitchSlice, ResetTaskQueues
<1>2. /\ M \in Seq(Vertices)
      /\ ToSet(M) = UNION {ToSet(ErasedFrom(queues.tq[c])) \cup ToSet(queues.fifo[c]) : c \in Cores}
  BY <1>1, MovedIs
<1>3. Lawful(w) /\ w.list = worklist /\ w.bits = duplicate
  BY <1>1, ListsAreLawful
<1>4. Lawful(w2) /\ ListsGain(w, w2, ToSet(M))
  BY <1>1, <1>2, <1>3, PushAllGains
<1>5. /\ w2.list \in [Slices -> Seq(Vertices)] /\ w2.bits \in [Slices -> SUBSET Vertices]
      /\ \A s \in Slices : w2.bits[s] \subseteq ToSet(w2.list[s])
      /\ \A s \in Slices : ToSet(w2.list[s]) \subseteq Members(s)
  BY <1>4 DEF Lawful, ListStates
<1>6. /\ \A s \in Slices : ToSet(worklist[s]) \subseteq ToSet(worklist'[s])
      /\ \A v \in ToSet(M) : \E s \in Slices : v \in ToSet(worklist'[s])
  BY <1>1, <1>3, <1>4 DEF ListsGain
<1>7. /\ queues.tq \in [Cores -> Seq(Vertices)] /\ queues.fifo \in [Cores -> Seq(Vertices)]
      /\ \A c \in Cores : queues.tq[c] \in Seq(Vertices) /\ Len(queues.tq[c]) <= TASK_QUEUE_SIZE
      /\ queues.present \in SUBSET Vertices
  BY DEF IInv, TypeOK, QueueStates
<1>8. \A c \in Cores :
        /\ LeftIn(queues.tq[c]) \in Seq(Vertices) /\ Len(LeftIn(queues.tq[c])) <= TASK_QUEUE_SIZE
        /\ ToSet(queues.tq[c]) = ToSet(ErasedFrom(queues.tq[c])) \cup ToSet(LeftIn(queues.tq[c]))
  BY <1>7, ErasedOrLeft
<1>9. /\ q2.tq = [c \in Cores |-> LeftIn(queues.tq[c])] /\ q2.fifo = [c \in Cores |-> <<>>]
      /\ q2.present = queues.present \ ToSet(M)
      /\ q2 \in QueueStates
      /\ \A c \in Cores : Len(q2.tq[c]) <= TASK_QUEUE_SIZE
  <2>1. /\ [c \in Cores |-> LeftIn(queues.tq[c])] \in [Cores -> Seq(Vertices)]
        /\ [c \in Cores |-> <<>>] \in [Cores -> Seq(Vertices)]
    BY <1>8, EmptyList
  <2>2. q2.tq = [c \in Cores |-> LeftIn(queues.tq[c])] /\ q2.fifo = [c \in Cores |-> <<>>]
        /\ q2.present = queues.present \ ToSet(M)
    BY <1>1
  <2>3. q2 \in QueueStates
    BY <1>1, <1>7, <2>1 DEF QueueStates
  <2>4. QED
    BY <1>8, <2>2, <2>3
<1>10. \A c \in Cores : HeldBy(q2, c) = ToSet(LeftIn(queues.tq[c]))
  BY <1>9, EmptyList DEF HeldBy
<1>11. \A c \in Cores : /\ HeldBy(q2, c) \subseteq HeldBy(queues, c)
                        /\ HeldBy(queues, c) \subseteq HeldBy(q2, c) \cup ToSet(M)
  <2>1. \A c \in Cores : HeldBy(queues, c) = ToSet(queues.tq[c]) \cup ToSet(queues.fifo[c])
    BY DEF HeldBy
  <2>2. \A c \in Cores : ToSet(ErasedFrom(queues.tq[c])) \cup ToSet(queues.fifo[c]) \subseteq ToSet(M)
    BY <1>2
  <2>3. QED
    BY <1>8, <1>10, <2>1, <2>2
<1>12. \A c \in Cores : /\ Queued(c)' \subseteq Queued(c)
                        /\ Queued(c) \subseteq Queued(c)' \cup ToSet(M)
  <2>1. \A c \in Cores : Queued(c)' = ToSet(agg[c]) \cup HeldBy(q2, c)
    BY <1>0, <1>1 DEF Queued, HeldBy
  <2>2. \A c \in Cores : Queued(c) = ToSet(agg[c]) \cup HeldBy(queues, c)
    BY QueuesFit
  <2>3. QED
    BY <1>11, <2>1, <2>2
<1>13. TypeOK'
  BY <1>0, <1>1, <1>5, <1>9 DEF IInv, TypeOK
<1>14. ListsOfSlice' /\ DuplicateIsListed'
  BY <1>1, <1>5 DEF ListsOfSlice, DuplicateIsListed
<1>15. TasksOfSlice'
  BY <1>0, <1>12 DEF IInv, TasksOfSlice
<1>16. PresentIsQueued'
  <2>1. queues.present \subseteq Held(queues)
    BY QueuesFit
  <2>2. q2.present \subseteq Held(q2)
    BY <1>9, <1>11, <2>1, HeldIs
  <2>3. QED
    BY <1>1, <2>2 DEF PresentIsQueued
<1>17. Idle' /\ RoundSettled' /\ EndsIdle' /\ ValuesImprove' /\ UpdatesJustified'
  BY <1>0 DEF IInv, Idle, RoundSettled, EndsIdle, NoWork, ValuesImprove, UpdatesJustified
<1>18. Covered'
  <2>1. ASSUME NEW x \in Edges, Coming(x) PROVE Coming(x)'
    <3>1. CASE \E k \in Cores : x[1] \in Queued(k)
      <4>1. CASE x[1] \in ToSet(M)
        BY <1>6, <4>1 DEF Coming, InWorklist
      <4>2. CASE x[1] \notin ToSet(M)
        <5>1. \E k \in Cores : x[1] \in Queued(k)'
          BY <1>12, <3>1, <4>2
        <5>2. QED
          BY <5>1 DEF Coming
      <4>3. QED
        BY <4>1, <4>2
    <3>2. CASE InWorklist(x[1])
      BY <1>6, <3>2 DEF Coming, InWorklist
    <3>3. CASE ~(\E k \in Cores : x[1] \in Queued(k)) /\ ~InWorklist(x[1])
      BY <1>0, <2>1, <3>3 DEF Coming, BagIn, BagToSet
    <3>4. QED
      BY <3>1, <3>2, <3>3
  <2>2. QED
    BY <1>0, <2>1 DEF IInv, Covered, NoRelaxationLost
<1>19. NoNewTask
  BY <1>12 DEF NoNewTask
<1>20. QED
  BY <1>13, <1>14, <1>15, <1>16, <1>17, <1>18, <1>19 DEF IInv


LEMMA ImprovedIs ==
  \A s \in Slices : Improved(s) \subseteq Members(s) /\ Improved(s) \subseteq Vertices
BY DEF Improved, Members

\* Lists that are as they were, or have the improved vertices of their slice
\* appended, keep what they had.
LEMMA ListsExtended ==
  ASSUME IInv, NEW A \in SUBSET Slices,
         worklist' = [s \in Slices |->
           IF s \in A THEN worklist[s] \o Ascending(Improved(s)) ELSE worklist[s]],
         duplicate' = duplicate
  PROVE  /\ worklist' \in [Slices -> Seq(Vertices)] /\ ListsOfSlice' /\ DuplicateIsListed'
         /\ \A s \in Slices : ToSet(worklist[s]) \subseteq ToSet(worklist'[s])
         /\ \A s \in A : Improved(s) \subseteq ToSet(worklist'[s])
<1>1. /\ worklist \in [Slices -> Seq(Vertices)] /\ duplicate \in [Slices -> SUBSET Vertices]
      /\ ListsOfSlice /\ DuplicateIsListed
  BY DEF IInv, TypeOK
<1>2. ASSUME NEW s \in Slices
      PROVE  /\ worklist'[s] \in Seq(Vertices)
             /\ ToSet(worklist'[s]) \subseteq ToSet(worklist[s]) \cup Improved(s)
             /\ ToSet(worklist[s]) \subseteq ToSet(worklist'[s])
             /\ s \in A => Improved(s) \subseteq ToSet(worklist'[s])
  <2>1. CASE s \in A
    <3>1. /\ Ascending(Improved(s)) \in Seq(Vertices)
          /\ ToSet(Ascending(Improved(s))) = Improved(s)
      BY ImprovedIs, AscendingIs
    <3>2. worklist'[s] = worklist[s] \o Ascending(Improved(s)) /\ worklist[s] \in Seq(Vertices)
      BY <1>1, <2>1
    <3>3. QED
      BY <3>1, <3>2, ToSetConcat
  <2>2. CASE s \notin A
    BY <1>1, <2>2
  <2>3. QED
    BY <2>1, <2>2
<1>3. worklist' \in [Slices -> Seq(Vertices)]
  <2>1. worklist' = [s \in Slices |-> worklist'[s]]
    OBVIOUS
  <2>2. QED
    BY <1>2, <2>1
<1>4. ListsOfSlice'
  BY <1>1, <1>2, ImprovedIs DEF ListsOfSlice
<1>5. DuplicateIsListed'
  BY <1>1, <1>2 DEF DuplicateIsListed
<1>6. QED
  BY <1>2, <1>3, <1>4, <1>5

\* A run ends when the machine is empty; tasks are only added to the lists.
LEMMA EndRunKeeps == IInv /\ EndRun => IInv'
<1> SUFFICES ASSUME IInv, EndRun PROVE IInv'
  OBVIOUS
<1>0. /\ build' = build /\ scratch' = scratch /\ served' = served /\ duplicate' = duplicate
      /\ finishing' = finishing /\ finishedEdges' = 0 /\ agg' = agg /\ queues' = queues
      /\ edges' = edges /\ updates' = updates /\ phase = "run" /\ phase' = "slice"
      /\ slice' \in NewSlices(slice, grad') /\ Inactive
  BY DEF EndRun
<1>1. slice' \in Slices
  <2>1. slice \in -1 .. SLICE_COUNT - 1
    BY SlicesOf DEF IInv, TypeOK, Slices
  <2>2. QED
    BY <1>0, <2>1, NewSliceIsSlice
<1>2. /\ \A c \in Cores : Queued(c) = {}
      /\ DOMAIN edges = {} /\ DOMAIN updates = {}
  BY <1>0, EmptyList, BagDomains DEF Inactive, Queued
<1>3. /\ worklist' \in [Slices -> Seq(Vertices)] /\ ListsOfSlice' /\ DuplicateIsListed'
      /\ \A s \in Slices : ToSet(worklist[s]) \subseteq ToSet(worklist'[s])
      /\ build.exec = "blocked" => vertexData' = vertexData
      /\ vertexData' \in [Vertices -> Nat]
      /\ \A v \in Vertices : vertexData'[v] \in {vertexData[v], scratch[v]}
  <2>1. CASE build.exec = "blocked"
    <3>1. worklist' = worklist /\ vertexData' = vertexData
      BY <2>1 DEF EndRun
    <3>2. ListsOfSlice' /\ DuplicateIsListed'
      BY <1>0, <3>1 DEF IInv, ListsOfSlice, DuplicateIsListed
    <3>3. QED
      BY <3>1, <3>2 DEF IInv, TypeOK
  <2>2. CASE build.exec # "blocked"
    <3> DEFINE A == {s \in Slices : Activated(s)}
               F == UNION {Improved(s) : s \in A}
    <3>0. /\ worklist' = [s \in Slices |->
               IF s \in A THEN worklist[s] \o Ascending(Improved(s)) ELSE worklist[s]]
          /\ vertexData' = [v \in Vertices |-> IF v \in F THEN scratch[v] ELSE vertexData[v]]
      BY <2>2 DEF EndRun, Recreate
    <3>1. PICK active, fresh :
            /\ active = {s \in Slices : Activated(s)}
            /\ worklist' = [s \in Slices |->
                 IF s \in active THEN worklist[s] \o Ascending(Improved(s)) ELSE worklist[s]]
            /\ vertexData' = [v \in Vertices |-> IF v \in fresh THEN scratch[v] ELSE vertexData[v]]
      <4> HIDE DEF F
      <4> QED BY <3>0
    <3>2. active \in SUBSET Slices
      BY <3>1
    <3>3. /\ worklist' \in [Slices -> Seq(Vertices)] /\ ListsOfSlice' /\ DuplicateIsListed'
          /\ \A s \in Slices : ToSet(worklist[s]) \subseteq ToSet(worklist'[s])
      BY <1>0, <3>1, <3>2, ListsExtended
    <3>4. scratch \in [Vertices -> Nat] /\ vertexData \in [Vertices -> Nat]
      BY DEF IInv, TypeOK
    <3>5. QED
      BY <2>2, <3>1, <3>3, <3>4
  <2>3. QED
    BY <2>1, <2>2
<1>4. TypeOK'
  BY <1>0, <1>1, <1>3 DEF IInv, TypeOK
<1>5. \A c \in Cores : Queued(c)' = {}
  BY <1>0, <1>2 DEF Queued
<1>6. TasksOfSlice' /\ Idle' /\ PresentIsQueued' /\ RoundSettled' /\ EndsIdle'
  BY <1>0, <1>2, <1>5 DEF IInv, TasksOfSlice, Idle, PresentIsQueued, Held, RoundSettled, EndsIdle, NoWork
<1>7. UpdatesJustified'
  BY <1>0 DEF IInv, UpdatesJustified
<1>8. ValuesImprove'
  <2>1. \A v \in Vertices : scratch[v] \in Nat /\ scratch[v] <= vertexData[v] /\ scratch[v] <= MaxDist
    BY DEF IInv, TypeOK, ValuesImprove
  <2>2. \A v \in Vertices : scratch[v] <= vertexData'[v]
    BY <1>3, <2>1
  <2>3. QED
    BY <1>0, <2>1, <2>2 DEF IInv, ValuesImprove
<1>9. Covered'
  <2>1. ASSUME build.exec # "sync", NEW x \in Edges, Coming(x) PROVE Coming(x)'
    <3>1. CASE InWorklist(x[1])
      BY <1>3, <3>1 DEF Coming, InWorklist
    <3>2. CASE build.exec # "async" /\ phase # "done" /\ scratch[x[1]] # vertexData[x[1]]
      <4>1. build.exec = "blocked"
        BY <2>1, <3>2, BuildsAssumption DEF IInv, TypeOK, Build
      <4>2. QED
        BY <1>0, <1>3, <3>2, <4>1 DEF Coming
    <3>3. ~(\E c \in Cores : x[1] \in Queued(c)) /\ ~BagIn(x, edges) /\ BagToSet(updates) = {}
      BY <1>2 DEF BagIn, BagToSet
    <3>4. QED
      BY <2>1, <3>1, <3>2, <3>3 DEF Coming
  <2>2. QED
    BY <1>0, <2>1 DEF IInv, Covered, NoRelaxationLost
<1>10. QED
  BY <1>3, <1>4, <1>6, <1>7, <1>8, <1>9 DEF IInv

\* Blocked execution activates whatever the round has improved.
LEMMA EndRoundKeeps == IInv /\ EndRound => IInv'
<1> SUFFICES ASSUME IInv, EndRound PROVE IInv'
  OBVIOUS
<1>0. /\ build' = build /\ scratch' = scratch /\ served' = served /\ duplicate' = duplicate
      /\ finishing' = finishing /\ finishedEdges' = finishedEdges /\ agg' = agg
      /\ queues' = queues /\ edges' = edges /\ updates' = updates /\ slice' = slice
      /\ phase = "slice" /\ phase' = "round"
      /\ (build.exec = "blocked" =>
            /\ worklist' = [s \in Slices |-> worklist[s] \o Ascending(Improved(s))]
            /\ vertexData' = scratch)
      /\ (build.exec # "blocked" => worklist' = worklist /\ vertexData' = vertexData)
  BY DEF EndRound, engineVars
<1>1. /\ worklist' \in [Slices -> Seq(Vertices)] /\ ListsOfSlice' /\ DuplicateIsListed'
      /\ \A s \in Slices : ToSet(worklist[s]) \subseteq ToSet(worklist'[s])
      /\ build.exec = "blocked" => \A s \in Slices : Improved(s) \subseteq ToSet(worklist'[s])
  <2>1. CASE build.exec = "blocked"
    <3>1. worklist' = [s \in Slices |->
            IF s \in Slices THEN worklist[s] \o Ascending(Improved(s)) ELSE worklist[s]]
      BY <1>0, <2>1
    <3>2. Slices \in SUBSET Slices
      OBVIOUS
    <3>3. QED
      BY <1>0, <3>1, <3>2, ListsExtended
  <2>2. CASE build.exec # "blocked"
    <3>1. ListsOfSlice' /\ DuplicateIsListed'
      BY <1>0, <2>2 DEF IInv, ListsOfSlice, DuplicateIsListed
    <3>2. QED
      BY <1>0, <2>2, <3>1 DEF IInv, TypeOK
  <2>3. QED
    BY <2>1, <2>2
<1>2. TypeOK'
  BY <1>0, <1>1 DEF IInv, TypeOK
<1>3. TasksOfSlice' /\ Idle' /\ PresentIsQueued'
  BY <1>0 DEF IInv, TasksOfSlice, Queued, Idle, PresentIsQueued, Held
<1>4. RoundSettled' /\ EndsIdle' /\ UpdatesJustified'
  BY <1>0 DEF IInv, RoundSettled, EndsIdle, NoWork, UpdatesJustified
<1>5. ValuesImprove'
  <2>1. scratch \in [Vertices -> Nat]
    BY DEF IInv, TypeOK
  <2>2. CASE build.exec = "blocked"
    BY <1>0, <2>1, <2>2 DEF IInv, ValuesImprove
  <2>3. CASE build.exec # "blocked"
    BY <1>0, <2>3 DEF IInv, ValuesImprove
  <2>4. QED
    BY <2>2, <2>3
<1>6. Covered'
  <2>1. ASSUME build.exec # "sync", NEW x \in Edges, Coming(x) PROVE Coming(x)'
    <3>1. CASE InWorklist(x[1])
      BY <1>1, <3>1 DEF Coming, InWorklist
    <3>2. CASE build.exec # "async" /\ phase # "done" /\ scratch[x[1]] # vertexData[x[1]]
      <4>1. build.exec = "blocked"
        BY <2>1, <3>2, BuildsAssumption DEF IInv, TypeOK, Build
      <4>2. /\ x[1] \in Vertices /\ SliceOf(x[1]) \in Slices
            /\ x[1] \in Improved(SliceOf(x[1]))
        BY <3>2, EdgeType, SliceOfType DEF Improved
      <4>3. QED
        BY <1>1, <4>1, <4>2 DEF Coming, InWorklist
    <3>3. ~(\E c \in Cores : x[1] \in Queued(c)) /\ ~BagIn(x, edges) /\ BagToSet(updates) = {}
      BY <1>0 DEF IInv, Idle, BagIn, BagToSet
    <3>4. QED
      BY <2>1, <3>1, <3>2, <3>3 DEF Coming
  <2>2. QED
    BY <1>0, <2>1 DEF IInv, Covered, NoRelaxationLost
<1>7. QED
  BY <1>1, <1>2, <1>3, <1>4, <1>5, <1>6 DEF IInv

\* At first the source's task covers its edges, and the others need none.
LEMMA InitKeeps == Init => IInv
<1> SUFFICES ASSUME Init PROVE IInv
  OBVIOUS
<1>0. /\ Source \in Vertices /\ MaxDist \in Nat /\ SliceOf(Source) \in Slices
      /\ Source \in Members(SliceOf(Source))
  BY GraphAssumption, SliceOfType
<1>1. <<Source>> \in Seq(Vertices) /\ ToSet(<<Source>>) = {Source}
  BY <1>0 DEF ToSet
<1>2. /\ worklist \in [Slices -> Seq(Vertices)]
      /\ \A s \in Slices : /\ s = SliceOf(Source) => ToSet(worklist[s]) = {Source}
                           /\ s # SliceOf(Source) => ToSet(worklist[s]) = {}
  BY <1>0, <1>1, EmptyList DEF Init
<1>3. queues \in QueueStates /\ queues.present = {}
      /\ \A c \in Cores : queues.tq[c] = <<>> /\ queues.fifo[c] = <<>> /\ agg[c] = <<>>
  BY EmptyList DEF Init, EmptyQueues, QueueStates
<1>4. TypeOK
  <2>1. scratch \in [Vertices -> Nat] /\ vertexData \in [Vertices -> Nat]
    BY <1>0 DEF Init
  <2>2. 0 \in Slices /\ 0 \in 0 .. SLICE_COUNT
    BY SlicesOf DEF Slices
  <2>3. \A c \in Cores : Len(queues.tq[c]) <= TASK_QUEUE_SIZE
    BY <1>3, SizesAssumption
  <2>4. agg \in [Cores -> Seq(Vertices)] /\ duplicate \in [Slices -> SUBSET Vertices]
    BY EmptyList DEF Init
  <2>5. DOMAIN edges = {} /\ DOMAIN updates = {}
    BY BagDomains DEF Init
  <2>6. build \in Builds /\ slice = 0 /\ served = 0 /\ phase = "round" /\ finishing = FALSE /\ finishedEdges = 0
    BY DEF Init
  <2>7. QED
    BY <1>2, <1>3, <2>1, <2>2, <2>3, <2>4, <2>5, <2>6 DEF TypeOK
<1>5. ListsOfSlice /\ DuplicateIsListed
  <2>1. \A s \in Slices : duplicate[s] = {}
    BY DEF Init
  <2>2. QED
    BY <1>0, <1>2, <2>1 DEF ListsOfSlice, DuplicateIsListed
<1>6. TasksOfSlice /\ PresentIsQueued /\ Idle
  <2>1. \A c \in Cores : Queued(c) = {}
    BY <1>3, EmptyList DEF Queued
  <2>2. DOMAIN edges = {} /\ DOMAIN updates = {}
    BY BagDomains DEF Init
  <2>3. QED
    BY <1>3, <2>1, <2>2 DEF TasksOfSlice, PresentIsQueued, Idle
<1>7. ValuesImprove /\ UpdatesJustified /\ RoundSettled /\ EndsIdle
  <2>1. DOMAIN updates = {} /\ vertexData = scratch /\ phase = "round"
    BY BagDomains DEF Init
  <2>2. scratch[Source] = 0 /\ \A v \in Vertices : scratch[v] \in Nat /\ scratch[v] <= MaxDist
    BY <1>0 DEF Init
  <2>3. QED
    BY <2>1, <2>2 DEF ValuesImprove, UpdatesJustified, RoundSettled, EndsIdle, NoWork
<1>8. Covered
  <2>1. ASSUME NEW x \in Edges PROVE scratch[Dst(x)] <= scratch[x[1]] + Wgt(x) \/ Coming(x)
    <3>1. CASE x[1] = Source
      BY <1>0, <1>2, <3>1 DEF Coming, InWorklist
    <3>2. CASE x[1] # Source
      <4>1. scratch[x[1]] = MaxDist /\ scratch[Dst(x)] \in {0, MaxDist} /\ Wgt(x) \in Nat
        BY <3>2, EdgeType DEF Init
      <4>2. QED
        BY <1>0, <4>1
    <3>3. QED
      BY <3>1, <3>2
  <2>2. QED
    BY <2>1 DEF Covered, NoRelaxationLost
<1>9. QED
  BY <1>4, <1>5, <1>6, <1>7, <1>8 DEF IInv

LEMMA StutterKeeps == IInv /\ UNCHANGED vars => IInv'
<1> SUFFICES ASSUME IInv, UNCHANGED vars PROVE IInv'
  OBVIOUS
<1>0. /\ build' = build /\ scratch' = scratch /\ vertexData' = vertexData /\ slice' = slice
      /\ served' = served /\ phase' = phase
      /\ worklist' = worklist /\ duplicate' = duplicate /\ finishing' = finishing
      /\ finishedEdges' = finishedEdges /\ agg' = agg /\ queues' = queues
      /\ edges' = edges /\ updates' = updates
  BY DEF vars, listVars, loopVars, engineVars
<1>1. TypeOK'
  BY <1>0 DEF IInv, TypeOK
<1>2. ListsOfSlice' /\ DuplicateIsListed' /\ PresentIsQueued'
  BY <1>0 DEF IInv, ListsOfSlice, DuplicateIsListed, PresentIsQueued, Held
<1>3. TasksOfSlice' /\ Idle'
  BY <1>0 DEF IInv, TasksOfSlice, Idle, Queued
<1>4. ValuesImprove' /\ UpdatesJustified' /\ RoundSettled' /\ EndsIdle'
  BY <1>0 DEF IInv, ValuesImprove, UpdatesJustified, RoundSettled, EndsIdle, NoWork
<1>5. Covered'
  <2>1. \A x : Coming(x)' <=> Coming(x)
    BY <1>0 DEF Coming, InWorklist, Queued, BagIn, BagToSet
  <2>2. QED
    BY <1>0, <2>1 DEF IInv, Covered, NoRelaxationLost
<1>6. QED
  BY <1>1, <1>2, <1>3, <1>4, <1>5 DEF IInv

LEMMA StepKeeps == IInv /\ [Next]_vars => IInv'
<1> SUFFICES ASSUME IInv, [Next]_vars PROVE IInv'
  OBVIOUS
<1>1. CASE StartRound \/ End \/ SkipSlice \/ LoadSlice \/ EndRound
  BY <1>1, StartRoundKeeps, EndKeeps, SkipSliceKeeps, LoadSliceKeeps, EndRoundKeeps
<1>2. CASE Run
  BY <1>2, DispatchKeeps, DrainKeeps, ProcessKeeps, ServeKeeps, SwitchSliceKeeps, EndRunKeeps
     DEF Run
<1>3. CASE UNCHANGED vars
  BY <1>3, StutterKeeps
<1>4. QED
  BY <1>1, <1>2, <1>3 DEF Next

\* The inductive invariant: tasks stay with their slice, a set bit drops no
\* task, and whatever edge could improve a value is coming.
THEOREM Invariance == Spec => []IInv
<1>1. Init => IInv
  BY InitKeeps
<1>2. IInv /\ [Next]_vars => IInv'
  BY StepKeeps
<1>3. QED
  BY <1>1, <1>2, PTL DEF Spec

\* Whatever the drivers do, every variable keeps the type of the member or the
\* array it stands for, and a hardware queue its length.
THEOREM TypeCorrect == Spec => []TypeOK
<1>1. IInv => TypeOK
  BY DEF IInv
<1>2. QED
  BY <1>1, Invariance, PTL

----------------------------------------------------------------------------
(* No relaxation is lost.  The synchronous driver does lose some, as a run   *)
(* shows, so the builds of the instance are taken without it.               *)

NoSyncBuild == \A b \in Builds : b.exec # "sync"

\* In asynchronous and in blocked execution an edge that could improve its
\* destination always has a task, an update or itself on the way, across every
\* slice switch, reset of the queues and dropped duplicate.
THEOREM NoRelaxationIsLost ==
  ASSUME NoSyncBuild
  PROVE  Spec => []NoRelaxationLost
<1>1. IInv => NoRelaxationLost
  BY NoSyncBuild DEF IInv, TypeOK, Covered, NoSyncBuild
<1>2. QED
  BY <1>1, Invariance, PTL

\* When such a driver ends no edge can improve a value any more: what
\* correctness_check compares with is reached.
THEOREM AnswerIsCorrect ==
  ASSUME NoSyncBuild
  PROVE  Spec => []CorrectAnswer
<1>1. IInv => CorrectAnswer
  <2> SUFFICES ASSUME IInv, phase = "done"
               PROVE  \A x \in Edges : scratch[Dst(x)] <= scratch[x[1]] + Wgt(x)
    BY DEF CorrectAnswer
  <2>1. build.exec # "sync" /\ NoWork
    BY DEF IInv, TypeOK, EndsIdle, NoSyncBuild
  <2>2. QED
    BY <2>1, QuietIsFixpoint
<1>2. QED
  BY <1>1, Invariance, PTL

\* Sliced execution refines the relaxation of the arcs: values change only as an
\* arc justifies, and the driver ends only at the fixpoint.
THEOREM ImplementsRelaxation ==
  ASSUME NoSyncBuild
  PROVE  Spec => Machine!Safety
<1>1. Init => Machine!Init
  <2> SUFFICES ASSUME Init PROVE Machine!Init
    OBVIOUS
  <2>1. Arcs \in SUBSET (Vertices \X Vertices \X Nat)
    BY EdgeType DEF Arcs
  <2>2. QED
    BY <2>1 DEF Init, Machine!Init
<1>2. ASSUME IInv, [Next]_vars
      PROVE  [Machine!Next]_<<Arcs, scratch, phase = "done">>
  <2>1. build.exec # "sync"
    BY <1>2 DEF IInv, TypeOK, NoSyncBuild
  <2>2. ASSUME scratch' = scratch, (phase' = "done") = (phase = "done")
        PROVE  UNCHANGED <<Arcs, scratch, phase = "done">>
    BY <2>2
  <2>3. ASSUME NEW m \in BagToSet(updates), Serve(m)
        PROVE  [Machine!Next]_<<Arcs, scratch, phase = "done">>
    <3>1. phase = "run" /\ phase' = "run"
      BY <2>3 DEF Serve, loopVars
    <3>2. m \in DOMAIN updates /\ m[1] \in Vertices /\ m[2] \in Nat
      BY <1>2 DEF IInv, TypeOK, BagToSet
    <3>3. CASE m[2] < scratch[m[1]]
      <4>1. scratch' = [scratch EXCEPT ![m[1]] = m[2]]
        BY <2>3, <3>3 DEF Serve
      <4>2. PICK x \in Edges : Dst(x) = m[1] /\ scratch[x[1]] + Wgt(x) <= m[2]
        BY <1>2, <3>2 DEF IInv, UpdatesJustified
      <4>3. PICK a : a = <<x[1], Dst(x), Wgt(x)>>
        OBVIOUS
      <4>4. a \in Arcs /\ a[2] = m[1] /\ scratch[a[1]] + a[3] <= m[2]
        BY <4>2, <4>3 DEF Arcs
      <4>5. m[2] \in 0 .. MaxDist
        <5>1. scratch[m[1]] \in Nat /\ scratch[m[1]] <= MaxDist /\ MaxDist \in Nat
          BY <1>2, <3>2, GraphAssumption DEF IInv, TypeOK, ValuesImprove
        <5>2. QED
          BY <3>2, <3>3, <5>1
      <4>6. Machine!Improve(m[1], m[2])
        BY <3>1, <3>3, <4>1, <4>4 DEF Machine!Improve
      <4>7. QED
        BY <3>2, <4>5, <4>6 DEF Machine!Next
    <3>4. CASE ~(m[2] < scratch[m[1]])
      <4>1. scratch' = scratch
        BY <2>3, <3>4 DEF Serve
      <4>2. QED
        BY <2>2, <3>1, <4>1
    <3>5. QED
      BY <3>3, <3>4
  <2>4. ASSUME End PROVE [Machine!Next]_<<Arcs, scratch, phase = "done">>
    <3>1. scratch' = scratch /\ phase = "round" /\ phase' = "done" /\ NoWork
      BY <2>4 DEF End
    <3>2. build.exec = "blocked" => vertexData = scratch
      BY <1>2, <3>1 DEF IInv, RoundSettled
    <3>3. \A x \in Edges : scratch[Dst(x)] <= scratch[x[1]] + Wgt(x)
      BY <1>2, <2>1, <3>1, <3>2, QuietIsFixpoint
    <3>4. Machine!Fixpoint
      <4> SUFFICES ASSUME NEW a \in Arcs PROVE scratch[a[2]] <= scratch[a[1]] + a[3]
        BY DEF Machine!Fixpoint
      <4>1. PICK x \in Edges : a = <<x[1], Dst(x), Wgt(x)>>
        BY DEF Arcs
      <4>2. QED
        BY <3>3, <4>1
    <3>5. Machine!Stop
      BY <3>1, <3>4 DEF Machine!Stop
    <3>6. QED
      BY <3>5 DEF Machine!Next
  <2>5. CASE StartRound \/ SkipSlice \/ LoadSlice \/ EndRound
    <3>1. scratch' = scratch /\ phase # "done" /\ phase' # "done"
      BY <2>5 DEF StartRound, SkipSlice, LoadSlice, EndRound
    <3>2. QED
      BY <2>2, <3>1
  <2>6. CASE SwitchSlice \/ EndRun
    <3>1. scratch' = scratch /\ phase # "done" /\ phase' # "done"
      BY <2>6 DEF SwitchSlice, EndRun, loopVars
    <3>2. QED
      BY <2>2, <3>1
  <2>7. ASSUME NEW c \in Cores, Dispatch(c) \/ Drain(c)
        PROVE  [Machine!Next]_<<Arcs, scratch, phase = "done">>
    <3>1. scratch' = scratch /\ phase # "done" /\ phase' # "done"
      BY <2>7 DEF Dispatch, Drain, loopVars
    <3>2. QED
      BY <2>2, <3>1
  <2>8. ASSUME NEW x \in BagToSet(edges), Process(x)
        PROVE  [Machine!Next]_<<Arcs, scratch, phase = "done">>
    <3>1. scratch' = scratch /\ phase # "done" /\ phase' # "done"
      BY <2>8 DEF Process, loopVars
    <3>2. QED
      BY <2>2, <3>1
  <2>9. CASE UNCHANGED vars
    <3>1. scratch' = scratch /\ phase' = phase
      BY <2>9 DEF vars, loopVars
    <3>2. QED
      BY <2>2, <3>1
  <2>10. QED
    BY <1>2, <2>3, <2>4, <2>5, <2>6, <2>7, <2>8, <2>9 DEF Next, Run
<1>3. QED
  BY <1>1, <1>2, Invariance, PTL DEF Spec, Machine!Safety


----------------------------------------------------------------------------
(* Without ABCD the slices take turns, and then a worklist has no vertex     *)
(* twice: in asynchronous execution because of the duplicate bits, in the    *)
(* others because a list is filled only when it is empty.                    *)

NoGradientBuild == \A b \in Builds : ~b.abcd

NotMarked(s) == ToSet(worklist[s]) \ duplicate[s]

ListsOnce == \A s \in Slices : Once(worklist[s])

\* The one task without a bit is slice_init's, and as long as it waits the
\* source, which no edge improves, is in no queue.
OnlySourceUnmarked ==
  build.exec = "async" =>
    \A s \in Slices : \A v \in NotMarked(s) : v = Source /\ \A c \in Cores : v \notin Queued(c)

\* the list that the end of a synchronous run fills
ListTaken == build.exec = "sync" /\ phase = "run" => worklist[slice] = <<>>

\* a blocked round serves the slices in order
InOrder ==
  build.exec = "blocked" /\ phase \in {"slice", "run"} =>
    /\ phase = "slice" /\ served < SLICE_COUNT => slice = served
    /\ phase = "run" => slice = served - 1
    /\ \A s \in Slices : s < served => worklist[s] = <<>>

Turns ==
  /\ phase # "aborted"
  /\ ListsOnce
  /\ OnlySourceUnmarked
  /\ ListTaken
  /\ InOrder

LEMMA ExecIs ==
  ASSUME IInv, NoGradientBuild
  PROVE  /\ build.exec \in {"async", "sync", "blocked"} /\ ~build.abcd
         /\ \A g : NewSlices(slice, g) = {(slice + 1) % SLICE_COUNT}
         /\ \A g : NewSlices(-1, g) = {(-1 + 1) % SLICE_COUNT}
<1>1. build \in Builds /\ build \in Build
  BY BuildsAssumption DEF IInv, TypeOK
<1>2. build.exec \in {"async", "sync", "blocked"} /\ ~build.abcd
  BY <1>1 DEF Build, NoGradientBuild
<1>3. QED
  BY <1>2 DEF NewSlices

\* After the slice with number n - 1 comes the one with number n, if any.
LEMMA NextSlice ==
  \A n \in 0 .. SLICE_COUNT : n < SLICE_COUNT => n % SLICE_COUNT = n
<1> SUFFICES ASSUME NEW n \in 0 .. SLICE_COUNT, n < SLICE_COUNT PROVE n % SLICE_COUNT = n
  OBVIOUS
<1>1. SLICE_COUNT \in Nat \ {0} /\ n \in Nat
  BY SlicesOf
<1>2. QED
  BY <1>1, RingPosition

\* the assertion of simulate_slice
LEMMA ListFits ==
  \A s \in Slices : \A w \in Seq(Vertices) :
    Once(w) /\ ToSet(w) \subseteq Members(s) => Len(w) <= SliceSize
<1> SUFFICES ASSUME NEW s \in Slices, NEW w \in Seq(Vertices), Once(w),
                    ToSet(w) \subseteq Members(s), Len(w) > SliceSize
             PROVE  FALSE
  BY SlicesOf
<1>1. /\ s \in Nat /\ SliceSize \in Nat \ {0} /\ Len(w) \in Nat /\ DOMAIN w = 1 .. Len(w)
  BY SlicesOf DEF Slices
<1>2. PICK first : first = SliceSize * s
  OBVIOUS
<1>3. first \in Nat
  BY <1>1, <1>2
<1> DEFINE T == first .. first + SliceSize - 1
<1>4. ASSUME NEW v \in Members(s) PROVE v \in T
  <2>1. v \in Nat /\ v \div SliceSize = s
    BY SizesAssumption DEF Members, SliceOf, Vertices
  <2>2. v = SliceSize * (v \div SliceSize) + (v % SliceSize) /\ (v % SliceSize) \in 0 .. SliceSize - 1
    BY <1>1, <2>1
  <2>3. PICK m : m = v % SliceSize
    OBVIOUS
  <2>4. v = first + m /\ m \in 0 .. SliceSize - 1
    BY <1>2, <2>1, <2>2, <2>3
  <2>5. QED
    BY <1>1, <1>3, <2>4
<1>5. \A i \in 1 .. Len(w) : w[i] \in T
  <2> HIDE DEF T
  <2> QED BY <1>1, <1>4 DEF ToSet
<1>6. w \in [1 .. Len(w) -> T]
  <2> HIDE DEF T
  <2> QED BY <1>1, <1>5
<1>7. \A i, j \in 1 .. Len(w) : w[i] = w[j] => i = j
  BY <1>1 DEF Once
<1>8. Len(w) <= SliceSize
  <2>1. first \in Int /\ SliceSize \in Nat
    BY <1>1, <1>3
  <2>2. QED
    BY <1>1, <1>6, <1>7, <2>1, PigeonHole
<1>9. QED
  BY <1>1, <1>8

\* Where the lists stay as they are it is a matter of the order of the slices.
LEMMA ListsStay ==
  ASSUME Turns, build' = build, worklist' = worklist, duplicate' = duplicate, NoNewTask,
         phase' # "aborted", phase' = "run" => phase = "run" /\ slice' = slice, InOrder'
  PROVE  Turns'
<1>1. ListsOnce' /\ ListTaken'
  BY DEF Turns, ListsOnce, ListTaken
<1>2. OnlySourceUnmarked'
  BY DEF Turns, OnlySourceUnmarked, NotMarked, NoNewTask
<1>3. QED
  BY <1>1, <1>2 DEF Turns

\* The same where the loops do not go on either.
LEMMA RunGoesOn ==
  ASSUME Turns, build' = build, worklist' = worklist, duplicate' = duplicate, NoNewTask,
         phase' = phase, slice' = slice, served' = served
  PROVE  Turns'
<1>1. InOrder'
  BY DEF Turns, InOrder
<1>2. QED
  BY <1>1, ListsStay DEF Turns

LEMMA StartRoundTurns ==
  ASSUME IInv, NoGradientBuild, Turns, StartRound
  PROVE  Turns'
<1>1. /\ build' = build /\ worklist' = worklist /\ duplicate' = duplicate /\ agg' = agg
      /\ queues' = queues /\ phase' = "slice" /\ served' = 0
      /\ slice' = (-1 + 1) % SLICE_COUNT
  BY ExecIs DEF StartRound, listVars, engineVars
<1>2. slice' = 0
  <2>1. 0 \in 0 .. SLICE_COUNT /\ 0 < SLICE_COUNT /\ -1 + 1 = 0
    BY SlicesOf
  <2>2. QED
    BY <1>1, <2>1, NextSlice
<1>3. InOrder'
  BY <1>1, <1>2 DEF InOrder, Slices
<1>4. NoNewTask
  BY <1>1 DEF NoNewTask, Queued
<1>5. QED
  BY <1>1, <1>3, <1>4, ListsStay

LEMMA SkipSliceTurns ==
  ASSUME IInv, NoGradientBuild, Turns, SkipSlice
  PROVE  Turns'
<1>1. /\ build' = build /\ worklist' = worklist /\ duplicate' = duplicate /\ agg' = agg
      /\ queues' = queues /\ phase = "slice" /\ phase' = phase /\ served' = served + 1
      /\ served < SLICE_COUNT /\ Skips
      /\ slice' = (slice + 1) % SLICE_COUNT
  BY ExecIs DEF SkipSlice, listVars, engineVars
<1>2. InOrder'
  <2> SUFFICES ASSUME build.exec = "blocked"
               PROVE  /\ served' < SLICE_COUNT => slice' = served'
                      /\ \A s \in Slices : s < served' => worklist[s] = <<>>
    BY <1>1 DEF InOrder
  <2>1. /\ slice = served /\ worklist[slice] = <<>>
        /\ \A s \in Slices : s < served => worklist[s] = <<>>
    BY <1>1 DEF Turns, InOrder, Skips
  <2>2. served \in Nat /\ served + 1 \in 0 .. SLICE_COUNT
    BY <1>1, SlicesOf DEF IInv, TypeOK
  <2>3. served' < SLICE_COUNT => slice' = served'
    BY <1>1, <2>1, <2>2, NextSlice
  <2>4. \A s \in Slices : s < served + 1 => s < served \/ s = served
    BY <2>2 DEF Slices
  <2>5. QED
    BY <1>1, <2>1, <2>3, <2>4
<1>3. NoNewTask
  BY <1>1 DEF NoNewTask, Queued
<1>4. QED
  BY <1>1, <1>2, <1>3, ListsStay

LEMMA EndTurns ==
  ASSUME Turns, End
  PROVE  Turns'
<1>1. /\ build' = build /\ worklist' = worklist /\ duplicate' = duplicate /\ agg' = agg
      /\ queues' = queues /\ phase' = "done"
  BY DEF End, listVars, engineVars
<1>2. InOrder' /\ NoNewTask
  BY <1>1 DEF InOrder, NoNewTask, Queued
<1>3. QED
  BY <1>1, <1>2, ListsStay

\* A list that has its vertices once passes the assertion; it is empty then.
LEMMA LoadSliceTurns ==
  ASSUME IInv, NoGradientBuild, Turns, LoadSlice
  PROVE  Turns'
<1>1. /\ build' = build /\ slice' = slice /\ phase = "slice" /\ served < SLICE_COUNT
      /\ served' = served + 1 /\ agg' = agg
      /\ worklist' = [worklist EXCEPT ![slice] = <<>>]
      /\ duplicate' = [duplicate EXCEPT ![slice] = @ \ ToSet(worklist[slice])]
      /\ phase' = IF WorklistTooLong THEN "aborted" ELSE "run"
  BY DEF LoadSlice
<1>2. /\ slice \in Slices /\ worklist \in [Slices -> Seq(Vertices)] /\ worklist[slice] \in Seq(Vertices)
      /\ duplicate \in [Slices -> SUBSET Vertices]
      /\ ToSet(worklist[slice]) \subseteq Members(slice)
  BY DEF IInv, TypeOK, ListsOfSlice
<1>3. phase' = "run"
  <2>1. Once(worklist[slice])
    BY <1>2 DEF Turns, ListsOnce
  <2>2. Len(worklist[slice]) <= SliceSize
    BY <1>2, <2>1, ListFits
  <2>3. Len(worklist[slice]) \in Nat /\ SliceSize \in Nat
    BY <1>2, SlicesOf
  <2>4. QED
    BY <1>1, <2>2, <2>3 DEF WorklistTooLong
<1>4. /\ worklist'[slice] = <<>>
      /\ \A s \in Slices : s # slice => worklist'[s] = worklist[s] /\ duplicate'[s] = duplicate[s]
  BY <1>1, <1>2
<1>5. ListsOnce'
  BY <1>4, EmptyList DEF Turns, ListsOnce
<1>6. OnlySourceUnmarked'
  <2>1. IInv'
    BY LoadSliceKeeps
  <2>2. \A c \in Cores : Queued(c)' \subseteq Members(slice)
    BY <1>1, <2>1 DEF IInv, TasksOfSlice
  <2> SUFFICES ASSUME build.exec = "async", NEW s \in Slices, NEW v \in NotMarked(s)'
               PROVE  v = Source /\ \A c \in Cores : v \notin Queued(c)'
    BY <1>1 DEF OnlySourceUnmarked
  <2>3. s # slice
    BY <1>4, EmptyList DEF NotMarked
  <2>4. v \in NotMarked(s) /\ v \in Members(s)
    BY <1>4, <2>3 DEF NotMarked, IInv, ListsOfSlice
  <2>5. v = Source
    BY <2>4 DEF Turns, OnlySourceUnmarked
  <2>6. v \notin Members(slice)
    BY <2>3, <2>4 DEF Members
  <2>7. QED
    BY <2>2, <2>5, <2>6
<1>7. ListTaken'
  BY <1>1, <1>4 DEF ListTaken
<1>8. InOrder'
  <2> SUFFICES ASSUME build.exec = "blocked"
               PROVE  slice = served' - 1 /\ \A s \in Slices : s < served' => worklist'[s] = <<>>
    BY <1>1, <1>3 DEF InOrder
  <2>1. slice = served /\ \A s \in Slices : s < served => worklist[s] = <<>>
    BY <1>1 DEF Turns, InOrder
  <2>2. served \in Nat
    BY DEF IInv, TypeOK
  <2>3. \A s \in Slices : s < served + 1 => s < served \/ s = served
    BY <2>2 DEF Slices
  <2>4. QED
    BY <1>1, <1>4, <2>1, <2>2, <2>3
<1>9. QED
  BY <1>3, <1>5, <1>6, <1>7, <1>8 DEF Turns


\* A list with nothing in it, or nothing appended.
LEMMA EmptyConcat ==
  \A S : \A s \in Seq(S) : <<>> \o s = s
<1> SUFFICES ASSUME NEW S, NEW s \in Seq(S) PROVE <<>> \o s = s
  OBVIOUS
<1>1. <<>> \in Seq(S) /\ <<>> \o s \in Seq(S)
  BY ConcatProperties
<1>2. /\ Len(<<>> \o s) = Len(s)
      /\ \A i \in 1 .. Len(s) : (<<>> \o s)[i] = s[i]
  BY <1>1, ConcatProperties
<1>3. QED
  BY <1>1, <1>2, SeqEqual

\* The list an improvement is appended to, or the aggregation buffer, has no
\* unmarked task of its vertex: that would be the source, which is never
\* improved.
LEMMA ServeTurns ==
  ASSUME IInv, NoGradientBuild, Turns, NEW m \in BagToSet(updates), Serve(m)
  PROVE  Turns'
<1>1. /\ build' = build /\ slice' = slice /\ served' = served /\ queues' = queues
      /\ phase = "run" /\ phase' = phase
  BY DEF Serve, loopVars
<1>2. m[1] \in Vertices /\ m[2] \in Nat /\ scratch[m[1]] \in Nat
  BY DEF IInv, TypeOK, BagToSet
<1>3. CASE m[2] < scratch[m[1]] /\ build.exec = "async"
  <2>1. CreateAsyncTask(m[1])
    BY <1>3 DEF Serve
  <2>2. m[1] # Source
    BY <1>2, <1>3 DEF IInv, ValuesImprove
  <2>3. \A s \in Slices : \A v \in NotMarked(s) : v = Source /\ \A c \in Cores : v \notin Queued(c)
    BY <1>3 DEF Turns, OnlySourceUnmarked
  <2>4. ListTaken' /\ InOrder'
    BY <1>1, <1>3 DEF ListTaken, InOrder
  <2>5. CASE SliceOf(m[1]) # slice \/ finishing
    <3>1. PICK w, w2 : w = Lists /\ w2 = PushUnlessDuplicate(w, m[1])
      OBVIOUS
    <3>2. worklist' = w2.list /\ duplicate' = w2.bits /\ agg' = agg
      BY <2>1, <2>5, <3>1 DEF CreateAsyncTask
    <3>3. Lawful(w) /\ w.list = worklist /\ w.bits = duplicate
      BY <3>1, ListsAreLawful
    <3>4. ListsGain(w, w2, {m[1]})
      BY <1>2, <3>1, <3>3, PushGains
    <3>5. \A s \in Slices : Unmarked(w, s) = NotMarked(s) /\ Unmarked(w2, s) = NotMarked(s)'
      BY <3>2, <3>3 DEF Unmarked, NotMarked
    <3>6. \A s \in Slices : Once(w.list[s]) /\ {m[1]} \cap Unmarked(w, s) = {}
      BY <2>2, <2>3, <3>3, <3>5 DEF Turns, ListsOnce
    <3>7. /\ \A s \in Slices : Once(w2.list[s])
          /\ \A s \in Slices : NotMarked(s)' \subseteq NotMarked(s)
      BY <3>4, <3>5, <3>6 DEF ListsGain
    <3>8. ListsOnce'
      BY <3>2, <3>7 DEF ListsOnce
    <3>9. \A c \in Cores : Queued(c)' = Queued(c)
      BY <1>1, <3>2 DEF Queued
    <3>10. OnlySourceUnmarked'
      BY <2>3, <3>7, <3>9 DEF OnlySourceUnmarked
    <3>11. QED
      BY <1>1, <2>4, <3>8, <3>10 DEF Turns
  <2>6. CASE ~(SliceOf(m[1]) # slice \/ finishing)
    <3>1. PICK k, a : k = Owner[m[1]] /\ a = Append(agg[k], m[1])
      OBVIOUS
    <3>2. agg' = [agg EXCEPT ![k] = a] /\ worklist' = worklist /\ duplicate' = duplicate
      BY <2>1, <2>6, <3>1 DEF CreateAsyncTask, listVars
    <3>3. /\ k \in Cores /\ agg \in [Cores -> Seq(Vertices)] /\ ToSet(a) = ToSet(agg[k]) \cup {m[1]}
      <4>1. k \in Cores
        BY <1>2, <3>1, GraphAssumption
      <4>2. agg \in [Cores -> Seq(Vertices)]
        BY DEF IInv, TypeOK
      <4>3. agg[k] \in Seq(Vertices)
        BY <4>1, <4>2
      <4>4. ToSet(a) = ToSet(agg[k]) \cup {m[1]}
        BY <1>2, <3>1, <4>3, ToSetAppend
      <4>5. QED
        BY <4>1, <4>2, <4>4
    <3>4. \A c \in Cores : agg'[c] = IF c = k THEN a ELSE agg[c]
      BY <3>2, <3>3
    <3>5. \A c \in Cores : Queued(c)' \subseteq Queued(c) \cup {m[1]}
      BY <1>1, <3>3, <3>4 DEF Queued
    <3>6. ListsOnce'
      BY <3>2 DEF Turns, ListsOnce
    <3>7. \A s \in Slices : NotMarked(s)' = NotMarked(s)
      BY <3>2 DEF NotMarked
    <3>8. OnlySourceUnmarked'
      BY <2>2, <2>3, <3>5, <3>7 DEF OnlySourceUnmarked
    <3>9. QED
      BY <1>1, <2>4, <3>6, <3>8 DEF Turns
  <2>7. QED
    BY <2>5, <2>6
<1>4. CASE ~(m[2] < scratch[m[1]] /\ build.exec = "async")
  <2>1. worklist' = worklist /\ duplicate' = duplicate /\ agg' = agg
    BY <1>4 DEF Serve, listVars
  <2>2. NoNewTask
    BY <1>1, <2>1 DEF NoNewTask, Queued
  <2>3. QED
    BY <1>1, <2>1, <2>2, RunGoesOn
<1>5. QED
  BY <1>3, <1>4

\* The tasks that reset_task_queues moves come from the queues, so that none of
\* them is an unmarked one of a list.
LEMMA SwitchSliceTurns ==
  ASSUME IInv, NoGradientBuild, Turns, SwitchSlice
  PROVE  Turns'
<1>1. /\ build' = build /\ slice' = slice /\ served' = served /\ phase = "run" /\ phase' = phase
      /\ build.exec = "async"
  BY DEF SwitchSlice, loopVars
<1>2. PICK w, w2, M : w = Lists /\ M = Moved /\ w2 = PushAll(w, M)
                      /\ worklist' = w2.list /\ duplicate' = w2.bits
  BY DEF SwitchSlice, ResetTaskQueues
<1>3. /\ M \in Seq(Vertices)
      /\ ToSet(M) = UNION {ToSet(ErasedFrom(queues.tq[c])) \cup ToSet(queues.fifo[c]) : c \in Cores}
  BY <1>2, MovedIs
<1>4. Lawful(w) /\ w.list = worklist /\ w.bits = duplicate
  BY <1>2, ListsAreLawful
<1>5. ListsGain(w, w2, ToSet(M))
  BY <1>2, <1>3, <1>4, PushAllGains
<1>6. \A v \in ToSet(M) : \E c \in Cores : v \in Queued(c)
  <2>1. \A c \in Cores : /\ queues.tq[c] \in Seq(Vertices)
                         /\ Len(queues.tq[c]) <= TASK_QUEUE_SIZE
    BY DEF IInv, TypeOK, QueueStates
  <2>2. \A c \in Cores : ToSet(ErasedFrom(queues.tq[c])) \subseteq ToSet(queues.tq[c])
    BY <2>1, ErasedOrLeft
  <2>3. \A c \in Cores : ToSet(ErasedFrom(queues.tq[c])) \cup ToSet(queues.fifo[c]) \subseteq Queued(c)
    BY <2>2 DEF Queued
  <2>4. QED
    BY <1>3, <2>3
<1>7. \A s \in Slices : \A v \in NotMarked(s) : v = Source /\ \A c \in Cores : v \notin Queued(c)
  BY <1>1 DEF Turns, OnlySourceUnmarked
<1>8. \A s \in Slices : Unmarked(w, s) = NotMarked(s) /\ Unmarked(w2, s) = NotMarked(s)'
  BY <1>2, <1>4 DEF Unmarked, NotMarked
<1>9. \A s \in Slices : Once(w.list[s]) /\ ToSet(M) \cap Unmarked(w, s) = {}
  BY <1>4, <1>6, <1>7, <1>8 DEF Turns, ListsOnce
<1>10. /\ \A s \in Slices : Once(w2.list[s])
       /\ \A s \in Slices : NotMarked(s)' \subseteq NotMarked(s)
  BY <1>5, <1>8, <1>9 DEF ListsGain
<1>11. ListsOnce'
  BY <1>2, <1>10 DEF ListsOnce
<1>12. OnlySourceUnmarked'
  <2>1. NoNewTask
    BY SwitchSliceKeeps
  <2>2. QED
    BY <1>7, <1>10, <2>1 DEF OnlySourceUnmarked, NoNewTask
<1>13. ListTaken' /\ InOrder'
  BY <1>1 DEF ListTaken, InOrder
<1>14. QED
  BY <1>1, <1>11, <1>12, <1>13 DEF Turns

\* Only a synchronous run fills a list, its own, which it has taken before.
LEMMA EndRunTurns ==
  ASSUME IInv, NoGradientBuild, Turns, EndRun
  PROVE  Turns'
<1>1. /\ build' = build /\ duplicate' = duplicate /\ served' = served /\ phase = "run"
      /\ phase' = "slice" /\ agg' = agg /\ queues' = queues
  BY DEF EndRun
<1>2. slice' = (slice + 1) % SLICE_COUNT
  BY ExecIs DEF EndRun
<1>3. NoNewTask
  BY <1>1 DEF NoNewTask, Queued
<1>4. slice \in Slices /\ worklist \in [Slices -> Seq(Vertices)]
  BY DEF IInv, TypeOK
<1>5. build.exec # "blocked" =>
        worklist' = [s \in Slices |->
          IF Activated(s) THEN worklist[s] \o Ascending(Improved(s)) ELSE worklist[s]]
  <2> SUFFICES ASSUME build.exec # "blocked"
               PROVE worklist' = [s \in Slices |->
                 IF Activated(s) THEN worklist[s] \o Ascending(Improved(s)) ELSE worklist[s]]
    OBVIOUS
  <2>1. PICK A : A = {s \in Slices : Activated(s)}
    OBVIOUS
  <2>2. worklist' = [s \in Slices |->
          IF s \in A THEN worklist[s] \o Ascending(Improved(s)) ELSE worklist[s]]
    BY <2>1 DEF EndRun, Recreate
  <2>3. \A s \in Slices : s \in A <=> Activated(s)
    BY <2>1
  <2>4. QED
    BY <2>2, <2>3
<1>6. CASE build.exec = "async"
  <2>1. \A s \in Slices : ~Activated(s)
    BY <1>6, ExecIs DEF Activated
  <2>2. worklist' = worklist
    BY <1>4, <1>5, <1>6, <2>1
  <2>3. InOrder'
    BY <1>1, <1>6 DEF InOrder
  <2>4. QED
    BY <1>1, <1>3, <2>2, <2>3, ListsStay
<1>7. CASE build.exec = "sync"
  <2>1. \A s \in Slices : Activated(s) <=> s = slice
    BY <1>7, ExecIs DEF Activated
  <2>2. /\ Ascending(Improved(slice)) \in Seq(Vertices) /\ Once(Ascending(Improved(slice)))
    BY <1>4, ImprovedIs, AscendingIs
  <2>3. worklist[slice] = <<>>
    BY <1>1, <1>7 DEF Turns, ListTaken
  <2>4. worklist'[slice] = Ascending(Improved(slice))
    <3>1. worklist'[slice] = <<>> \o Ascending(Improved(slice))
      BY <1>4, <1>5, <1>7, <2>1, <2>3
    <3>2. QED
      BY <2>2, <3>1, EmptyConcat
  <2>5. \A s \in Slices : s # slice => worklist'[s] = worklist[s]
    BY <1>5, <1>7, <2>1
  <2>6. ListsOnce'
    BY <2>2, <2>4, <2>5 DEF Turns, ListsOnce
  <2>7. OnlySourceUnmarked' /\ ListTaken' /\ InOrder'
    BY <1>1, <1>7 DEF OnlySourceUnmarked, ListTaken, InOrder
  <2>8. QED
    BY <1>1, <2>6, <2>7 DEF Turns
<1>8. CASE build.exec = "blocked"
  <2>1. worklist' = worklist
    BY <1>8 DEF EndRun
  <2>2. slice = served - 1 /\ \A s \in Slices : s < served => worklist[s] = <<>>
    BY <1>1, <1>8 DEF Turns, InOrder
  <2>3. served \in 0 .. SLICE_COUNT /\ (slice + 1) = served
    BY <2>2 DEF IInv, TypeOK
  <2>4. InOrder'
    BY <1>1, <1>2, <2>1, <2>2, <2>3, NextSlice DEF InOrder
  <2>5. QED
    BY <1>1, <1>3, <2>1, <2>4, ListsStay
<1>9. QED
  BY <1>6, <1>7, <1>8, ExecIs

\* A blocked round has taken every list before it fills them again.
LEMMA EndRoundTurns ==
  ASSUME IInv, NoGradientBuild, Turns, EndRound
  PROVE  Turns'
<1>1. /\ build' = build /\ duplicate' = duplicate /\ served' = served /\ phase = "slice"
      /\ phase' = "round" /\ agg' = agg /\ queues' = queues /\ served = SLICE_COUNT
  BY DEF EndRound, engineVars
<1>2. InOrder' /\ NoNewTask /\ ListTaken'
  BY <1>1 DEF InOrder, NoNewTask, Queued, ListTaken
<1>3. CASE build.exec = "blocked"
  <2>1. worklist' = [s \in Slices |-> worklist[s] \o Ascending(Improved(s))]
    BY <1>3 DEF EndRound
  <2>2. \A s \in Slices : worklist[s] = <<>>
    BY <1>1, <1>3, SlicesOf DEF Turns, InOrder, Slices
  <2>3. ASSUME NEW s \in Slices PROVE Once(worklist'[s])
    <3>1. Ascending(Improved(s)) \in Seq(Vertices) /\ Once(Ascending(Improved(s)))
      BY ImprovedIs, AscendingIs
    <3>2. worklist'[s] = <<>> \o Ascending(Improved(s))
      BY <2>1, <2>2
    <3>3. QED
      BY <3>1, <3>2, EmptyConcat
  <2>4. ListsOnce' /\ OnlySourceUnmarked'
    BY <1>1, <1>3, <2>3 DEF ListsOnce, OnlySourceUnmarked
  <2>5. QED
    BY <1>1, <1>2, <2>4 DEF Turns
<1>4. CASE build.exec # "blocked"
  <2>1. worklist' = worklist
    BY <1>4 DEF EndRound
  <2>2. QED
    BY <1>1, <1>2, <2>1, ListsStay
<1>5. QED
  BY <1>3, <1>4

LEMMA InitTurns == Init => Turns
<1> SUFFICES ASSUME Init PROVE Turns
  OBVIOUS
<1>1. Source \in Vertices /\ SliceOf(Source) \in Slices
  BY GraphAssumption, SliceOfType
<1>2. /\ worklist = [s \in Slices |-> IF s = SliceOf(Source) THEN <<Source>> ELSE <<>>]
      /\ duplicate = [s \in Slices |-> {}] /\ phase = "round"
      /\ agg = [c \in Cores |-> <<>>] /\ queues = EmptyQueues
  BY DEF Init
<1>3. Once(<<Source>>) /\ ToSet(<<Source>>) = {Source}
  BY DEF Once, ToSet
<1>4. ListsOnce
  BY <1>2, <1>3, EmptyList DEF ListsOnce
<1>5. \A c \in Cores : Queued(c) = {}
  BY <1>2, EmptyList DEF Queued, EmptyQueues
<1>6. OnlySourceUnmarked
  <2>1. \A s \in Slices : NotMarked(s) \subseteq {Source}
    BY <1>2, <1>3, EmptyList DEF NotMarked
  <2>2. QED
    BY <1>5, <2>1 DEF OnlySourceUnmarked
<1>7. ListTaken /\ InOrder
  BY <1>2 DEF ListTaken, InOrder
<1>8. QED
  BY <1>2, <1>4, <1>6, <1>7 DEF Turns

LEMMA StepTurns ==
  ASSUME IInv, NoGradientBuild, Turns, [Next]_vars
  PROVE  Turns'
<1>1. CASE StartRound \/ End \/ SkipSlice \/ LoadSlice \/ EndRound
  BY <1>1, StartRoundTurns, EndTurns, SkipSliceTurns, LoadSliceTurns, EndRoundTurns
<1>2. ASSUME NEW c \in Cores, Dispatch(c) \/ Drain(c) PROVE Turns'
  <2>1. NoNewTask
    BY <1>2, DispatchKeeps, DrainKeeps
  <2>2. /\ build' = build /\ worklist' = worklist /\ duplicate' = duplicate
        /\ phase' = phase /\ slice' = slice /\ served' = served
    BY <1>2 DEF Dispatch, Drain, listVars, loopVars
  <2>3. QED
    BY <2>1, <2>2, RunGoesOn
<1>3. ASSUME NEW x \in BagToSet(edges), Process(x) PROVE Turns'
  <2>1. /\ build' = build /\ worklist' = worklist /\ duplicate' = duplicate /\ agg' = agg
        /\ phase' = phase /\ slice' = slice /\ served' = served /\ queues' = queues
    BY <1>3 DEF Process, listVars, loopVars
  <2>2. NoNewTask
    BY <2>1 DEF NoNewTask, Queued
  <2>3. QED
    BY <2>1, <2>2, RunGoesOn
<1>4. ASSUME NEW m \in BagToSet(updates), Serve(m) PROVE Turns'
  BY <1>4, ServeTurns
<1>5. CASE SwitchSlice \/ EndRun
  BY <1>5, SwitchSliceTurns, EndRunTurns
<1>6. CASE UNCHANGED vars
  <2>1. /\ build' = build /\ worklist' = worklist /\ duplicate' = duplicate /\ agg' = agg
        /\ phase' = phase /\ slice' = slice /\ served' = served /\ queues' = queues
    BY <1>6 DEF vars, listVars, loopVars, engineVars
  <2>2. NoNewTask
    BY <2>1 DEF NoNewTask, Queued
  <2>3. QED
    BY <2>1, <2>2, RunGoesOn
<1>7. QED
  BY <1>1, <1>2, <1>3, <1>4, <1>5, <1>6 DEF Next, Run

\* Where the slices take turns no worklist outgrows its slice, in any of the
\* three executions, and the assertion of simulate_slice never fails.
THEOREM WorklistsAreOnce ==
  ASSUME NoGradientBuild
  PROVE  Spec => []WorklistOnce
<1>1. Init => IInv /\ Turns
  BY InitKeeps, InitTurns
<1>2. IInv /\ Turns /\ [Next]_vars => (IInv /\ Turns)'
  BY StepKeeps, StepTurns
<1>3. IInv /\ Turns => WorklistOnce
  <2> SUFFICES ASSUME IInv, Turns PROVE WorklistOnce
    OBVIOUS
  <2>1. \A s \in Slices : IsInjective(worklist[s])
    BY DEF Turns, ListsOnce, Once, IsInjective
  <2>2. build.exec = "async" => \A s \in Slices : ToSet(worklist[s]) \ duplicate[s] \subseteq {Source}
    BY DEF Turns, OnlySourceUnmarked, NotMarked
  <2>3. QED
    BY <2>1, <2>2 DEF WorklistOnce, Turns, IInv, ListsOfSlice, DuplicateIsListed
<1>4. QED
  BY <1>1, <1>2, <1>3, PTL DEF Spec

\* and only the slice that runs has tasks in the cores' queues.
THEOREM QueuesAreOfSlice ==
  ASSUME NoGradientBuild
  PROVE  Spec => []QueuesOfSlice
<1>1. Init => IInv /\ Turns
  BY InitKeeps, InitTurns
<1>2. IInv /\ Turns /\ [Next]_vars => (IInv /\ Turns)'
  BY StepKeeps, StepTurns
<1>3. IInv /\ Turns => QueuesOfSlice
  <2> SUFFICES ASSUME IInv, Turns, NEW c \in Cores, NEW v \in Queued(c)
               PROVE  phase = "run" /\ SliceOf(v) = slice
    BY DEF QueuesOfSlice
  <2>1. phase = "run"
    BY DEF IInv, Idle, Turns
  <2>2. QED
    BY <2>1 DEF IInv, TasksOfSlice, Members
<1>4. QED
  BY <1>1, <1>2, <1>3, PTL DEF Spec
=============================================================================
