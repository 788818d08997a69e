-------------------------- MODULE AsyncEngineProofs --------------------------
(***************************************************************************)
(* Proofs about AsyncEngine for every graph, every number of cores, and    *)
(* every width and buffer size.                                            *)
(***************************************************************************)
EXTENDS AsyncEngine, Numbers, TLAPS, SequenceTheorems

(***************************************************************************)
(* The inductive invariant.                                                *)
(***************************************************************************)

Result == [edge : Edges, val : Nat]

TypeOK ==
  /\ build \in Builds
  /\ scratch \in [Vertices -> Dist]
  /\ tasks \in [Cores -> [Vertices -> Nat]]
  /\ pending \in [Cores -> Task \cup {NoTask}]
  /\ ring \in [Cores -> Seq(Edges)]
  /\ cbLsq \in [Cores -> Seq(Edges)]
  /\ lsq \in [Cores -> Seq(Edges)]
  /\ prefetchProcess \in [Cores -> Seq(Edges)]
  /\ processReduce \in [Cores -> Seq(Result)]
  /\ updates \in SUBSET (Vertices \X Nat)
  /\ phase \in {"serve", "core", "dispatch", "done"}
  /\ turn \in 0 .. NumCores
  /\ dispPtr \in Cores
  /\ elemDispatch \in Nat
  /\ oddCycle \in BOOLEAN
  /\ termFlag \in BOOLEAN

\* The completion buffer keeps an entry free, and reduce will empty its queue.
Sizes ==
  \A c \in Cores :
    /\ Len(ring[c]) < COMPLETION_BUFFER_SIZE
    /\ Len(processReduce[c]) <= PROCESS_THR

\* A pending task has edges left.
PendingUnfinished ==
  \A c \in Cores : pending[c] # NoTask => pending[c][2] < Degree(pending[c][1])

\* A value on its way to a vertex comes from an edge into it, whose source is
\* at least as good by now.
Justified ==
  /\ \A m \in updates : \E x \in Edges :
       Dst(x) = m[1] /\ scratch[x[1]] + Wgt(x) <= m[2]
  /\ \A c \in Cores : \A i \in DOMAIN processReduce[c] :
       scratch[processReduce[c][i].edge[1]] + Wgt(processReduce[c][i].edge)
         <= processReduce[c][i].val

\* The parts of the loop body leave each other's variables as they expect them.
LoopOrder ==
  /\ phase = "serve" => turn = 0
  /\ phase \in {"serve", "core"} => elemDispatch = 0 /\ ~termFlag

\* Nothing is left, the pending tasks included.
Quiet ==
  /\ updates = {}
  /\ \A c \in Cores : PipelineInactive(c) /\ pending[c] = NoTask
QuietAtEnd == phase = "done" \/ (phase = "dispatch" /\ termFlag) => Quiet

\* A pending task does not make its core active, but the edges issued with it
\* do.  They move one stage in a cycle, and without FIFO a cycle without
\* dispatch passes before the core may issue more: then they are one stage
\* further.  Early and Late: where they are before and after a core's turn.
SomePending == \E c \in Cores : pending[c] # NoTask
SomeRing == \E d \in Cores : ring[d] # <<>>
Early(d) == ring[d] # <<>> \/ (~FIFO /\ oddCycle /\ cbLsq[d] # <<>>)
Late(d) == ring[d] # <<>> \/ cbLsq[d] # <<>> \/ (~FIFO /\ oddCycle /\ lsq[d] # <<>>)
PendingActive ==
  /\ phase = "serve" /\ SomePending => \E d \in Cores : Early(d)
  /\ phase = "core" /\ SomePending =>
       \E d \in Cores : IF turn <= d THEN Early(d) ELSE Late(d)
  /\ phase = "dispatch" /\ ~FIFO /\ ~oddCycle /\ SomePending =>
       \E d \in Cores : ring[d] # <<>> \/ cbLsq[d] # <<>>
  /\ phase = "dispatch" /\ (FIFO \/ oddCycle) =>
       \A t \in 0 .. turn - 1 : pending[(dispPtr + t) % NumCores] # NoTask => SomeRing
  /\ phase = "dispatch" /\ elemDispatch > 0 => SomeRing

IInv ==
  /\ TypeOK
  /\ Sizes
  /\ PendingUnfinished
  /\ OneValuePerSource
  /\ Justified
  /\ RelaxationCovered
  /\ LoopOrder
  /\ QuietAtEnd
  /\ PendingActive

(***************************************************************************)
(* The graph.                                                              *)
(***************************************************************************)

\* The elements of a sequence.
LEMMA SeqElements ==
  ASSUME NEW S, NEW s \in Seq(S)
  PROVE  DOMAIN s = 1 .. Len(s) /\ Len(s) \in Nat /\ \A i \in 1 .. Len(s) : s[i] \in S
BY LenProperties

\* The edges of the graph and what they lead to.
LEMMA EdgeType ==
  ASSUME build \in Builds, NEW x \in Edges
  PROVE  /\ x[1] \in Vertices /\ x[2] \in 1 .. Degree(x[1]) /\ x = <<x[1], x[2]>>
         /\ x[2] \in Nat /\ x[2] > 0
         /\ Dst(x) \in Vertices /\ Wgt(x) \in Nat
         /\ MULTICAST => Wgt(x) = 1
<1>1. PICK v \in Vertices : x \in {v} \X (1 .. Len(Out[v]))
  BY DEF Edges
<1>2. x[1] = v /\ x[2] \in 1 .. Len(Out[v]) /\ x = <<x[1], x[2]>>
  BY <1>1
<1>3. Out[v] \in Seq([dst : Vertices, wgt : Nat])
  BY GraphAssumption DEF Out
<1>4. Out[v][x[2]] \in [dst : Vertices, wgt : Nat] /\ x[2] \in DOMAIN Out[v]
  BY <1>2, <1>3, SeqElements
<1>5. MULTICAST => Out[v][x[2]].wgt = 1
  BY <1>4, GraphAssumption DEF Out, MULTICAST
<1>6. x[2] \in Nat /\ x[2] > 0
  BY <1>2, <1>3, SeqElements
<1>7. QED
  BY <1>2, <1>4, <1>5, <1>6 DEF Dst, Wgt, Degree

\* Degrees are natural numbers, and every position below is an edge.
LEMMA DegreeType ==
  ASSUME build \in Builds, NEW v \in Vertices
  PROVE  /\ Degree(v) \in Nat
         /\ \A k \in 1 .. Degree(v) : <<v, k>> \in Edges
<1>1. Out[v] \in Seq([dst : Vertices, wgt : Nat])
  BY GraphAssumption DEF Out
<1>2. QED
  BY <1>1 DEF Degree, Edges

\* The owner of a vertex is a core.
LEMMA OwnerType ==
  ASSUME build \in Builds, NEW v \in Vertices
  PROVE  Owner[v] \in Cores
BY GraphAssumption DEF Owner

(***************************************************************************)
(* The queues between the stages.                                          *)
(***************************************************************************)

\* What a stage appends is behind what was there.
LEMMA InConcat ==
  ASSUME NEW S, NEW s \in Seq(S), NEW t \in Seq(S)
  PROVE  /\ s \o t \in Seq(S)
         /\ \A x : In(x, s \o t) <=> In(x, s) \/ In(x, t)
<1>1. /\ s \o t \in Seq(S) /\ Len(s \o t) = Len(s) + Len(t)
      /\ \A i \in 1 .. Len(s) + Len(t) :
           (s \o t)[i] = IF i <= Len(s) THEN s[i] ELSE t[i - Len(s)]
  BY ConcatProperties
<1>2. /\ DOMAIN s = 1 .. Len(s) /\ DOMAIN t = 1 .. Len(t) /\ Len(s) \in Nat /\ Len(t) \in Nat
      /\ DOMAIN (s \o t) = 1 .. Len(s) + Len(t)
  BY <1>1, LenProperties
<1> DEFINE u == s \o t
<1> HIDE DEF u
<1>3. \A i \in DOMAIN s : i \in DOMAIN u /\ u[i] = s[i]
  BY <1>1, <1>2 DEF u
<1>4. \A i \in DOMAIN t : Len(s) + i \in DOMAIN u /\ u[Len(s) + i] = t[i]
  BY <1>1, <1>2 DEF u
<1>5. \A i \in DOMAIN u : (i \in DOMAIN s /\ u[i] = s[i]) \/ (i - Len(s) \in DOMAIN t /\ u[i] = t[i - Len(s)])
  BY <1>1, <1>2 DEF u
<1>6. \A x : In(x, u) <=> In(x, s) \/ In(x, t)
  BY <1>3, <1>4, <1>5 DEF In
<1>7. QED
  BY <1>1, <1>6 DEF u

\* What a stage takes from the front and what it leaves.
LEMMA InSplit ==
  ASSUME NEW S, NEW s \in Seq(S), NEW n \in 0 .. Len(s)
  PROVE  /\ SubSeq(s, 1, n) \in Seq(S) /\ Len(SubSeq(s, 1, n)) = n
         /\ Rest(s, n) \in Seq(S) /\ Len(Rest(s, n)) = Len(s) - n
         /\ \A x : In(x, s) <=> In(x, SubSeq(s, 1, n)) \/ In(x, Rest(s, n))
<1>1. DOMAIN s = 1 .. Len(s) /\ Len(s) \in Nat /\ \A i \in 1 .. Len(s) : s[i] \in S
  BY LenProperties
<1> DEFINE a == SubSeq(s, 1, n)
           b == SubSeq(s, n + 1, Len(s))
<1>2. /\ a \in Seq(S) /\ Len(a) = n
      /\ \A i \in 1 .. n : a[i] = s[i]
  <2>1. \A i \in 1 .. n : s[i] \in S
    BY <1>1
  <2>2. QED
    BY <1>1, <2>1, SubSeqProperties
<1>3. /\ b \in Seq(S) /\ Len(b) = Len(s) - n
      /\ \A i \in 1 .. Len(s) - n : b[i] = s[n + i]
  <2>1. \A i \in n + 1 .. Len(s) : s[i] \in S
    BY <1>1
  <2>2. /\ b \in Seq(S)
        /\ Len(b) = IF n + 1 <= Len(s) THEN Len(s) - (n + 1) + 1 ELSE 0
        /\ \A i \in 1 .. Len(s) - (n + 1) + 1 : b[i] = s[(n + 1) + i - 1]
    BY <1>1, <2>1, SubSeqProperties
  <2> HIDE DEF b
  <2>3. ASSUME NEW i \in 1 .. Len(s) - n PROVE b[i] = s[n + i]
    <3>1. i \in 1 .. Len(s) - (n + 1) + 1 /\ (n + 1) + i - 1 = n + i
      BY <1>1
    <3>2. QED
      BY <2>2, <3>1
  <2>4. Len(b) = Len(s) - n
    <3>1. Len(b) = IF n + 1 <= Len(s) THEN Len(s) - (n + 1) + 1 ELSE 0
      BY <2>2
    <3>2. n \in Nat /\ Len(s) \in Nat /\ n <= Len(s)
      BY <1>1
    <3>3. QED
      BY <3>1, <3>2
  <2>5. QED
    BY <2>2, <2>3, <2>4
<1>4. DOMAIN a = 1 .. n /\ DOMAIN b = 1 .. Len(s) - n
  BY <1>2, <1>3, LenProperties
<1> HIDE DEF a, b
<1>5. \A i \in DOMAIN a : i \in DOMAIN s /\ a[i] = s[i]
  BY <1>1, <1>2, <1>4
<1>6. \A i \in DOMAIN b : n + i \in DOMAIN s /\ b[i] = s[n + i]
  BY <1>1, <1>3, <1>4
<1>7. ASSUME NEW i \in DOMAIN s
      PROVE  (i \in DOMAIN a /\ a[i] = s[i]) \/ (i - n \in DOMAIN b /\ b[i - n] = s[i])
  <2>1. CASE i <= n
    BY <1>1, <1>2, <1>4, <2>1
  <2>2. CASE i > n
    <3>1. i - n \in 1 .. Len(s) - n /\ n + (i - n) = i
      BY <1>1, <2>2
    <3>2. QED
      BY <1>3, <1>4, <3>1
  <2>3. QED
    BY <1>1, <2>1, <2>2
<1>8. \A x : In(x, s) <=> In(x, a) \/ In(x, b)
  BY <1>5, <1>6, <1>7 DEF In
<1>9. QED
  BY <1>2, <1>3, <1>8 DEF a, b, Rest

\* A stage takes no more than there is.
LEMMA UptoType ==
  ASSUME NEW S, NEW s \in Seq(S)
  PROVE  Upto(s) \in 0 .. Len(s) /\ (Len(s) <= PROCESS_THR => Upto(s) = Len(s)) /\ Upto(s) <= PROCESS_THR
BY SizesAssumption, LenProperties DEF Upto

\* A queue is empty when nothing is in it.
LEMMA InEmpty ==
  ASSUME NEW S, NEW s \in Seq(S)
  PROVE  s = <<>> <=> \A x : ~ In(x, s)
<1>1. DOMAIN s = 1 .. Len(s) /\ Len(s) \in Nat
  BY LenProperties
<1>2. s = <<>> => \A x : ~ In(x, s)
  BY <1>1 DEF In
<1>3. ASSUME s # <<>> PROVE In(s[1], s)
  <2>1. Len(s) # 0
    BY <1>3, EmptySeq
  <2>2. QED
    BY <1>1, <2>1 DEF In
<1>4. QED
  BY <1>2, <1>3

(***************************************************************************)
(* The packets that reduce builds.                                         *)
(***************************************************************************)

OpenPacket == [first : Nat, size : Nat]
NoPacket == [first |-> 0, size |-> 0]

\* One update more.
LEMMA PackedType ==
  ASSUME NEW c, NEW popped, NEW i \in Nat, NEW open \in OpenPacket
  PROVE  Packed(c, popped, open, i) \in OpenPacket
BY DEF Packed, OpenPacket

\* The recursion over the popped updates has a solution, and the packet open
\* after each of them was started by one of those before.
LEMMA PacketProperties ==
  ASSUME NEW c, NEW popped, NEW N \in Nat, Len(popped) = N
  PROVE  /\ \A i \in 0 .. N :
              /\ Packet(c, popped)[i] \in OpenPacket
              /\ Packet(c, popped)[i].size > 0 => Packet(c, popped)[i].first \in 1 .. i
         /\ \A i \in 1 .. N : Packet(c, popped)[i] = Packed(c, popped, Packet(c, popped)[i - 1], i)
<1> DEFINE Body(f) == [i \in 0 .. N |->
                         IF i = 0 THEN NoPacket ELSE Packed(c, popped, f[i - 1], i)]
           after == [i \in 1 .. N |-> [o \in OpenPacket |-> Packed(c, popped, o, i)]]
           P == Packet(c, popped)
<1>1. \E f : f = Body(f)
  <2>1. after \in [1 .. N -> [OpenPacket -> OpenPacket]]
    BY PackedType
  <2>2. NoPacket \in OpenPacket
    BY DEF NoPacket, OpenPacket
  <2>3. \A i \in 1 .. N : \A o \in OpenPacket : after[i][o] = Packed(c, popped, o, i)
    OBVIOUS
  <2> HIDE DEF after
  <2>4. PICK f \in [0 .. N -> OpenPacket] : Unfolds(f, N, NoPacket, after)
    BY <2>1, <2>2, RecursionExists
  <2>5. ASSUME NEW i \in 0 .. N
        PROVE  f[i] = IF i = 0 THEN NoPacket ELSE Packed(c, popped, f[i - 1], i)
    <3>1. CASE i = 0
      BY <2>4, <3>1 DEF Unfolds
    <3>2. CASE i # 0
      <4>1. i \in 1 .. N /\ i - 1 \in 0 .. N /\ f[i - 1] \in OpenPacket
        BY <3>2
      <4>2. QED
        BY <2>3, <2>4, <3>2, <4>1 DEF Unfolds
    <3>3. QED
      BY <3>1, <3>2
  <2>6. f = Body(f)
    BY <2>5
  <2>7. QED
    BY <2>6
<1>2. P = CHOOSE f : f = Body(f)
  BY DEF Packet, NoPacket
<1>3. P = Body(P)
  BY <1>1, <1>2
<1>4. /\ P[0] = NoPacket
      /\ \A i \in 1 .. N : P[i] = Packed(c, popped, P[i - 1], i)
  BY <1>3
<1> HIDE DEF P
<1> DEFINE Good(i) == P[i] \in OpenPacket /\ (P[i].size > 0 => P[i].first \in 1 .. i)
           S == {i \in Nat : Good(i)}
<1>5. 0 \in S
  BY <1>4 DEF NoPacket, OpenPacket
<1>6. \A i \in 0 .. N - 1 : i \in S => i + 1 \in S
  <2> SUFFICES ASSUME NEW i \in 0 .. N - 1, Good(i) PROVE Good(i + 1)
    OBVIOUS
  <2>1. P[i + 1] = Packed(c, popped, P[i], i + 1)
    BY <1>4
  <2>2. P[i + 1] \in OpenPacket
    BY <2>1, PackedType
  <2>3. \/ P[i + 1] = P[i]
        \/ P[i].size > 0 /\ P[i + 1].first = P[i].first
        \/ P[i + 1].first = i + 1
    BY <2>1 DEF Packed, Joins, OpenPacket
  <2>4. QED
    BY <2>2, <2>3 DEF OpenPacket
<1> HIDE DEF S
<1>7. \A i \in 0 .. N : i \in S
  BY <1>5, <1>6, RangeInduction
<1>8. QED
  BY <1>4, <1>7 DEF S, P

\* Results of one source were computed from one value of it.
SourceAgrees(s) ==
  \A i, j \in DOMAIN s : s[i].edge[1] = s[j].edge[1] =>
    s[i].val - Wgt(s[i].edge) = s[j].val - Wgt(s[j].edge)

\* Every update arrives with its own value, in whichever packet it travels.
LEMMA CarriedValues ==
  ASSUME build \in Builds, NEW c, NEW popped \in Seq(Result), SourceAgrees(popped)
  PROVE  \A m : m \in Carried(c, popped) <=>
           \E r : In(r, popped) /\ m = <<Dst(r.edge), r.val>>
<1> DEFINE P == Packet(c, popped)
           carrier(i) == IF MULTICAST /\ Remote(c, popped[i]) THEN P[i].first ELSE i
<1>1. /\ DOMAIN popped = 1 .. Len(popped) /\ Len(popped) \in Nat
      /\ \A i \in 1 .. Len(popped) :
           popped[i] \in Result /\ popped[i].edge \in Edges /\ popped[i].val \in Nat
  <2>1. /\ DOMAIN popped = 1 .. Len(popped) /\ Len(popped) \in Nat
        /\ \A i \in 1 .. Len(popped) : popped[i] \in Result
    BY SeqElements
  <2>2. QED
    BY <2>1 DEF Result
<1>2. ASSUME NEW i \in DOMAIN popped PROVE popped[carrier(i)].val = popped[i].val
  <2> SUFFICES ASSUME MULTICAST, Remote(c, popped[i])
               PROVE  popped[P[i].first].val = popped[i].val
    OBVIOUS
  <2>1. /\ P[i - 1] \in OpenPacket
        /\ P[i - 1].size > 0 => P[i - 1].first \in 1 .. i - 1
        /\ P[i] = Packed(c, popped, P[i - 1], i)
    <3>1. i \in 1 .. Len(popped) /\ i - 1 \in 0 .. Len(popped)
      BY <1>1
    <3>2. QED
      BY <1>1, <3>1, PacketProperties
  <2> HIDE DEF P
  <2> DEFINE k == P[i - 1].first
  <2>2. CASE Joins(P[i - 1], popped[k], popped[i])
    <3>1. P[i].first = k
      BY <2>1, <2>2 DEF Packed, OpenPacket
    <3>2. k \in DOMAIN popped
      BY <1>1, <2>1, <2>2 DEF Joins
    <3>3. popped[i].edge[1] = popped[k].edge[1] \/ popped[i].val = popped[k].val
      BY <2>2 DEF Joins
    <3> HIDE DEF k
    <3>4. ASSUME popped[i].edge[1] = popped[k].edge[1] PROVE popped[i].val = popped[k].val
      <4>1. Wgt(popped[i].edge) = 1 /\ Wgt(popped[k].edge) = 1
        BY <1>1, <3>2, EdgeType
      <4>2. popped[i].val - Wgt(popped[i].edge) = popped[k].val - Wgt(popped[k].edge)
        BY <3>2, <3>4 DEF SourceAgrees
      <4>3. popped[i].val \in Nat /\ popped[k].val \in Nat
        BY <1>1, <3>2
      <4>4. QED
        BY <4>1, <4>2, <4>3
    <3>5. QED
      BY <3>1, <3>3, <3>4
  <2>3. CASE ~ Joins(P[i - 1], popped[k], popped[i])
    <3>1. P[i].first = i
      BY <2>1, <2>3 DEF Packed
    <3>2. QED
      BY <3>1
  <2>4. QED
    BY <2>2, <2>3
<1>3. Carried(c, popped) = {<<Dst(popped[i].edge), popped[carrier(i)].val>> : i \in DOMAIN popped}
  BY DEF Carried
<1> HIDE DEF carrier
<1>4. Carried(c, popped) = {<<Dst(popped[i].edge), popped[i].val>> : i \in DOMAIN popped}
  BY <1>2, <1>3
<1>5. QED
  BY <1>4 DEF In

\* What one turn of a core does to its stages, whichever read answers it gets.
LEMMA CoreCycleMoves ==
  ASSUME TypeOK, Sizes, OneValuePerSource,
         NEW c \in Cores, NEW n \in 0 .. Len(ring[c]), CoreCycle(c, n)
  PROVE  /\ ring' \in [Cores -> Seq(Edges)] /\ cbLsq' \in [Cores -> Seq(Edges)]
         /\ lsq' \in [Cores -> Seq(Edges)] /\ prefetchProcess' \in [Cores -> Seq(Edges)]
         /\ processReduce' \in [Cores -> Seq(Result)]
         /\ \A d \in Cores \ {c} :
              /\ ring'[d] = ring[d] /\ cbLsq'[d] = cbLsq[d] /\ lsq'[d] = lsq[d]
              /\ prefetchProcess'[d] = prefetchProcess[d]
              /\ processReduce'[d] = processReduce[d]
         /\ Len(ring'[c]) <= Len(ring[c]) /\ Len(processReduce'[c]) <= PROCESS_THR
         /\ lsq'[c] = cbLsq[c]
         /\ \A x : In(x, ring[c]) => In(x, cbLsq'[c]) \/ In(x, ring'[c])
         /\ \A x : In(x, lsq[c]) => In(x, prefetchProcess'[c])
         /\ \A x : In(x, prefetchProcess[c]) =>
              \/ In(x, prefetchProcess'[c])
              \/ In([edge |-> x, val |-> scratch[x[1]] + Wgt(x)], processReduce'[c])
         /\ \A i \in DOMAIN processReduce'[c] :
              processReduce'[c][i].val
                = scratch[processReduce'[c][i].edge[1]] + Wgt(processReduce'[c][i].edge)
         /\ \A m : m \in updates' <=>
              m \in updates \/ \E r : In(r, processReduce[c]) /\ m = <<Dst(r.edge), r.val>>
<1> DEFINE k == Upto(prefetchProcess[c])
           all == Len(processReduce[c])
           popped == SubSeq(processReduce[c], 1, all)
           taken == SubSeq(prefetchProcess[c], 1, k)
           results == Processed(taken)
<1>1. /\ build \in Builds /\ scratch \in [Vertices -> Dist]
      /\ ring[c] \in Seq(Edges) /\ cbLsq[c] \in Seq(Edges) /\ lsq[c] \in Seq(Edges)
      /\ prefetchProcess[c] \in Seq(Edges) /\ processReduce[c] \in Seq(Result)
      /\ all \in Nat /\ all <= PROCESS_THR
  BY SeqElements DEF TypeOK, Sizes
<1>2. Reduced(c) = all /\ all \in 0 .. Len(processReduce[c])
  BY <1>1, UptoType DEF Reduced
<1>3. k \in 0 .. Len(prefetchProcess[c]) /\ k <= PROCESS_THR
  BY <1>1, UptoType
<1>4. /\ updates' = updates \cup Carried(c, popped)
      /\ processReduce' = [processReduce EXCEPT ![c] = Rest(processReduce[c], all) \o results]
      /\ prefetchProcess' = [prefetchProcess EXCEPT ![c] = Rest(prefetchProcess[c], k) \o lsq[c]]
      /\ lsq' = [lsq EXCEPT ![c] = cbLsq[c]]
      /\ cbLsq' = [cbLsq EXCEPT ![c] = SubSeq(ring[c], 1, n)]
      /\ ring' = [ring EXCEPT ![c] = Rest(ring[c], n)]
  BY <1>2 DEF CoreCycle
<1> HIDE DEF k, all, popped, taken, results
<1>5. /\ popped \in Seq(Result) /\ Rest(processReduce[c], all) \in Seq(Result)
      /\ Len(Rest(processReduce[c], all)) = 0
      /\ \A r : In(r, processReduce[c]) <=> In(r, popped) \/ In(r, Rest(processReduce[c], all))
  <2>1. Len(Rest(processReduce[c], all)) = Len(processReduce[c]) - all
    BY <1>1, <1>2, InSplit, Zenon
  <2>2. Len(Rest(processReduce[c], all)) = 0
    BY <1>1, <2>1 DEF all
  <2>3. QED
    BY <1>1, <1>2, <2>2, InSplit DEF popped
<1>6. \A r : ~ In(r, Rest(processReduce[c], all))
  BY <1>5, SeqElements DEF In
<1>7. /\ taken \in Seq(Edges) /\ Len(taken) = k /\ Rest(prefetchProcess[c], k) \in Seq(Edges)
      /\ \A x : In(x, prefetchProcess[c]) <=> In(x, taken) \/ In(x, Rest(prefetchProcess[c], k))
  BY <1>1, <1>3, InSplit DEF taken
<1>8. /\ SubSeq(ring[c], 1, n) \in Seq(Edges) /\ Rest(ring[c], n) \in Seq(Edges)
      /\ Len(Rest(ring[c], n)) = Len(ring[c]) - n
      /\ \A x : In(x, ring[c]) <=> In(x, SubSeq(ring[c], 1, n)) \/ In(x, Rest(ring[c], n))
  <2> DEFINE q == ring[c]
  <2>1. q \in Seq(Edges) /\ n \in 0 .. Len(q)
    BY <1>1
  <2> HIDE DEF q
  <2>2. Len(Rest(q, n)) = Len(q) - n
    BY <2>1, InSplit
  <2>3. /\ SubSeq(q, 1, n) \in Seq(Edges) /\ Rest(q, n) \in Seq(Edges)
        /\ \A x : In(x, q) <=> In(x, SubSeq(q, 1, n)) \/ In(x, Rest(q, n))
    BY <2>1, InSplit
  <2>4. QED
    BY <2>2, <2>3 DEF q
<1>9. /\ results \in Seq(Result) /\ Len(results) = k
      /\ \A i \in DOMAIN results :
           results[i].val = scratch[results[i].edge[1]] + Wgt(results[i].edge)
      /\ \A x : In(x, taken) => In([edge |-> x, val |-> scratch[x[1]] + Wgt(x)], results)
  <2>1. DOMAIN taken = 1 .. k /\ k \in Nat /\ \A i \in 1 .. k : taken[i] \in Edges
    BY <1>3, <1>7, SeqElements
  <2>2. results = [i \in 1 .. k |->
                     [edge |-> taken[i], val |-> scratch[taken[i][1]] + Wgt(taken[i])]]
    BY <2>1 DEF results, Processed
  <2>3. ASSUME NEW i \in 1 .. k PROVE scratch[taken[i][1]] + Wgt(taken[i]) \in Nat
    <3>1. taken[i] \in Edges
      BY <2>1
    <3>2. taken[i][1] \in Vertices /\ Wgt(taken[i]) \in Nat
      BY <1>1, <3>1, EdgeType
    <3>3. scratch[taken[i][1]] \in Dist
      BY <1>1, <3>2
    <3>4. QED
      BY <3>2, <3>3, SizesAssumption DEF Dist
  <2>4. results \in Seq(Result)
    BY <2>1, <2>2, <2>3 DEF Result
  <2>5. Len(results) = k
    BY <2>1, <2>2
  <2>6. QED
    BY <2>1, <2>2, <2>4, <2>5 DEF In
<1>10. /\ Rest(processReduce[c], all) \o results \in Seq(Result)
       /\ Rest(processReduce[c], all) \o results = results
  <2>1. Rest(processReduce[c], all) = <<>>
    BY <1>5, EmptySeq
  <2>2. <<>> \o results = results
    BY <1>9, ConcatEmptySeq
  <2>3. QED
    BY <1>9, <2>1, <2>2
<1>11. /\ Rest(prefetchProcess[c], k) \o lsq[c] \in Seq(Edges)
       /\ \A x : In(x, Rest(prefetchProcess[c], k) \o lsq[c])
                   <=> In(x, Rest(prefetchProcess[c], k)) \/ In(x, lsq[c])
  BY <1>1, <1>7, InConcat
<1>12. SourceAgrees(popped)
  <2>1. \A i \in DOMAIN popped : i \in DOMAIN processReduce[c] /\ popped[i] = processReduce[c][i]
    <3>1. \A i \in 1 .. all : processReduce[c][i] \in Result
      BY <1>1, SeqElements DEF all
    <3>2. DOMAIN popped = 1 .. all /\ \A i \in 1 .. all : popped[i] = processReduce[c][i]
      BY <1>1, <3>1, SubSeqProperties, SeqElements DEF popped
    <3>3. QED
      BY <1>1, <3>2, SeqElements DEF all
  <2>2. QED
    BY <2>1 DEF OneValuePerSource, SourceAgrees
<1>13. \A m : m \in Carried(c, popped) <=> \E r : In(r, popped) /\ m = <<Dst(r.edge), r.val>>
  BY <1>1, <1>5, <1>12, CarriedValues
<1>14. /\ ring'[c] = Rest(ring[c], n) /\ cbLsq'[c] = SubSeq(ring[c], 1, n) /\ lsq'[c] = cbLsq[c]
       /\ prefetchProcess'[c] = Rest(prefetchProcess[c], k) \o lsq[c]
       /\ processReduce'[c] = results
  BY <1>4, <1>10 DEF TypeOK
<1>15. /\ ring' \in [Cores -> Seq(Edges)] /\ cbLsq' \in [Cores -> Seq(Edges)]
       /\ lsq' \in [Cores -> Seq(Edges)] /\ prefetchProcess' \in [Cores -> Seq(Edges)]
       /\ processReduce' \in [Cores -> Seq(Result)]
  BY <1>1, <1>4, <1>8, <1>10, <1>11 DEF TypeOK
<1>16. \A d \in Cores \ {c} :
         /\ ring'[d] = ring[d] /\ cbLsq'[d] = cbLsq[d] /\ lsq'[d] = lsq[d]
         /\ prefetchProcess'[d] = prefetchProcess[d] /\ processReduce'[d] = processReduce[d]
  BY <1>4 DEF TypeOK
<1>17. Len(ring'[c]) <= Len(ring[c]) /\ Len(processReduce'[c]) <= PROCESS_THR
  BY <1>1, <1>3, <1>8, <1>9, <1>14, SeqElements
<1>18. \A m : m \in updates' <=>
         m \in updates \/ \E r : In(r, processReduce[c]) /\ m = <<Dst(r.edge), r.val>>
  BY <1>4, <1>5, <1>6, <1>13
<1>19. \A x : In(x, prefetchProcess[c]) =>
         \/ In(x, prefetchProcess'[c])
         \/ In([edge |-> x, val |-> scratch[x[1]] + Wgt(x)], processReduce'[c])
  BY <1>7, <1>9, <1>11, <1>14
<1>20. QED
  BY <1>8, <1>9, <1>11, <1>14, <1>15, <1>16, <1>17, <1>18, <1>19

(***************************************************************************)
(* Where the value of an edge may be.                                      *)
(***************************************************************************)

\* No step changes the graph or the options.
LEMMA GraphStays ==
  ASSUME build' = build
  PROVE  /\ Edges' = Edges /\ Result' = Result /\ Arcs' = Arcs /\ Owner' = Owner
         /\ FIFO' = FIFO
         /\ \A x : Dst(x)' = Dst(x) /\ Wgt(x)' = Wgt(x)
         /\ \A v : Degree(v)' = Degree(v)
<1>1. Out' = Out /\ Owner' = Owner /\ FIFO' = FIFO
  BY DEF Out, Owner, FIFO
<1>2. \A x : Dst(x)' = Dst(x) /\ Wgt(x)' = Wgt(x)
  BY <1>1 DEF Dst, Wgt
<1>3. Edges' = Edges
  BY <1>1 DEF Edges
<1>4. Arcs' = Arcs
  BY <1>2, <1>3 DEF Arcs
<1>5. \A v : Degree(v)' = Degree(v)
  BY <1>1 DEF Degree
<1>6. QED
  BY <1>1, <1>2, <1>3, <1>4, <1>5 DEF Result

\* Edge x is in core c, to be issued or in a stage, with a value good enough.
Good(x, d) == d <= scratch[x[1]] + Wgt(x)
Owing(x, c) == tasks[c][x[1]] > 0 \/ (pending[c] # NoTask /\ pending[c][1] = x[1] /\ pending[c][2] < x[2])
Moving(x, c) ==
  \/ In(x, ring[c]) \/ In(x, cbLsq[c]) \/ In(x, lsq[c]) \/ In(x, prefetchProcess[c])
  \/ \E r : In(r, processReduce[c]) /\ r.edge = x /\ Good(x, r.val)
Arriving(x) == \E m \in updates : m[1] = Dst(x) /\ Good(x, m[2])

\* The four queues of edges, one behind the other.
LEMMA InFour ==
  ASSUME NEW S, NEW a \in Seq(S), NEW b \in Seq(S), NEW c \in Seq(S), NEW d \in Seq(S)
  PROVE  \A x : In(x, a \o b \o c \o d) <=> (In(x, a) \/ In(x, b) \/ In(x, c) \/ In(x, d))
<1>1. /\ a \o b \in Seq(S)
      /\ \A x : In(x, a \o b) <=> (In(x, a) \/ In(x, b))
  BY InConcat
<1> DEFINE ab == a \o b
<1> HIDE DEF ab
<1>2. ab \in Seq(S)
  BY <1>1 DEF ab
<1>3. /\ ab \o c \in Seq(S)
      /\ \A x : In(x, ab \o c) <=> (In(x, ab) \/ In(x, c))
  BY <1>2, InConcat
<1> DEFINE abc == ab \o c
<1> HIDE DEF abc
<1>4. abc \in Seq(S)
  BY <1>3 DEF abc
<1>5. \A x : In(x, abc \o d) <=> (In(x, abc) \/ In(x, d))
  BY <1>4, InConcat
<1>6. \A x : In(x, abc \o d) <=> (In(x, a) \/ In(x, b) \/ In(x, c) \/ In(x, d))
  BY <1>1, <1>3, <1>5 DEF ab, abc
<1>7. QED
  BY <1>6 DEF ab, abc

\* Fresh, by core and stage.
LEMMA FreshIsSomewhere ==
  ASSUME TypeOK, NEW x, Fresh(x)
  PROVE  (\E c \in Cores : Owing(x, c) \/ Moving(x, c)) \/ Arriving(x)
<1>1. CASE \E m \in updates : m[1] = Dst(x) /\ m[2] <= scratch[x[1]] + Wgt(x)
  BY <1>1 DEF Arriving, Good
<1>2. ASSUME NEW c \in Cores, In(x, ring[c] \o cbLsq[c] \o lsq[c] \o prefetchProcess[c])
      PROVE  Moving(x, c)
  <2>1. /\ ring[c] \in Seq(Edges) /\ cbLsq[c] \in Seq(Edges)
        /\ lsq[c] \in Seq(Edges) /\ prefetchProcess[c] \in Seq(Edges)
    BY DEF TypeOK
  <2>2. In(x, ring[c]) \/ In(x, cbLsq[c]) \/ In(x, lsq[c]) \/ In(x, prefetchProcess[c])
    BY <1>2, <2>1, InFour
  <2>3. QED
    BY <2>2 DEF Moving
<1>3. QED
  BY <1>1, <1>2 DEF Fresh, Owing, Moving, Good, In

\* The converse, for the state after a step.
LEMMA SomewhereIsFresh ==
  ASSUME TypeOK', NEW x, (\E c \in Cores : Owing(x, c)' \/ Moving(x, c)') \/ Arriving(x)'
  PROVE  Fresh(x)'
<1>1. CASE Arriving(x)'
  BY <1>1 DEF Arriving, Good, Fresh
<1>2. ASSUME NEW c \in Cores, Owing(x, c)'
      PROVE  Fresh(x)'
  BY <1>2 DEF Owing, Fresh
<1>3. ASSUME NEW c \in Cores, Moving(x, c)'
      PROVE  Fresh(x)'
  <2>1. /\ ring'[c] \in Seq(Edges') /\ cbLsq'[c] \in Seq(Edges')
        /\ lsq'[c] \in Seq(Edges') /\ prefetchProcess'[c] \in Seq(Edges')
    BY DEF TypeOK
  <2>2. ASSUME In(x, ring'[c]) \/ In(x, cbLsq'[c]) \/ In(x, lsq'[c]) \/ In(x, prefetchProcess'[c])
        PROVE  Fresh(x)'
    <3>1. In(x, ring'[c] \o cbLsq'[c] \o lsq'[c] \o prefetchProcess'[c])
      BY <2>1, <2>2, InFour
    <3>2. QED
      BY <3>1 DEF Fresh
  <2>3. ASSUME \E r : In(r, processReduce'[c]) /\ r.edge = x /\ Good(x, r.val)'
        PROVE  Fresh(x)'
    BY <2>3 DEF Fresh, Good, In
  <2>4. QED
    BY <1>3, <2>2, <2>3 DEF Moving
<1>4. QED
  BY <1>1, <1>2, <1>3

(***************************************************************************)
(* The steps that move values: serving an update, a core's turn, issuing   *)
(* a task's edges.                                                         *)
(***************************************************************************)

\* Serving an update can only improve its vertex, and then queues a task.
LEMMA ServeMoves ==
  ASSUME TypeOK, NEW m \in updates, Serve(m)
  PROVE  /\ m[1] \in Vertices /\ m[2] \in Nat /\ m = <<m[1], m[2]>>
         /\ scratch' \in [Vertices -> Dist] /\ tasks' \in [Cores -> [Vertices -> Nat]]
         /\ \A v \in Vertices : scratch'[v] <= scratch[v]
         /\ \A v \in Vertices \ {m[1]} : scratch'[v] = scratch[v]
         /\ scratch'[m[1]] <= m[2]
         /\ \A c \in Cores : \A v \in Vertices : tasks[c][v] > 0 => tasks'[c][v] > 0
         /\ scratch'[m[1]] = scratch[m[1]] \/ \E c \in Cores : tasks'[c][m[1]] > 0
         /\ updates' = updates \ {m}
         /\ UNCHANGED <<build, pending, stageVars, loopVars>>
<1>1. m[1] \in Vertices /\ m[2] \in Nat /\ m = <<m[1], m[2]>>
  BY DEF TypeOK
<1>2. /\ scratch \in [Vertices -> Dist] /\ tasks \in [Cores -> [Vertices -> Nat]]
      /\ Dist \subseteq Nat /\ \A d \in Nat, e \in Dist : d < e => d \in Dist
  BY SizesAssumption DEF TypeOK, Dist
<1>3. updates' = updates \ {m} /\ UNCHANGED <<build, pending, stageVars, loopVars>>
  BY DEF Serve
<1>4. CASE m[2] < scratch[m[1]]
  <2> DEFINE c == Owner[m[1]]
  <2>1. c \in Cores
    BY <1>1, OwnerType DEF TypeOK
  <2>2. scratch' = [scratch EXCEPT ![m[1]] = m[2]]
    BY <1>4 DEF Serve, ShouldSpawn
  <2>3. \/ tasks' = [tasks EXCEPT ![c][m[1]] = tasks[c][m[1]] + 1]
        \/ tasks[c][m[1]] > 0 /\ tasks' = tasks
    BY <1>4 DEF Serve, ShouldSpawn
  <2> HIDE DEF c
  <2>4. /\ scratch' \in [Vertices -> Dist] /\ scratch'[m[1]] = m[2]
        /\ \A v \in Vertices \ {m[1]} : scratch'[v] = scratch[v]
    BY <1>1, <1>2, <1>4, <2>2
  <2>5. \A v \in Vertices : scratch'[v] <= scratch[v]
    BY <1>1, <1>2, <1>4, <2>4
  <2>6. /\ tasks' \in [Cores -> [Vertices -> Nat]] /\ tasks'[c][m[1]] > 0
        /\ \A d \in Cores : \A v \in Vertices : tasks[d][v] > 0 => tasks'[d][v] > 0
    <3>1. CASE tasks' = tasks /\ tasks[c][m[1]] > 0
      BY <1>2, <3>1
    <3>2. CASE tasks' = [tasks EXCEPT ![c][m[1]] = tasks[c][m[1]] + 1]
      <4>1. /\ tasks' \in [Cores -> [Vertices -> Nat]]
            /\ \A d \in Cores : \A v \in Vertices : tasks'[d][v] =
                 IF d = c /\ v = m[1] THEN tasks[c][m[1]] + 1 ELSE tasks[d][v]
        BY <1>1, <1>2, <2>1, <3>2
      <4>2. tasks[c][m[1]] \in Nat
        BY <1>1, <1>2, <2>1
      <4>3. QED
        BY <1>1, <2>1, <4>1, <4>2
    <3>3. QED
      BY <2>3, <3>1, <3>2
  <2>7. scratch'[m[1]] <= m[2]
    BY <1>1, <2>4
  <2>8. QED
    BY <1>1, <1>3, <2>1, <2>4, <2>5, <2>6, <2>7
<1>5. CASE ~ (m[2] < scratch[m[1]])
  <2>1. scratch' = scratch /\ tasks' = tasks
    BY <1>5 DEF Serve, ShouldSpawn
  <2>2. ASSUME NEW v \in Vertices PROVE scratch'[v] \in Nat /\ scratch'[v] <= scratch[v]
    <3>1. scratch[v] \in Nat
      BY <1>2
    <3>2. QED
      BY <2>1, <3>1
  <2>3. scratch'[m[1]] <= m[2]
    BY <1>1, <1>5, <2>1, <2>2
  <2>4. QED
    BY <1>1, <1>2, <1>3, <2>1, <2>2, <2>3
<1>6. QED
  BY <1>4, <1>5

\* A burst puts the next edges of the task behind the ring, fits into it, and
\* what is left of the task is pending.
LEMMA IssueMoves ==
  ASSUME TypeOK, Sizes, NEW c \in Cores, NEW task \in Task, CanDispatch(c),
         task[1] \in Vertices, task[2] = 0 \/ task[2] < Degree(task[1]), Issue(c, task)
  PROVE  /\ ring' \in [Cores -> Seq(Edges)] /\ pending' \in [Cores -> Task \cup {NoTask}]
         /\ elemDispatch' \in Nat /\ turn' = turn + 1
         /\ Len(ring'[c]) < COMPLETION_BUFFER_SIZE
         /\ \A d \in Cores \ {c} : ring'[d] = ring[d] /\ pending'[d] = pending[d]
         /\ \A x : In(x, ring[c]) => In(x, ring'[c])
         /\ \A x \in Edges : x[1] = task[1] /\ x[2] > task[2] =>
              \/ In(x, ring'[c])
              \/ pending'[c] # NoTask /\ pending'[c][1] = x[1] /\ pending'[c][2] < x[2]
         /\ elemDispatch' > elemDispatch => ring'[c] # <<>>
         /\ pending'[c] # NoTask =>
              ring'[c] # <<>> /\ pending'[c][2] < Degree(pending'[c][1])
         /\ UNCHANGED <<build, scratch, cbLsq, lsq, prefetchProcess, processReduce, updates,
                        phase, dispPtr, oddCycle, termFlag>>
<1> DEFINE n == Burst(c, task)
           v == task[1]
           more == [k \in 1 .. n |-> <<task[1], task[2] + k>>]
<1>1. /\ build \in Builds /\ ring[c] \in Seq(Edges) /\ elemDispatch \in Nat
      /\ ring \in [Cores -> Seq(Edges)] /\ pending \in [Cores -> Task \cup {NoTask}]
      /\ Len(ring[c]) \in Nat /\ Len(ring[c]) < COMPLETION_BUFFER_SIZE
  BY SeqElements DEF TypeOK, Sizes
<1>2. v \in Vertices /\ task[2] \in Nat /\ task = <<v, task[2]>> /\ Degree(v) \in Nat
  BY <1>1, DegreeType DEF Task
<1>3. /\ n \in Nat /\ n <= Degree(v) - task[2] /\ n <= COMPLETION_BUFFER_SIZE - Len(ring[c]) - 1
      /\ n < Degree(v) - task[2] => n > 0
  <2>1. /\ Free(c) = COMPLETION_BUFFER_SIZE - Len(ring[c]) /\ Free(c) > 2
        /\ COMPLETION_BUFFER_SIZE \in Nat /\ PROCESS_THR \in Nat \ {0}
    BY SizesAssumption DEF CanDispatch, Free
  <2> DEFINE rest == Degree(v) - task[2]
  <2>2. rest \in Nat
    BY <1>2
  <2>3. n = LET room == IF Free(c) - 1 < PROCESS_THR THEN Free(c) - 1 ELSE PROCESS_THR
            IN IF rest < room THEN rest ELSE room
    BY DEF Burst
  <2> HIDE DEF n, rest
  <2>4. n \in Nat /\ n <= rest /\ n <= COMPLETION_BUFFER_SIZE - Len(ring[c]) - 1 /\ (n < rest => n > 0)
    BY <1>1, <2>1, <2>2, <2>3
  <2>5. QED
    BY <2>4 DEF rest
<1>4. /\ ring' = [ring EXCEPT ![c] = ring[c] \o more]
      /\ pending' = [pending EXCEPT ![c] = LeftOver(task, n)]
      /\ elemDispatch' = elemDispatch + n /\ turn' = turn + 1
      /\ UNCHANGED <<build, scratch, cbLsq, lsq, prefetchProcess, processReduce, updates,
                     phase, dispPtr, oddCycle, termFlag>>
  BY DEF Issue
<1> HIDE DEF n
<1>5. /\ more \in Seq(Edges) /\ Len(more) = n /\ DOMAIN more = 1 .. n
      /\ \A k \in 1 .. n : more[k] = <<v, task[2] + k>>
  <2>1. ASSUME NEW k \in 1 .. n PROVE <<v, task[2] + k>> \in Edges
    <3>1. task[2] + k \in 1 .. Degree(v)
      BY <1>2, <1>3
    <3>2. QED
      BY <1>1, <1>2, <3>1, DegreeType
  <2>2. QED
    BY <1>3, <2>1
<1> HIDE DEF more, v
<1>6. /\ ring[c] \o more \in Seq(Edges)
      /\ \A x : In(x, ring[c] \o more) <=> (In(x, ring[c]) \/ In(x, more))
  BY <1>1, <1>5, InConcat
<1>7. Len(ring[c] \o more) = Len(ring[c]) + n
  BY <1>1, <1>5, ConcatProperties
<1>8. /\ ring' \in [Cores -> Seq(Edges)] /\ ring'[c] = ring[c] \o more
      /\ pending'[c] = LeftOver(task, n)
      /\ \A d \in Cores \ {c} : ring'[d] = ring[d] /\ pending'[d] = pending[d]
  BY <1>1, <1>4, <1>6
<1>9. LeftOver(task, n) = IF task[2] + n = Degree(v) THEN NoTask ELSE <<v, task[2] + n>>
  BY DEF LeftOver, v
<1>10. <<v, task[2] + n>> \in Task
  BY <1>2, <1>3 DEF Task
<1>11. pending' \in [Cores -> Task \cup {NoTask}]
  BY <1>1, <1>4, <1>9, <1>10
<1>12. n > 0 => ring'[c] # <<>>
  <2>1. n > 0 => Len(ring[c] \o more) # 0
    BY <1>1, <1>3, <1>7
  <2>2. QED
    BY <1>6, <1>8, <2>1, EmptySeq
<1>13. pending'[c] # NoTask =>
         ring'[c] # <<>> /\ pending'[c][2] < Degree(pending'[c][1])
  <2> SUFFICES ASSUME pending'[c] # NoTask
               PROVE  ring'[c] # <<>> /\ pending'[c][2] < Degree(pending'[c][1])
    OBVIOUS
  <2>1. task[2] + n # Degree(v) /\ pending'[c] = <<v, task[2] + n>>
    BY <1>8, <1>9
  <2>2. task[2] + n < Degree(v) /\ n < Degree(v) - task[2]
    BY <1>2, <1>3, <2>1
  <2>3. QED
    BY <1>3, <1>12, <2>1, <2>2
<1>14. ASSUME NEW x \in Edges, x[1] = v, x[2] > task[2]
       PROVE  \/ In(x, ring'[c])
              \/ pending'[c] # NoTask /\ pending'[c][1] = x[1] /\ pending'[c][2] < x[2]
  <2>1. x = <<v, x[2]>> /\ x[2] \in 1 .. Degree(v)
    BY <1>1, <1>14, EdgeType
  <2>2. CASE x[2] <= task[2] + n
    <3>1. x[2] - task[2] \in 1 .. n /\ task[2] + (x[2] - task[2]) = x[2]
      BY <1>2, <1>3, <1>14, <2>1, <2>2
    <3>2. In(x, more)
      BY <1>5, <2>1, <3>1 DEF In
    <3>3. QED
      BY <1>6, <1>8, <3>2
  <2>3. CASE ~ (x[2] <= task[2] + n)
    <3>1. task[2] + n # Degree(v) /\ task[2] + n < x[2]
      BY <1>2, <1>3, <2>1, <2>3
    <3>2. pending'[c] = <<v, task[2] + n>> /\ pending'[c] # NoTask
      BY <1>8, <1>9, <1>10, <3>1, NoTaskAssumption
    <3>3. QED
      BY <1>14, <3>1, <3>2
  <2>4. QED
    BY <2>2, <2>3
<1>15. elemDispatch' \in Nat /\ (elemDispatch' > elemDispatch => n > 0)
  BY <1>1, <1>3, <1>4
<1>16. Len(ring'[c]) < COMPLETION_BUFFER_SIZE
  BY <1>1, <1>3, <1>7, <1>8, SizesAssumption
<1>17. QED
  BY <1>4, <1>6, <1>8, <1>11, <1>12, <1>13, <1>14, <1>15, <1>16 DEF v

(***************************************************************************)
(* The invariant is preserved, step by step.                               *)
(***************************************************************************)

\* Serving an update.
LEMMA ServeKeeps ==
  ASSUME IInv, NEW m \in updates, Serve(m)
  PROVE  IInv'
<1>1. TypeOK
  BY DEF IInv
<1>2. /\ m[1] \in Vertices /\ m[2] \in Nat /\ m = <<m[1], m[2]>>
      /\ scratch' \in [Vertices -> Dist] /\ tasks' \in [Cores -> [Vertices -> Nat]]
      /\ \A v \in Vertices : scratch'[v] <= scratch[v]
      /\ \A v \in Vertices \ {m[1]} : scratch'[v] = scratch[v]
      /\ scratch'[m[1]] <= m[2]
      /\ \A c \in Cores : \A v \in Vertices : tasks[c][v] > 0 => tasks'[c][v] > 0
      /\ scratch'[m[1]] = scratch[m[1]] \/ \E c \in Cores : tasks'[c][m[1]] > 0
      /\ updates' = updates \ {m}
      /\ UNCHANGED <<build, pending, stageVars, loopVars>>
  BY <1>1, ServeMoves
<1>3. UNCHANGED <<build, pending, ring, cbLsq, lsq, prefetchProcess, processReduce,
                  phase, turn, dispPtr, elemDispatch, oddCycle, termFlag>>
  BY <1>2 DEF stageVars, loopVars
<1>4. /\ build \in Builds /\ Edges' = Edges /\ Result' = Result /\ FIFO' = FIFO
      /\ \A x : Dst(x)' = Dst(x) /\ Wgt(x)' = Wgt(x)
      /\ \A v : Degree(v)' = Degree(v)
  BY <1>1, <1>3, GraphStays DEF TypeOK
<1>5. phase = "serve"
  BY DEF Serve
<1>6. \A x \in Edges : /\ x[1] \in Vertices /\ Dst(x) \in Vertices /\ Wgt(x) \in Nat
                       /\ scratch[x[1]] \in Nat /\ scratch'[x[1]] \in Nat
                       /\ scratch[Dst(x)] \in Nat /\ scratch'[Dst(x)] \in Nat
                       /\ scratch'[x[1]] <= scratch[x[1]] /\ scratch'[Dst(x)] <= scratch[Dst(x)]
  <2> TAKE x \in Edges
  <2>1. x[1] \in Vertices /\ Dst(x) \in Vertices /\ Wgt(x) \in Nat
    BY <1>4, EdgeType
  <2>2. scratch \in [Vertices -> Dist] /\ Dist \subseteq Nat
    BY <1>1, SizesAssumption DEF TypeOK, Dist
  <2>3. QED
    BY <1>2, <2>1, <2>2
<1>7. TypeOK'
  <2>1. updates' \in SUBSET (Vertices \X Nat)
    BY <1>1, <1>2 DEF TypeOK
  <2>2. QED
    BY <1>1, <1>2, <1>3, <1>4, <2>1 DEF TypeOK
<1>8. Sizes'
  BY <1>3 DEF IInv, Sizes
<1>9. PendingUnfinished'
  BY <1>3, <1>4 DEF IInv, PendingUnfinished
<1>10. OneValuePerSource'
  BY <1>3, <1>4 DEF IInv, OneValuePerSource
<1>11. Justified'
  <2>1. ASSUME NEW u \in updates'
        PROVE  \E x \in Edges : Dst(x) = u[1] /\ scratch'[x[1]] + Wgt(x) <= u[2]
    <3>1. u \in updates /\ u[2] \in Nat
      BY <1>1, <1>2 DEF TypeOK
    <3>2. PICK x \in Edges : Dst(x) = u[1] /\ scratch[x[1]] + Wgt(x) <= u[2]
      BY <3>1 DEF IInv, Justified
    <3>3. scratch'[x[1]] + Wgt(x) <= u[2]
      BY <1>6, <3>1, <3>2
    <3>4. QED
      BY <3>2, <3>3
  <2>2. ASSUME NEW c \in Cores, NEW i \in DOMAIN processReduce[c]
        PROVE  scratch'[processReduce[c][i].edge[1]] + Wgt(processReduce[c][i].edge)
                 <= processReduce[c][i].val
    <3> DEFINE r == processReduce[c][i]
    <3>1. r \in Result
      BY <1>1, SeqElements DEF TypeOK
    <3>2. r.edge \in Edges /\ r.val \in Nat
      BY <3>1 DEF Result
    <3>3. scratch[r.edge[1]] + Wgt(r.edge) <= r.val
      BY DEF IInv, Justified
    <3> HIDE DEF r
    <3>4. scratch'[r.edge[1]] + Wgt(r.edge) <= r.val
      BY <1>6, <3>2, <3>3
    <3>5. QED
      BY <3>4 DEF r
  <2>3. QED
    BY <1>3, <1>4, <2>1, <2>2 DEF Justified
<1>12. RelaxationCovered'
  <2> SUFFICES ASSUME NEW x \in Edges
               PROVE  scratch'[Dst(x)] <= scratch'[x[1]] + Wgt(x) \/ Fresh(x)'
    BY <1>4 DEF RelaxationCovered
  <2>1. ASSUME scratch'[x[1]] # scratch[x[1]] PROVE Fresh(x)'
    <3>1. x[1] = m[1]
      BY <1>2, <1>6, <2>1
    <3>2. \E c \in Cores : tasks'[c][x[1]] > 0
      BY <1>2, <2>1, <3>1
    <3>3. \E c \in Cores : Owing(x, c)'
      BY <3>2 DEF Owing
    <3>4. QED
      BY <1>7, <3>3, SomewhereIsFresh
  <2>2. ASSUME scratch'[x[1]] = scratch[x[1]], Fresh(x)
        PROVE  scratch'[Dst(x)] <= scratch'[x[1]] + Wgt(x) \/ Fresh(x)'
    <3>1. (\E c \in Cores : Owing(x, c) \/ Moving(x, c)) \/ Arriving(x)
      BY <1>1, <2>2, FreshIsSomewhere
    <3>2. ASSUME NEW c \in Cores, Owing(x, c) PROVE Fresh(x)'
      <4>1. Owing(x, c)'
        BY <1>2, <1>3, <1>6, <3>2 DEF Owing
      <4>2. QED
        BY <1>7, <4>1, SomewhereIsFresh
    <3>3. ASSUME NEW c \in Cores, Moving(x, c) PROVE Fresh(x)'
      <4>1. Moving(x, c)'
        BY <1>3, <1>4, <2>2, <3>3 DEF Moving, Good
      <4>2. QED
        BY <1>7, <4>1, SomewhereIsFresh
    <3>4. ASSUME Arriving(x)
          PROVE  scratch'[Dst(x)] <= scratch'[x[1]] + Wgt(x) \/ Fresh(x)'
      <4>1. PICK u \in updates : u[1] = Dst(x) /\ Good(x, u[2])
        BY <3>4 DEF Arriving
      <4>2. CASE u = m
        <5>1. m[1] = Dst(x) /\ m[2] <= scratch[x[1]] + Wgt(x)
          BY <4>1, <4>2 DEF Good
        <5>2. scratch'[Dst(x)] <= m[2]
          BY <1>2, <5>1
        <5>3. QED
          BY <1>2, <1>6, <2>2, <5>1, <5>2
      <4>3. CASE u # m
        <5>1. Arriving(x)'
          BY <1>2, <1>4, <2>2, <4>1, <4>3 DEF Arriving, Good
        <5>2. QED
          BY <1>7, <5>1, SomewhereIsFresh
      <4>4. QED
        BY <4>2, <4>3
    <3>5. QED
      BY <3>1, <3>2, <3>3, <3>4
  <2>3. ASSUME scratch'[x[1]] = scratch[x[1]], scratch[Dst(x)] <= scratch[x[1]] + Wgt(x)
        PROVE  scratch'[Dst(x)] <= scratch'[x[1]] + Wgt(x)
    BY <1>6, <2>3
  <2>4. scratch[Dst(x)] <= scratch[x[1]] + Wgt(x) \/ Fresh(x)
    BY DEF IInv, RelaxationCovered
  <2>5. QED
    BY <2>1, <2>2, <2>3, <2>4
<1>13. LoopOrder'
  BY <1>3 DEF IInv, LoopOrder
<1>14. QuietAtEnd'
  BY <1>3, <1>5 DEF QuietAtEnd
<1>15. PendingActive'
  BY <1>3, <1>4, <1>5 DEF IInv, PendingActive, SomePending, Early
<1>16. QED
  BY <1>7, <1>8, <1>9, <1>10, <1>11, <1>12, <1>13, <1>14, <1>15 DEF IInv

\* A core's turn.
LEMMA CoreCycleKeeps ==
  ASSUME IInv, NEW c \in Cores, NEW n \in 0 .. Len(ring[c]), CoreCycle(c, n)
  PROVE  IInv'
<1>1. TypeOK /\ Sizes /\ OneValuePerSource
  BY DEF IInv
<1>2. UNCHANGED <<build, scratch, tasks, pending, phase, dispPtr, elemDispatch, oddCycle, termFlag>>
  BY DEF CoreCycle
<1>3. /\ ring' \in [Cores -> Seq(Edges)] /\ cbLsq' \in [Cores -> Seq(Edges)]
      /\ lsq' \in [Cores -> Seq(Edges)] /\ prefetchProcess' \in [Cores -> Seq(Edges)]
      /\ processReduce' \in [Cores -> Seq(Result)]
      /\ \A d \in Cores \ {c} :
           /\ ring'[d] = ring[d] /\ cbLsq'[d] = cbLsq[d] /\ lsq'[d] = lsq[d]
           /\ prefetchProcess'[d] = prefetchProcess[d]
           /\ processReduce'[d] = processReduce[d]
      /\ Len(ring'[c]) <= Len(ring[c]) /\ Len(processReduce'[c]) <= PROCESS_THR
      /\ lsq'[c] = cbLsq[c]
      /\ \A x : In(x, ring[c]) => In(x, cbLsq'[c]) \/ In(x, ring'[c])
      /\ \A x : In(x, lsq[c]) => In(x, prefetchProcess'[c])
      /\ \A x : In(x, prefetchProcess[c]) =>
           \/ In(x, prefetchProcess'[c])
           \/ In([edge |-> x, val |-> scratch[x[1]] + Wgt(x)], processReduce'[c])
      /\ \A i \in DOMAIN processReduce'[c] :
           processReduce'[c][i].val
             = scratch[processReduce'[c][i].edge[1]] + Wgt(processReduce'[c][i].edge)
      /\ \A m : m \in updates' <=>
           m \in updates \/ \E r : In(r, processReduce[c]) /\ m = <<Dst(r.edge), r.val>>
  BY <1>1, CoreCycleMoves
<1>4. /\ build \in Builds /\ Edges' = Edges /\ Result' = Result /\ FIFO' = FIFO
      /\ \A x : Dst(x)' = Dst(x) /\ Wgt(x)' = Wgt(x)
      /\ \A v : Degree(v)' = Degree(v)
  BY <1>1, <1>2, GraphStays DEF TypeOK
<1>5. phase = "core" /\ turn = c /\ turn' = turn + 1 /\ c \in 0 .. NumCores - 1
  BY DEF CoreCycle, Cores
<1>6. \A d \in Cores :
        /\ processReduce[d] \in Seq(Result) /\ processReduce'[d] \in Seq(Result)
        /\ \A r : In(r, processReduce[d]) \/ In(r, processReduce'[d]) =>
             /\ r \in Result /\ r.edge \in Edges /\ r.val \in Nat
             /\ Dst(r.edge) \in Vertices /\ r.edge[1] \in Vertices /\ Wgt(r.edge) \in Nat
             /\ scratch[r.edge[1]] \in Nat
  <2> TAKE d \in Cores
  <2>1. processReduce[d] \in Seq(Result) /\ processReduce'[d] \in Seq(Result)
    BY <1>1, <1>3 DEF TypeOK
  <2> SUFFICES ASSUME NEW r, In(r, processReduce[d]) \/ In(r, processReduce'[d])
               PROVE  /\ r \in Result /\ r.edge \in Edges /\ r.val \in Nat
                      /\ Dst(r.edge) \in Vertices /\ r.edge[1] \in Vertices /\ Wgt(r.edge) \in Nat
                      /\ scratch[r.edge[1]] \in Nat
    BY <2>1
  <2>2. r \in Result
    BY <2>1, SeqElements DEF In
  <2>3. r.edge \in Edges /\ r.val \in Nat
    BY <2>2 DEF Result
  <2>4. Dst(r.edge) \in Vertices /\ r.edge[1] \in Vertices /\ Wgt(r.edge) \in Nat
    BY <1>4, <2>3, EdgeType
  <2>5. scratch[r.edge[1]] \in Nat
    <3>1. scratch \in [Vertices -> Dist] /\ Dist \subseteq Nat
      BY <1>1, SizesAssumption DEF TypeOK, Dist
    <3>2. QED
      BY <2>4, <3>1
  <2>6. QED
    BY <2>2, <2>3, <2>4, <2>5
<1>7. TypeOK'
  <2>1. updates' \in SUBSET (Vertices \X Nat)
    <3>1. ASSUME NEW m \in updates' PROVE m \in Vertices \X Nat
      <4>1. CASE m \in updates
        BY <1>1, <4>1 DEF TypeOK
      <4>2. CASE \E r : In(r, processReduce[c]) /\ m = <<Dst(r.edge), r.val>>
        BY <1>6, <4>2
      <4>3. QED
        BY <1>3, <4>1, <4>2
    <3>2. QED
      BY <3>1
  <2>2. turn' \in 0 .. NumCores
    BY <1>5, SizesAssumption
  <2>3. QED
    BY <1>1, <1>2, <1>3, <1>4, <2>1, <2>2 DEF TypeOK
<1>8. Sizes'
  <2>1. ASSUME NEW d \in Cores
        PROVE  Len(ring'[d]) < COMPLETION_BUFFER_SIZE /\ Len(processReduce'[d]) <= PROCESS_THR
    <3>1. CASE d = c
      <4>1. ring[c] \in Seq(Edges) /\ ring'[c] \in Seq(Edges)
        BY <1>1, <1>3 DEF TypeOK
      <4>2. Len(ring[c]) \in Nat /\ Len(ring'[c]) \in Nat
        BY <4>1, SeqElements
      <4>3. Len(ring[c]) < COMPLETION_BUFFER_SIZE
        BY <1>1 DEF Sizes
      <4>4. QED
        BY <1>3, <3>1, <4>2, <4>3, SizesAssumption
    <3>2. CASE d # c
      BY <1>1, <1>3, <3>2 DEF Sizes
    <3>3. QED
      BY <3>1, <3>2
  <2>2. QED
    BY <2>1 DEF Sizes
<1>9. PendingUnfinished'
  BY <1>2, <1>4 DEF IInv, PendingUnfinished
<1>10. OneValuePerSource'
  <2> SUFFICES ASSUME NEW d \in Cores,
                      NEW i \in DOMAIN processReduce'[d], NEW j \in DOMAIN processReduce'[d],
                      processReduce'[d][i].edge[1] = processReduce'[d][j].edge[1]
               PROVE  processReduce'[d][i].val - Wgt(processReduce'[d][i].edge)
                        = processReduce'[d][j].val - Wgt(processReduce'[d][j].edge)
    BY <1>4 DEF OneValuePerSource
  <2>1. CASE d = c
    <3> DEFINE r == processReduce'[c][i]
               q == processReduce'[c][j]
    <3>1. /\ r.val = scratch[r.edge[1]] + Wgt(r.edge) /\ q.val = scratch[q.edge[1]] + Wgt(q.edge)
          /\ r.edge[1] = q.edge[1]
      BY <1>3, <2>1
    <3>2. In(r, processReduce'[c]) /\ In(q, processReduce'[c])
      BY <2>1 DEF In
    <3> HIDE DEF r, q
    <3>3. /\ Wgt(r.edge) \in Nat /\ Wgt(q.edge) \in Nat
          /\ scratch[r.edge[1]] \in Nat /\ scratch[q.edge[1]] \in Nat
      BY <1>6, <3>2
    <3>4. r.val - Wgt(r.edge) = q.val - Wgt(q.edge)
      BY <3>1, <3>3
    <3>5. QED
      BY <2>1, <3>4 DEF r, q
  <2>2. CASE d # c
    <3>1. processReduce'[d] = processReduce[d]
      BY <1>3, <2>2
    <3>2. i \in DOMAIN processReduce[d] /\ j \in DOMAIN processReduce[d]
      BY <3>1
    <3>3. processReduce[d][i].edge[1] = processReduce[d][j].edge[1]
      BY <3>1
    <3>4. QED
      BY <1>1, <3>1, <3>2, <3>3 DEF OneValuePerSource
  <2>3. QED
    BY <2>1, <2>2
<1>11. Justified'
  <2>1. ASSUME NEW d \in Cores, NEW r, In(r, processReduce[d])
        PROVE  scratch[r.edge[1]] + Wgt(r.edge) <= r.val
    BY <2>1 DEF IInv, Justified, In
  <2>2. ASSUME NEW u \in updates'
        PROVE  \E x \in Edges : Dst(x) = u[1] /\ scratch[x[1]] + Wgt(x) <= u[2]
    <3>1. CASE u \in updates
      BY <3>1 DEF IInv, Justified
    <3>2. CASE \E r : In(r, processReduce[c]) /\ u = <<Dst(r.edge), r.val>>
      BY <1>6, <2>1, <3>2
    <3>3. QED
      BY <1>3, <3>1, <3>2
  <2>3. ASSUME NEW d \in Cores, NEW i \in DOMAIN processReduce'[d]
        PROVE  scratch[processReduce'[d][i].edge[1]] + Wgt(processReduce'[d][i].edge)
                 <= processReduce'[d][i].val
    <3>1. CASE d = c
      <4> DEFINE r == processReduce'[c][i]
      <4>1. r.val = scratch[r.edge[1]] + Wgt(r.edge) /\ In(r, processReduce'[c])
        BY <1>3, <3>1 DEF In
      <4> HIDE DEF r
      <4>2. Wgt(r.edge) \in Nat /\ scratch[r.edge[1]] \in Nat
        BY <1>6, <4>1
      <4>3. scratch[r.edge[1]] + Wgt(r.edge) <= r.val
        BY <4>1, <4>2
      <4>4. QED
        BY <3>1, <4>3 DEF r
    <3>2. CASE d # c
      BY <1>3, <3>2 DEF IInv, Justified
    <3>3. QED
      BY <3>1, <3>2
  <2>4. QED
    BY <1>2, <1>4, <2>2, <2>3 DEF Justified
<1>12. RelaxationCovered'
  <2> SUFFICES ASSUME NEW x \in Edges, Fresh(x) PROVE Fresh(x)'
    BY <1>2, <1>4 DEF IInv, RelaxationCovered
  <2>1. (\E d \in Cores : Owing(x, d) \/ Moving(x, d)) \/ Arriving(x)
    BY <1>1, FreshIsSomewhere
  <2>2. ASSUME NEW d \in Cores, Owing(x, d) PROVE Fresh(x)'
    <3>1. Owing(x, d)'
      BY <1>2, <2>2 DEF Owing
    <3>2. QED
      BY <1>7, <3>1, SomewhereIsFresh
  <2>3. ASSUME NEW d \in Cores, d # c, Moving(x, d) PROVE Fresh(x)'
    <3>1. Moving(x, d)'
      BY <1>2, <1>3, <1>4, <2>3 DEF Moving, Good
    <3>2. QED
      BY <1>7, <3>1, SomewhereIsFresh
  <2>4. ASSUME Arriving(x) PROVE Fresh(x)'
    <3>1. Arriving(x)'
      BY <1>2, <1>3, <1>4, <2>4 DEF Arriving, Good
    <3>2. QED
      BY <1>7, <3>1, SomewhereIsFresh
  <2>5. ASSUME Moving(x, c) PROVE Fresh(x)'
    <3>1. CASE In(x, ring[c]) \/ In(x, cbLsq[c]) \/ In(x, lsq[c])
      <4>1. Moving(x, c)'
        BY <1>3, <3>1 DEF Moving
      <4>2. QED
        BY <1>7, <4>1, SomewhereIsFresh
    <3>2. CASE In(x, prefetchProcess[c])
      <4>1. CASE In([edge |-> x, val |-> scratch[x[1]] + Wgt(x)], processReduce'[c])
        <5>1. PICK r : /\ In(r, processReduce'[c]) /\ r.edge = x
                       /\ r.val = scratch[x[1]] + Wgt(x)
          BY <4>1
        <5>2. Wgt(x) \in Nat /\ scratch[x[1]] \in Nat
          BY <1>6, <5>1
        <5>3. Good(x, r.val)'
          BY <1>2, <1>4, <5>1, <5>2 DEF Good
        <5>4. Moving(x, c)'
          BY <5>1, <5>3 DEF Moving
        <5>5. QED
          BY <1>7, <5>4, SomewhereIsFresh
      <4>2. CASE In(x, prefetchProcess'[c])
        <5>1. Moving(x, c)'
          BY <4>2 DEF Moving
        <5>2. QED
          BY <1>7, <5>1, SomewhereIsFresh
      <4>3. QED
        BY <1>3, <3>2, <4>1, <4>2
    <3>3. CASE \E r : In(r, processReduce[c]) /\ r.edge = x /\ Good(x, r.val)
      <4>1. PICK r : In(r, processReduce[c]) /\ r.edge = x /\ Good(x, r.val)
        BY <3>3
      <4>2. <<Dst(x), r.val>> \in updates'
        BY <1>3, <4>1
      <4>3. Arriving(x)'
        BY <1>2, <1>4, <4>1, <4>2 DEF Arriving, Good
      <4>4. QED
        BY <1>7, <4>3, SomewhereIsFresh
    <3>4. QED
      BY <2>5, <3>1, <3>2, <3>3 DEF Moving
  <2>6. QED
    BY <2>1, <2>2, <2>3, <2>4, <2>5
<1>13. LoopOrder'
  BY <1>2, <1>5 DEF IInv, LoopOrder
<1>14. QuietAtEnd'
  BY <1>2, <1>5 DEF QuietAtEnd
<1>15. PendingActive'
  <2> SUFFICES ASSUME SomePending
               PROVE  \E d \in Cores : IF turn' <= d THEN Early(d)' ELSE Late(d)'
    BY <1>2, <1>5 DEF PendingActive, SomePending
  <2>1. PICK d \in Cores : IF turn <= d THEN Early(d) ELSE Late(d)
    BY <1>5 DEF IInv, PendingActive
  <2>2. d \in 0 .. NumCores - 1
    BY DEF Cores
  <2>3. CASE d # c
    <3>1. turn <= d <=> turn' <= d
      BY <1>5, <2>2, <2>3, SizesAssumption
    <3>2. Early(d)' = Early(d) /\ Late(d)' = Late(d)
      BY <1>2, <1>3, <1>4, <2>3 DEF Early, Late
    <3>3. QED
      BY <2>1, <3>1, <3>2
  <2>4. CASE d = c
    <3>1. turn <= c /\ ~ (turn' <= c)
      BY <1>5, SizesAssumption
    <3>2. Early(c)
      BY <2>1, <2>4, <3>1
    <3>3. ASSUME ring[c] # <<>> PROVE ring'[c] # <<>> \/ cbLsq'[c] # <<>>
      <4>1. ring[c] \in Seq(Edges) /\ ring'[c] \in Seq(Edges) /\ cbLsq'[c] \in Seq(Edges)
        BY <1>1, <1>3 DEF TypeOK
      <4>2. PICK x : In(x, ring[c])
        BY <3>3, <4>1, InEmpty
      <4>3. In(x, cbLsq'[c]) \/ In(x, ring'[c])
        BY <1>3, <4>2
      <4>4. QED
        BY <4>1, <4>3, InEmpty
    <3>4. Late(c)'
      BY <1>2, <1>3, <1>4, <3>2, <3>3 DEF Early, Late
    <3>5. QED
      BY <3>1, <3>4
  <2>5. QED
    BY <2>3, <2>4
<1>16. QED
  BY <1>7, <1>8, <1>9, <1>10, <1>11, <1>12, <1>13, <1>14, <1>15 DEF IInv

\* schedule_tasks asks a core.
LEMMA CurCoreType ==
  ASSUME TypeOK
  PROVE  CurCore \in Cores
<1>1. NumCores \in Nat \ {0} /\ dispPtr + turn \in Nat
  BY SizesAssumption DEF TypeOK, Cores
<1>2. QED
  BY <1>1, RingPosition DEF CurCore, Cores

\* Issuing the edges of a task that was pending or at the front: its edges are
\* the only ones that no longer wait in tasks and pending.
LEMMA IssueKeeps ==
  ASSUME IInv, NEW c \in Cores, c = CurCore, NEW task \in Task, MaySchedule, CanDispatch(c),
         task[1] \in Vertices, task[2] = 0 \/ task[2] < Degree(task[1]), Issue(c, task),
         ~ termFlag, tasks' \in [Cores -> [Vertices -> Nat]],
         \A x \in Edges : \A d \in Cores : Owing(x, d) =>
           \/ tasks'[d][x[1]] > 0
           \/ pending[d] # NoTask /\ pending[d][1] = x[1] /\ pending[d][2] < x[2] /\ d # c
           \/ x[1] = task[1] /\ x[2] > task[2]
  PROVE  IInv'
<1>1. TypeOK /\ Sizes
  BY DEF IInv
<1>2. /\ ring' \in [Cores -> Seq(Edges)] /\ pending' \in [Cores -> Task \cup {NoTask}]
      /\ elemDispatch' \in Nat /\ turn' = turn + 1
      /\ Len(ring'[c]) < COMPLETION_BUFFER_SIZE
      /\ \A d \in Cores \ {c} : ring'[d] = ring[d] /\ pending'[d] = pending[d]
      /\ \A x : In(x, ring[c]) => In(x, ring'[c])
      /\ \A x \in Edges : x[1] = task[1] /\ x[2] > task[2] =>
           \/ In(x, ring'[c])
           \/ pending'[c] # NoTask /\ pending'[c][1] = x[1] /\ pending'[c][2] < x[2]
      /\ elemDispatch' > elemDispatch => ring'[c] # <<>>
      /\ pending'[c] # NoTask =>
           ring'[c] # <<>> /\ pending'[c][2] < Degree(pending'[c][1])
      /\ UNCHANGED <<build, scratch, cbLsq, lsq, prefetchProcess, processReduce, updates,
                     phase, dispPtr, oddCycle, termFlag>>
  BY <1>1, IssueMoves
<1>3. /\ build \in Builds /\ Edges' = Edges /\ Result' = Result /\ FIFO' = FIFO
      /\ \A x : Dst(x)' = Dst(x) /\ Wgt(x)' = Wgt(x)
      /\ \A v : Degree(v)' = Degree(v)
  BY <1>1, <1>2, GraphStays DEF TypeOK
<1>4. phase = "dispatch" /\ turn < NumCores /\ turn \in 0 .. NumCores /\ (FIFO \/ oddCycle)
  BY <1>1 DEF MaySchedule, CanDispatch, TypeOK
<1>5. TypeOK'
  <2>1. turn' \in 0 .. NumCores
    BY <1>2, <1>4, SizesAssumption
  <2>2. QED
    BY <1>1, <1>2, <1>3, <2>1 DEF TypeOK
<1>6. Sizes'
  <2> SUFFICES ASSUME NEW d \in Cores PROVE Len(ring'[d]) < COMPLETION_BUFFER_SIZE
    BY <1>1, <1>2 DEF Sizes
  <2>1. QED
    BY <1>1, <1>2 DEF Sizes
<1>7. PendingUnfinished'
  <2> SUFFICES ASSUME NEW d \in Cores, pending'[d] # NoTask
               PROVE  pending'[d][2] < Degree(pending'[d][1])
    BY <1>3 DEF PendingUnfinished
  <2>1. CASE d = c
    BY <1>2, <2>1
  <2>2. CASE d # c
    BY <1>2, <2>2 DEF IInv, PendingUnfinished
  <2>3. QED
    BY <2>1, <2>2
<1>8. OneValuePerSource'
  BY <1>2, <1>3 DEF IInv, OneValuePerSource
<1>9. Justified'
  BY <1>2, <1>3 DEF IInv, Justified
<1>10. RelaxationCovered'
  <2> SUFFICES ASSUME NEW x \in Edges, Fresh(x) PROVE Fresh(x)'
    BY <1>2, <1>3 DEF IInv, RelaxationCovered
  <2>1. (\E d \in Cores : Owing(x, d) \/ Moving(x, d)) \/ Arriving(x)
    BY <1>1, FreshIsSomewhere
  <2>2. ASSUME NEW d \in Cores, Owing(x, d) PROVE Fresh(x)'
    <3>1. CASE tasks'[d][x[1]] > 0
      <4>1. Owing(x, d)'
        BY <3>1 DEF Owing
      <4>2. QED
        BY <1>5, <4>1, SomewhereIsFresh
    <3>2. CASE pending[d] # NoTask /\ pending[d][1] = x[1] /\ pending[d][2] < x[2] /\ d # c
      <4>1. Owing(x, d)'
        BY <1>2, <3>2 DEF Owing
      <4>2. QED
        BY <1>5, <4>1, SomewhereIsFresh
    <3>3. CASE x[1] = task[1] /\ x[2] > task[2]
      <4>1. Owing(x, c)' \/ Moving(x, c)'
        BY <1>2, <3>3 DEF Owing, Moving
      <4>2. QED
        BY <1>5, <4>1, SomewhereIsFresh
    <3>4. QED
      BY <2>2, <3>1, <3>2, <3>3
  <2>3. ASSUME NEW d \in Cores, Moving(x, d) PROVE Fresh(x)'
    <3>1. Moving(x, d)'
      BY <1>2, <1>3, <2>3 DEF Moving, Good
    <3>2. QED
      BY <1>5, <3>1, SomewhereIsFresh
  <2>4. ASSUME Arriving(x) PROVE Fresh(x)'
    <3>1. Arriving(x)'
      BY <1>2, <1>3, <2>4 DEF Arriving, Good
    <3>2. QED
      BY <1>5, <3>1, SomewhereIsFresh
  <2>5. QED
    BY <2>1, <2>2, <2>3, <2>4
<1>11. LoopOrder'
  BY <1>2, <1>4 DEF LoopOrder
<1>12. QuietAtEnd'
  BY <1>2, <1>4 DEF QuietAtEnd
<1>13. PendingActive'
  <2>1. SomeRing => SomeRing'
    <3> SUFFICES ASSUME NEW d \in Cores, ring[d] # <<>> PROVE ring'[d] # <<>>
      BY DEF SomeRing
    <3>1. ring[d] \in Seq(Edges) /\ ring'[d] \in Seq(Edges)
      BY <1>1, <1>2 DEF TypeOK
    <3>2. CASE d = c
      BY <1>2, <3>1, <3>2, InEmpty
    <3>3. CASE d # c
      BY <1>2, <3>3
    <3>4. QED
      BY <3>2, <3>3
  <2>2. ASSUME NEW t \in 0 .. turn' - 1, pending'[(dispPtr + t) % NumCores] # NoTask
        PROVE  SomeRing'
    <3> DEFINE d == (dispPtr + t) % NumCores
    <3>1. d \in Cores
      <4>1. dispPtr + t \in Nat /\ NumCores \in Nat \ {0}
        BY <1>1, <1>2, <1>4, SizesAssumption DEF TypeOK, Cores
      <4>2. QED
        BY <4>1, RingPosition DEF Cores
    <3>2. CASE t = turn
      <4>1. d = c
        BY <3>2 DEF CurCore
      <4>2. ring'[c] # <<>>
        BY <1>2, <2>2, <4>1
      <4>3. QED
        BY <4>2 DEF SomeRing
    <3>3. CASE t # turn
      <4>1. t \in 0 .. turn - 1
        BY <1>2, <1>4, <3>3
      <4>2. CASE d = c
        BY <1>2, <2>2, <4>2 DEF SomeRing
      <4>3. CASE d # c
        <5>1. pending[d] # NoTask
          BY <1>2, <2>2, <3>1, <4>3
        <5>2. SomeRing
          BY <1>4, <4>1, <5>1 DEF IInv, PendingActive
        <5>3. QED
          BY <2>1, <5>2
      <4>4. QED
        BY <4>2, <4>3
    <3>4. QED
      BY <3>2, <3>3
  <2>3. ASSUME elemDispatch' > 0 PROVE SomeRing'
    <3>1. CASE elemDispatch > 0
      BY <1>4, <2>1, <3>1 DEF IInv, PendingActive
    <3>2. CASE ~ (elemDispatch > 0)
      <4>1. elemDispatch' > elemDispatch
        BY <1>1, <1>2, <2>3, <3>2 DEF TypeOK
      <4>2. QED
        BY <1>2, <4>1 DEF SomeRing
    <3>3. QED
      BY <3>1, <3>2
  <2>4. QED
    BY <1>2, <1>3, <1>4, <2>2, <2>3 DEF PendingActive
<1>14. QED
  BY <1>5, <1>6, <1>7, <1>8, <1>9, <1>10, <1>11, <1>12, <1>13 DEF IInv

\* The pending task goes on.
LEMMA ContinueKeeps ==
  ASSUME IInv, Continue
  PROVE  IInv'
<1> DEFINE c == CurCore
           task == pending[c]
<1>1. TypeOK
  BY DEF IInv
<1>2. c \in Cores
  BY <1>1, CurCoreType
<1>3. /\ MaySchedule /\ CanDispatch(c) /\ task # NoTask /\ Issue(c, task) /\ tasks' = tasks
  BY DEF Continue
<1>4. task \in Task /\ task[1] \in Vertices /\ task[2] \in Nat
  BY <1>1, <1>2, <1>3 DEF TypeOK, Task
<1>5. task[2] < Degree(task[1])
  BY <1>2, <1>3 DEF IInv, PendingUnfinished
<1>6. ~ termFlag
  BY <1>2, <1>3 DEF IInv, QuietAtEnd, Quiet, MaySchedule
<1>7. tasks' \in [Cores -> [Vertices -> Nat]]
  BY <1>1, <1>3 DEF TypeOK
<1>8. \A x \in Edges : \A d \in Cores : Owing(x, d) =>
        \/ tasks'[d][x[1]] > 0
        \/ pending[d] # NoTask /\ pending[d][1] = x[1] /\ pending[d][2] < x[2] /\ d # c
        \/ x[1] = task[1] /\ x[2] > task[2]
  <2> SUFFICES ASSUME NEW x \in Edges, NEW d \in Cores, Owing(x, d)
               PROVE  \/ tasks'[d][x[1]] > 0
                      \/ pending[d] # NoTask /\ pending[d][1] = x[1] /\ pending[d][2] < x[2] /\ d # c
                      \/ x[1] = task[1] /\ x[2] > task[2]
    OBVIOUS
  <2>1. x[2] \in Nat
    BY <1>1, EdgeType DEF TypeOK
  <2>2. QED
    BY <1>3, <1>4, <2>1 DEF Owing
<1>9. c = CurCore
  OBVIOUS
<1> HIDE DEF c, task
<1>10. QED
  BY <1>2, <1>3, <1>4, <1>5, <1>6, <1>7, <1>8, <1>9, IssueKeeps

\* A task is started.
LEMMA StartKeeps ==
  ASSUME IInv, NEW v \in Vertices, Start(v)
  PROVE  IInv'
<1> DEFINE c == CurCore
           task == <<v, 0>>
<1>1. TypeOK
  BY DEF IInv
<1>2. c \in Cores
  BY <1>1, CurCoreType
<1>3. /\ MaySchedule /\ CanDispatch(c) /\ pending[c] = NoTask /\ tasks[c][v] > 0
      /\ Issue(c, task) /\ tasks' = [tasks EXCEPT ![c][v] = tasks[c][v] - 1]
  BY DEF Start
<1>4. task \in Task /\ task[1] = v /\ task[2] = 0
  BY DEF Task
<1>5. ~ termFlag
  <2>1. tasks[c][v] # 0
    BY <1>3
  <2>2. QED
    BY <1>2, <1>3, <2>1 DEF IInv, QuietAtEnd, Quiet, MaySchedule, PipelineInactive
<1>6. tasks[c][v] \in Nat /\ tasks \in [Cores -> [Vertices -> Nat]]
  BY <1>1, <1>2 DEF TypeOK
<1> HIDE DEF c
<1>7. /\ tasks' \in [Cores -> [Vertices -> Nat]]
      /\ \A d \in Cores : \A u \in Vertices :
           tasks'[d][u] = IF d = c /\ u = v THEN tasks[c][v] - 1 ELSE tasks[d][u]
  BY <1>2, <1>3, <1>6
<1>8. \A x \in Edges : \A d \in Cores : Owing(x, d) =>
        \/ tasks'[d][x[1]] > 0
        \/ pending[d] # NoTask /\ pending[d][1] = x[1] /\ pending[d][2] < x[2] /\ d # c
        \/ x[1] = task[1] /\ x[2] > task[2]
  <2> SUFFICES ASSUME NEW x \in Edges, NEW d \in Cores, Owing(x, d)
               PROVE  \/ tasks'[d][x[1]] > 0
                      \/ pending[d] # NoTask /\ pending[d][1] = x[1] /\ pending[d][2] < x[2] /\ d # c
                      \/ x[1] = task[1] /\ x[2] > task[2]
    OBVIOUS
  <2>1. x[1] \in Vertices /\ x[2] > 0
    BY <1>1, EdgeType DEF TypeOK
  <2>2. QED
    BY <1>3, <1>4, <1>7, <2>1 DEF Owing
<1> HIDE DEF task
<1>9. c = CurCore
  BY DEF c
<1>10. QED
  BY <1>2, <1>3, <1>4, <1>5, <1>7, <1>8, <1>9, IssueKeeps

(***************************************************************************)
(* The steps of the loop itself.                                           *)
(***************************************************************************)

\* What only concerns values and queues stays with them.
LEMMA DataStays ==
  ASSUME IInv, UNCHANGED <<build, scratch, tasks, pending, stageVars, updates>>
  PROVE  /\ Sizes' /\ PendingUnfinished' /\ OneValuePerSource' /\ Justified'
         /\ RelaxationCovered' /\ FIFO' = FIFO /\ Quiet' = Quiet
         /\ SomePending' = SomePending /\ SomeRing' = SomeRing
         /\ TypeOK' <=> /\ phase' \in {"serve", "core", "dispatch", "done"}
                        /\ turn' \in 0 .. NumCores /\ dispPtr' \in Cores /\ elemDispatch' \in Nat
                        /\ oddCycle' \in BOOLEAN /\ termFlag' \in BOOLEAN
<1>1. UNCHANGED <<build, scratch, tasks, pending, ring, cbLsq, lsq, prefetchProcess,
                  processReduce, updates>>
  BY DEF stageVars
<1>2. /\ build \in Builds /\ Edges' = Edges /\ Result' = Result /\ FIFO' = FIFO
      /\ \A x : Dst(x)' = Dst(x) /\ Wgt(x)' = Wgt(x)
      /\ \A v : Degree(v)' = Degree(v)
  BY <1>1, GraphStays DEF IInv, TypeOK
<1>3. Sizes' /\ OneValuePerSource'
  BY <1>1, <1>2 DEF IInv, Sizes, OneValuePerSource
<1>4. PendingUnfinished'
  BY <1>1, <1>2 DEF IInv, PendingUnfinished
<1>5. Justified'
  BY <1>1, <1>2 DEF IInv, Justified
<1>6. \A x : Fresh(x)' = Fresh(x)
  BY <1>1, <1>2 DEF Fresh
<1>7. RelaxationCovered'
  BY <1>1, <1>2, <1>6 DEF IInv, RelaxationCovered
<1>8. Quiet' = Quiet /\ SomePending' = SomePending /\ SomeRing' = SomeRing
  BY <1>1 DEF Quiet, PipelineInactive, SomePending, SomeRing
<1>9. TypeOK' <=> /\ phase' \in {"serve", "core", "dispatch", "done"}
                  /\ turn' \in 0 .. NumCores /\ dispPtr' \in Cores /\ elemDispatch' \in Nat
                  /\ oddCycle' \in BOOLEAN /\ termFlag' \in BOOLEAN
  BY <1>1, <1>2 DEF IInv, TypeOK
<1>10. QED
  BY <1>2, <1>3, <1>4, <1>5, <1>7, <1>8, <1>9

\* The banks are done.
LEMMA EndServeKeeps ==
  ASSUME IInv, EndServe
  PROVE  IInv'
<1>1. /\ phase = "serve" /\ phase' = "core"
      /\ UNCHANGED <<build, scratch, tasks, pending, stageVars, updates, turn, dispPtr,
                     elemDispatch, oddCycle, termFlag>>
  BY DEF EndServe
<1>2. /\ Sizes' /\ PendingUnfinished' /\ OneValuePerSource' /\ Justified'
      /\ RelaxationCovered' /\ FIFO' = FIFO /\ SomePending' = SomePending
      /\ TypeOK'
  BY <1>1, DataStays DEF IInv, TypeOK
<1>3. LoopOrder' /\ QuietAtEnd'
  BY <1>1 DEF IInv, LoopOrder, QuietAtEnd
<1>4. PendingActive'
  <2> SUFFICES ASSUME SomePending
               PROVE  \E d \in Cores : IF turn' <= d THEN Early(d)' ELSE Late(d)'
    BY <1>1, <1>2 DEF PendingActive
  <2>1. PICK d \in Cores : Early(d)
    BY <1>1 DEF IInv, PendingActive
  <2>2. turn' <= d
    BY <1>1 DEF IInv, LoopOrder, Cores
  <2>3. Early(d)'
    BY <1>1, <1>2, <2>1 DEF Early, stageVars
  <2>4. QED
    BY <2>2, <2>3
<1>5. QED
  BY <1>2, <1>3, <1>4 DEF IInv

\* Every core has been asked: one that has a pending task, or another one, is
\* active.
LEMMA CheckKeeps ==
  ASSUME IInv, Check
  PROVE  IInv'
<1>1. /\ phase = "core" /\ phase' = "dispatch" /\ turn = NumCores /\ turn' = 0
      /\ termFlag' = (updates = {} /\ \A c \in Cores : PipelineInactive(c))
      /\ UNCHANGED <<build, scratch, tasks, pending, stageVars, updates, dispPtr,
                     elemDispatch, oddCycle>>
  BY DEF Check
<1>2. /\ Sizes' /\ PendingUnfinished' /\ OneValuePerSource' /\ Justified'
      /\ RelaxationCovered' /\ FIFO' = FIFO /\ SomePending' = SomePending /\ Quiet' = Quiet
      /\ TypeOK'
  <2>1. 0 \in 0 .. NumCores /\ termFlag' \in BOOLEAN
    BY <1>1, SizesAssumption
  <2>2. QED
    BY <1>1, <2>1, DataStays DEF IInv, TypeOK
<1>3. SomePending => \E d \in Cores : Late(d)
  <2>1. \A d \in Cores : ~ (turn <= d)
    BY <1>1, SizesAssumption DEF Cores
  <2>2. QED
    BY <1>1, <2>1 DEF IInv, PendingActive
<1>4. LoopOrder'
  BY <1>1 DEF LoopOrder
<1>5. QuietAtEnd'
  <2> SUFFICES ASSUME termFlag' PROVE Quiet
    BY <1>1, <1>2 DEF QuietAtEnd
  <2>1. updates = {} /\ \A c \in Cores : PipelineInactive(c)
    BY <1>1
  <2>2. \A d \in Cores : ~ Late(d)
    BY <2>1 DEF PipelineInactive, Late
  <2>3. QED
    BY <1>3, <2>1, <2>2 DEF Quiet, SomePending
<1>6. PendingActive'
  <2>1. ASSUME ~FIFO, ~oddCycle, SomePending
        PROVE  \E d \in Cores : ring'[d] # <<>> \/ cbLsq'[d] # <<>>
    BY <1>1, <1>3, <2>1 DEF Late, stageVars
  <2>2. elemDispatch' = 0
    BY <1>1 DEF IInv, LoopOrder
  <2>3. QED
    BY <1>1, <1>2, <2>1, <2>2 DEF PendingActive
<1>7. QED
  BY <1>2, <1>4, <1>5, <1>6 DEF IInv

\* A core that dispatches nothing: when it has a pending task its ring is full.
LEMMA SkipKeeps ==
  ASSUME IInv, Skip
  PROVE  IInv'
<1>1. /\ phase = "dispatch" /\ turn < NumCores /\ turn' = turn + 1
      /\ CanDispatch(CurCore) => pending[CurCore] = NoTask
      /\ UNCHANGED <<build, scratch, tasks, pending, stageVars, updates, phase, dispPtr,
                     elemDispatch, oddCycle, termFlag>>
  BY DEF Skip, MaySchedule
<1>2. TypeOK /\ turn \in 0 .. NumCores
  BY DEF IInv, TypeOK
<1>3. /\ Sizes' /\ PendingUnfinished' /\ OneValuePerSource' /\ Justified'
      /\ RelaxationCovered' /\ FIFO' = FIFO /\ SomePending' = SomePending /\ Quiet' = Quiet
      /\ SomeRing' = SomeRing /\ TypeOK'
  <2>1. turn' \in 0 .. NumCores
    BY <1>1, <1>2, SizesAssumption
  <2>2. QED
    BY <1>1, <1>2, <2>1, DataStays DEF TypeOK
<1>4. LoopOrder' /\ QuietAtEnd'
  BY <1>1, <1>3 DEF IInv, LoopOrder, QuietAtEnd
<1>5. ASSUME FIFO \/ oddCycle, pending[CurCore] # NoTask
      PROVE  SomeRing
  <2>1. CurCore \in Cores
    BY <1>2, CurCoreType
  <2>2. ~ (Free(CurCore) > 2)
    BY <1>1, <1>5 DEF CanDispatch
  <2> DEFINE c == CurCore
  <2> HIDE DEF c
  <2>3. ring[c] \in Seq(Edges)
    BY <1>2, <2>1 DEF TypeOK, c
  <2>4. Len(ring[c]) # 0
    BY <2>2, <2>3, SeqElements, SizesAssumption DEF Free, c
  <2>5. ring[c] # <<>>
    BY <2>4
  <2>6. QED
    BY <2>1, <2>5 DEF SomeRing, c
<1>6. PendingActive'
  <2>1. ASSUME ~FIFO, ~oddCycle, SomePending
        PROVE  \E d \in Cores : ring'[d] # <<>> \/ cbLsq'[d] # <<>>
    BY <1>1, <2>1 DEF IInv, PendingActive, stageVars
  <2>2. ASSUME FIFO \/ oddCycle,
               NEW t \in 0 .. turn' - 1, pending[(dispPtr + t) % NumCores] # NoTask
        PROVE  SomeRing
    <3>1. CASE t = turn
      BY <1>5, <2>2, <3>1 DEF CurCore
    <3>2. CASE t # turn
      <4>1. t \in 0 .. turn - 1
        BY <1>1, <1>2, <3>2
      <4>2. QED
        BY <1>1, <2>2, <4>1 DEF IInv, PendingActive
    <3>3. QED
      BY <3>1, <3>2
  <2>3. elemDispatch' > 0 => SomeRing
    BY <1>1 DEF IInv, PendingActive
  <2>4. QED
    BY <1>1, <1>3, <2>1, <2>2, <2>3 DEF PendingActive
<1>7. QED
  BY <1>3, <1>4, <1>6 DEF IInv

\* The cycle ends: all cores were asked for tasks, or the edges of the cycle
\* are used up, and in both cases a pending task leaves a ring that is in use.
LEMMA EndCycleKeeps ==
  ASSUME IInv, EndCycle
  PROVE  IInv'
<1>1. /\ phase = "dispatch" /\ ~MaySchedule /\ turn' = 0 /\ dispPtr' = CurCore
      /\ phase' = IF termFlag THEN "done" ELSE "serve"
      /\ elemDispatch' = 0 /\ oddCycle' = ~oddCycle
      /\ UNCHANGED <<build, scratch, tasks, pending, stageVars, updates, termFlag>>
  BY DEF EndCycle
<1>2. TypeOK /\ turn \in 0 .. NumCores /\ oddCycle \in BOOLEAN /\ elemDispatch \in Nat
  BY DEF IInv, TypeOK
<1>3. /\ Sizes' /\ PendingUnfinished' /\ OneValuePerSource' /\ Justified'
      /\ RelaxationCovered' /\ FIFO' = FIFO /\ SomePending' = SomePending /\ Quiet' = Quiet
      /\ SomeRing' = SomeRing /\ TypeOK'
  <2>1. /\ 0 \in 0 .. NumCores /\ CurCore \in Cores /\ oddCycle' \in BOOLEAN /\ 0 \in Nat
        /\ phase' \in {"serve", "core", "dispatch", "done"}
    BY <1>1, <1>2, CurCoreType, SizesAssumption
  <2>2. QED
    BY <1>1, <1>2, <2>1, DataStays DEF TypeOK
<1>4. LoopOrder' /\ QuietAtEnd'
  BY <1>1, <1>3 DEF IInv, LoopOrder, QuietAtEnd
<1>5. ASSUME FIFO \/ oddCycle, SomePending
      PROVE  SomeRing
  <2>1. CASE turn < NumCores
    <3>1. elemDispatch > 0
      BY <1>1, <1>2, <2>1, SizesAssumption DEF MaySchedule
    <3>2. QED
      BY <1>1, <3>1 DEF IInv, PendingActive
  <2>2. CASE ~ (turn < NumCores)
    <3>1. turn = NumCores
      BY <1>2, <2>2, SizesAssumption
    <3>2. PICK c \in Cores : pending[c] # NoTask
      BY <1>5 DEF SomePending
    <3>3. dispPtr \in 0 .. NumCores - 1 /\ c \in 0 .. NumCores - 1
      BY <1>2 DEF TypeOK, Cores
    <3>4. PICK t \in 0 .. NumCores - 1 : (dispPtr + t) % NumCores = c
      BY <3>3, RingCovered, SizesAssumption
    <3>5. pending[(dispPtr + t) % NumCores] # NoTask /\ t \in 0 .. turn - 1
      BY <3>1, <3>2, <3>4
    <3>6. QED
      BY <1>1, <1>5, <3>5 DEF IInv, PendingActive
  <2>3. QED
    BY <2>1, <2>2
<1>6. PendingActive'
  <2> SUFFICES ASSUME SomePending PROVE \E d \in Cores : Early(d)'
    BY <1>1, <1>3 DEF PendingActive
  <2>1. CASE FIFO \/ oddCycle
    BY <1>1, <1>3, <1>5, <2>1 DEF SomeRing, Early, stageVars
  <2>2. CASE ~FIFO /\ ~oddCycle
    <3>1. \E d \in Cores : ring[d] # <<>> \/ cbLsq[d] # <<>>
      BY <1>1, <2>2 DEF IInv, PendingActive
    <3>2. QED
      BY <1>1, <1>3, <2>2, <3>1 DEF Early, stageVars
  <2>3. QED
    BY <2>1, <2>2
<1>7. QED
  BY <1>3, <1>4, <1>6 DEF IInv

(***************************************************************************)
(* The theorems.                                                           *)
(***************************************************************************)

\* Only the source is known, and its task waits at core 0.
LEMMA InitIInv ==
  ASSUME Init
  PROVE  IInv
<1>1. 0 \in Cores /\ 0 \in 0 .. NumCores /\ 0 \in Dist /\ MaxDist \in Dist /\ MaxDist \in Nat
  BY SizesAssumption DEF Cores, Dist
<1>2. /\ scratch = [v \in Vertices |-> IF v = Source THEN 0 ELSE MaxDist]
      /\ tasks = [c \in Cores |-> [v \in Vertices |-> IF c = 0 /\ v = Source THEN 1 ELSE 0]]
      /\ pending = [c \in Cores |-> NoTask]
      /\ ring = [c \in Cores |-> <<>>] /\ cbLsq = [c \in Cores |-> <<>>]
      /\ lsq = [c \in Cores |-> <<>>] /\ prefetchProcess = [c \in Cores |-> <<>>]
      /\ processReduce = [c \in Cores |-> <<>>]
      /\ updates = {} /\ phase = "serve" /\ turn = 0 /\ dispPtr = 0 /\ elemDispatch = 0
      /\ oddCycle = FALSE /\ termFlag = FALSE /\ build \in Builds
  BY DEF Init
<1>3. TypeOK
  <2>1. <<>> \in Seq(Edges) /\ <<>> \in Seq(Result)
    OBVIOUS
  <2>2. scratch \in [Vertices -> Dist] /\ tasks \in [Cores -> [Vertices -> Nat]]
    BY <1>1, <1>2
  <2>3. QED
    BY <1>1, <1>2, <2>1, <2>2 DEF TypeOK
<1>4. Sizes
  BY <1>2, SizesAssumption DEF Sizes
<1>5. PendingUnfinished /\ OneValuePerSource /\ Justified
  BY <1>2 DEF PendingUnfinished, OneValuePerSource, Justified
<1>6. RelaxationCovered
  <2> SUFFICES ASSUME NEW x \in Edges
               PROVE  scratch[Dst(x)] <= scratch[x[1]] + Wgt(x) \/ Fresh(x)
    BY DEF RelaxationCovered
  <2>1. x[1] \in Vertices /\ Dst(x) \in Vertices /\ Wgt(x) \in Nat
    BY <1>2, EdgeType
  <2>2. CASE x[1] = Source
    <3>1. tasks[0][x[1]] > 0
      BY <1>1, <1>2, <2>1, <2>2
    <3>2. QED
      BY <1>1, <3>1 DEF Fresh
  <2>3. CASE x[1] # Source
    <3>1. scratch[x[1]] = MaxDist /\ (scratch[Dst(x)] = 0 \/ scratch[Dst(x)] = MaxDist)
      BY <1>2, <2>1, <2>3
    <3>2. QED
      BY <1>1, <2>1, <3>1
  <2>4. QED
    BY <2>2, <2>3
<1>7. LoopOrder /\ QuietAtEnd
  BY <1>2 DEF LoopOrder, QuietAtEnd
<1>8. PendingActive
  BY <1>2 DEF PendingActive, SomePending
<1>9. QED
  BY <1>3, <1>4, <1>5, <1>6, <1>7, <1>8 DEF IInv

\* Every step, and a stutter, keeps the invariant.
LEMMA StepIInv ==
  ASSUME IInv, [Next]_vars
  PROVE  IInv'
<1>1. CASE UNCHANGED vars
  <2>1. /\ UNCHANGED <<build, scratch, tasks, pending, stageVars, updates>>
        /\ UNCHANGED <<phase, turn, dispPtr, elemDispatch, oddCycle, termFlag>>
    BY <1>1 DEF vars, loopVars
  <2>2. /\ Sizes' /\ PendingUnfinished' /\ OneValuePerSource' /\ Justified'
        /\ RelaxationCovered' /\ FIFO' = FIFO /\ Quiet' = Quiet
        /\ SomePending' = SomePending /\ SomeRing' = SomeRing /\ TypeOK'
    BY <2>1, DataStays DEF IInv, TypeOK
  <2>3. LoopOrder' /\ QuietAtEnd'
    BY <2>1, <2>2 DEF IInv, LoopOrder, QuietAtEnd
  <2>4. \A d : Early(d)' = Early(d) /\ Late(d)' = Late(d)
    BY <2>1, <2>2 DEF Early, Late, stageVars
  <2>5. PendingActive'
    BY <2>1, <2>2, <2>4 DEF IInv, PendingActive, stageVars
  <2>6. QED
    BY <2>2, <2>3, <2>5 DEF IInv
<1>2. CASE \E m \in updates : Serve(m)
  BY <1>2, ServeKeeps
<1>3. CASE \E c \in Cores : \E n \in 0 .. Len(ring[c]) : CoreCycle(c, n)
  BY <1>3, CoreCycleKeeps
<1>4. CASE \E v \in Vertices : Start(v)
  BY <1>4, StartKeeps
<1>5. QED
  BY <1>1, <1>2, <1>3, <1>4, EndServeKeeps, CheckKeeps, ContinueKeeps, SkipKeeps, EndCycleKeeps
     DEF Next

\* The inductive invariant holds in every state: of the engine's types, of what
\* each value on its way rests on, and of who is active when a task is pending.
THEOREM Invariance == Spec => []IInv
<1>1. Init => IInv
  BY InitIInv
<1>2. IInv /\ [Next]_vars => IInv'
  BY StepIInv
<1>3. QED
  BY <1>1, <1>2, PTL DEF Spec

\* All variables keep their types: distances stay below MaxDist, edges in the
\* stages are edges of the graph, updates go to its vertices.
THEOREM TypeCorrect == Spec => []TypeOK
<1>1. IInv => TypeOK
  BY DEF IInv
<1>2. QED
  BY <1>1, Invariance, PTL

\* No relaxation is lost between a vertex and its neighbours, however many
\* cores, whatever the packets, the widths of the stages and the order in which
\* updates and read answers arrive.
THEOREM NoRelaxationIsLost == Spec => []RelaxationCovered
<1>1. IInv => RelaxationCovered
  BY DEF IInv
<1>2. QED
  BY <1>1, Invariance, PTL

\* reduce may pack by source: the results it finds agree on the source's value.
THEOREM PacketsAgree == Spec => []OneValuePerSource
<1>1. IInv => OneValuePerSource
  BY DEF IInv
<1>2. QED
  BY <1>1, Invariance, PTL

\* The simulation never ends with work left, although pipeline_inactive does
\* not look at the pending tasks.
THEOREM EndsWithNothingLeft == Spec => []NothingLeft
<1>1. IInv => NothingLeft
  BY DEF IInv, QuietAtEnd, Quiet, NothingLeft
<1>2. QED
  BY <1>1, Invariance, PTL

\* With nothing left no edge can improve a vertex.
LEMMA QuietIsFixpoint ==
  ASSUME IInv, Quiet
  PROVE  Engine!Fixpoint
<1> SUFFICES ASSUME NEW x \in Edges
             PROVE  scratch[Dst(x)] <= scratch[x[1]] + Wgt(x)
  <2> SUFFICES ASSUME NEW a \in Arcs PROVE scratch[a[2]] <= scratch[a[1]] + a[3]
    BY DEF Engine!Fixpoint
  <2>1. PICK x \in Edges : a = <<x[1], Dst(x), Wgt(x)>>
    BY DEF Arcs
  <2>2. QED
    BY <2>1
<1>1. TypeOK /\ x[2] \in Nat
  BY EdgeType DEF IInv, TypeOK
<1>2. ASSUME NEW c \in Cores PROVE ~ Owing(x, c) /\ ~ Moving(x, c)
  <2>1. /\ \A v \in Vertices : tasks[c][v] = 0
        /\ ring[c] = <<>> /\ cbLsq[c] = <<>> /\ lsq[c] = <<>>
        /\ prefetchProcess[c] = <<>> /\ processReduce[c] = <<>> /\ pending[c] = NoTask
    BY DEF Quiet, PipelineInactive
  <2>2. x[1] \in Vertices
    BY <1>1, EdgeType DEF TypeOK
  <2>3. \A y : ~ In(y, <<>>)
    BY DEF In
  <2>4. QED
    BY <2>1, <2>2, <2>3 DEF Owing, Moving
<1>3. ~ Arriving(x)
  BY DEF Quiet, Arriving
<1>4. ~ Fresh(x)
  BY <1>1, <1>2, <1>3, FreshIsSomewhere
<1>5. QED
  BY <1>4 DEF IInv, RelaxationCovered

\* The engine implements the safety part of Relaxation: each improvement is
\* justified by an arc, and it stops only at the fixpoint, for good.
THEOREM ImplementsRelaxation == Spec => Engine!Safety
<1>1. Init => Engine!Init
  <2> SUFFICES ASSUME Init PROVE Engine!Init
    OBVIOUS
  <2>1. \A x \in Edges : x[1] \in Vertices /\ Dst(x) \in Vertices /\ Wgt(x) \in Nat
    BY EdgeType DEF Init
  <2>2. Arcs \in SUBSET (Vertices \X Vertices \X Nat)
    BY <2>1 DEF Arcs
  <2>3. QED
    BY <2>2 DEF Init, Engine!Init
<1>2. ASSUME IInv, [Next]_vars
      PROVE  [Engine!Next]_<<Arcs, scratch, phase = "done">>
  <2>1. TypeOK
    BY <1>2 DEF IInv
  <2>2. ASSUME build' = build, scratch' = scratch, (phase' = "done") = (phase = "done")
        PROVE  UNCHANGED <<Arcs, scratch, phase = "done">>
    BY <2>2, GraphStays
  <2>3. ASSUME NEW m \in updates, Serve(m)
        PROVE  [Engine!Next]_<<Arcs, scratch, phase = "done">>
    <3>1. phase = "serve" /\ UNCHANGED <<build, phase>>
      BY <2>3 DEF Serve, loopVars
    <3>2. Arcs' = Arcs
      BY <3>1, GraphStays
    <3>3. m[1] \in Vertices /\ m[2] \in Nat
      BY <2>1 DEF TypeOK
    <3>4. CASE m[2] < scratch[m[1]]
      <4>1. scratch' = [scratch EXCEPT ![m[1]] = m[2]]
        BY <2>3, <3>4 DEF Serve, ShouldSpawn
      <4>2. PICK x \in Edges : Dst(x) = m[1] /\ scratch[x[1]] + Wgt(x) <= m[2]
        BY <1>2 DEF IInv, Justified
      <4>3. <<x[1], Dst(x), Wgt(x)>> \in Arcs
        BY DEF Arcs
      <4>4. \E a \in Arcs : a[2] = m[1] /\ scratch[a[1]] + a[3] <= m[2]
        BY <4>2, <4>3
      <4>5. m[2] \in 0 .. MaxDist
        <5>1. scratch[m[1]] \in 0 .. MaxDist
          BY <2>1, <3>3 DEF TypeOK, Dist
        <5>2. QED
          BY <3>3, <3>4, <5>1, SizesAssumption
      <4>6. Engine!Improve(m[1], m[2])
        BY <3>1, <3>2, <3>4, <4>1, <4>4 DEF Engine!Improve
      <4>7. QED
        BY <3>3, <4>5, <4>6 DEF Engine!Next
    <3>5. CASE ~ (m[2] < scratch[m[1]])
      <4>1. scratch' = scratch
        BY <2>3, <3>5 DEF Serve, ShouldSpawn
      <4>2. QED
        BY <2>2, <3>1, <4>1
    <3>6. QED
      BY <3>4, <3>5
  <2>4. ASSUME EndCycle PROVE [Engine!Next]_<<Arcs, scratch, phase = "done">>
    <3>1. /\ build' = build /\ scratch' = scratch /\ phase = "dispatch"
          /\ phase' = IF termFlag THEN "done" ELSE "serve"
      BY <2>4 DEF EndCycle
    <3>2. CASE termFlag
      <4>1. Engine!Fixpoint
        BY <1>2, <3>1, <3>2, QuietIsFixpoint DEF IInv, QuietAtEnd
      <4>2. Arcs' = Arcs
        BY <3>1, GraphStays
      <4>3. Engine!Stop
        BY <3>1, <3>2, <4>1, <4>2 DEF Engine!Stop
      <4>4. QED
        BY <4>3 DEF Engine!Next
    <3>3. CASE ~ termFlag
      BY <2>2, <3>1, <3>3
    <3>4. QED
      BY <3>2, <3>3
  <2>5. CASE UNCHANGED vars
    BY <2>2, <2>5 DEF vars, loopVars
  <2>6. CASE EndServe \/ Check
    BY <2>2, <2>6 DEF EndServe, Check
  <2>7. CASE \E c \in Cores : \E n \in 0 .. Len(ring[c]) : CoreCycle(c, n)
    BY <2>2, <2>7 DEF CoreCycle
  <2>8. CASE Continue \/ (\E v \in Vertices : Start(v)) \/ Skip
    BY <2>2, <2>8 DEF Continue, Start, Issue, Skip
  <2>9. QED
    BY <1>2, <2>3, <2>4, <2>5, <2>6, <2>7, <2>8 DEF Next
<1>3. QED
  BY <1>1, <1>2, Invariance, PTL DEF Spec, Engine!Safety
=============================================================================
