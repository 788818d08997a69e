-------------------------- MODULE TaskQueueProofs --------------------------
(***************************************************************************)
(* Proofs about TaskQueue for every set of vertices, every degree, every   *)
(* queue size, any number of queues and every build.                       *)
(***************************************************************************)
EXTENDS TaskQueue, Numbers, TLAPS, FiniteSetTheorems, SequenceTheorems

(***************************************************************************)
(* The operators on queues.                                                *)
(***************************************************************************)

\* An entry that a queue takes is one that it has no longer free.
LEMMA OneEntryMore ==
  ASSUME NEW free \in Int, NEW used \in Nat, NEW size,
         free >= 0, free # 0, free + used = size
  PROVE  (free - 1) + (used + 1) = size /\ free - 1 >= 0
OBVIOUS

\* An entry that a queue gives up is free again.
LEMMA OneEntryLess ==
  ASSUME NEW free \in Int, NEW used \in Int, NEW size,
         free >= 0, free + used = size
  PROVE  (free + 1) + (used - 1) = size /\ free + 1 >= 0
OBVIOUS

\* Place is a position of the queue, or 0.
LEMMA PlaceType ==
  ASSUME NEW q \in Seq(Entry), NEW p \in Dist
  PROVE  Place(q, p) \in 0 .. Len(q)
<1> DEFINE S == {i \in DOMAIN q : q[i].prio <= p}
<1>1. Len(q) \in Nat /\ DOMAIN q = 1 .. Len(q)
  BY LenProperties
<1>2. IsFiniteSet(1 .. Len(q)) /\ Cardinality(1 .. Len(q)) = Len(q)
  BY <1>1, FS_Interval
<1>3. S \in SUBSET (1 .. Len(q))
  BY <1>1
<1>4. IsFiniteSet(S) /\ Cardinality(S) <= Len(q)
  BY <1>2, <1>3, FS_Subset
<1>5. Cardinality(S) \in Nat
  BY <1>4, FS_CardinalityType
<1>6. QED
  BY <1>1, <1>4, <1>5 DEF Place

\* No vertex has two entries in the queue.
Distinct(q) == \A i, j \in DOMAIN q : q[i].task.vid = q[j].task.vid => i = j

\* Inserting adds one entry and keeps the others.
LEMMA InsertSortedProperties ==
  ASSUME NEW q \in Seq(Entry), NEW e \in Entry
  PROVE  /\ InsertSorted(q, e) \in Seq(Entry)
         /\ Len(InsertSorted(q, e)) = Len(q) + 1
         /\ Vids(InsertSorted(q, e)) = Vids(q) \cup {e.task.vid}
         /\ Distinct(q) /\ e.task.vid \notin Vids(q) => Distinct(InsertSorted(q, e))
<1> DEFINE k == Place(q, e.prio)
           a == SubSeq(q, 1, k)
           b == SubSeq(q, k + 1, Len(q))
           r == (a \o <<e>>) \o b
<1>0. e.prio \in Dist
  BY DEF Entry
<1>1. k \in 0 .. Len(q) /\ Len(q) \in Nat
  BY <1>0, PlaceType
<1>2. \A i \in 1 .. Len(q) : q[i] \in Entry
  OBVIOUS
<1>3. /\ a \in Seq(Entry) /\ Len(a) = k
      /\ \A i \in 1 .. k : a[i] = q[i]
  <2> HIDE DEF k
  <2>1. \A i \in 1 .. k : q[i] \in Entry
    BY <1>1, <1>2
  <2>2. QED
    BY <1>1, <2>1, SubSeqProperties
<1>4. /\ b \in Seq(Entry) /\ Len(b) = Len(q) - k
      /\ \A i \in 1 .. Len(q) - k : b[i] = q[k + i]
  <2> HIDE DEF k
  <2>1. \A i \in k + 1 .. Len(q) : q[i] \in Entry
    BY <1>1, <1>2
  <2>2. /\ b \in Seq(Entry)
        /\ Len(b) = IF k + 1 <= Len(q) THEN Len(q) - (k + 1) + 1 ELSE 0
        /\ \A i \in 1 .. Len(q) - (k + 1) + 1 : b[i] = q[(k + 1) + i - 1]
    BY <1>1, <2>1, SubSeqProperties
  <2>3. QED
    BY <1>1, <2>2
<1> HIDE DEF a, b, k
<1>5. /\ r \in Seq(Entry) /\ Len(r) = Len(q) + 1
      /\ \A i \in 1 .. k : r[i] = q[i]
      /\ r[k + 1] = e
      /\ \A i \in k + 2 .. Len(q) + 1 : r[i] = q[i - 1]
  <2> DEFINE c == a \o <<e>>
  <2>1. /\ c \in Seq(Entry) /\ Len(c) = k + 1
        /\ \A i \in 1 .. k : c[i] = q[i]
        /\ c[k + 1] = e
    <3>1. /\ <<e>> \in Seq(Entry) /\ Len(<<e>>) = 1 /\ <<e>>[1] = e
      OBVIOUS
    <3>2. /\ c \in Seq(Entry) /\ Len(c) = Len(a) + Len(<<e>>)
          /\ \A i \in 1 .. Len(a) + Len(<<e>>) :
               c[i] = IF i <= Len(a) THEN a[i] ELSE <<e>>[i - Len(a)]
      BY <1>3, <3>1, ConcatProperties
    <3>3. \A i \in 1 .. k : c[i] = a[i]
      BY <1>1, <1>3, <3>1, <3>2
    <3>4. c[k + 1] = <<e>>[1]
      BY <1>1, <1>3, <3>1, <3>2
    <3>5. QED
      BY <1>1, <1>3, <3>1, <3>2, <3>3, <3>4
  <2> HIDE DEF c
  <2>2. /\ c \o b \in Seq(Entry) /\ Len(c \o b) = Len(c) + Len(b)
        /\ \A i \in 1 .. Len(c) + Len(b) :
             (c \o b)[i] = IF i <= Len(c) THEN c[i] ELSE b[i - Len(c)]
    BY <1>4, <2>1, ConcatProperties
  <2>3. Len(c \o b) = Len(q) + 1
    BY <1>1, <1>4, <2>1, <2>2
  <2>4. \A i \in 1 .. k + 1 : (c \o b)[i] = c[i]
    BY <1>1, <1>4, <2>1, <2>2
  <2>5. ASSUME NEW i \in k + 2 .. Len(q) + 1
        PROVE  (c \o b)[i] = q[i - 1]
    <3>1. i - (k + 1) \in 1 .. Len(q) - k /\ k + (i - (k + 1)) = i - 1
      BY <1>1
    <3>2. (c \o b)[i] = b[i - (k + 1)]
      BY <1>1, <1>4, <2>1, <2>2
    <3>3. QED
      BY <1>4, <3>1, <3>2
  <2>6. r = c \o b
    BY DEF c
  <2> HIDE DEF r
  <2>7. ASSUME NEW i \in 1 .. k PROVE r[i] = q[i]
    <3>1. i \in 1 .. k + 1
      BY <1>1
    <3>2. QED
      BY <2>1, <2>4, <2>6, <3>1
  <2>8. r[k + 1] = e
    BY <1>1, <2>1, <2>4, <2>6
  <2>9. QED
    BY <2>2, <2>3, <2>5, <2>6, <2>7, <2>8
<1>6. InsertSorted(q, e) = r
  BY DEF InsertSorted, r, a, b, k
<1> HIDE DEF r
<1>7. Vids(r) = Vids(q) \cup {e.task.vid}
  <2>1. DOMAIN r = 1 .. Len(q) + 1 /\ DOMAIN q = 1 .. Len(q)
    BY <1>5
  <2>2. \A i \in DOMAIN q : \E j \in DOMAIN r : r[j] = q[i]
    <3> TAKE i \in DOMAIN q
    <3>1. CASE i <= k
      BY <1>1, <1>5, <2>1, <3>1
    <3>2. CASE i > k
      <4>1. i + 1 \in k + 2 .. Len(q) + 1 /\ (i + 1) - 1 = i
        BY <1>1, <2>1, <3>2
      <4>2. i + 1 \in DOMAIN r /\ r[i + 1] = q[i]
        BY <1>1, <1>5, <2>1, <4>1
      <4>3. QED
        BY <4>2
    <3>3. QED
      BY <1>1, <2>1, <3>1, <3>2
  <2>3. \E j \in DOMAIN r : r[j] = e
    <3>1. k + 1 \in DOMAIN r /\ r[k + 1] = e
      BY <1>1, <1>5, <2>1
    <3>2. QED
      BY <3>1
  <2>4. \A j \in DOMAIN r : r[j] = e \/ \E i \in DOMAIN q : r[j] = q[i]
    <3> TAKE j \in DOMAIN r
    <3>1. CASE j <= k
      BY <1>1, <1>5, <2>1, <3>1
    <3>2. CASE j = k + 1
      BY <1>1, <1>5, <2>1, <3>2
    <3>3. CASE j > k + 1
      <4>1. j - 1 \in DOMAIN q /\ r[j] = q[j - 1]
        BY <1>1, <1>5, <2>1, <3>3
      <4>2. QED
        BY <4>1
    <3>4. QED
      BY <1>1, <2>1, <3>1, <3>2, <3>3
  <2>5. QED
    BY <2>2, <2>3, <2>4 DEF Vids
<1>8. ASSUME Distinct(q), e.task.vid \notin Vids(q)
      PROVE  Distinct(r)
  <2> DEFINE from(j) == IF j <= k THEN j ELSE j - 1
  <2>1. DOMAIN r = 1 .. Len(q) + 1 /\ DOMAIN q = 1 .. Len(q)
    BY <1>5
  <2>2. ASSUME NEW j \in DOMAIN r, j # k + 1
        PROVE  from(j) \in DOMAIN q /\ r[j] = q[from(j)]
    <3>1. CASE j <= k
      BY <1>1, <1>5, <2>1, <3>1
    <3>2. CASE ~(j <= k)
      BY <1>1, <1>5, <2>1, <2>2, <3>2
    <3>3. QED
      BY <3>1, <3>2
  <2>3. ASSUME NEW j \in DOMAIN r, j # k + 1 PROVE r[j].task.vid # e.task.vid
    BY <1>8, <2>2, <2>3 DEF Vids
  <2>4. ASSUME NEW i \in DOMAIN r, NEW j \in DOMAIN r, r[i].task.vid = r[j].task.vid
        PROVE  i = j
    <3>1. CASE i = k + 1 \/ j = k + 1
      <4>1. r[k + 1] = e
        BY <1>5
      <4>2. i = k + 1 /\ j = k + 1
        BY <2>3, <2>4, <3>1, <4>1
      <4>3. QED
        BY <4>2
    <3>2. CASE i # k + 1 /\ j # k + 1
      <4>1. from(i) = from(j)
        <5> HIDE DEF from
        <5>1. from(i) \in DOMAIN q /\ r[i] = q[from(i)] /\ from(j) \in DOMAIN q /\ r[j] = q[from(j)]
          BY <2>2, <3>2
        <5>2. QED
          BY <1>8, <2>4, <5>1 DEF Distinct
      <4>2. QED
        BY <1>1, <2>1, <3>2, <4>1
    <3>3. QED
      BY <3>1, <3>2
  <2>5. QED
    BY <2>4 DEF Distinct
<1>9. QED
  BY <1>5, <1>6, <1>7, <1>8

\* Erasing the entries of a vertex leaves those of the others.
LEMMA WithoutProperties ==
  ASSUME NEW q \in Seq(Entry), NEW v
  PROVE  /\ Without(q, v) \in Seq(Entry)
         /\ Len(Without(q, v)) <= Len(q)
         /\ Vids(Without(q, v)) = Vids(q) \ {v}
         /\ Distinct(q) => Distinct(Without(q, v))
<1> DEFINE I == {i \in DOMAIN q : q[i].task.vid # v}
           r == Without(q, v)
<1>1. I \in SUBSET (1 .. Len(q)) /\ DOMAIN q = 1 .. Len(q)
  BY LenProperties
<1>2. r = Selected(q, I)
  BY DEF Without
<1> HIDE DEF I, r
<1>3. r \in Seq(Entry) /\ Len(r) <= Len(q) /\ \E f : Picks(r, q, I, f)
  BY <1>1, <1>2, SelectedIs
<1> PICK f : Picks(r, q, I, f)
  BY <1>3
<1>4. DOMAIN r = 1 .. Len(r) /\ Len(r) \in Nat
  BY <1>3, LenProperties
<1>5. /\ \A k \in DOMAIN r : f[k] \in I /\ r[k] = q[f[k]]
      /\ \A k, l \in DOMAIN r : k < l => f[k] < f[l]
      /\ \A i \in I : \E k \in DOMAIN r : f[k] = i
  BY <1>4 DEF Picks
<1>6. \A i : i \in I <=> i \in DOMAIN q /\ q[i].task.vid # v
  BY DEF I
<1>7. Vids(r) = Vids(q) \ {v}
  <2>1. ASSUME NEW w \in Vids(r) PROVE w \in Vids(q) \ {v}
    BY <1>5, <1>6 DEF Vids
  <2>2. ASSUME NEW w \in Vids(q), w # v PROVE w \in Vids(r)
    <3>1. PICK i \in DOMAIN q : q[i].task.vid = w
      BY DEF Vids
    <3>2. PICK k \in DOMAIN r : f[k] = i
      BY <1>5, <1>6, <2>2, <3>1
    <3>3. QED
      BY <1>5, <3>1, <3>2 DEF Vids
  <2>3. QED
    BY <2>1, <2>2
<1>8. ASSUME Distinct(q) PROVE Distinct(r)
  <2>1. ASSUME NEW k \in DOMAIN r, NEW l \in DOMAIN r, r[k].task.vid = r[l].task.vid
        PROVE  k = l
    <3>1. f[k] = f[l] /\ f[k] \in 1 .. Len(q)
      BY <1>1, <1>5, <1>6, <1>8, <2>1 DEF Distinct
    <3>2. ~(k < l) /\ ~(l < k)
      BY <1>5, <3>1
    <3>3. QED
      BY <1>4, <3>2
  <2>2. QED
    BY <2>1 DEF Distinct
<1>9. QED
  BY <1>3, <1>7, <1>8 DEF r

\* A queue that an entry joins holds the vertex of that entry as well.
LEMMA AppendVids ==
  ASSUME NEW q \in Seq(Entry), NEW e \in Entry
  PROVE  Vids(Append(q, e)) = Vids(q) \cup {e.task.vid}
<1> DEFINE r == Append(q, e)
<1>1. /\ r \in Seq(Entry) /\ Len(r) = Len(q) + 1
      /\ \A i \in 1 .. Len(q) : r[i] = q[i]
      /\ r[Len(q) + 1] = e
  BY AppendProperties
<1>2. DOMAIN r = 1 .. Len(q) + 1 /\ DOMAIN q = 1 .. Len(q) /\ Len(q) \in Nat
  BY <1>1
<1> HIDE DEF r
<1>3. \A i \in DOMAIN q : i \in DOMAIN r /\ r[i] = q[i]
  BY <1>1, <1>2
<1>4. \A i \in DOMAIN r : i = Len(q) + 1 \/ i \in DOMAIN q
  BY <1>2
<1>5. Len(q) + 1 \in DOMAIN r
  BY <1>2
<1>6. Vids(r) = Vids(q) \cup {e.task.vid}
  BY <1>1, <1>3, <1>4, <1>5 DEF Vids
<1>7. QED
  BY <1>6 DEF r

\* The overflow queue holds the vertex of a task that is appended to it.
LEMMA AppendFifoVids ==
  ASSUME NEW f \in Seq(Fresh), NEW task \in Fresh
  PROVE  FifoVids(Append(f, task)) = FifoVids(f) \cup {task.vid}
<1> DEFINE r == Append(f, task)
<1>1. /\ r \in Seq(Fresh) /\ Len(r) = Len(f) + 1
      /\ \A i \in 1 .. Len(f) : r[i] = f[i]
      /\ r[Len(f) + 1] = task
  BY AppendProperties
<1>2. DOMAIN r = 1 .. Len(f) + 1 /\ DOMAIN f = 1 .. Len(f) /\ Len(f) \in Nat
  BY <1>1
<1> HIDE DEF r
<1>3. \A i \in DOMAIN f : i \in DOMAIN r /\ r[i] = f[i]
  BY <1>1, <1>2
<1>4. \A i \in DOMAIN r : i = Len(f) + 1 \/ i \in DOMAIN f
  BY <1>2
<1>5. Len(f) + 1 \in DOMAIN r
  BY <1>2
<1>6. FifoVids(r) = FifoVids(f) \cup {task.vid}
  BY <1>1, <1>3, <1>4, <1>5 DEF FifoVids
<1>7. QED
  BY <1>6 DEF r

\* Removing the front loses the front vertex only.
LEMMA TailVids ==
  ASSUME NEW q \in Seq(Entry), q # <<>>
  PROVE  /\ Head(q) \in Entry /\ Tail(q) \in Seq(Entry) /\ Len(Tail(q)) = Len(q) - 1
         /\ Vids(q) = Vids(Tail(q)) \cup {Head(q).task.vid}
         /\ Distinct(q) => Distinct(Tail(q))
<1>1. /\ Head(q) \in Entry /\ Head(q) = q[1]
      /\ Tail(q) \in Seq(Entry) /\ Len(Tail(q)) = Len(q) - 1
      /\ \A i \in 1 .. Len(q) - 1 : Tail(q)[i] = q[i + 1]
      /\ Len(q) \in Nat \ {0}
  BY HeadTailProperties, EmptySeq
<1>2. DOMAIN q = 1 .. Len(q) /\ DOMAIN Tail(q) = 1 .. Len(q) - 1
  BY <1>1, LenProperties
<1>3. \A i \in DOMAIN Tail(q) : i + 1 \in DOMAIN q /\ Tail(q)[i] = q[i + 1]
  BY <1>1, <1>2
<1>4. \A i \in DOMAIN q : i = 1 \/ (i - 1 \in DOMAIN Tail(q) /\ Tail(q)[i - 1] = q[i])
  BY <1>1, <1>2
<1>5. 1 \in DOMAIN q
  BY <1>1, <1>2
<1>6. ASSUME NEW i \in DOMAIN q
      PROVE  q[i].task.vid \in Vids(Tail(q)) \cup {Head(q).task.vid}
  <2>1. CASE i = 1
    BY <1>1, <2>1
  <2>2. CASE i - 1 \in DOMAIN Tail(q) /\ Tail(q)[i - 1] = q[i]
    <3>1. q[i].task.vid = Tail(q)[i - 1].task.vid
      BY <2>2
    <3>2. QED
      BY <2>2, <3>1 DEF Vids
  <2>3. QED
    BY <1>4, <2>1, <2>2
<1>7. Vids(Tail(q)) \subseteq Vids(q)
  BY <1>3 DEF Vids
<1>8. Head(q).task.vid \in Vids(q)
  BY <1>1, <1>5 DEF Vids
<1>9. Vids(q) \subseteq Vids(Tail(q)) \cup {Head(q).task.vid}
  BY <1>6 DEF Vids
<1>10. ASSUME Distinct(q) PROVE Distinct(Tail(q))
  <2>1. ASSUME NEW i \in DOMAIN Tail(q), NEW j \in DOMAIN Tail(q),
               Tail(q)[i].task.vid = Tail(q)[j].task.vid
        PROVE  i = j
    <3>1. i + 1 = j + 1
      BY <1>3, <1>10, <2>1 DEF Distinct
    <3>2. QED
      BY <1>2, <3>1
  <2>2. QED
    BY <2>1 DEF Distinct
<1>11. QED
  BY <1>1, <1>7, <1>8, <1>9, <1>10

\* Removing the front of the overflow queue loses its vertex only.
LEMMA TailFifoVids ==
  ASSUME NEW f \in Seq(Fresh), f # <<>>
  PROVE  /\ Head(f) \in Fresh /\ Tail(f) \in Seq(Fresh)
         /\ FifoVids(f) = FifoVids(Tail(f)) \cup {Head(f).vid}
<1>1. /\ Head(f) \in Fresh /\ Head(f) = f[1]
      /\ Tail(f) \in Seq(Fresh) /\ Len(Tail(f)) = Len(f) - 1
      /\ \A i \in 1 .. Len(f) - 1 : Tail(f)[i] = f[i + 1]
      /\ Len(f) \in Nat \ {0}
  BY HeadTailProperties, EmptySeq
<1>2. DOMAIN f = 1 .. Len(f) /\ DOMAIN Tail(f) = 1 .. Len(f) - 1
  BY <1>1, LenProperties
<1>3. \A i \in DOMAIN Tail(f) : i + 1 \in DOMAIN f /\ Tail(f)[i] = f[i + 1]
  BY <1>1, <1>2
<1>4. \A i \in DOMAIN f : i = 1 \/ (i - 1 \in DOMAIN Tail(f) /\ Tail(f)[i - 1] = f[i])
  BY <1>1, <1>2
<1>5. 1 \in DOMAIN f
  BY <1>1, <1>2
<1>6. ASSUME NEW i \in DOMAIN f
      PROVE  f[i].vid \in FifoVids(Tail(f)) \cup {Head(f).vid}
  <2>1. CASE i = 1
    BY <1>1, <2>1
  <2>2. CASE i - 1 \in DOMAIN Tail(f) /\ Tail(f)[i - 1] = f[i]
    <3>1. f[i].vid = Tail(f)[i - 1].vid
      BY <2>2
    <3>2. QED
      BY <2>2, <3>1 DEF FifoVids
  <2>3. QED
    BY <1>4, <2>1, <2>2
<1>7. FifoVids(Tail(f)) \subseteq FifoVids(f)
  BY <1>3 DEF FifoVids
<1>8. Head(f).vid \in FifoVids(f)
  BY <1>1, <1>5 DEF FifoVids
<1>9. FifoVids(f) \subseteq FifoVids(Tail(f)) \cup {Head(f).vid}
  BY <1>6 DEF FifoVids
<1>10. QED
  BY <1>1, <1>7, <1>8, <1>9

(***************************************************************************)
(* insert_local_task.                                                      *)
(***************************************************************************)

\* The counters count what the queues do not hold.
Exact(q, room) == \A t \in TQ : room[t] + Len(q[t]) = TASK_QUEUE_SIZE /\ room[t] >= 0

\* The queues, together, hold no vertex twice.
Apart(q) ==
  /\ \A t \in TQ : Distinct(q[t])
  /\ \A t, u \in TQ : t # u => Vids(q[t]) \cap Vids(q[u]) = {}

\* What SingleInstance says of the queues.
Single(q) ==
  \A t, u \in TQ : \A i \in DOMAIN q[t], j \in DOMAIN q[u] :
    q[t][i].task.vid = q[u][j].task.vid => t = u /\ i = j

\* It is the same.
LEMMA ApartIsSingle ==
  ASSUME NEW q
  PROVE  Apart(q) <=> Single(q)
<1>1. ASSUME Apart(q) PROVE Single(q)
  <2>1. ASSUME NEW t \in TQ, NEW u \in TQ, NEW i \in DOMAIN q[t], NEW j \in DOMAIN q[u],
               q[t][i].task.vid = q[u][j].task.vid
        PROVE  t = u /\ i = j
    <3>1. q[t][i].task.vid \in Vids(q[t]) \cap Vids(q[u])
      BY <2>1 DEF Vids
    <3>2. t = u
      BY <1>1, <3>1 DEF Apart
    <3>3. QED
      BY <1>1, <2>1, <3>2 DEF Apart, Distinct
  <2>2. QED
    BY <2>1 DEF Single
<1>2. ASSUME Single(q) PROVE Apart(q)
  <2>1. \A t \in TQ : Distinct(q[t])
    BY <1>2 DEF Single, Distinct
  <2>2. ASSUME NEW t \in TQ, NEW u \in TQ, NEW v \in Vids(q[t]), v \in Vids(q[u])
        PROVE  t = u
    <3>1. PICK i \in DOMAIN q[t] : v = q[t][i].task.vid
      BY DEF Vids
    <3>2. PICK j \in DOMAIN q[u] : v = q[u][j].task.vid
      BY <2>2 DEF Vids
    <3>3. QED
      BY <1>2, <3>1, <3>2 DEF Single
  <2>3. QED
    BY <2>1, <2>2 DEF Apart
<1>3. QED
  BY <1>1, <1>2

\* The task joins its queue or the overflow queue: the counters stay exact,
\* nothing that is queued goes, and a vertex that is in no queue is in one.
LEMMA EnqueueProperties ==
  ASSUME NEW t \in TQ, NEW p \in Dist, NEW task \in Fresh,
         NEW q \in [TQ -> Seq(Entry)], NEW room \in [TQ -> Int], NEW ovf \in Seq(Fresh),
         Exact(q, room), Enqueue(t, p, task, q, room, ovf)
  PROVE  /\ tq' \in [TQ -> Seq(Entry)]
         /\ remaining' \in [TQ -> Int]
         /\ fifo' \in Seq(Fresh)
         /\ Exact(tq', remaining')
         /\ \A u \in TQ : Vids(q[u]) \subseteq Vids(tq'[u])
         /\ FifoVids(ovf) \subseteq FifoVids(fifo')
         /\ task.vid \in Vids(tq'[t]) \/ task.vid \in FifoVids(fifo')
         /\ Apart(q) /\ (\A u \in TQ : task.vid \notin Vids(q[u])) => Apart(tq')
<1> DEFINE v0 == task.vid
           entry == [prio |-> p, task |-> task]
<1>1. entry \in Entry /\ entry.task.vid = v0
  BY DEF Entry
<1>2. CASE Spills(q[t], room[t], p)
  <2>1. tq' = q /\ remaining' = room /\ fifo' = Append(ovf, task)
    BY <1>2 DEF Enqueue
  <2>2. fifo' \in Seq(Fresh) /\ FifoVids(fifo') = FifoVids(ovf) \cup {v0}
    BY <2>1, AppendFifoVids, AppendProperties
  <2>3. QED
    BY <2>1, <2>2
<1>3. CASE ~Spills(q[t], room[t], p)
  <2> DEFINE r == InsertSorted(q[t], entry)
  <2>1. /\ tq' = [q EXCEPT ![t] = r]
        /\ remaining' = [room EXCEPT ![t] = @ - 1]
        /\ fifo' = ovf
    BY <1>3 DEF Enqueue
  <2>2. /\ r \in Seq(Entry) /\ Len(r) = Len(q[t]) + 1
        /\ Vids(r) = Vids(q[t]) \cup {v0}
        /\ Distinct(q[t]) /\ v0 \notin Vids(q[t]) => Distinct(r)
    BY <1>1, InsertSortedProperties
  <2> HIDE DEF r, entry
  <2>3. /\ tq' \in [TQ -> Seq(Entry)]
        /\ \A u \in TQ : tq'[u] = IF u = t THEN r ELSE q[u]
        /\ remaining' \in [TQ -> Int]
        /\ \A u \in TQ : remaining'[u] = IF u = t THEN room[t] - 1 ELSE room[u]
    BY <2>1, <2>2
  <2>4. \A u \in TQ : Vids(q[u]) \subseteq Vids(tq'[u])
    BY <2>2, <2>3
  <2>5. ASSUME NEW u \in TQ
        PROVE  remaining'[u] + Len(tq'[u]) = TASK_QUEUE_SIZE /\ remaining'[u] >= 0
    <3>1. CASE u = t
      <4>1. remaining'[u] = room[t] - 1 /\ Len(tq'[u]) = Len(q[t]) + 1
        BY <2>2, <2>3, <3>1
      <4>2. Len(q[t]) \in Nat /\ room[t] \in Int
        BY LenProperties
      <4>3. room[t] + Len(q[t]) = TASK_QUEUE_SIZE /\ room[t] >= 0 /\ room[t] # 0
        BY <1>3 DEF Exact, Spills
      <4>4. (room[t] - 1) + (Len(q[t]) + 1) = TASK_QUEUE_SIZE /\ room[t] - 1 >= 0
        BY <4>2, <4>3, OneEntryMore
      <4>5. QED
        BY <4>1, <4>4
    <3>2. CASE u # t
      <4>1. remaining'[u] = room[u] /\ tq'[u] = q[u]
        BY <2>3, <3>2
      <4>2. QED
        BY <4>1 DEF Exact
    <3>3. QED
      BY <3>1, <3>2
  <2>6. ASSUME Apart(q), \A u \in TQ : v0 \notin Vids(q[u]) PROVE Apart(tq')
    <3>1. \A u \in TQ : Distinct(tq'[u])
      BY <2>2, <2>3, <2>6 DEF Apart
    <3>2. \A u \in TQ : Vids(tq'[u]) = IF u = t THEN Vids(q[t]) \cup {v0} ELSE Vids(q[u])
      BY <2>2, <2>3
    <3>3. \A u, w \in TQ : u # w => Vids(tq'[u]) \cap Vids(tq'[w]) = {}
      BY <2>6, <3>2 DEF Apart
    <3>4. QED
      BY <3>1, <3>3 DEF Apart
  <2>7. v0 \in Vids(tq'[t])
    BY <2>2, <2>3
  <2>8. QED
    BY <2>1, <2>3, <2>4, <2>5, <2>6, <2>7 DEF Exact
<1>4. QED
  BY <1>2, <1>3

\* Without ABORT: the task is inserted, or its presence bit says that its vertex
\* is queued.
LEMMA InsertPlainProperties ==
  ASSUME tq \in [TQ -> Seq(Entry)], remaining \in [TQ -> Int], Occupancy,
         NEW t \in TQ, NEW p \in Dist, NEW task \in Fresh,
         NEW bits \in [Vertices -> BOOLEAN], NEW ovf \in Seq(Fresh),
         InsertPlain(t, p, task, bits, ovf),
         bits[task.vid] => InTQ(task.vid) \/ task.vid \in FifoVids(ovf)
  PROVE  /\ tq' \in [TQ -> Seq(Entry)]
         /\ remaining' \in [TQ -> Int]
         /\ fifo' \in Seq(Fresh)
         /\ present' \in [Vertices -> BOOLEAN]
         /\ Occupancy'
         /\ \A v \in Vertices : InTQ(v) => InTQ(v)'
         /\ FifoVids(ovf) \subseteq FifoVids(fifo')
         /\ InTQ(task.vid)' \/ task.vid \in FifoVids(fifo')
         /\ \A v \in Vertices : present'[v] => bits[v] \/ (v = task.vid /\ ENTRY_ABORT)
<1>1. task.vid \in Vertices
  BY DEF Fresh
<1>2. CASE ENTRY_ABORT /\ bits[task.vid]
  <2>1. present' = bits /\ fifo' = ovf /\ tq' = tq /\ remaining' = remaining
    BY <1>2 DEF InsertPlain
  <2>2. QED
    BY <1>1, <1>2, <2>1 DEF Occupancy, InTQ
<1>3. CASE ~(ENTRY_ABORT /\ bits[task.vid])
  <2>1. /\ present' = IF ENTRY_ABORT THEN [bits EXCEPT ![task.vid] = TRUE] ELSE bits
        /\ Enqueue(t, p, task, tq, remaining, ovf)
    BY <1>3 DEF InsertPlain
  <2>2. /\ present' \in [Vertices -> BOOLEAN]
        /\ \A v \in Vertices : present'[v] => bits[v] \/ (v = task.vid /\ ENTRY_ABORT)
    BY <1>1, <2>1
  <2>3. Exact(tq, remaining)
    BY DEF Exact, Occupancy
  <2>4. /\ tq' \in [TQ -> Seq(Entry)]
        /\ remaining' \in [TQ -> Int]
        /\ fifo' \in Seq(Fresh)
        /\ Exact(tq', remaining')
        /\ \A u \in TQ : Vids(tq[u]) \subseteq Vids(tq'[u])
        /\ FifoVids(ovf) \subseteq FifoVids(fifo')
        /\ task.vid \in Vids(tq'[t]) \/ task.vid \in FifoVids(fifo')
    BY <2>1, <2>3, EnqueueProperties
  <2>5. QED
    BY <2>2, <2>4 DEF Exact, Occupancy, InTQ
<1>4. QED
  BY <1>2, <1>3

\* With ABORT: an entry that the task replaces is erased from whichever queue
\* holds it and its slot is free; what makes the task useless stays queued.
LEMMA InsertAbortProperties ==
  ASSUME tq \in [TQ -> Seq(Entry)], remaining \in [TQ -> Int], Occupancy, SingleInstance,
         NEW t \in TQ, NEW p \in Dist, NEW task \in Fresh,
         NEW bits \in [Vertices -> BOOLEAN], NEW ovf \in Seq(Fresh),
         InsertAbort(t, p, task, bits, ovf),
         bits[task.vid] => InTQ(task.vid) \/ task.vid \in FifoVids(ovf)
  PROVE  /\ tq' \in [TQ -> Seq(Entry)]
         /\ remaining' \in [TQ -> Int]
         /\ fifo' \in Seq(Fresh)
         /\ present' \in [Vertices -> BOOLEAN]
         /\ Occupancy'
         /\ SingleInstance'
         /\ \A v \in Vertices : InTQ(v) => InTQ(v)' \/ v = task.vid
         /\ FifoVids(ovf) \subseteq FifoVids(fifo')
         /\ InTQ(task.vid)' \/ task.vid \in FifoVids(fifo')
         /\ \A v \in Vertices : present'[v] => bits[v] \/ (v = task.vid /\ ENTRY_ABORT)
<1> DEFINE v0 == task.vid
           kept == [u \in TQ |-> Without(tq[u], v0)]
           room == [u \in TQ |-> remaining[u] + Len(tq[u]) - Len(kept[u])]
<1>1. v0 \in Vertices
  BY DEF Fresh
<1>2. CASE Dominated(task) \/ DroppedByBit(v0, bits)
  <2>1. present' = bits /\ fifo' = ovf /\ tq' = tq /\ remaining' = remaining
    BY <1>2 DEF InsertAbort
  <2>2. InTQ(v0) \/ v0 \in FifoVids(ovf)
    <3>1. CASE Dominated(task)
      BY <3>1 DEF Dominated, InTQ, Vids
    <3>2. CASE DroppedByBit(v0, bits)
      BY <3>2 DEF DroppedByBit
    <3>3. QED
      BY <1>2, <3>1, <3>2
  <2>3. SingleInstance' /\ Occupancy'
    BY <2>1 DEF SingleInstance, Occupancy
  <2>4. QED
    BY <1>1, <2>1, <2>2, <2>3 DEF InTQ
<1>3. CASE ~(Dominated(task) \/ DroppedByBit(v0, bits))
  <2>1. /\ present' = [bits EXCEPT ![v0] = ENTRY_ABORT]
        /\ Enqueue(t, p, task, kept, room, ovf)
    BY <1>3 DEF InsertAbort
  <2>2. ASSUME NEW u \in TQ
        PROVE  /\ kept[u] \in Seq(Entry) /\ Len(kept[u]) <= Len(tq[u])
               /\ Vids(kept[u]) = Vids(tq[u]) \ {v0}
               /\ Distinct(tq[u]) => Distinct(kept[u])
    BY WithoutProperties
  <2> HIDE DEF kept
  <2>3. ASSUME NEW u \in TQ
        PROVE  /\ room[u] \in Int /\ room[u] >= 0
               /\ room[u] + Len(kept[u]) = TASK_QUEUE_SIZE
    <3>1. Len(tq[u]) \in Nat /\ Len(kept[u]) \in Nat /\ remaining[u] \in Int
      BY <2>2, LenProperties
    <3>2. remaining[u] + Len(tq[u]) = TASK_QUEUE_SIZE /\ remaining[u] >= 0
          /\ TASK_QUEUE_SIZE \in Nat
      BY SizesAssumption DEF Occupancy
    <3>3. QED
      BY <2>2, <3>1, <3>2
  <2>4. kept \in [TQ -> Seq(Entry)] /\ room \in [TQ -> Int] /\ Exact(kept, room)
    <3>1. \A u \in TQ : kept[u] \in Seq(Entry)
      BY <2>2
    <3>2. kept = [u \in TQ |-> kept[u]]
      BY DEF kept
    <3>3. QED
      BY <2>3, <3>1, <3>2 DEF Exact
  <2>5. Apart(kept) /\ \A u \in TQ : v0 \notin Vids(kept[u])
    <3>1. Apart(tq)
      BY ApartIsSingle DEF SingleInstance, Single
    <3>2. QED
      BY <2>2, <3>1 DEF Apart
  <2> HIDE DEF room
  <2>6. /\ tq' \in [TQ -> Seq(Entry)]
        /\ remaining' \in [TQ -> Int]
        /\ fifo' \in Seq(Fresh)
        /\ Exact(tq', remaining')
        /\ \A u \in TQ : Vids(kept[u]) \subseteq Vids(tq'[u])
        /\ FifoVids(ovf) \subseteq FifoVids(fifo')
        /\ v0 \in Vids(tq'[t]) \/ v0 \in FifoVids(fifo')
        /\ Apart(tq')
    BY <2>1, <2>4, <2>5, EnqueueProperties
  <2>7. SingleInstance'
    <3>1. Single(tq')
      BY <2>6, ApartIsSingle
    <3>2. QED
      BY <3>1 DEF SingleInstance, Single
  <2>8. \A v \in Vertices : InTQ(v) => InTQ(v)' \/ v = v0
    BY <2>2, <2>6 DEF InTQ
  <2>9. /\ present' \in [Vertices -> BOOLEAN]
        /\ \A v \in Vertices : present'[v] => bits[v] \/ (v = v0 /\ ENTRY_ABORT)
    BY <1>1, <2>1, FlagsAssumption
  <2>10. QED
    BY <2>6, <2>7, <2>8, <2>9 DEF Exact, Occupancy, InTQ
<1>4. QED
  BY <1>2, <1>3

(***************************************************************************)
(* The inductive invariant.                                                *)
(***************************************************************************)

\* A value issued on an edge was once the value of its vertex, and vertices
\* only improve.
SentBound == \A x \in EdgeSet : sent[x] >= scratch[x[1]]

\* A loop that is running has a task to move.
LoopsCanPull ==
  /\ ctl = Filling => CanPull(0)
  /\ \A t \in TQ : ctl = Pulling(t) => CanPull(t)

\* Without ENTRY_ABORT no presence bit is ever set.
BitsUnused == ~ENTRY_ABORT => \A v \in Vertices : ~present[v]

IInv ==
  /\ TypeOK
  /\ Occupancy
  /\ PresentIsQueued
  /\ NoLostUpdate
  /\ SentBound
  /\ LoopsCanPull
  /\ BitsUnused
  /\ ABORT => SingleInstance

\* The inductive invariant holds in the initial states.
LEMMA InitIInv == Init => IInv
<1> SUFFICES ASSUME Init PROVE IInv
  OBVIOUS
<1>1. 0 \in TQ /\ MaxDist \in Dist
  BY SizesAssumption DEF TQ, Dist
<1>2. TypeOK
  BY <1>1, SizesAssumption DEF Init, TypeOK, Idle
<1>3. Occupancy
  BY SizesAssumption DEF Init, Occupancy
<1>4. PresentIsQueued
  BY DEF Init, PresentIsQueued
<1>5. \A x \in EdgeSet : x[1] \in Vertices
  BY DEF EdgeSet
<1>6. NoLostUpdate /\ SentBound
  BY <1>1, <1>5 DEF Init, NoLostUpdate, SentBound, Dist
<1>7. LoopsCanPull /\ BitsUnused
  BY DEF Init, LoopsCanPull, Idle, Filling, Pulling, BitsUnused
<1>8. SingleInstance
  BY DEF Init, SingleInstance
<1>9. QED
  BY <1>2, <1>3, <1>4, <1>6, <1>7, <1>8 DEF IInv

(***************************************************************************)
(* The step.                                                               *)
(***************************************************************************)

\* What NoLostUpdate says of one edge.
Covered(x) ==
  \/ Waiting(x[1])
  \/ \E t \in TQ : /\ pending[t] # NoTask
                   /\ pending[t].vid = x[1]
                   /\ pending[t].off < x[2]

\* Every edge names a vertex and one of its edges.
LEMMA EdgeSetMembers ==
  ASSUME NEW x \in EdgeSet
  PROVE  x[1] \in Vertices /\ x[2] \in 1 .. Degree[x[1]]
  BY DEF EdgeSet

\* A vertex update preserves the inductive invariant.
LEMMA UpdateStep ==
  ASSUME IInv, NEW v \in Vertices, NEW d \in Dist, Update(v, d)
  PROVE  IInv'
<1> DEFINE entry == [prio |-> d, task |-> [vid |-> v, dist |-> d, off |-> 0]]
<1>1. /\ ctl = Idle /\ d < scratch[v]
      /\ scratch' = [scratch EXCEPT ![v] = d]
      /\ agg' = [agg EXCEPT ![aggPushIndex] = Append(@, entry)]
      /\ aggPushIndex' = (aggPushIndex + 1) % NUM_TQ_PER_CORE
      /\ UNCHANGED <<tq, remaining, fifo, present, pending, ctl, sent>>
  BY DEF Update, queueVars
<1>2. TypeOK /\ aggPushIndex \in TQ /\ agg \in [TQ -> Seq(Entry)] /\ scratch \in [Vertices -> Dist]
  BY DEF IInv, TypeOK
<1>3. entry \in Entry /\ entry.task.vid = v
  BY DEF Entry, Fresh
<1> HIDE DEF entry
<1>4. Append(agg[aggPushIndex], entry) \in Seq(Entry)
  BY <1>2, <1>3, AppendProperties
<1>5. aggPushIndex' \in TQ
  BY <1>1, <1>2, SizesAssumption DEF TQ
<1>6. TypeOK'
  BY <1>1, <1>2, <1>4, <1>5 DEF TypeOK, Idle, Filling, Pulling
<1>7. /\ \A u \in TQ : Vids(agg[u]) \subseteq Vids(agg'[u])
      /\ v \in Vids(agg'[aggPushIndex])
  <2>1. Vids(Append(agg[aggPushIndex], entry)) = Vids(agg[aggPushIndex]) \cup {v}
    BY <1>2, <1>3, AppendVids
  <2>2. agg'[aggPushIndex] = Append(agg[aggPushIndex], entry)
    BY <1>1, <1>2
  <2>3. \A u \in TQ : u # aggPushIndex => agg'[u] = agg[u]
    BY <1>1, <1>2
  <2>4. QED
    BY <2>1, <2>2, <2>3
<1>8. InAgg(v)' /\ \A w \in Vertices : Waiting(w) => Waiting(w)'
  BY <1>1, <1>2, <1>7 DEF Waiting, InAgg, InTQ, InFifo
<1>9. NoLostUpdate'
  <2> SUFFICES ASSUME NEW x \in EdgeSet, sent[x] > scratch'[x[1]]
               PROVE  Covered(x)'
    BY <1>1 DEF NoLostUpdate, Covered
  <2>1. x[1] \in Vertices
    BY EdgeSetMembers
  <2>2. CASE x[1] = v
    BY <1>8, <2>2 DEF Covered, Waiting
  <2>3. CASE x[1] # v
    <3>1. sent[x] > scratch[x[1]]
      BY <1>1, <1>2, <2>1, <2>3
    <3>2. Covered(x)
      BY <3>1 DEF IInv, NoLostUpdate, Covered
    <3>3. QED
      BY <1>1, <1>8, <2>1, <3>2 DEF Covered
  <2>4. QED
    BY <2>2, <2>3
<1>10. SentBound'
  <2> SUFFICES ASSUME NEW x \in EdgeSet PROVE sent[x] >= scratch'[x[1]]
    BY <1>1 DEF SentBound
  <2>1. x[1] \in Vertices
    BY EdgeSetMembers
  <2>2. sent[x] >= scratch[x[1]] /\ sent[x] \in Dist
    BY DEF IInv, SentBound, TypeOK
  <2>3. scratch'[x[1]] <= scratch[x[1]] /\ scratch'[x[1]] \in Dist /\ scratch[x[1]] \in Dist
    BY <1>1, <1>2, <2>1 DEF Dist
  <2>4. QED
    BY <2>2, <2>3 DEF Dist
<1>11. Occupancy' /\ PresentIsQueued' /\ LoopsCanPull' /\ BitsUnused'
  BY <1>1, <1>8 DEF IInv, Occupancy, PresentIsQueued, LoopsCanPull, InTQ, InFifo, CanPull,
                    BitsUnused
<1>12. (ABORT => SingleInstance)'
  BY <1>1 DEF IInv, SingleInstance
<1>13. QED
  BY <1>6, <1>9, <1>10, <1>11, <1>12 DEF IInv

\* Both callers of insert_local_task -- one with a new task, one with the task
\* it just took from the overflow queue -- keep every queued vertex queued.
LEMMA InsertKeeps ==
  ASSUME IInv,
         NEW t \in TQ, NEW p \in Dist, NEW task \in Fresh, NEW bits, NEW ovf,
         InsertLocalTask(t, p, task, bits, ovf),
         \/ bits = present /\ ovf = fifo
         \/ /\ fifo # <<>> /\ task.vid = Head(fifo).vid
            /\ bits = [present EXCEPT ![Head(fifo).vid] = FALSE]
            /\ ovf = Tail(fifo)
  PROVE  /\ tq' \in [TQ -> Seq(Entry)]
         /\ remaining' \in [TQ -> Int]
         /\ fifo' \in Seq(Fresh)
         /\ present' \in [Vertices -> BOOLEAN]
         /\ Occupancy'
         /\ PresentIsQueued'
         /\ BitsUnused'
         /\ (ABORT => SingleInstance)'
         /\ \A v \in Vertices : InTQ(v) \/ InFifo(v) => (InTQ(v) \/ InFifo(v))'
         /\ (InTQ(task.vid) \/ InFifo(task.vid))'
<1>1. TypeOK /\ Occupancy /\ PresentIsQueued
  BY DEF IInv
<1>2. fifo \in Seq(Fresh) /\ present \in [Vertices -> BOOLEAN] /\ task.vid \in Vertices
  BY <1>1 DEF TypeOK, Fresh
<1>3. /\ Priority(p) \in Dist
      /\ ABORT => InsertAbort(t, Priority(p), task, bits, ovf)
      /\ ~ABORT => InsertPlain(t, Priority(p), task, bits, ovf)
  BY SizesAssumption DEF Priority, Dist, InsertLocalTask
<1>4. /\ bits \in [Vertices -> BOOLEAN] /\ ovf \in Seq(Fresh)
      /\ \A v \in Vertices : InFifo(v) => v \in FifoVids(ovf) \/ v = task.vid
      /\ \A v \in Vertices : bits[v] => InTQ(v) \/ v \in FifoVids(ovf)
  <2>1. CASE bits = present /\ ovf = fifo
    BY <1>1, <1>2, <2>1 DEF PresentIsQueued, InFifo
  <2>2. CASE /\ fifo # <<>> /\ task.vid = Head(fifo).vid
             /\ bits = [present EXCEPT ![Head(fifo).vid] = FALSE]
             /\ ovf = Tail(fifo)
    <3>1. ovf \in Seq(Fresh) /\ FifoVids(fifo) = FifoVids(ovf) \cup {task.vid}
      BY <1>2, <2>2, TailFifoVids
    <3>2. bits \in [Vertices -> BOOLEAN] /\ ~bits[task.vid]
          /\ \A v \in Vertices : bits[v] => present[v] /\ v # task.vid
      BY <1>2, <2>2
    <3>3. QED
      BY <1>1, <3>1, <3>2 DEF PresentIsQueued, InFifo
  <2>3. QED
    BY <2>1, <2>2
<1>5. /\ tq' \in [TQ -> Seq(Entry)]
      /\ remaining' \in [TQ -> Int]
      /\ fifo' \in Seq(Fresh)
      /\ present' \in [Vertices -> BOOLEAN]
      /\ Occupancy'
      /\ ABORT => SingleInstance'
      /\ \A v \in Vertices : InTQ(v) => InTQ(v)' \/ v = task.vid
      /\ FifoVids(ovf) \subseteq FifoVids(fifo')
      /\ InTQ(task.vid)' \/ task.vid \in FifoVids(fifo')
      /\ \A v \in Vertices : present'[v] => bits[v] \/ (v = task.vid /\ ENTRY_ABORT)
  <2>1. bits[task.vid] => InTQ(task.vid) \/ task.vid \in FifoVids(ovf)
    BY <1>2, <1>4
  <2>2. tq \in [TQ -> Seq(Entry)] /\ remaining \in [TQ -> Int] /\ (ABORT => SingleInstance)
    BY DEF IInv, TypeOK
  <2>3. CASE ABORT
    BY <1>1, <1>3, <1>4, <2>1, <2>2, <2>3, InsertAbortProperties
  <2>4. CASE ~ABORT
    BY <1>1, <1>3, <1>4, <2>1, <2>2, <2>4, InsertPlainProperties
  <2>5. QED
    BY <2>3, <2>4
<1>6. \A v \in Vertices : InTQ(v) \/ InFifo(v) => InTQ(v)' \/ InFifo(v)'
  BY <1>4, <1>5 DEF InFifo
<1>7. InTQ(task.vid)' \/ InFifo(task.vid)'
  BY <1>5 DEF InFifo
<1>8. PresentIsQueued'
  <2> SUFFICES ASSUME NEW v \in Vertices, present'[v] PROVE InTQ(v)' \/ InFifo(v)'
    BY DEF PresentIsQueued
  <2>1. bits[v] \/ v = task.vid
    BY <1>5
  <2>2. QED
    BY <1>4, <1>5, <1>7, <2>1 DEF InFifo
<1>9. BitsUnused'
  <2> SUFFICES ASSUME ~ENTRY_ABORT PROVE \A v \in Vertices : ~present'[v]
    BY DEF BitsUnused
  <2>1. \A v \in Vertices : ~present[v]
    BY DEF IInv, BitsUnused
  <2>2. \A v \in Vertices : ~bits[v]
    BY <1>2, <2>1
  <2>3. QED
    BY <1>5, <2>2
<1>10. QED
  BY <1>5, <1>6, <1>7, <1>8, <1>9

\* A step that touches neither the vertices, nor the pending tasks, nor the
\* issued values keeps every edge covered when it keeps every vertex waiting.
LEMMA WaitingKeepsCover ==
  ASSUME IInv, UNCHANGED <<scratch, pending, sent>>,
         \A v \in Vertices : Waiting(v) => Waiting(v)'
  PROVE  NoLostUpdate' /\ SentBound'
<1>1. SentBound'
  BY DEF IInv, SentBound
<1>2. ASSUME NEW x \in EdgeSet, sent'[x] > scratch'[x[1]] PROVE Covered(x)'
  <2>1. Covered(x)
    BY <1>2 DEF IInv, NoLostUpdate, Covered
  <2>2. x[1] \in Vertices
    BY EdgeSetMembers
  <2>3. QED
    BY <2>1, <2>2 DEF Covered
<1>3. NoLostUpdate'
  BY <1>2 DEF NoLostUpdate, Covered
<1>4. QED
  BY <1>1, <1>3

\* drain_aggregation_buffer preserves the inductive invariant.
LEMMA DrainStep ==
  ASSUME IInv, NEW t \in TQ, Drain(t)
  PROVE  IInv'
<1>0. TypeOK /\ agg \in [TQ -> Seq(Entry)] /\ agg[t] # <<>>
  BY DEF IInv, TypeOK, Drain
<1> PICK e \in Entry : e = Head(agg[t])
  BY <1>0, TailVids
<1>1. /\ ctl = Idle /\ agg[t] # <<>>
      /\ InsertLocalTask(t, e.prio, e.task, present, fifo)
      /\ agg' = [agg EXCEPT ![t] = Tail(@)]
      /\ UNCHANGED <<scratch, aggPushIndex, pending, sent>>
  BY DEF Drain
<1>3. /\ Tail(agg[t]) \in Seq(Entry)
      /\ Vids(agg[t]) = Vids(Tail(agg[t])) \cup {e.task.vid}
  BY <1>0, TailVids
<1>4. e.prio \in Dist /\ e.task \in Fresh
  BY DEF Entry
<1>5. /\ tq' \in [TQ -> Seq(Entry)]
      /\ remaining' \in [TQ -> Int]
      /\ fifo' \in Seq(Fresh)
      /\ present' \in [Vertices -> BOOLEAN]
      /\ Occupancy'
      /\ PresentIsQueued'
      /\ BitsUnused'
      /\ (ABORT => SingleInstance)'
      /\ \A v \in Vertices : InTQ(v) \/ InFifo(v) => (InTQ(v) \/ InFifo(v))'
      /\ (InTQ(e.task.vid) \/ InFifo(e.task.vid))'
  BY <1>1, <1>4, InsertKeeps
<1>6. TypeOK'
  <2>1. ctl' = Idle \/ ctl' = Pulling(t)
    BY DEF Drain
  <2>2. agg' \in [TQ -> Seq(Entry)]
    BY <1>0, <1>1, <1>3
  <2>3. QED
    BY <1>0, <1>1, <1>5, <2>1, <2>2 DEF TypeOK
<1>7. \A v \in Vertices : Waiting(v) => Waiting(v)'
  <2>1. \A v \in Vertices : InAgg(v) => InAgg(v)' \/ v = e.task.vid
    BY <1>1, <1>0, <1>3 DEF InAgg
  <2>2. QED
    BY <1>5, <2>1 DEF Waiting
<1>8. NoLostUpdate' /\ SentBound'
  BY <1>1, <1>7, WaitingKeepsCover
<1>9. LoopsCanPull'
  <2>1. ctl' # Filling
    BY DEF Drain, Idle, Filling, Pulling
  <2>2. ASSUME NEW u \in TQ, ctl' = Pulling(u) PROVE CanPull(u)'
    <3>1. u = t /\ ABORT /\ DroppedByBit(e.task.vid, present) /\ CanPull(t)
      BY <2>2 DEF Drain, Idle, Pulling
    <3>2. fifo' = fifo /\ remaining' = remaining
      BY <1>1, <3>1 DEF InsertLocalTask, InsertAbort
    <3>3. QED
      BY <3>1, <3>2 DEF CanPull
  <2>3. QED
    BY <2>1, <2>2 DEF LoopsCanPull
<1>10. QED
  BY <1>5, <1>6, <1>8, <1>9 DEF IInv

\* An iteration of pull_tasks_from_fifo_to_tq preserves it.
LEMMA PullStep ==
  ASSUME IInv, NEW t \in TQ, Pull(t)
  PROVE  IInv'
<1> DEFINE v0 == Head(fifo).vid
           task == [Head(fifo) EXCEPT !.dist = scratch[v0]]
<1>1. /\ ctl = Pulling(t)
      /\ InsertLocalTask(t, scratch[v0], task, [present EXCEPT ![v0] = FALSE], Tail(fifo))
      /\ ctl' = IF CanPull(t)' THEN ctl ELSE Idle
      /\ UNCHANGED <<scratch, agg, aggPushIndex, pending, sent>>
  BY DEF Pull
<1>2. TypeOK /\ fifo \in Seq(Fresh) /\ scratch \in [Vertices -> Dist]
  BY DEF IInv, TypeOK
<1>3. fifo # <<>>
  BY <1>1 DEF IInv, LoopsCanPull, CanPull
<1>4. Head(fifo) \in Fresh
  BY <1>2, <1>3, TailFifoVids
<1>5. v0 \in Vertices /\ scratch[v0] \in Dist /\ task \in Fresh /\ task.vid = v0
  BY <1>2, <1>4 DEF Fresh
<1> HIDE DEF task
<1>6. /\ tq' \in [TQ -> Seq(Entry)]
      /\ remaining' \in [TQ -> Int]
      /\ fifo' \in Seq(Fresh)
      /\ present' \in [Vertices -> BOOLEAN]
      /\ Occupancy'
      /\ PresentIsQueued'
      /\ BitsUnused'
      /\ (ABORT => SingleInstance)'
      /\ \A v \in Vertices : InTQ(v) \/ InFifo(v) => (InTQ(v) \/ InFifo(v))'
  BY <1>1, <1>3, <1>5, InsertKeeps
<1>7. TypeOK'
  BY <1>1, <1>2, <1>6 DEF TypeOK
<1>8. \A v \in Vertices : Waiting(v) => Waiting(v)'
  BY <1>1, <1>6 DEF Waiting, InAgg
<1>9. NoLostUpdate' /\ SentBound'
  BY <1>1, <1>8, WaitingKeepsCover
<1>10. LoopsCanPull'
  BY <1>1 DEF LoopsCanPull, Idle, Filling, Pulling
<1>11. QED
  BY <1>6, <1>7, <1>9, <1>10 DEF IInv

\* An iteration of fill_task_queue preserves it.
LEMMA FillStep ==
  ASSUME IInv, FillTaskQueue
  PROVE  IInv'
<1> DEFINE task == Head(fifo)
<1>1. /\ CanPull(0)
      /\ InsertLocalTask(aggPushIndex, scratch[task.vid], task,
                         [present EXCEPT ![task.vid] = FALSE], Tail(fifo))
      /\ aggPushIndex' = (aggPushIndex + 1) % NUM_TQ_PER_CORE
      /\ ctl' = IF CanPull(0)' THEN Filling ELSE Idle
      /\ UNCHANGED <<scratch, agg, pending, sent>>
  BY DEF FillTaskQueue
<1>2. TypeOK /\ fifo \in Seq(Fresh) /\ scratch \in [Vertices -> Dist] /\ aggPushIndex \in TQ
  BY DEF IInv, TypeOK
<1>3. fifo # <<>>
  BY <1>1 DEF CanPull
<1>4. task \in Fresh
  BY <1>2, <1>3, TailFifoVids
<1>5. task.vid \in Vertices /\ scratch[task.vid] \in Dist
  BY <1>2, <1>4 DEF Fresh
<1>6. /\ tq' \in [TQ -> Seq(Entry)]
      /\ remaining' \in [TQ -> Int]
      /\ fifo' \in Seq(Fresh)
      /\ present' \in [Vertices -> BOOLEAN]
      /\ Occupancy'
      /\ PresentIsQueued'
      /\ BitsUnused'
      /\ (ABORT => SingleInstance)'
      /\ \A v \in Vertices : InTQ(v) \/ InFifo(v) => (InTQ(v) \/ InFifo(v))'
  BY <1>1, <1>2, <1>3, <1>4, <1>5, InsertKeeps
<1>7. aggPushIndex' \in TQ
  BY <1>1, <1>2, SizesAssumption DEF TQ
<1>8. TypeOK'
  BY <1>1, <1>2, <1>6, <1>7 DEF TypeOK
<1>9. \A v \in Vertices : Waiting(v) => Waiting(v)'
  BY <1>1, <1>6 DEF Waiting, InAgg
<1>10. NoLostUpdate' /\ SentBound'
  BY <1>1, <1>9, WaitingKeepsCover
<1>11. LoopsCanPull'
  BY <1>1 DEF LoopsCanPull, Idle, Filling, Pulling
<1>12. QED
  BY <1>6, <1>8, <1>10, <1>11 DEF IInv

\* Issuing a burst of a task -- the pending one, or a fresh one off the queue --
\* settles the edges it issues and leaves the others to the pending slot.
LEMMA IssueKeepsCover ==
  ASSUME IInv, NEW t \in TQ, NEW task \in Task, NEW n \in Burst(task), Issue(task, n),
         pending' = [pending EXCEPT ![t] = Rest(task, n)],
         scratch' = scratch,
         pending[t] = NoTask \/ pending[t] = task,
         \A v \in Vertices : Waiting(v) => Waiting(v)' \/ (v = task.vid /\ task.off = 0)
  PROVE  /\ pending' \in [TQ -> Task \cup {NoTask}]
         /\ sent' \in [EdgeSet -> Dist]
         /\ NoLostUpdate'
         /\ SentBound'
<1>1. /\ pending \in [TQ -> Task \cup {NoTask}]
      /\ sent \in [EdgeSet -> Dist]
      /\ scratch \in [Vertices -> Dist]
      /\ SentBound
  BY DEF IInv, TypeOK
<1>2. task.vid \in Vertices /\ task.off \in Nat /\ Degree[task.vid] \in Nat
  BY DegreeAssumption DEF Task
<1>3. n \in Nat /\ task.off + n <= Degree[task.vid]
  BY <1>2 DEF Burst
<1>4. Rest(task, n) \in Task \cup {NoTask}
  <2>1. [task EXCEPT !.off = @ + n] \in Task
    BY <1>2, <1>3 DEF Task
  <2>2. QED
    BY <2>1 DEF Rest
<1>5. pending' \in [TQ -> Task \cup {NoTask}] /\ pending'[t] = Rest(task, n)
  BY <1>1, <1>4
<1> DEFINE issued(x) == x[1] = task.vid /\ x[2] \in task.off + 1 .. task.off + n
<1>6. \A x \in EdgeSet : sent'[x] = IF issued(x) THEN scratch[x[1]] ELSE sent[x]
  BY DEF Issue
<1>7. sent' \in [EdgeSet -> Dist]
  <2>1. \A x \in EdgeSet : x[1] \in Vertices
    BY EdgeSetMembers
  <2>2. QED
    BY <1>1, <2>1 DEF Issue
<1>8. SentBound'
  <2> SUFFICES ASSUME NEW x \in EdgeSet PROVE sent'[x] >= scratch[x[1]]
    BY DEF SentBound
  <2>1. scratch[x[1]] \in Dist /\ sent[x] >= scratch[x[1]]
    BY <1>1, EdgeSetMembers DEF SentBound
  <2>2. QED
    BY <1>6, <2>1 DEF Dist
<1>9. ASSUME NEW x \in EdgeSet, x[1] = task.vid, x[2] > task.off, ~issued(x)
      PROVE  Covered(x)'
  <2>1. x[2] \in Nat /\ x[2] <= Degree[task.vid] /\ x[2] > task.off + n
    BY <1>2, <1>3, <1>9, EdgeSetMembers
  <2>2. Rest(task, n) = [task EXCEPT !.off = @ + n]
    BY <1>2, <1>3, <2>1 DEF Rest
  <2>3. Rest(task, n) \in Task /\ Rest(task, n).vid = x[1] /\ Rest(task, n).off = task.off + n
    BY <1>2, <1>3, <1>9, <2>2 DEF Task
  <2>4. /\ pending'[t] # NoTask /\ pending'[t].vid = x[1] /\ pending'[t].off < x[2]
    BY <1>2, <1>3, <1>5, <2>1, <2>3, NoTaskAssumption
  <2>5. QED
    BY <2>4 DEF Covered
<1>10. ASSUME NEW x \in EdgeSet, sent'[x] > scratch[x[1]] PROVE Covered(x)'
  <2>1. scratch[x[1]] \in Dist
    BY <1>1, EdgeSetMembers
  <2>2. ~issued(x) /\ sent[x] > scratch[x[1]]
    BY <1>6, <1>10, <2>1 DEF Dist
  <2>3. Covered(x)
    BY <2>2 DEF IInv, NoLostUpdate, Covered
  <2>4. x[1] \in Vertices /\ x[2] > 0
    BY EdgeSetMembers, DegreeAssumption
  <2>5. CASE Waiting(x[1])
    <3>1. Waiting(x[1])' \/ (x[1] = task.vid /\ task.off = 0)
      BY <2>4, <2>5
    <3>2. QED
      BY <1>9, <2>2, <2>4, <3>1 DEF Covered
  <2>6. ASSUME NEW u \in TQ, pending[u] # NoTask, pending[u].vid = x[1], pending[u].off < x[2]
        PROVE  Covered(x)'
    <3>1. CASE u = t
      <4>1. task.vid = x[1] /\ task.off < x[2]
        BY <2>6, <3>1
      <4>2. QED
        BY <1>2, <1>9, <2>2, <4>1, EdgeSetMembers
    <3>2. CASE u # t
      <4>1. pending'[u] = pending[u]
        BY <1>1, <3>2
      <4>2. QED
        BY <2>6, <4>1 DEF Covered
    <3>3. QED
      BY <3>1, <3>2
  <2>7. QED
    BY <2>3, <2>5, <2>6 DEF Covered
<1>11. NoLostUpdate'
  BY <1>10 DEF NoLostUpdate, Covered
<1>12. QED
  BY <1>5, <1>7, <1>8, <1>11

\* Continuing the pending task of a queue preserves it.
LEMMA DispatchPendingStep ==
  ASSUME IInv, NEW t \in TQ, DispatchPending(t)
  PROVE  IInv'
<1>1. /\ ctl = Idle /\ pending[t] # NoTask
      /\ UNCHANGED <<scratch, agg, aggPushIndex, tq, remaining, fifo, ctl>>
  BY DEF DispatchPending
<1>2. TypeOK /\ pending[t] \in Task
  BY <1>1 DEF IInv, TypeOK
<1> PICK task \in Task : task = pending[t]
  BY <1>2
<1>3. PICK n \in Burst(task) : Issue(task, n) /\ pending' = [pending EXCEPT ![t] = Rest(task, n)]
  BY <1>2 DEF DispatchPending, TypeOK
<1>4. \A v \in Vertices : Waiting(v) => Waiting(v)'
  BY <1>1 DEF Waiting, InAgg, InTQ, InFifo
<1>5. /\ pending' \in [TQ -> Task \cup {NoTask}]
      /\ sent' \in [EdgeSet -> Dist]
      /\ NoLostUpdate'
      /\ SentBound'
  BY <1>1, <1>3, <1>4, IssueKeepsCover
<1>6. /\ present' \in [Vertices -> BOOLEAN]
      /\ \A v \in Vertices : present'[v] => present[v]
  BY <1>2, <1>3 DEF TypeOK, Issue
<1>7. TypeOK' /\ Occupancy' /\ LoopsCanPull'
  BY <1>1, <1>5, <1>6 DEF IInv, TypeOK, Occupancy, LoopsCanPull, Idle, Filling, Pulling
<1>8. PresentIsQueued' /\ BitsUnused'
  BY <1>1, <1>6 DEF IInv, PresentIsQueued, BitsUnused, InTQ, InFifo
<1>9. (ABORT => SingleInstance)'
  BY <1>1 DEF IInv, SingleInstance
<1>10. QED
  BY <1>5, <1>7, <1>8, <1>9 DEF IInv

\* Dispatching the front task of a queue preserves it.
LEMMA DispatchFrontStep ==
  ASSUME IInv, NEW t \in TQ, DispatchFront(t)
  PROVE  IInv'
<1>1. /\ ctl = Idle /\ pending[t] = NoTask /\ tq[t] # <<>>
      /\ tq' = [tq EXCEPT ![t] = Tail(@)]
      /\ remaining' = [remaining EXCEPT ![t] = @ + 1]
      /\ ctl' = IF fifo # <<>> /\ remaining[t] + 1 > HIGH_PRIO_RESERVE
                THEN Pulling(t) ELSE Idle
      /\ UNCHANGED <<scratch, agg, aggPushIndex, fifo>>
  BY DEF DispatchFront
<1>2. TypeOK /\ tq \in [TQ -> Seq(Entry)] /\ remaining \in [TQ -> Int]
  BY DEF IInv, TypeOK
<1>3. /\ Head(tq[t]) \in Entry
      /\ Tail(tq[t]) \in Seq(Entry) /\ Len(Tail(tq[t])) = Len(tq[t]) - 1
      /\ Vids(tq[t]) = Vids(Tail(tq[t])) \cup {Head(tq[t]).task.vid}
  BY <1>1, <1>2, TailVids
<1>4. Head(tq[t]).task \in Task /\ Head(tq[t]).task.off = 0
  BY <1>3 DEF Entry, Fresh, Task
<1> PICK task \in Task : task = Head(tq[t]).task
  BY <1>4
<1>5. PICK n \in Burst(task) : Issue(task, n) /\ pending' = [pending EXCEPT ![t] = Rest(task, n)]
  BY DEF DispatchFront
<1>6. task.vid \in Vertices /\ \A v \in Vertices : InTQ(v) => InTQ(v)' \/ v = task.vid
  BY <1>1, <1>2, <1>3 DEF InTQ, Task
<1>7. \A v \in Vertices : Waiting(v) => Waiting(v)' \/ (v = task.vid /\ task.off = 0)
  BY <1>1, <1>4, <1>6 DEF Waiting, InAgg, InFifo
<1>8. /\ pending' \in [TQ -> Task \cup {NoTask}]
      /\ sent' \in [EdgeSet -> Dist]
      /\ NoLostUpdate'
      /\ SentBound'
  BY <1>1, <1>5, <1>7, IssueKeepsCover
<1>9. /\ present' \in [Vertices -> BOOLEAN]
      /\ \A v \in Vertices : present'[v] => present[v]
      /\ ENTRY_ABORT => ~present'[task.vid]
  BY <1>2, <1>5, <1>6 DEF TypeOK, Issue
<1>10. TypeOK'
  <2>1. /\ tq' \in [TQ -> Seq(Entry)] /\ remaining' \in [TQ -> Int]
        /\ ctl' \in {Idle, Filling} \cup {Pulling(u) : u \in TQ}
    BY <1>1, <1>2, <1>3
  <2>2. QED
    BY <1>1, <1>2, <1>8, <1>9, <2>1 DEF TypeOK
<1>11. Occupancy'
  <2> SUFFICES ASSUME NEW u \in TQ
               PROVE  remaining'[u] + Len(tq'[u]) = TASK_QUEUE_SIZE /\ remaining'[u] >= 0
    BY DEF Occupancy
  <2>1. remaining[u] + Len(tq[u]) = TASK_QUEUE_SIZE /\ remaining[u] >= 0
    BY DEF IInv, Occupancy
  <2>2. Len(tq[u]) \in Nat /\ remaining[u] \in Int /\ TASK_QUEUE_SIZE \in Nat
    BY <1>2, LenProperties, SizesAssumption
  <2>3. CASE u = t
    <3>1. remaining'[u] = remaining[u] + 1 /\ Len(tq'[u]) = Len(tq[u]) - 1
      BY <1>1, <1>2, <1>3, <2>3
    <3>2. /\ (remaining[u] + 1) + (Len(tq[u]) - 1) = TASK_QUEUE_SIZE
          /\ remaining[u] + 1 >= 0
      BY <2>1, <2>2, OneEntryLess
    <3>3. QED
      BY <3>1, <3>2
  <2>4. CASE u # t
    <3>1. remaining'[u] = remaining[u] /\ tq'[u] = tq[u]
      BY <1>1, <1>2, <2>4
    <3>2. QED
      BY <2>1, <3>1
  <2>5. QED
    BY <2>3, <2>4
<1>12. PresentIsQueued' /\ BitsUnused'
  <2>1. BitsUnused'
    BY <1>9 DEF IInv, BitsUnused
  <2>2. ASSUME NEW v \in Vertices, present'[v] PROVE InTQ(v)' \/ InFifo(v)'
    <3>1. present[v] /\ (InTQ(v) \/ InFifo(v))
      BY <1>9, <2>2 DEF IInv, PresentIsQueued
    <3>2. v # task.vid
      BY <1>9, <2>2, <3>1 DEF IInv, BitsUnused
    <3>3. QED
      BY <1>1, <1>6, <3>1, <3>2 DEF InFifo
  <2>3. QED
    BY <2>1, <2>2 DEF PresentIsQueued
<1>13. LoopsCanPull'
  <2>1. ctl' # Filling
    BY <1>1 DEF Idle, Filling, Pulling
  <2>2. ASSUME NEW u \in TQ, ctl' = Pulling(u) PROVE CanPull(u)'
    <3>1. u = t /\ fifo # <<>> /\ remaining[t] + 1 > HIGH_PRIO_RESERVE
      BY <1>1, <2>2 DEF Idle, Pulling
    <3>2. remaining'[t] = remaining[t] + 1 /\ fifo' = fifo
      BY <1>1, <1>2
    <3>3. QED
      BY <3>1, <3>2 DEF CanPull
  <2>3. QED
    BY <2>1, <2>2 DEF LoopsCanPull
<1>14. ASSUME ABORT PROVE SingleInstance'
  <2> DEFINE r == Tail(tq[t])
  <2>1. Apart(tq)
    BY <1>14, ApartIsSingle DEF IInv, SingleInstance, Single
  <2>2. Vids(r) \subseteq Vids(tq[t]) /\ Distinct(r)
    BY <1>1, <1>2, <1>3, <2>1, TailVids DEF Apart
  <2> HIDE DEF r
  <2>3. \A u \in TQ : tq'[u] = IF u = t THEN r ELSE tq[u]
    BY <1>1, <1>2 DEF r
  <2>4. \A u \in TQ : Vids(tq'[u]) \subseteq Vids(tq[u]) /\ Distinct(tq'[u])
    BY <2>1, <2>2, <2>3 DEF Apart
  <2>5. Apart(tq')
    BY <2>1, <2>4 DEF Apart
  <2>6. Single(tq')
    BY <2>5, ApartIsSingle
  <2>7. QED
    BY <2>6 DEF SingleInstance, Single
<1>15. QED
  BY <1>8, <1>10, <1>11, <1>12, <1>13, <1>14 DEF IInv

(***************************************************************************)
(* The theorems.                                                           *)
(***************************************************************************)

\* Every step preserves the inductive invariant.
LEMMA NextIInv ==
  ASSUME IInv, [Next]_vars
  PROVE  IInv'
<1>1. CASE \E v \in Vertices, d \in Dist : Update(v, d)
  BY <1>1, UpdateStep
<1>2. ASSUME NEW t \in TQ, Drain(t) PROVE IInv'
  BY <1>2, DrainStep
<1>3. ASSUME NEW t \in TQ, Pull(t) PROVE IInv'
  BY <1>3, PullStep
<1>4. ASSUME NEW t \in TQ, Dispatch(t) PROVE IInv'
  BY <1>4, DispatchPendingStep, DispatchFrontStep DEF Dispatch
<1>5. CASE FillTaskQueue
  BY <1>5, FillStep
<1>6. CASE UNCHANGED vars
  <2>1. TypeOK' /\ Occupancy' /\ PresentIsQueued'
    BY <1>6 DEF vars, queueVars, IInv, TypeOK, Occupancy, PresentIsQueued, InTQ, InFifo
  <2>2. NoLostUpdate'
    BY <1>6 DEF vars, queueVars, IInv, NoLostUpdate, Waiting, InAgg, InTQ, InFifo
  <2>3. SentBound' /\ LoopsCanPull' /\ BitsUnused'
    BY <1>6 DEF vars, queueVars, IInv, SentBound, LoopsCanPull, CanPull, BitsUnused
  <2>4. (ABORT => SingleInstance)'
    BY <1>6 DEF vars, queueVars, IInv, SingleInstance
  <2>5. QED
    BY <2>1, <2>2, <2>3, <2>4 DEF IInv
<1>7. QED
  BY <1>1, <1>2, <1>3, <1>4, <1>5, <1>6 DEF Next

\* The inductive invariant holds throughout, in every build.
THEOREM Invariance ==
  Spec => []IInv
<1>1. Init => IInv
  BY InitIInv
<1>2. IInv /\ [Next]_vars => IInv'
  BY NextIInv
<1>3. QED
  BY <1>1, <1>2, PTL DEF Spec

\* Types, for every graph and every queue size (insert_local_task, dispatch,
\* fill_task_queue and the aggregation buffer of asic_core).
THEOREM TypeCorrect ==
  Spec => []TypeOK
<1>1. IInv => TypeOK
  BY DEF IInv
<1>2. QED
  BY <1>1, Invariance, PTL

\* _remaining_task_entries counts the free entries of every queue exactly and
\* never goes below zero.
THEOREM CounterExact ==
  Spec => []Occupancy
<1>1. IInv => Occupancy
  BY DEF IInv
<1>2. QED
  BY <1>1, Invariance, PTL

\* A set bit of _present_in_local_queue belongs to a vertex that is queued, so
\* the task that insert_local_task drops for it is not needed.
THEOREM BitsNeverStale ==
  Spec => []PresentIsQueued
<1>1. IInv => PresentIsQueued
  BY DEF IInv
<1>2. QED
  BY <1>1, Invariance, PTL

\* No improvement of a vertex is lost between create_async_task and the edges
\* dispatch issues: not by a presence bit, a spill, a pull or a split burst.
THEOREM UpdatesAreKept ==
  Spec => []NoLostUpdate
<1>1. IInv => NoLostUpdate
  BY DEF IInv
<1>2. QED
  BY <1>1, Invariance, PTL

\* With ABORT the hardware queues of a core hold a vertex once: the scan of
\* insert_local_task may stop at the entry it erases (asic.cpp:8209).
THEOREM OneEntryPerVertex ==
  ASSUME ABORT
  PROVE  Spec => []SingleInstance
<1>1. IInv => SingleInstance
  BY DEF IInv
<1>2. QED
  BY <1>1, Invariance, PTL

\* The edges that owe a value: what Service substitutes for its variable.
Owed == {x \in EdgeSet : sent[x] > scratch[x[1]]}

\* Steps that keep vertices and issued values keep the debt.
LEMMA IssueSettles ==
  ASSUME TypeOK, NEW task \in Task, NEW n \in Burst(task), Issue(task, n), scratch' = scratch
  PROVE  \E X \in SUBSET EdgeSet : Owed' = Owed \ X
<1> DEFINE X == {x \in EdgeSet : x[1] = task.vid /\ x[2] \in task.off + 1 .. task.off + n}
<1>1. \A x \in EdgeSet : sent'[x] = IF x \in X THEN scratch[x[1]] ELSE sent[x]
  BY DEF Issue
<1>2. \A x \in EdgeSet : scratch[x[1]] \in Int
  BY EdgeSetMembers, SizesAssumption DEF TypeOK, Dist
<1>3. Owed' = Owed \ X
  BY <1>1, <1>2 DEF Owed
<1>4. QED
  BY <1>3

\* The safety part of the service holds: an improved vertex makes all its
\* edges owe the new value, and only issuing an edge settles it.
THEOREM ImplementsService ==
  Spec => Service!Safety
<1>1. Init => Service!Init
  <2> SUFFICES ASSUME Init PROVE {x \in EdgeSet : sent[x] > scratch[x[1]]} = {}
    BY DEF Service!Init
  <2>1. \A x \in EdgeSet : sent[x] = MaxDist /\ scratch[x[1]] = MaxDist
    BY EdgeSetMembers DEF Init
  <2>2. QED
    BY <2>1, SizesAssumption
<1>2. ASSUME IInv, [Next]_vars PROVE [Service!Next]_Owed
  <2>1. ASSUME NEW v \in Vertices, NEW d \in Dist, Update(v, d)
        PROVE  Service!Next
    <3>1. sent' = sent /\ scratch' = [scratch EXCEPT ![v] = d] /\ d < scratch[v]
      BY <2>1 DEF Update
    <3>2. /\ scratch \in [Vertices -> Dist] /\ sent \in [EdgeSet -> Dist]
          /\ \A x \in EdgeSet : sent[x] >= scratch[x[1]]
      BY <1>2 DEF IInv, TypeOK, SentBound
    <3>3. ASSUME NEW x \in EdgeSet
          PROVE  sent'[x] > scratch'[x[1]] <=> sent[x] > scratch[x[1]] \/ x[1] = v
      <4>1. x[1] \in Vertices /\ sent[x] \in Int /\ scratch[x[1]] \in Int /\ d \in Int
        BY <3>2, EdgeSetMembers, SizesAssumption DEF Dist
      <4>2. sent[x] >= scratch[x[1]]
        BY <3>2
      <4>3. CASE x[1] = v
        <5>1. scratch'[x[1]] = d /\ d < scratch[x[1]]
          BY <3>1, <3>2, <4>1, <4>3
        <5>2. sent[x] > d
          BY <4>1, <4>2, <5>1
        <5>3. QED
          BY <3>1, <4>3, <5>1, <5>2
      <4>4. CASE x[1] # v
        <5>1. scratch'[x[1]] = scratch[x[1]]
          BY <3>1, <3>2, <4>1, <4>4
        <5>2. QED
          BY <3>1, <4>4, <5>1
      <4>5. QED
        BY <4>3, <4>4
    <3>4. Owed' = Owed \cup {x \in EdgeSet : x[1] = v}
      BY <3>3 DEF Owed
    <3>5. QED
      BY <3>4 DEF Service!Next, Service!Improve, Owed
  <2>2. ASSUME NEW t \in TQ, Dispatch(t) PROVE Service!Next
    <3>1. TypeOK
      BY <1>2 DEF IInv
    <3>2. \E task \in Task : \E n \in Burst(task) : Issue(task, n) /\ scratch' = scratch
      <4>1. CASE DispatchPending(t)
        BY <3>1, <4>1 DEF DispatchPending, TypeOK
      <4>2. CASE DispatchFront(t)
        <5>1. Head(tq[t]) \in Entry
          BY <3>1, <4>2, TailVids DEF TypeOK, DispatchFront
        <5>2. Head(tq[t]).task \in Task
          BY <5>1 DEF Entry, Fresh, Task
        <5>3. QED
          BY <4>2, <5>2 DEF DispatchFront
      <4>3. QED
        BY <2>2, <4>1, <4>2 DEF Dispatch
    <3>3. \E X \in SUBSET EdgeSet : Owed' = Owed \ X
      BY <3>1, <3>2, IssueSettles
    <3>4. QED
      BY <3>3 DEF Service!Next, Service!IssueBurst, Owed
  <2>3. ASSUME UNCHANGED <<scratch, sent>> PROVE UNCHANGED Owed
    BY <2>3 DEF Owed
  <2>4. CASE UNCHANGED vars
    BY <2>3, <2>4 DEF vars
  <2>5. ASSUME NEW t \in TQ, Drain(t) \/ Pull(t) \/ FillTaskQueue PROVE UNCHANGED Owed
    BY <2>3, <2>5 DEF Drain, Pull, FillTaskQueue
  <2>6. 0 \in TQ
    BY SizesAssumption DEF TQ
  <2>7. QED
    BY <1>2, <2>1, <2>2, <2>4, <2>5, <2>6 DEF Next
<1>3. QED
  BY <1>1, <1>2, Invariance, PTL DEF Spec, Service!Safety, Owed
=============================================================================
