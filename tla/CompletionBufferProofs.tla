------------------------ MODULE CompletionBufferProofs ------------------------
(***************************************************************************)
(* Proofs about CompletionBuffer for every number of cores and lines and   *)
(* every size of the ring and of the queues.                               *)
(***************************************************************************)
EXTENDS CompletionBuffer, Numbers, TLAPS, FiniteSetTheorems, SequenceTheorems

(***************************************************************************)
(* The inductive invariant.                                                *)
(***************************************************************************)

TypeOK ==
  /\ build \in Builds
  /\ push \in [Cores -> Slots]
  /\ pop \in [Cores -> Slots]
  /\ remaining \in [Cores -> 1 .. COMPLETION_BUFFER_SIZE]
  /\ valid \in [Cores -> [Slots -> BOOLEAN]]
  /\ waiting \in [Cores -> [Slots -> Int]]
  /\ tuple \in [Cores -> [Slots -> Tuples]]
  /\ outstanding \in SUBSET Request
  /\ IsFiniteSet(outstanding)
  /\ cached \in SUBSET Lines
  /\ prefLsq \in [Cores -> Seq(Tuples)]
  /\ lsq \in [Cores -> Seq(Tuples)]
  /\ burst \in Cores \cup {NoCore}
  /\ issued \in [Cores -> Seq(Edges)]
  /\ out \in [Cores -> Tuples]

\* An entry between the pointers waits for the requests that are outstanding
\* for it, and is valid when there are none; any other is not valid and nobody
\* asked for it.
EntryExact(c, i) ==
  IF i \in InUse(c)
  THEN /\ waiting[c][i] = Cardinality(For(outstanding, c, i))
       /\ valid[c][i] <=> waiting[c][i] = 0
  ELSE ~valid[c][i] /\ For(outstanding, c, i) = {}

IInv ==
  /\ TypeOK
  /\ \A c \in Cores : push[c] = Plus(pop[c], Used(c))
  /\ \A c \in Cores, i \in Slots : EntryExact(c, i)

\* A hit in the L2 does not count for the entry of a source vertex: with both
\* options some entries never become valid.
CountsHits(b) == ~(b.sync /\ b.edgeCache)

LEMMA InvImplies == IInv => RingExact /\ WaitingExact
<1> SUFFICES ASSUME IInv PROVE RingExact /\ WaitingExact
  OBVIOUS
<1>1. \A c \in Cores : InUse(c) \subseteq Slots
  <2>1. \A n \in Int : n % COMPLETION_BUFFER_SIZE \in Slots
    BY SizesAssumption DEF Slots
  <2>2. ASSUME NEW c \in Cores, NEW k \in 0 .. Used(c) - 1
        PROVE  Plus(pop[c], k) \in Slots
    <3>1. pop[c] + k \in Int
      BY DEF IInv, TypeOK, Slots
    <3>2. QED
      BY <2>1, <3>1 DEF Plus
  <2>3. QED
    BY <2>2 DEF InUse
<1>2. RingExact
  BY DEF IInv, TypeOK, RingExact, EntryExact
<1>3. WaitingExact
  BY <1>1 DEF IInv, WaitingExact, EntryExact
<1>4. QED
  BY <1>2, <1>3

(***************************************************************************)
(* The ring.                                                               *)
(***************************************************************************)

LEMMA PlusIs ==
  \A p \in Slots, n \in 0 .. COMPLETION_BUFFER_SIZE :
    /\ Plus(p, n) \in Slots
    /\ Plus(p, n) = IF p + n < COMPLETION_BUFFER_SIZE THEN p + n
                    ELSE p + n - COMPLETION_BUFFER_SIZE
<1> SUFFICES ASSUME NEW p \in Slots, NEW n \in 0 .. COMPLETION_BUFFER_SIZE
             PROVE  /\ Plus(p, n) \in Slots
                    /\ Plus(p, n) = IF p + n < COMPLETION_BUFFER_SIZE THEN p + n
                                    ELSE p + n - COMPLETION_BUFFER_SIZE
  OBVIOUS
<1>1. COMPLETION_BUFFER_SIZE \in Nat \ {0}
  BY SizesAssumption
<1>2. PICK a \in 0 .. 2 * COMPLETION_BUFFER_SIZE - 1 : a = p + n
  BY <1>1 DEF Slots
<1>3. Plus(p, n) = a % COMPLETION_BUFFER_SIZE
  BY <1>2 DEF Plus
<1>4. a % COMPLETION_BUFFER_SIZE =
        IF a < COMPLETION_BUFFER_SIZE THEN a ELSE a - COMPLETION_BUFFER_SIZE
  BY <1>1, RingStep
<1>5. Plus(p, n) = IF p + n < COMPLETION_BUFFER_SIZE THEN p + n
                   ELSE p + n - COMPLETION_BUFFER_SIZE
  BY <1>1, <1>2, <1>3, <1>4 DEF Slots
<1>6. QED
  BY <1>1, <1>2, <1>5 DEF Slots

\* u entries from p on.
Span(p, u) == {Plus(p, k) : k \in 0 .. u - 1}

LEMMA InUseIsSpan == \A c : InUse(c) = Span(pop[c], COMPLETION_BUFFER_SIZE - remaining[c])
BY DEF InUse, Used, Span

LEMMA SpanHas ==
  \A p \in Slots, u \in 0 .. COMPLETION_BUFFER_SIZE, k \in 0 .. COMPLETION_BUFFER_SIZE - 1 :
    Plus(p, k) \in Span(p, u) <=> k < u
<1> SUFFICES ASSUME NEW p \in Slots, NEW u \in 0 .. COMPLETION_BUFFER_SIZE,
                    NEW k \in 0 .. COMPLETION_BUFFER_SIZE - 1
             PROVE  Plus(p, k) \in Span(p, u) <=> k < u
  OBVIOUS
<1>1. COMPLETION_BUFFER_SIZE \in Nat \ {0}
  BY SizesAssumption
<1>2. ASSUME k < u PROVE Plus(p, k) \in Span(p, u)
  BY <1>2 DEF Span
<1>3. ASSUME NEW j \in 0 .. u - 1, Plus(p, k) = Plus(p, j) PROVE k < u
  <2>1. k \in 0 .. COMPLETION_BUFFER_SIZE /\ j \in 0 .. COMPLETION_BUFFER_SIZE /\ p \in Int
    BY <1>1 DEF Slots
  <2>2. /\ Plus(p, k) = IF p + k < COMPLETION_BUFFER_SIZE THEN p + k
                        ELSE p + k - COMPLETION_BUFFER_SIZE
        /\ Plus(p, j) = IF p + j < COMPLETION_BUFFER_SIZE THEN p + j
                        ELSE p + j - COMPLETION_BUFFER_SIZE
    BY <2>1, PlusIs
  <2>3. k = j
    <3> DEFINE N == COMPLETION_BUFFER_SIZE
    <3>1. N \in Nat /\ p \in 0 .. N - 1 /\ k \in 0 .. N - 1 /\ j \in 0 .. N - 1
      BY <1>1 DEF Slots
    <3>2. (IF p + k < N THEN p + k ELSE p + k - N) = IF p + j < N THEN p + j ELSE p + j - N
      BY <1>3, <2>2
    <3> HIDE DEF N
    <3>3. QED
      BY <3>1, <3>2
  <2>4. QED
    BY <2>3
<1>4. QED
  BY <1>2, <1>3 DEF Span

LEMMA PlusPlus ==
  \A p \in Slots, a \in 0 .. COMPLETION_BUFFER_SIZE, b \in 0 .. COMPLETION_BUFFER_SIZE :
    a + b <= COMPLETION_BUFFER_SIZE => Plus(Plus(p, a), b) = Plus(p, a + b)
<1> SUFFICES ASSUME NEW p \in Slots, NEW a \in 0 .. COMPLETION_BUFFER_SIZE,
                    NEW b \in 0 .. COMPLETION_BUFFER_SIZE,
                    a + b <= COMPLETION_BUFFER_SIZE
             PROVE  Plus(Plus(p, a), b) = Plus(p, a + b)
  OBVIOUS
<1> DEFINE N == COMPLETION_BUFFER_SIZE
           q == Plus(p, a)
<1>1. N \in Nat \ {0} /\ p \in 0 .. N - 1
  BY SizesAssumption DEF Slots
<1>2. q \in 0 .. N - 1 /\ q = IF p + a < N THEN p + a ELSE p + a - N
  BY PlusIs DEF Slots
<1>3. Plus(q, b) = IF q + b < N THEN q + b ELSE q + b - N
  BY <1>2, PlusIs DEF Slots
<1>4. Plus(p, a + b) = IF p + (a + b) < N THEN p + (a + b) ELSE p + (a + b) - N
  <2>1. a + b \in 0 .. N
    BY <1>1
  <2>2. QED
    BY <2>1, PlusIs
<1> HIDE DEF q, N
<1>5. a \in 0 .. N /\ b \in 0 .. N /\ a + b <= N
  BY DEF N
<1>6. Plus(q, b) = Plus(p, a + b)
  BY <1>1, <1>2, <1>3, <1>4, <1>5
<1>7. QED
  BY <1>6 DEF q

LEMMA SpanGrows ==
  \A p \in Slots, u \in 0 .. COMPLETION_BUFFER_SIZE - 1 :
    /\ Plus(p, u) \in Slots
    /\ Span(p, u + 1) = Span(p, u) \cup {Plus(p, u)}
    /\ Plus(p, u) \notin Span(p, u)
<1> SUFFICES ASSUME NEW p \in Slots, NEW u \in 0 .. COMPLETION_BUFFER_SIZE - 1
             PROVE  /\ Plus(p, u) \in Slots
                    /\ Span(p, u + 1) = Span(p, u) \cup {Plus(p, u)}
                    /\ Plus(p, u) \notin Span(p, u)
  OBVIOUS
<1>1. COMPLETION_BUFFER_SIZE \in Nat \ {0} /\ u \in 0 .. COMPLETION_BUFFER_SIZE /\ ~(u < u)
  BY SizesAssumption
<1>2. Plus(p, u) \notin Span(p, u)
  BY <1>1, SpanHas
<1>3. 0 .. (u + 1) - 1 = (0 .. u - 1) \cup {u}
  BY <1>1
<1>4. Span(p, u + 1) = Span(p, u) \cup {Plus(p, u)}
  BY <1>3 DEF Span
<1>5. QED
  BY <1>1, <1>2, <1>4, PlusIs

LEMMA SpanShrinks ==
  \A p \in Slots, u \in 0 .. COMPLETION_BUFFER_SIZE, n \in 0 .. COMPLETION_BUFFER_SIZE :
    n <= u => /\ Span(p, n) \subseteq Span(p, u)
              /\ Span(Plus(p, n), u - n) = Span(p, u) \ Span(p, n)
<1> SUFFICES ASSUME NEW p \in Slots, NEW u \in 0 .. COMPLETION_BUFFER_SIZE,
                    NEW n \in 0 .. COMPLETION_BUFFER_SIZE, n <= u
             PROVE  /\ Span(p, n) \subseteq Span(p, u)
                    /\ Span(Plus(p, n), u - n) = Span(p, u) \ Span(p, n)
  OBVIOUS
<1>1. COMPLETION_BUFFER_SIZE \in Nat \ {0}
  BY SizesAssumption
<1>2. Span(p, n) \subseteq Span(p, u)
  BY DEF Span
<1>3. \A k \in 0 .. (u - n) - 1 : /\ Plus(Plus(p, n), k) = Plus(p, n + k)
                                  /\ n + k \in 0 .. u - 1 /\ n + k \in 0 .. COMPLETION_BUFFER_SIZE - 1
                                  /\ ~(n + k < n)
  BY <1>1, PlusPlus
<1>4. ASSUME NEW i \in Span(Plus(p, n), u - n) PROVE i \in Span(p, u) \ Span(p, n)
  <2>1. PICK k \in 0 .. (u - n) - 1 : i = Plus(Plus(p, n), k)
    BY DEF Span
  <2>2. i = Plus(p, n + k) /\ i \in Span(p, u)
    BY <1>3, <2>1 DEF Span
  <2>3. i \notin Span(p, n)
    BY <1>3, <2>2, SpanHas
  <2>4. QED
    BY <2>2, <2>3
<1>5. ASSUME NEW i \in Span(p, u), i \notin Span(p, n) PROVE i \in Span(Plus(p, n), u - n)
  <2>1. PICK k \in 0 .. u - 1 : i = Plus(p, k)
    BY DEF Span
  <2>2. ~(k \in 0 .. n - 1)
    BY <1>5, <2>1 DEF Span
  <2>3. k - n \in 0 .. (u - n) - 1 /\ n + (k - n) = k
    BY <2>1, <2>2
  <2>4. i = Plus(Plus(p, n), k - n)
    BY <1>3, <2>1, <2>3
  <2>5. QED
    BY <2>3, <2>4 DEF Span
<1>6. QED
  BY <1>2, <1>4, <1>5

(***************************************************************************)
(* The edges that leave the buffer.                                        *)
(***************************************************************************)

\* kept[i] is what Kept makes of the first i of n tuples.
Keeps(tuples, n, kept) ==
  /\ kept \in [0 .. n -> Seq(Tuples)]
  /\ kept[0] = <<>>
  /\ \A i \in 1 .. n : kept[i] = IF tuples[i] = Dummy THEN kept[i - 1]
                                 ELSE Append(kept[i - 1], tuples[i])

LEMMA KeptIs ==
  \A n \in Nat : \A ts \in [1 .. n -> Tuples] :
    \E kept : Keeps(ts, n, kept) /\ Kept(ts, n) = kept[n]
<1> SUFFICES ASSUME NEW n \in Nat, NEW ts \in [1 .. n -> Tuples]
             PROVE  \E kept : Keeps(ts, n, kept) /\ Kept(ts, n) = kept[n]
  OBVIOUS
<1> DEFINE X == Seq(Tuples)
           add(x, i) == IF ts[i] = Dummy THEN x ELSE Append(x, ts[i])
           step == [i \in 1 .. n |-> [x \in X |-> add(x, i)]]
           Body(g) == [i \in 0 .. n |-> IF i = 0 THEN <<>> ELSE add(g[i - 1], i)]
           kept == CHOOSE g : g = Body(g)
<1>1. \A x \in X, i \in 1 .. n : add(x, i) \in X
  <2>1. ASSUME NEW x \in X, NEW i \in 1 .. n PROVE Append(x, ts[i]) \in X
    BY AppendProperties
  <2>2. QED
    BY <2>1
<1>2. step \in [1 .. n -> [X -> X]] /\ <<>> \in X
  <2> HIDE DEF add, X
  <2>1. step \in [1 .. n -> [X -> X]]
    BY <1>1
  <2>2. QED
    BY <2>1, EmptySeq DEF X
<1>3. PICK g \in [0 .. n -> X] : Unfolds(g, n, <<>>, step)
  <2> HIDE DEF step, X
  <2> QED BY <1>2, RecursionExists
<1>4. g = Body(g)
  <2> HIDE DEF add, X
  <2>1. ASSUME NEW i \in 0 .. n PROVE g[i] = IF i = 0 THEN <<>> ELSE add(g[i - 1], i)
    <3>1. CASE i = 0
      BY <1>3, <3>1 DEF Unfolds
    <3>2. CASE i # 0
      <4>1. i \in 1 .. n /\ i - 1 \in 0 .. n
        BY <3>2
      <4>2. g[i] = step[i][g[i - 1]] /\ g[i - 1] \in X
        BY <1>3, <4>1 DEF Unfolds
      <4>3. QED
        BY <3>2, <4>1, <4>2
    <3>3. QED
      BY <3>1, <3>2
  <2>2. QED
    BY <2>1
<1>5. kept = Body(kept)
  <2> HIDE DEF Body
  <2> QED BY <1>4
<1>6. Kept(ts, n) = kept[n]
  BY DEF Kept
<1> HIDE DEF kept
<1>7. kept[0] = <<>> /\ \A i \in 1 .. n : kept[i] = add(kept[i - 1], i)
  <2> HIDE DEF add
  <2>1. \A i \in 0 .. n : kept[i] = IF i = 0 THEN <<>> ELSE add(kept[i - 1], i)
    BY <1>5
  <2>2. 0 \in 0 .. n /\ \A i \in 1 .. n : i \in 0 .. n /\ i # 0
    OBVIOUS
  <2>3. QED
    BY <2>1, <2>2
<1>8. \A i \in 0 .. n : kept[i] \in X
  <2> HIDE DEF add, X
  <2> DEFINE S == {i \in Nat : kept[i] \in X}
  <2>1. 0 \in S
    BY <1>2, <1>7
  <2>2. ASSUME NEW i \in 0 .. n - 1, i \in S PROVE i + 1 \in S
    <3>1. i + 1 \in 1 .. n /\ (i + 1) - 1 = i
      OBVIOUS
    <3>2. kept[i + 1] = add(kept[i], i + 1)
      BY <1>7, <3>1
    <3>3. QED
      BY <1>1, <2>2, <3>1, <3>2
  <2> HIDE DEF S
  <2>3. \A i \in 0 .. n : i \in S
    BY <2>1, <2>2, RangeInduction
  <2>4. QED
    BY <2>3 DEF S
<1>9. kept \in [0 .. n -> X]
  <2> HIDE DEF add, X
  <2> QED BY <1>5, <1>8
<1>10. QED
  BY <1>6, <1>7, <1>9 DEF Keeps

LEMMA KeptType ==
  \A n \in Nat : \A ts \in [1 .. n -> Tuples] : Kept(ts, n) \in Seq(Tuples)
<1> SUFFICES ASSUME NEW n \in Nat, NEW ts \in [1 .. n -> Tuples]
             PROVE  Kept(ts, n) \in Seq(Tuples)
  OBVIOUS
<1>1. PICK kept : Keeps(ts, n, kept) /\ Kept(ts, n) = kept[n]
  BY KeptIs
<1>2. QED
  BY <1>1 DEF Keeps

(***************************************************************************)
(* Requests.                                                               *)
(***************************************************************************)

LEMMA CardMinus ==
  \A S, T : IsFiniteSet(S) /\ T \subseteq S =>
    /\ IsFiniteSet(T) /\ IsFiniteSet(S \ T)
    /\ Cardinality(S) \in Nat /\ Cardinality(T) \in Nat
    /\ Cardinality(S \ T) = Cardinality(S) - Cardinality(T)
    /\ (Cardinality(S) = 0 <=> S = {}) /\ (Cardinality(S \ T) = 0 <=> S \ T = {})
<1> SUFFICES ASSUME NEW S, NEW T, IsFiniteSet(S), T \subseteq S
             PROVE  /\ IsFiniteSet(T) /\ IsFiniteSet(S \ T)
                    /\ Cardinality(S) \in Nat /\ Cardinality(T) \in Nat
                    /\ Cardinality(S \ T) = Cardinality(S) - Cardinality(T)
                    /\ (Cardinality(S) = 0 <=> S = {})
                    /\ (Cardinality(S \ T) = 0 <=> S \ T = {})
  OBVIOUS
<1>1. IsFiniteSet(T)
  BY FS_Subset
<1>2. IsFiniteSet(S \ T) /\ Cardinality(S \ T) = Cardinality(S) - Cardinality(S \cap T)
  BY FS_Difference
<1>3. S \cap T = T
  OBVIOUS
<1>4. QED
  BY <1>1, <1>2, <1>3, FS_CardinalityType, FS_EmptySet

LEMMA ForIs ==
  \A R, c, i : IsFiniteSet(R) =>
    /\ IsFiniteSet(For(R, c, i))
    /\ Cardinality(For(R, c, i)) \in Nat
    /\ Cardinality(For(R, c, i)) = 0 <=> For(R, c, i) = {}
<1> SUFFICES ASSUME NEW R, NEW c, NEW i, IsFiniteSet(R)
             PROVE  /\ IsFiniteSet(For(R, c, i))
                    /\ Cardinality(For(R, c, i)) \in Nat
                    /\ Cardinality(For(R, c, i)) = 0 <=> For(R, c, i) = {}
  OBVIOUS
<1>1. For(R, c, i) \subseteq R
  BY DEF For
<1>2. QED
  BY <1>1, FS_Subset, FS_CardinalityType, FS_EmptySet

(***************************************************************************)
(* The steps.                                                              *)
(***************************************************************************)

\* Lines that come back.
LEMMA ServedRequests ==
  ASSUME TypeOK, NEW line, ReadComplete(line)
  PROVE  /\ outstanding' \in SUBSET Request /\ IsFiniteSet(outstanding')
         /\ \A c, i : /\ For(Waiters(line), c, i) \subseteq For(outstanding, c, i)
                      /\ For(outstanding', c, i) = For(outstanding, c, i) \ For(Waiters(line), c, i)
<1>1. outstanding' = outstanding \ Waiters(line) /\ Waiters(line) \subseteq outstanding
  BY DEF ReadComplete, Waiters
<1>2. IsFiniteSet(outstanding')
  BY <1>1, FS_Difference DEF TypeOK
<1>3. \A c, i : /\ For(Waiters(line), c, i) \subseteq For(outstanding, c, i)
                /\ For(outstanding', c, i) = For(outstanding, c, i) \ For(Waiters(line), c, i)
  BY <1>1 DEF For
<1>4. QED
  BY <1>1, <1>2, <1>3 DEF TypeOK

LEMMA ReadCompleteKeeps ==
  ASSUME IInv, NEW line \in Lines, ReadComplete(line)
  PROVE  IInv'
<1> DEFINE done == Waiters(line)
<1>1. TypeOK /\ IsFiniteSet(outstanding)
  BY DEF IInv, TypeOK
<1>2. /\ outstanding' \in SUBSET Request /\ IsFiniteSet(outstanding')
      /\ \A c, i : /\ For(done, c, i) \subseteq For(outstanding, c, i)
                   /\ For(outstanding', c, i) = For(outstanding, c, i) \ For(done, c, i)
  BY <1>1, ServedRequests
<1>3. /\ waiting' = [c \in Cores |-> [i \in Slots |-> Left(done, c, i)]]
      /\ valid' = [c \in Cores |-> [i \in Slots |-> valid[c][i] \/ Completes(done, c, i)]]
      /\ tuple' = [c \in Cores |-> [i \in Slots |->
           IF EdgesFor(done, c, i) = {} THEN tuple[c][i]
           ELSE CHOOSE e \in EdgesFor(done, c, i) : TRUE]]
      /\ cached' \in SUBSET Lines
      /\ UNCHANGED <<build, push, pop, remaining, prefLsq, lsq, burst, issued, out>>
  <2>1. cached' \in SUBSET Lines
    BY <1>1 DEF ReadComplete, TypeOK
  <2>2. QED
    BY <2>1 DEF ReadComplete
<1> HIDE DEF done
<1>4. ASSUME NEW c \in Cores, NEW i \in Slots
      PROVE  /\ waiting[c][i] \in Int /\ valid[c][i] \in BOOLEAN /\ tuple[c][i] \in Tuples
             /\ Cardinality(For(done, c, i)) \in Nat
             /\ Cardinality(For(outstanding', c, i))
                  = Cardinality(For(outstanding, c, i)) - Cardinality(For(done, c, i))
             /\ Cardinality(For(outstanding, c, i)) = 0 <=> For(outstanding, c, i) = {}
             /\ Cardinality(For(done, c, i)) = 0 <=> For(done, c, i) = {}
             /\ waiting'[c][i] = waiting[c][i] - Cardinality(For(done, c, i))
             /\ valid'[c][i] = (valid[c][i] \/ Completes(done, c, i))
  <2>1. waiting[c][i] \in Int /\ valid[c][i] \in BOOLEAN /\ tuple[c][i] \in Tuples
    BY <1>1 DEF TypeOK
  <2>2. IsFiniteSet(For(outstanding, c, i))
    BY <1>1, ForIs
  <2>3. /\ waiting'[c][i] = waiting[c][i] - Cardinality(For(done, c, i))
        /\ valid'[c][i] = (valid[c][i] \/ Completes(done, c, i))
    BY <1>3 DEF Left
  <2>4. /\ Cardinality(For(done, c, i)) \in Nat
        /\ Cardinality(For(outstanding', c, i))
             = Cardinality(For(outstanding, c, i)) - Cardinality(For(done, c, i))
        /\ Cardinality(For(outstanding, c, i)) = 0 <=> For(outstanding, c, i) = {}
        /\ IsFiniteSet(For(done, c, i))
    <3> DEFINE S == For(outstanding, c, i)
               T == For(done, c, i)
    <3>1. T \subseteq S /\ For(outstanding', c, i) = S \ T
      BY <1>2
    <3>2. IsFiniteSet(S)
      BY <2>2
    <3> HIDE DEF S, T
    <3>3. /\ IsFiniteSet(T) /\ Cardinality(T) \in Nat
          /\ Cardinality(S \ T) = Cardinality(S) - Cardinality(T)
          /\ Cardinality(S) = 0 <=> S = {}
      BY <3>1, <3>2, CardMinus
    <3>4. QED
      BY <3>1, <3>3 DEF S, T
  <2>5. Cardinality(For(done, c, i)) = 0 <=> For(done, c, i) = {}
    BY <2>4, FS_EmptySet
  <2>6. QED
    BY <2>1, <2>3, <2>4, <2>5
<1>5. TypeOK'
  <2>1. waiting' \in [Cores -> [Slots -> Int]]
    BY <1>3, <1>4 DEF Left
  <2>2. valid' \in [Cores -> [Slots -> BOOLEAN]]
    <3>1. \A c \in Cores, i \in Slots : (valid[c][i] \/ Completes(done, c, i)) \in BOOLEAN
      OBVIOUS
    <3>2. QED
      BY <1>3, <3>1
  <2>3. tuple' \in [Cores -> [Slots -> Tuples]]
    <3>1. \A c \in Cores, i \in Slots : EdgesFor(done, c, i) \subseteq Edges
      <4>1. done \subseteq Request
        BY <1>1 DEF done, Waiters, TypeOK
      <4>2. \A r \in done : r.tuple \in Edges \cup {Dummy}
        BY <4>1 DEF Request
      <4>3. QED
        BY <4>2 DEF EdgesFor, For
    <3>2. ASSUME NEW c \in Cores, NEW i \in Slots
          PROVE  (IF EdgesFor(done, c, i) = {} THEN tuple[c][i]
                  ELSE CHOOSE e \in EdgesFor(done, c, i) : TRUE) \in Tuples
      <4>1. CASE EdgesFor(done, c, i) = {}
        BY <1>4, <4>1
      <4>2. CASE EdgesFor(done, c, i) # {}
        BY <3>1, <4>2 DEF Tuples
      <4>3. QED
        BY <4>1, <4>2
    <3>3. QED
      BY <1>3, <3>2
  <2>4. QED
    BY <1>1, <1>2, <1>3, <2>1, <2>2, <2>3 DEF TypeOK
<1>6. ASSUME NEW c \in Cores PROVE push'[c] = Plus(pop'[c], Used(c)') /\ InUse(c)' = InUse(c)
  BY <1>3 DEF IInv, Used, InUse
<1>7. ASSUME NEW c \in Cores, NEW i \in Slots PROVE EntryExact(c, i)'
  <2>1. EntryExact(c, i)
    BY DEF IInv
  <2>2. CASE i \in InUse(c)
    <3>1. waiting'[c][i] = Cardinality(For(outstanding', c, i))
      BY <1>4, <2>1, <2>2 DEF EntryExact
    <3>2. valid'[c][i] <=> waiting'[c][i] = 0
      <4>3. valid[c][i] <=> waiting[c][i] = 0
        BY <2>1, <2>2 DEF EntryExact
      <4>4. Completes(done, c, i) <=> For(done, c, i) # {} /\ waiting'[c][i] = 0
        BY <1>4 DEF Completes, Left
      <4>1. CASE valid[c][i]
        <5>1. For(outstanding, c, i) = {}
          BY <1>4, <2>1, <2>2, <4>1 DEF EntryExact
        <5>2. For(done, c, i) = {}
          BY <1>2, <5>1
        <5>3. waiting[c][i] = 0 /\ Cardinality(For(done, c, i)) = 0
          BY <1>4, <4>1, <4>3, <5>2
        <5>4. QED
          BY <1>4, <4>1, <5>3
      <4>2. CASE ~valid[c][i]
        <5>1. waiting[c][i] # 0
          BY <4>2, <4>3
        <5>2. waiting'[c][i] = 0 => For(done, c, i) # {}
          BY <1>4, <5>1
        <5>3. QED
          BY <1>4, <4>2, <4>4, <5>2
      <4>5. QED
        BY <4>1, <4>2
    <3>3. QED
      BY <1>6, <2>2, <3>1, <3>2 DEF EntryExact
  <2>3. CASE i \notin InUse(c)
    BY <1>2, <1>4, <1>6, <2>1, <2>3 DEF EntryExact, Completes
  <2>4. QED
    BY <2>2, <2>3
<1>8. QED
  BY <1>5, <1>6, <1>7 DEF IInv

\* The run of released entries lies between the pointers: they are valid.
LEMMA ReleasedInUse ==
  ASSUME IInv, NEW c \in Cores, NEW n \in 1 .. COMPLETION_BUFFER_SIZE, CanRelease(c, n)
  PROVE  /\ n <= Used(c) /\ Span(pop[c], n) \subseteq InUse(c)
         /\ \A i \in Span(pop[c], n) : i \in Slots /\ valid[c][i] /\ For(outstanding, c, i) = {}
<1>1. /\ COMPLETION_BUFFER_SIZE \in Nat \ {0} /\ pop[c] \in Slots
      /\ remaining[c] \in 1 .. COMPLETION_BUFFER_SIZE
      /\ Used(c) \in 0 .. COMPLETION_BUFFER_SIZE - 1
  <2>1. COMPLETION_BUFFER_SIZE \in Nat /\ remaining[c] \in 1 .. COMPLETION_BUFFER_SIZE
    BY SizesAssumption DEF IInv, TypeOK
  <2>2. Used(c) \in 0 .. COMPLETION_BUFFER_SIZE - 1
    BY <2>1 DEF Used
  <2>3. QED
    BY SizesAssumption, <2>1, <2>2 DEF IInv, TypeOK
<1>2. \A k \in 0 .. n - 1 : /\ Plus(pop[c], k) \in Slots
                            /\ valid[c][Plus(pop[c], k)]
  <2>1. ASSUME NEW k \in 0 .. n - 1
        PROVE  Plus(pop[c], k) \in Slots /\ valid[c][Plus(pop[c], k)]
    <3>1. k + 1 \in 1 .. n /\ (k + 1) - 1 = k /\ k \in 0 .. COMPLETION_BUFFER_SIZE
      BY <1>1
    <3>2. QED
      BY <1>1, <3>1, PlusIs DEF CanRelease
  <2>2. QED
    BY <2>1
<1>3. InUse(c) = Span(pop[c], Used(c))
  BY DEF InUse, Span
<1>4. \A i \in Slots : valid[c][i] => i \in InUse(c) /\ For(outstanding, c, i) = {}
  <2>1. ASSUME NEW i \in Slots, valid[c][i] PROVE i \in InUse(c) /\ For(outstanding, c, i) = {}
    <3>1. EntryExact(c, i)
      BY DEF IInv
    <3>2. i \in InUse(c) /\ Cardinality(For(outstanding, c, i)) = 0
      BY <2>1, <3>1 DEF EntryExact
    <3>3. QED
      BY <3>2, ForIs DEF IInv, TypeOK
  <2>2. QED
    BY <2>1
<1>5. n <= Used(c)
  <2>1. SUFFICES ASSUME Used(c) < n PROVE FALSE
    BY <1>1
  <2>2. Used(c) \in 0 .. n - 1 /\ ~(Used(c) < Used(c)) /\ Used(c) \in 0 .. COMPLETION_BUFFER_SIZE
    BY <1>1, <2>1
  <2>3. Plus(pop[c], Used(c)) \in InUse(c)
    BY <1>2, <1>4, <2>2
  <2>4. QED
    BY <1>1, <1>3, <2>2, <2>3, SpanHas
<1>6. Span(pop[c], n) \subseteq InUse(c)
  <2>1. Used(c) \in 0 .. COMPLETION_BUFFER_SIZE /\ n \in 0 .. COMPLETION_BUFFER_SIZE
    BY <1>1
  <2>2. QED
    BY <1>1, <1>3, <1>5, <2>1, SpanShrinks
<1>7. QED
  BY <1>2, <1>4, <1>5, <1>6 DEF Span

LEMMA CbToLsqKeeps ==
  ASSUME IInv, NEW c \in Cores, CbToLsq(c)
  PROVE  IInv'
<1> DEFINE N == COMPLETION_BUFFER_SIZE
<1>1. PICK n \in 1 .. COMPLETION_BUFFER_SIZE :
        /\ CanRelease(c, n)
        /\ prefLsq' = [prefLsq EXCEPT ![c] = @ \o Front(c, n)]
        /\ remaining' = [remaining EXCEPT ![c] = @ + n]
        /\ pop' = [pop EXCEPT ![c] = Plus(@, n)]
        /\ valid' = [valid EXCEPT ![c] = [i \in Slots |-> @[i] /\ i \notin Span(pop[c], n)]]
        /\ tuple' = [tuple EXCEPT ![c] =
             [i \in Slots |-> IF i \in Span(pop[c], n) THEN Dummy ELSE @[i]]]
  BY DEF CbToLsq, Span
<1>2. UNCHANGED <<build, push, waiting, outstanding, cached, lsq, burst, issued, out>>
  BY DEF CbToLsq
<1>3. /\ N \in Nat \ {0} /\ pop[c] \in Slots /\ remaining[c] \in 1 .. N
      /\ Used(c) = N - remaining[c] /\ Used(c) \in 0 .. N - 1 /\ n \in 0 .. N
  <2>1. N \in Nat \ {0} /\ pop[c] \in Slots /\ remaining[c] \in 1 .. N
    BY SizesAssumption DEF IInv, TypeOK
  <2>2. Used(c) = N - remaining[c]
    BY DEF Used
  <2>3. QED
    BY <2>1, <2>2
<1>4. /\ n <= Used(c)
      /\ \A i \in Span(pop[c], n) : i \in Slots /\ For(outstanding, c, i) = {}
  BY <1>1, ReleasedInUse
<1>5. Front(c, n) \in Seq(Tuples)
  <2>1. \A k \in 1 .. n : tuple[c][Plus(pop[c], k - 1)] \in Tuples
    <3>1. \A k \in 1 .. n : k - 1 \in 0 .. N
      BY <1>3
    <3>2. tuple[c] \in [Slots -> Tuples]
      BY DEF IInv, TypeOK
    <3>3. QED
      BY <1>3, <3>1, <3>2, PlusIs
  <2>2. n \in Nat /\ [k \in 1 .. n |-> tuple[c][Plus(pop[c], k - 1)]] \in [1 .. n -> Tuples]
    BY <2>1
  <2>3. QED
    BY <2>2, KeptType DEF Front
<1>6. /\ remaining'[c] = remaining[c] + n /\ remaining[c] + n \in 1 .. N
      /\ Used(c)' = Used(c) - n
  <2>1. remaining'[c] = remaining[c] + n
    BY <1>1 DEF IInv, TypeOK
  <2>2. Used(c)' = N - remaining'[c]
    BY DEF Used
  <2> HIDE DEF N
  <2>3. QED
    BY <1>3, <1>4, <2>1, <2>2
<1>7. pop'[c] = Plus(pop[c], n) /\ Plus(pop[c], n) \in Slots
  BY <1>1, <1>3, PlusIs DEF IInv, TypeOK
<1>8. TypeOK'
  <2>1. remaining' \in [Cores -> 1 .. N] /\ pop' \in [Cores -> Slots]
    BY <1>1, <1>6, <1>7 DEF IInv, TypeOK
  <2>2. valid' \in [Cores -> [Slots -> BOOLEAN]]
    BY <1>1 DEF IInv, TypeOK
  <2>3. tuple' \in [Cores -> [Slots -> Tuples]]
    <3>1. [i \in Slots |-> IF i \in Span(pop[c], n) THEN Dummy ELSE tuple[c][i]] \in [Slots -> Tuples]
      BY DEF IInv, TypeOK, Tuples
    <3>2. QED
      BY <1>1, <3>1 DEF IInv, TypeOK
  <2>4. prefLsq' \in [Cores -> Seq(Tuples)]
    <3>1. prefLsq[c] \o Front(c, n) \in Seq(Tuples)
      BY <1>5, ConcatProperties DEF IInv, TypeOK
    <3>2. QED
      BY <1>1, <3>1 DEF IInv, TypeOK
  <2>5. QED
    BY <1>2, <2>1, <2>2, <2>3, <2>4 DEF IInv, TypeOK
<1>9. InUse(c)' = InUse(c) \ Span(pop[c], n)
  <2>1. InUse(c) = Span(pop[c], Used(c))
    BY DEF InUse, Span
  <2>2. InUse(c)' = Span(Plus(pop[c], n), Used(c) - n)
    BY <1>6, <1>7 DEF InUse, Span
  <2>3. Used(c) \in 0 .. N
    BY <1>3
  <2>4. QED
    BY <1>3, <1>4, <2>1, <2>2, <2>3, SpanShrinks
<1>10. push'[c] = Plus(pop'[c], Used(c)')
  <2>1. push[c] = Plus(pop[c], Used(c))
    BY DEF IInv
  <2>2. Used(c) - n \in 0 .. N /\ n + (Used(c) - n) = Used(c) /\ n + (Used(c) - n) <= N
    BY <1>3, <1>4
  <2>3. Plus(Plus(pop[c], n), Used(c) - n) = Plus(pop[c], Used(c))
    BY <1>3, <2>2, PlusPlus
  <2>4. QED
    BY <1>2, <1>6, <1>7, <2>1, <2>3
<1>11. ASSUME NEW d \in Cores, d # c PROVE push'[d] = Plus(pop'[d], Used(d)') /\ InUse(d)' = InUse(d)
  <2>1. pop'[d] = pop[d] /\ remaining'[d] = remaining[d]
    BY <1>1, <1>11 DEF IInv, TypeOK
  <2>2. QED
    BY <1>2, <2>1 DEF IInv, Used, InUse
<1>12. ASSUME NEW d \in Cores, NEW i \in Slots PROVE EntryExact(d, i)'
  <2>1. EntryExact(d, i) /\ For(outstanding', d, i) = For(outstanding, d, i)
    BY <1>2 DEF IInv
  <2>2. CASE d # c
    <3>1. valid'[d][i] = valid[d][i] /\ waiting'[d][i] = waiting[d][i]
      BY <1>1, <1>2, <2>2 DEF IInv, TypeOK
    <3>2. QED
      BY <1>11, <2>1, <2>2, <3>1 DEF EntryExact
  <2>3. CASE d = c
    <3>1. valid'[c][i] = (valid[c][i] /\ i \notin Span(pop[c], n)) /\ waiting'[c][i] = waiting[c][i]
      BY <1>1, <1>2 DEF IInv, TypeOK
    <3>2. CASE i \in Span(pop[c], n)
      BY <1>4, <1>9, <2>1, <2>3, <3>1, <3>2 DEF EntryExact
    <3>3. CASE i \notin Span(pop[c], n)
      BY <1>9, <2>1, <2>3, <3>1, <3>3 DEF EntryExact
    <3>4. QED
      BY <3>2, <3>3
  <2>4. QED
    BY <2>2, <2>3
<1>13. QED
  BY <1>8, <1>10, <1>11, <1>12 DEF IInv

\* Steps that leave the ring alone.
LEMMA RingStays ==
  ASSUME IInv, UNCHANGED <<build, ringVars, outstanding>>, TypeOK'
  PROVE  IInv'
<1>1. UNCHANGED <<push, pop, remaining, valid, waiting, tuple, outstanding>>
  BY DEF ringVars
<1>2. \A c \in Cores : push'[c] = Plus(pop'[c], Used(c)') /\ InUse(c)' = InUse(c)
  BY <1>1 DEF IInv, Used, InUse
<1>3. \A c \in Cores, i \in Slots : EntryExact(c, i)'
  BY <1>1, <1>2 DEF IInv, EntryExact
<1>4. QED
  BY <1>2, <1>3 DEF IInv

LEMMA MoveToCoreKeeps ==
  ASSUME IInv, NEW c \in Cores, MoveToCore(c)
  PROVE  IInv'
<1> DEFINE room == AGG_FIFO_DEP_LEN - Len(lsq[c])
           n == IF room < Len(prefLsq[c]) THEN room ELSE Len(prefLsq[c])
<1>1. /\ lsq' = [lsq EXCEPT ![c] = @ \o SubSeq(prefLsq[c], 1, n)]
      /\ prefLsq' = [prefLsq EXCEPT ![c] = SubSeq(@, n + 1, Len(@))]
      /\ UNCHANGED <<build, ringVars, outstanding, cached, burst, issued, out>>
      /\ Len(lsq[c]) < AGG_FIFO_DEP_LEN
  BY DEF MoveToCore
<1>2. prefLsq[c] \in Seq(Tuples) /\ lsq[c] \in Seq(Tuples) /\ TypeOK
  BY DEF IInv, TypeOK
<1>3. n \in 0 .. Len(prefLsq[c])
  <2>1. Len(prefLsq[c]) \in Nat /\ Len(lsq[c]) \in Nat /\ AGG_FIFO_DEP_LEN \in Nat
    BY <1>2, SizesAssumption, LenProperties
  <2> HIDE DEF n
  <2>2. QED
    BY <1>1, <2>1 DEF n
<1> HIDE DEF n
<1>4. SubSeq(prefLsq[c], 1, n) \in Seq(Tuples) /\ SubSeq(prefLsq[c], n + 1, Len(prefLsq[c])) \in Seq(Tuples)
  <2>1. \A i \in 1 .. Len(prefLsq[c]) : prefLsq[c][i] \in Tuples
    BY <1>2, ElementOfSeq
  <2>2. n + 1 \in Int /\ n \in Int /\ Len(prefLsq[c]) \in Nat
    BY <1>2, <1>3, LenProperties
  <2>3. QED
    BY <1>2, <1>3, <2>1, <2>2, SubSeqProperties
<1>5. lsq[c] \o SubSeq(prefLsq[c], 1, n) \in Seq(Tuples)
  BY <1>2, <1>4, ConcatProperties
<1>6. TypeOK'
  <2>1. UNCHANGED <<build, push, pop, remaining, valid, waiting, tuple, outstanding, cached,
                    burst, issued, out>>
    BY <1>1 DEF ringVars
  <2>2. lsq' \in [Cores -> Seq(Tuples)] /\ prefLsq' \in [Cores -> Seq(Tuples)]
    BY <1>1, <1>2, <1>4, <1>5 DEF TypeOK
  <2>3. QED
    BY <1>2, <2>1, <2>2 DEF TypeOK
<1>7. QED
  BY <1>1, <1>6, RingStays

LEMMA ConsumeKeeps ==
  ASSUME IInv, NEW c \in Cores, Consume(c)
  PROVE  IInv'
<1>1. TypeOK /\ lsq[c] \in Seq(Tuples) /\ issued[c] \in Seq(Edges) /\ lsq[c] # <<>>
  BY DEF IInv, TypeOK, Consume
<1>2. Head(lsq[c]) \in Tuples /\ Tail(lsq[c]) \in Seq(Tuples)
  BY <1>1, HeadTailProperties
<1>3. issued[c] # <<>> => Tail(issued[c]) \in Seq(Edges)
  BY <1>1, HeadTailProperties
<1>4. TypeOK'
  <2>1. /\ UNCHANGED <<build, push, pop, remaining, valid, waiting, tuple, outstanding, cached,
                       prefLsq, burst>>
        /\ out' = [out EXCEPT ![c] = Head(lsq[c])]
        /\ lsq' = [lsq EXCEPT ![c] = Tail(@)]
        /\ issued' = [issued EXCEPT ![c] = IF @ = <<>> THEN @ ELSE Tail(@)]
    BY DEF Consume, ringVars
  <2>2. lsq' \in [Cores -> Seq(Tuples)] /\ out' \in [Cores -> Tuples]
    BY <1>1, <1>2, <2>1 DEF TypeOK
  <2>3. issued' \in [Cores -> Seq(Edges)]
    BY <1>1, <1>3, <2>1 DEF TypeOK
  <2>4. QED
    BY <1>1, <2>1, <2>2, <2>3 DEF TypeOK
<1>5. QED
  BY <1>4, RingStays DEF Consume

\* What an access adds to the ring: one entry, or the one of the source vertex
\* and the edge's, with the requests the L2 does not answer.
Adds(c, e, slot, used, misses) ==
  /\ slot \in Slots /\ used \in {1, 2} /\ misses \in SUBSET Request /\ IsFiniteSet(misses)
  /\ remaining[c] - used \in 1 .. COMPLETION_BUFFER_SIZE
  /\ IF used = 1 THEN slot = push[c] ELSE SYNC /\ slot = Plus(push[c], 1)
  /\ \A r \in misses : r.core = c /\ r.slot \in {push[c], slot} /\ r.tuple \in {Dummy, e}
  /\ used = 2 => /\ For(misses, c, push[c]) # {}
                 /\ \A r \in misses : r.slot = push[c] => r.tuple = Dummy \/ push[c] = slot
  /\ For(misses, c, slot) # {} => \E r \in For(misses, c, slot) : r.tuple = e
  /\ push' = [push EXCEPT ![c] = Plus(@, used)]
  /\ remaining' = [remaining EXCEPT ![c] = @ - used]
  /\ outstanding' = outstanding \cup misses
  /\ waiting' = [waiting EXCEPT ![c] =
       [i \in Slots |-> IF i \in {push[c], slot} THEN Cardinality(For(misses, c, i)) ELSE @[i]]]
  /\ IF For(misses, c, slot) = {}
     THEN /\ valid' = [valid EXCEPT ![c][slot] = TRUE]
          /\ tuple' = [tuple EXCEPT ![c][slot] = e]
     ELSE UNCHANGED <<valid, tuple>>

LEMMA AccessAdds ==
  ASSUME IInv, CountsHits(build), NEW c \in Cores, NEW e \in Edges, NEW first \in BOOLEAN,
         NEW vline \in VertexLines, NEW S \in SUBSET EdgeLines,
         AccessEdge(c, e, first, vline, S)
  PROVE  \E slot, used, misses : Adds(c, e, slot, used, misses)
<1> DEFINE dummy == SYNC /\ first
           slot == EdgeSlot(c, dummy)
           used == IF dummy /\ ~ALL_EDGE_ACCESS THEN 2 ELSE 1
           vertex == VertexRequest(c, vline, dummy)
           edges == EdgeRequests(c, e, S, dummy)
           misses == Misses(vertex \cup edges)
<1>1. /\ MayAccess(c)
      /\ e \in build.edgesOf[c]
      /\ burst = c => ~first
      /\ S \in LineSets(IF dummy THEN remaining[c] - 1 ELSE remaining[c])
      /\ push' = [push EXCEPT ![c] = Plus(@, used)]
      /\ remaining' = [remaining EXCEPT ![c] = @ - used]
      /\ outstanding' = outstanding \cup misses
      /\ waiting' = [waiting EXCEPT ![c] =
           [i \in Slots |-> IF i \in {push[c], slot} THEN Cardinality(For(misses, c, i)) ELSE @[i]]]
      /\ IF For(misses, c, slot) = {}
         THEN /\ valid' = [valid EXCEPT ![c][slot] = TRUE]
              /\ tuple' = [tuple EXCEPT ![c][slot] = e]
         ELSE UNCHANGED <<valid, tuple>>
  BY DEF AccessEdge, HitCompletes
<1>2. /\ COMPLETION_BUFFER_SIZE \in Nat \ {0} /\ push[c] \in Slots
      /\ remaining[c] \in 1 .. COMPLETION_BUFFER_SIZE /\ IsFiniteSet(outstanding)
  BY SizesAssumption DEF IInv, TypeOK
<1>3. used \in {1, 2} /\ IF used = 1 THEN slot = push[c] ELSE SYNC /\ slot = Plus(push[c], 1)
  BY DEF EdgeSlot
<1>4. slot \in Slots
  <2>1. 1 \in 0 .. COMPLETION_BUFFER_SIZE
    BY <1>2
  <2>2. QED
    BY <1>2, <1>3, <2>1, PlusIs
<1>5. remaining[c] - used \in 1 .. COMPLETION_BUFFER_SIZE
  <2>1. CASE burst = c
    <3>1. used = 1 /\ remaining[c] > 1
      <4>1. remaining[c] > MinCB \/ remaining[c] > 2
        BY <1>1, <2>1 DEF MayAccess
      <4>2. MinCB \in {1, 2}
        BY DEF MinCB
      <4>3. QED
        BY <1>1, <1>2, <2>1, <4>1, <4>2
    <3> HIDE DEF used
    <3>2. QED
      BY <1>2, <3>1
  <2>2. CASE burst # c
    <3>1. remaining[c] > 2
      BY <1>1, <2>2 DEF MayAccess
    <3> HIDE DEF used
    <3>2. QED
      BY <1>2, <1>3, <3>1
  <2>3. QED
    BY <2>1, <2>2
<1>6. /\ vertex \subseteq Request /\ IsFiniteSet(vertex)
      /\ \A r \in vertex : r.core = c /\ r.slot = push[c] /\ r.tuple = Dummy
      /\ dummy => \E r \in vertex : TRUE
  <2> DEFINE r0 == [line |-> vline, core |-> c, slot |-> push[c], tuple |-> Dummy]
  <2>1. r0 \in Request
    BY <1>2 DEF Request, Lines
  <2>2. vertex = IF dummy THEN {r0} ELSE {}
    BY DEF VertexRequest
  <2>3. r0.core = c /\ r0.slot = push[c] /\ r0.tuple = Dummy
    OBVIOUS
  <2> HIDE DEF r0, dummy, vertex
  <2>4. IsFiniteSet({r0}) /\ IsFiniteSet({})
    BY FS_Singleton, FS_EmptySet
  <2>5. QED
    BY <2>1, <2>2, <2>3, <2>4
<1>7. /\ edges \subseteq Request /\ IsFiniteSet(edges)
      /\ \A r \in edges : r.core = c /\ r.slot = slot /\ r.tuple = e
      /\ \E r \in edges : TRUE
  <2> DEFINE req(l) == [line |-> l, core |-> c, slot |-> slot, tuple |-> e]
             f == [l \in S |-> req(l)]
  <2>1. \A l \in S : req(l) \in Request /\ req(l).core = c /\ req(l).slot = slot /\ req(l).tuple = e
    BY <1>4 DEF Request, Lines
  <2>2. edges = {req(l) : l \in S}
    BY DEF EdgeRequests
  <2>3. IsFiniteSet(S)
    BY LinesAssumption, FS_Subset
  <2>4. \E l \in S : TRUE
    <3>1. Cardinality(S) # 0
      <4>1. Cardinality(S) \in 1 .. (IF ALL_EDGE_ACCESS THEN (IF dummy THEN remaining[c] - 1 ELSE remaining[c]) ELSE 1)
        BY <1>1 DEF LineSets
      <4>2. QED
        BY <4>1
    <3>2. QED
      BY <2>3, <3>1, FS_EmptySet
  <2> HIDE DEF req, edges, dummy
  <2>5. f \in Surjection(S, edges)
    BY <2>2 DEF Surjection
  <2>6. IsFiniteSet(edges)
    BY <2>3, <2>5, FS_Surjection
  <2>7. QED
    BY <2>1, <2>2, <2>4, <2>6
<1>8. /\ misses \subseteq vertex \cup edges /\ IsFiniteSet(misses)
      /\ dummy => misses = vertex \cup edges
  <2>1. misses \subseteq vertex \cup edges
    BY DEF Misses
  <2>2. IsFiniteSet(vertex \cup edges)
    BY <1>6, <1>7, FS_Union
  <2>3. dummy => ~EDGE_CACHE
    BY DEF CountsHits, SYNC, EDGE_CACHE
  <2>4. dummy => misses = vertex \cup edges
    BY <2>3 DEF Misses
  <2>5. IsFiniteSet(misses)
    <3> HIDE DEF misses, vertex, edges
    <3>1. QED
      BY <2>1, <2>2, FS_Subset
  <2>6. QED
    BY <2>1, <2>4, <2>5
<1>9. used = 2 => dummy
  OBVIOUS
<1> HIDE DEF dummy, slot, used, vertex, edges, misses
<1>10. misses \in SUBSET Request
  BY <1>6, <1>7, <1>8
<1>11. \A r \in misses : r.core = c /\ r.slot \in {push[c], slot} /\ r.tuple \in {Dummy, e}
  BY <1>6, <1>7, <1>8
<1>12. used = 2 => /\ For(misses, c, push[c]) # {}
                   /\ \A r \in misses : r.slot = push[c] => r.tuple = Dummy \/ push[c] = slot
  BY <1>6, <1>7, <1>8, <1>9 DEF For
<1>13. ASSUME For(misses, c, slot) # {} PROVE \E r \in For(misses, c, slot) : r.tuple = e
  <2>1. CASE dummy
    BY <1>7, <1>8, <2>1 DEF For
  <2>2. CASE ~dummy
    <3>1. vertex = {}
      BY <2>2 DEF vertex, VertexRequest
    <3>2. QED
      BY <1>7, <1>8, <1>13, <3>1 DEF For
  <2>3. QED
    BY <2>1, <2>2
<1>14. Adds(c, e, slot, used, misses)
  BY <1>1, <1>3, <1>4, <1>5, <1>8, <1>10, <1>11, <1>12, <1>13 DEF Adds
<1>15. QED
  BY <1>14

\* The entries an access adds were free.
LEMMA AddedEntries ==
  ASSUME IInv, NEW c \in Cores, NEW e, NEW slot, NEW used, NEW misses, Adds(c, e, slot, used, misses),
         UNCHANGED pop
  PROVE  /\ push'[c] = Plus(pop'[c], Used(c)') /\ push'[c] \in Slots
         /\ Used(c)' = Used(c) + used /\ Used(c) + used <= COMPLETION_BUFFER_SIZE - 1
         /\ Used(c) \in Nat
         /\ push[c] = Plus(pop[c], Used(c)) /\ push[c] \in Slots
         /\ used = 2 => slot = Plus(pop[c], Used(c) + 1) /\ slot # push[c]
         /\ InUse(c)' = InUse(c) \cup {push[c], slot}
         /\ push[c] \notin InUse(c) /\ slot \notin InUse(c)
         /\ \A d \in Cores \ {c} :
              /\ InUse(d)' = InUse(d) /\ Used(d)' = Used(d)
              /\ push'[d] = push[d] /\ pop'[d] = pop[d]
<1> DEFINE N == COMPLETION_BUFFER_SIZE
           p == pop[c]
           u == Used(c)
<1>1. /\ N \in Nat \ {0} /\ p \in Slots /\ push[c] = Plus(p, u) /\ push[c] \in Slots
      /\ remaining[c] \in 1 .. N /\ u = N - remaining[c]
  BY SizesAssumption DEF IInv, TypeOK, Used
<1>2. used \in {1, 2} /\ remaining[c] - used \in 1 .. N
  BY DEF Adds
<1>3. /\ push'[c] = Plus(push[c], used) /\ remaining'[c] = remaining[c] - used
      /\ \A d \in Cores \ {c} : push'[d] = push[d] /\ remaining'[d] = remaining[d]
  BY DEF Adds, IInv, TypeOK
<1>4. Used(c)' = N - remaining'[c] /\ InUse(c) = Span(p, u) /\ InUse(c)' = Span(p, Used(c)')
  BY DEF Used, InUse, Span
<1> HIDE DEF N, p, u
<1>5. u \in 0 .. N - 1 /\ u + used \in 0 .. N - 1 /\ Used(c)' = u + used
  BY <1>1, <1>2, <1>3, <1>4
<1>6. Plus(push[c], used) = Plus(p, u + used) /\ Plus(push[c], used) \in Slots
  <2>1. u \in 0 .. N /\ used \in 0 .. N /\ u + used <= N /\ u + used \in 0 .. N
    BY <1>1, <1>2, <1>5
  <2>2. QED
    BY <1>1, <2>1, PlusPlus, PlusIs DEF N
<1>7. /\ Span(p, u + 1) = Span(p, u) \cup {push[c]}
      /\ push[c] \notin Span(p, u)
  BY <1>1, <1>5, SpanGrows DEF N
<1>8. CASE used = 1
  <2>1. slot = push[c]
    BY <1>8 DEF Adds
  <2>2. InUse(c)' = InUse(c) \cup {push[c], slot}
    BY <1>4, <1>5, <1>7, <1>8, <2>1
  <2>3. QED
    BY <1>1, <1>3, <1>4, <1>5, <1>6, <1>7, <1>8, <2>1, <2>2 DEF InUse, Used, N, p, u
<1>9. CASE used = 2
  <2>1. slot = Plus(push[c], 1)
    BY <1>9 DEF Adds
  <2>2. u + 1 \in 0 .. N - 1 /\ (u + 1) + 1 = u + used
    BY <1>5, <1>9, <1>1
  <2>3. slot = Plus(p, u + 1)
    <3>1. u \in 0 .. N /\ 1 \in 0 .. N /\ u + 1 <= N
      BY <1>1, <1>5, <2>2
    <3>2. QED
      BY <1>1, <2>1, <3>1, PlusPlus DEF N
  <2>4. /\ Span(p, (u + 1) + 1) = Span(p, u + 1) \cup {slot}
        /\ slot \notin Span(p, u + 1)
    BY <1>1, <2>2, <2>3, SpanGrows DEF N
  <2>5. InUse(c)' = InUse(c) \cup {push[c], slot}
    BY <1>4, <1>5, <1>7, <2>2, <2>4
  <2>6. slot # push[c] /\ slot \notin InUse(c)
    BY <1>4, <1>7, <2>4
  <2>7. QED
    BY <1>1, <1>3, <1>4, <1>5, <1>6, <1>7, <1>9, <2>3, <2>5, <2>6 DEF InUse, Used, N, p, u
<1>10. QED
  BY <1>2, <1>8, <1>9

\* What they hold afterwards.
LEMMA AddedValues ==
  ASSUME TypeOK, NEW c \in Cores, NEW e \in Edges, NEW slot, NEW used, NEW misses,
         Adds(c, e, slot, used, misses)
  PROVE  /\ valid' \in [Cores -> [Slots -> BOOLEAN]]
         /\ tuple' \in [Cores -> [Slots -> Tuples]]
         /\ waiting' \in [Cores -> [Slots -> Int]]
         /\ \A d \in Cores, i \in Slots :
              /\ d # c \/ i # slot => valid'[d][i] = valid[d][i] /\ tuple'[d][i] = tuple[d][i]
              /\ waiting'[d][i] = IF d = c /\ i \in {push[c], slot}
                                  THEN Cardinality(For(misses, c, i)) ELSE waiting[d][i]
         /\ IF For(misses, c, slot) = {} THEN valid'[c][slot] /\ tuple'[c][slot] = e
            ELSE valid'[c][slot] = valid[c][slot] /\ tuple'[c][slot] = tuple[c][slot]
<1>1. /\ valid \in [Cores -> [Slots -> BOOLEAN]] /\ tuple \in [Cores -> [Slots -> Tuples]]
      /\ waiting \in [Cores -> [Slots -> Int]] /\ slot \in Slots /\ e \in Tuples
  BY DEF TypeOK, Adds, Tuples
<1>2. /\ waiting' \in [Cores -> [Slots -> Int]]
      /\ \A d \in Cores, i \in Slots :
           waiting'[d][i] = IF d = c /\ i \in {push[c], slot}
                            THEN Cardinality(For(misses, c, i)) ELSE waiting[d][i]
  <2>1. waiting' = [waiting EXCEPT ![c] =
          [i \in Slots |-> IF i \in {push[c], slot} THEN Cardinality(For(misses, c, i)) ELSE @[i]]]
    BY DEF Adds
  <2>2. \A i \in Slots : Cardinality(For(misses, c, i)) \in Int
    BY ForIs DEF Adds
  <2>3. QED
    BY <1>1, <2>1, <2>2
<1>3. CASE For(misses, c, slot) = {}
  <2>1. valid' = [valid EXCEPT ![c][slot] = TRUE] /\ tuple' = [tuple EXCEPT ![c][slot] = e]
    BY <1>3 DEF Adds
  <2>2. valid' \in [Cores -> [Slots -> BOOLEAN]] /\ valid'[c][slot]
        /\ \A d \in Cores, i \in Slots : d # c \/ i # slot => valid'[d][i] = valid[d][i]
    BY <1>1, <2>1
  <2>3. tuple' \in [Cores -> [Slots -> Tuples]] /\ tuple'[c][slot] = e
        /\ \A d \in Cores, i \in Slots : d # c \/ i # slot => tuple'[d][i] = tuple[d][i]
    BY <1>1, <2>1
  <2>4. QED
    BY <1>2, <1>3, <2>2, <2>3
<1>4. CASE For(misses, c, slot) # {}
  <2>1. valid' = valid /\ tuple' = tuple
    BY <1>4 DEF Adds
  <2>2. QED
    BY <1>1, <1>2, <1>4, <2>1
<1>5. QED
  BY <1>3, <1>4

LEMMA AccessEdgeKeeps ==
  ASSUME IInv, CountsHits(build), NEW c \in Cores, NEW e \in Edges, NEW first \in BOOLEAN,
         NEW vline \in VertexLines, NEW S \in SUBSET EdgeLines,
         AccessEdge(c, e, first, vline, S)
  PROVE  IInv'
<1>1. PICK slot, used, misses : Adds(c, e, slot, used, misses)
  BY AccessAdds
<1>2. /\ issued' = [issued EXCEPT ![c] = Append(@, e)]
      /\ burst' \in {NoCore, c}
      /\ UNCHANGED <<build, pop, cached, prefLsq, lsq, out>>
  BY DEF AccessEdge
<1>3. /\ push'[c] = Plus(pop'[c], Used(c)') /\ push'[c] \in Slots
      /\ InUse(c)' = InUse(c) \cup {push[c], slot}
      /\ push[c] \notin InUse(c) /\ slot \notin InUse(c)
      /\ used = 2 => slot # push[c]
      /\ \A d \in Cores \ {c} :
           /\ InUse(d)' = InUse(d) /\ Used(d)' = Used(d)
           /\ push'[d] = push[d] /\ pop'[d] = pop[d]
  BY <1>1, <1>2, AddedEntries
<1>4. /\ slot \in Slots /\ push[c] \in Slots /\ used \in {1, 2}
      /\ misses \in SUBSET Request /\ IsFiniteSet(misses)
      /\ used = 1 => slot = push[c]
      /\ remaining[c] - used \in 1 .. COMPLETION_BUFFER_SIZE
  BY <1>1 DEF Adds, IInv, TypeOK
<1>5. /\ valid' \in [Cores -> [Slots -> BOOLEAN]]
      /\ tuple' \in [Cores -> [Slots -> Tuples]]
      /\ waiting' \in [Cores -> [Slots -> Int]]
      /\ \A d \in Cores, i \in Slots :
           /\ d # c \/ i # slot => valid'[d][i] = valid[d][i]
           /\ waiting'[d][i] = IF d = c /\ i \in {push[c], slot}
                               THEN Cardinality(For(misses, c, i)) ELSE waiting[d][i]
      /\ IF For(misses, c, slot) = {} THEN valid'[c][slot] ELSE valid'[c][slot] = valid[c][slot]
  BY <1>1, AddedValues DEF IInv
<1>10. TypeOK'
  <2>1. push' \in [Cores -> Slots]
    <3>1. push' = [push EXCEPT ![c] = Plus(push[c], used)] /\ push \in [Cores -> Slots]
      BY <1>1 DEF Adds, IInv, TypeOK
    <3>2. QED
      BY <1>3, <3>1
  <2>2. remaining' \in [Cores -> 1 .. COMPLETION_BUFFER_SIZE]
    BY <1>1, <1>4 DEF Adds, IInv, TypeOK
  <2>3. outstanding' \in SUBSET Request /\ IsFiniteSet(outstanding')
    BY <1>1, <1>4, FS_Union DEF Adds, IInv, TypeOK
  <2>4. waiting' \in [Cores -> [Slots -> Int]]
    BY <1>5
  <2>5. valid' \in [Cores -> [Slots -> BOOLEAN]] /\ tuple' \in [Cores -> [Slots -> Tuples]]
    BY <1>5
  <2>6. issued' \in [Cores -> Seq(Edges)] /\ burst' \in Cores \cup {NoCore}
    <3>1. Append(issued[c], e) \in Seq(Edges)
      BY AppendProperties DEF IInv, TypeOK
    <3>2. QED
      BY <1>2, <3>1 DEF IInv, TypeOK
  <2>7. QED
    BY <1>2, <2>1, <2>2, <2>3, <2>4, <2>5, <2>6 DEF IInv, TypeOK
<1>6. ASSUME NEW d \in Cores PROVE push'[d] = Plus(pop'[d], Used(d)')
  BY <1>3 DEF IInv
<1>7. ASSUME NEW d \in Cores, NEW i \in Slots
      PROVE  /\ For(outstanding', d, i) = For(outstanding, d, i) \cup For(misses, d, i)
             /\ d # c \/ i \notin {push[c], slot} => For(misses, d, i) = {}
  BY <1>1 DEF Adds, For
<1>8. ASSUME NEW d \in Cores, NEW i \in Slots PROVE EntryExact(d, i)'
  <2>1. EntryExact(d, i)
    BY DEF IInv
  <2>2. CASE d # c \/ i \notin {push[c], slot}
    <3>1. valid'[d][i] = valid[d][i] /\ waiting'[d][i] = waiting[d][i]
      BY <1>5, <2>2
    <3>2. For(outstanding', d, i) = For(outstanding, d, i)
      <4>1. For(misses, d, i) = {}
        BY <1>7, <2>2
      <4>2. QED
        BY <1>7, <4>1
    <3>3. i \in InUse(d)' <=> i \in InUse(d)
      BY <1>3, <2>2
    <3>4. QED
      BY <2>1, <3>1, <3>2, <3>3 DEF EntryExact
  <2>3. CASE d = c /\ i \in {push[c], slot}
    <3>1. ~valid[c][i] /\ For(outstanding, c, i) = {}
      BY <1>3, <2>1, <2>3 DEF EntryExact
    <3>2. For(outstanding', c, i) = For(misses, c, i)
      BY <1>7, <2>3, <3>1
    <3>3. waiting'[c][i] = Cardinality(For(misses, c, i))
      BY <1>5, <2>3
    <3>4. waiting'[c][i] = 0 <=> For(misses, c, i) = {}
      BY <1>4, <3>3, ForIs
    <3>5. valid'[c][i] <=> For(misses, c, i) = {}
      <4>1. CASE i = slot
        BY <1>5, <3>1, <4>1
      <4>2. CASE i # slot
        <5>1. i = push[c] /\ used = 2
          BY <1>4, <2>3, <4>2
        <5>2. For(misses, c, i) # {}
          BY <1>1, <5>1 DEF Adds
        <5>3. valid'[c][i] = valid[c][i]
          BY <1>5, <4>2
        <5>4. QED
          BY <3>1, <5>2, <5>3
      <4>3. QED
        BY <4>1, <4>2
    <3>6. QED
      BY <1>3, <2>3, <3>2, <3>3, <3>4, <3>5 DEF EntryExact
  <2>4. QED
    BY <2>2, <2>3
<1>9. QED
  BY <1>6, <1>8, <1>10 DEF IInv

LEMMA InitIInv == Init => IInv
<1> SUFFICES ASSUME Init PROVE IInv
  OBVIOUS
<1>1. COMPLETION_BUFFER_SIZE \in Nat \ {0} /\ 0 \in Slots
  BY SizesAssumption DEF Slots
<1>2. TypeOK
  <2>1. build.fresh \subseteq Tuples
    BY BuildsAssumption DEF Init, Tuples
  <2>2. tuple \in [Cores -> [Slots -> Tuples]]
    BY <2>1 DEF Init
  <2>3. remaining \in [Cores -> 1 .. COMPLETION_BUFFER_SIZE]
    BY <1>1 DEF Init
  <2>4. IsFiniteSet(outstanding) /\ outstanding \in SUBSET Request
    BY FS_EmptySet DEF Init
  <2>5. \A T : <<>> \in Seq(T)
    BY EmptySeq
  <2>6. QED
    BY <1>1, <2>2, <2>3, <2>4, <2>5 DEF Init, TypeOK, Tuples
<1>3. ASSUME NEW c \in Cores PROVE push[c] = Plus(pop[c], Used(c)) /\ InUse(c) = {}
  <2>1. push[c] = 0 /\ pop[c] = 0 /\ Used(c) = 0
    BY <1>1 DEF Init, Used
  <2>2. Plus(0, 0) = 0
    <3>1. 0 \in 0 .. COMPLETION_BUFFER_SIZE
      BY <1>1
    <3>2. QED
      BY <1>1, <3>1, PlusIs
  <2>3. InUse(c) = {}
    BY <2>1 DEF InUse
  <2>4. QED
    BY <2>1, <2>2, <2>3
<1>4. \A c \in Cores, i \in Slots : EntryExact(c, i)
  BY <1>3 DEF EntryExact, Init, For
<1>5. QED
  BY <1>2, <1>3, <1>4 DEF IInv

LEMMA StepIInv ==
  ASSUME IInv, CountsHits(build), [Next]_vars
  PROVE  IInv'
<1>1. ASSUME NEW c \in Cores, NEW e \in Edges, NEW first \in BOOLEAN, NEW vline \in VertexLines,
             NEW S \in SUBSET EdgeLines, AccessEdge(c, e, first, vline, S)
      PROVE  IInv'
  BY <1>1, AccessEdgeKeeps
<1>2. ASSUME NEW line \in Lines, ReadComplete(line) PROVE IInv'
  BY <1>2, ReadCompleteKeeps
<1>3. ASSUME NEW c \in Cores, CbToLsq(c) PROVE IInv'
  BY <1>3, CbToLsqKeeps
<1>4. ASSUME NEW c \in Cores, MoveToCore(c) PROVE IInv'
  BY <1>4, MoveToCoreKeeps
<1>5. ASSUME NEW c \in Cores, Consume(c) PROVE IInv'
  BY <1>5, ConsumeKeeps
<1>6. ASSUME UNCHANGED vars PROVE IInv'
  <2>1. TypeOK'
    BY <1>6 DEF IInv, TypeOK, vars, ringVars
  <2>2. UNCHANGED <<build, ringVars, outstanding>>
    BY <1>6 DEF vars
  <2>3. QED
    BY <2>1, <2>2, RingStays
<1>7. QED
  BY <1>1, <1>2, <1>3, <1>4, <1>5, <1>6 DEF Next

LEMMA BuildStays == [Next]_vars => build' = build
<1> SUFFICES ASSUME [Next]_vars PROVE build' = build
  OBVIOUS
<1>1. \A c \in Cores, e \in Edges, first \in BOOLEAN, vline \in VertexLines, S \in SUBSET EdgeLines :
        AccessEdge(c, e, first, vline, S) => build' = build
  BY DEF AccessEdge
<1>2. \A line \in Lines : ReadComplete(line) => build' = build
  BY DEF ReadComplete
<1>3. \A c \in Cores : CbToLsq(c) \/ MoveToCore(c) \/ Consume(c) => build' = build
  BY DEF CbToLsq, MoveToCore, Consume
<1>4. UNCHANGED vars => build' = build
  BY DEF vars
<1>5. QED
  BY <1>1, <1>2, <1>3, <1>4 DEF Next

(***************************************************************************)
(* The theorems.                                                           *)
(***************************************************************************)

\* The inductive invariant holds in every build that does not combine the
\* synchronous model with EDGE_CACHE.
THEOREM Invariance ==
  ASSUME \A b \in Builds : CountsHits(b)
  PROVE  Spec => []IInv
<1> DEFINE Inv == IInv /\ CountsHits(build)
<1>1. Init => Inv
  BY InitIInv DEF IInv, TypeOK
<1>2. Inv /\ [Next]_vars => Inv'
  BY StepIInv, BuildStays DEF CountsHits
<1>3. Inv => IInv
  OBVIOUS
<1> HIDE DEF Inv
<1>4. QED
  BY <1>1, <1>2, <1>3, PTL DEF Spec

\* The type invariant: the pointers stay in the ring and one entry always stays
\* free.
THEOREM TypeCorrect ==
  ASSUME \A b \in Builds : CountsHits(b)
  PROVE  Spec => []TypeOK
<1>1. Spec => []IInv
  BY Invariance
<1>2. IInv => TypeOK
  BY DEF IInv
<1>3. QED
  BY <1>1, <1>2, PTL

\* The free-entry counter and the two pointers agree round the wrap, for every
\* size of the ring: allocate_cb_entry never takes an entry that is in use.
THEOREM RingIsExact ==
  ASSUME \A b \in Builds : CountsHits(b)
  PROVE  Spec => []RingExact
<1>1. Spec => []IInv
  BY Invariance
<1>2. IInv => RingExact
  BY InvImplies
<1>3. QED
  BY <1>1, <1>2, PTL

\* An entry becomes valid exactly when the last request for it is answered,
\* whatever reads were coalesced and in whatever order the lines came back.
THEOREM WaitingIsExact ==
  ASSUME \A b \in Builds : CountsHits(b)
  PROVE  Spec => []WaitingExact
<1>1. Spec => []IInv
  BY Invariance
<1>2. IInv => WaitingExact
  BY InvImplies
<1>3. QED
  BY <1>1, <1>2, PTL

(***************************************************************************)
(* The order of the edges.                                                 *)
(***************************************************************************)

\* The requests of one entry are for one edge, whatever vertices they also read.
OneEdgePerEntry ==
  \A c \in Cores, i \in Slots : \A r, s \in For(outstanding, c, i) :
    r.tuple # Dummy /\ s.tuple # Dummy => r.tuple = s.tuple

\* In the synchronous model the entry of a source vertex gets no tuple of its
\* own: an entry that is free must hold none.
FreeDummies ==
  SYNC => \A c \in Cores, i \in Slots : i \in InUse(c) \/ tuple[c][i] = Dummy

OInv == OneEdgePerEntry /\ FreeDummies /\ Ordered

\* What the entries in use hold or are going to hold.
Held(c) == [k \in 1 .. Used(c) |-> Contents(c)[Plus(pop[c], k - 1)]]

LEMMA PipelineIs == \A c : Pipeline(c) = (lsq[c] \o prefLsq[c]) \o Kept(Held(c), Used(c))
BY DEF Pipeline, Held

LEMMA Associative == \A s, t, u \in Seq(Tuples) : (s \o t) \o u = s \o (t \o u)
BY ConcatAssociative

LEMMA AppendConcat ==
  \A s, t \in Seq(Tuples), x \in Tuples : s \o Append(t, x) = Append(s \o t, x)
<1> SUFFICES ASSUME NEW s \in Seq(Tuples), NEW t \in Seq(Tuples), NEW x \in Tuples
             PROVE  s \o Append(t, x) = Append(s \o t, x)
  OBVIOUS
<1>1. Append(t, x) = t \o <<x>>
  BY AppendIsConcat
<1>2. s \o t \in Seq(Tuples)
  BY ConcatProperties
<1>3. Append(s \o t, x) = (s \o t) \o <<x>>
  BY <1>2, AppendIsConcat
<1>4. <<x>> \in Seq(Tuples)
  OBVIOUS
<1>5. (s \o t) \o <<x>> = s \o (t \o <<x>>)
  BY <1>4, ConcatAssociative
<1>6. QED
  BY <1>1, <1>3, <1>5

LEMMA TailConcat ==
  \A s, t \in Seq(Tuples) : s # <<>> =>
    /\ s \o t # <<>> /\ Head(s \o t) = Head(s) /\ Tail(s \o t) = Tail(s) \o t
<1> SUFFICES ASSUME NEW s \in Seq(Tuples), NEW t \in Seq(Tuples), s # <<>>
             PROVE  s \o t # <<>> /\ Head(s \o t) = Head(s) /\ Tail(s \o t) = Tail(s) \o t
  OBVIOUS
<1>1. /\ Len(s) \in Nat \ {0} /\ Len(t) \in Nat
  BY EmptySeq, LenProperties
<1>2. /\ s \o t \in Seq(Tuples) /\ Len(s \o t) = Len(s) + Len(t)
      /\ \A i \in 1 .. Len(s) + Len(t) :
           (s \o t)[i] = IF i <= Len(s) THEN s[i] ELSE t[i - Len(s)]
  BY ConcatProperties
<1>3. s \o t # <<>>
  BY <1>1, <1>2, EmptySeq
<1>4. Head(s \o t) = Head(s)
  <2>1. (s \o t)[1] = s[1]
    BY <1>1, <1>2
  <2>2. QED
    BY <2>1
<1>5. /\ Tail(s) \in Seq(Tuples) /\ Len(Tail(s)) = Len(s) - 1
      /\ \A i \in 1 .. Len(s) - 1 : Tail(s)[i] = s[i + 1]
  BY HeadTailProperties
<1>6. /\ Tail(s \o t) \in Seq(Tuples) /\ Len(Tail(s \o t)) = Len(s) + Len(t) - 1
      /\ \A i \in 1 .. Len(s) + Len(t) - 1 : Tail(s \o t)[i] = (s \o t)[i + 1]
  BY <1>2, <1>3, HeadTailProperties
<1>7. /\ Tail(s) \o t \in Seq(Tuples) /\ Len(Tail(s) \o t) = Len(s) - 1 + Len(t)
      /\ \A i \in 1 .. Len(s) - 1 + Len(t) :
           (Tail(s) \o t)[i] = IF i <= Len(s) - 1 THEN Tail(s)[i] ELSE t[i - (Len(s) - 1)]
  BY <1>5, ConcatProperties
<1>8. ASSUME NEW i \in 1 .. Len(s) + Len(t) - 1
      PROVE  Tail(s \o t)[i] = (Tail(s) \o t)[i]
  <2>1. i + 1 \in 1 .. Len(s) + Len(t) /\ i \in 1 .. Len(s) - 1 + Len(t)
    BY <1>1
  <2>2. Tail(s \o t)[i] = IF i + 1 <= Len(s) THEN s[i + 1] ELSE t[(i + 1) - Len(s)]
    BY <1>2, <1>6, <2>1
  <2>3. CASE i + 1 <= Len(s)
    <3>1. i \in 1 .. Len(s) - 1
      BY <1>1, <2>3
    <3>2. QED
      BY <1>5, <1>7, <2>1, <2>2, <2>3, <3>1
  <2>4. CASE ~(i + 1 <= Len(s))
    <3>1. ~(i <= Len(s) - 1) /\ (i + 1) - Len(s) = i - (Len(s) - 1)
      BY <1>1, <2>4
    <3>2. QED
      BY <1>7, <2>1, <2>2, <2>4, <3>1
  <2>5. QED
    BY <2>3, <2>4
<1>9. Len(Tail(s \o t)) = Len(Tail(s) \o t)
  BY <1>1, <1>6, <1>7
<1>10. Tail(s \o t) = Tail(s) \o t
  BY <1>6, <1>7, <1>8, <1>9, SeqEqual
<1>11. QED
  BY <1>3, <1>4, <1>10

\* A first run of entries and the rest.
LEMMA KeptSplit ==
  \A m, n \in Nat : \A ts \in [1 .. m + n -> Tuples] :
    Kept(ts, m + n) = Kept([i \in 1 .. m |-> ts[i]], m) \o Kept([i \in 1 .. n |-> ts[m + i]], n)
<1> SUFFICES ASSUME NEW m \in Nat, NEW n \in Nat, NEW ts \in [1 .. m + n -> Tuples]
             PROVE  Kept(ts, m + n) = Kept([i \in 1 .. m |-> ts[i]], m)
                                        \o Kept([i \in 1 .. n |-> ts[m + i]], n)
  OBVIOUS
<1> DEFINE fs == [i \in 1 .. m |-> ts[i]]
           bs == [i \in 1 .. n |-> ts[m + i]]
<1>1. fs \in [1 .. m -> Tuples] /\ bs \in [1 .. n -> Tuples]
  OBVIOUS
<1>2. m + n \in Nat
  OBVIOUS
<1>3. PICK k : Keeps(ts, m + n, k) /\ Kept(ts, m + n) = k[m + n]
  BY <1>2, KeptIs
<1>4. PICK a : Keeps(fs, m, a) /\ Kept(fs, m) = a[m]
  <2> HIDE DEF fs
  <2> QED BY <1>1, KeptIs
<1>5. PICK b : Keeps(bs, n, b) /\ Kept(bs, n) = b[n]
  <2> HIDE DEF bs
  <2> QED BY <1>1, KeptIs
<1>6. /\ \A i \in 1 .. m : fs[i] = ts[i]
      /\ \A i \in 1 .. n : bs[i] = ts[m + i] /\ bs[i] \in Tuples
  OBVIOUS
<1> HIDE DEF fs, bs
<1>7. k[m] = a[m]
  <2> DEFINE S == {i \in Nat : k[i] = a[i]}
  <2>1. 0 \in S
    BY <1>3, <1>4 DEF Keeps
  <2>2. ASSUME NEW i \in 0 .. m - 1, i \in S PROVE i + 1 \in S
    <3>1. i + 1 \in 1 .. m /\ i + 1 \in 1 .. m + n /\ (i + 1) - 1 = i /\ k[i] = a[i]
      BY <2>2
    <3>2. /\ k[i + 1] = IF ts[i + 1] = Dummy THEN k[i] ELSE Append(k[i], ts[i + 1])
          /\ a[i + 1] = IF fs[i + 1] = Dummy THEN a[i] ELSE Append(a[i], fs[i + 1])
      BY <1>3, <1>4, <3>1 DEF Keeps
    <3>3. k[i + 1] = a[i + 1]
      BY <1>6, <3>1, <3>2
    <3>4. QED
      BY <3>1, <3>3
  <2> HIDE DEF S
  <2>3. \A i \in 0 .. m : i \in S
    BY <2>1, <2>2, RangeInduction
  <2>4. QED
    BY <2>3 DEF S
<1>8. a[m] \in Seq(Tuples) /\ \A i \in 0 .. n : b[i] \in Seq(Tuples)
  BY <1>4, <1>5 DEF Keeps
<1>9. k[m + n] = a[m] \o b[n]
  <2> DEFINE Same(i) == k[m + i] = a[m] \o b[i]
             S == {i \in Nat : Same(i)}
  <2>1. Same(0)
    <3>1. a[m] \o <<>> = a[m] /\ m + 0 = m /\ b[0] = <<>>
      BY <1>5, <1>8, ConcatEmptySeq DEF Keeps
    <3>2. QED
      BY <1>7, <3>1
  <2> HIDE DEF Same
  <2>2. ASSUME NEW i \in 0 .. n - 1, i \in S PROVE i + 1 \in S
    <3>1. /\ i + 1 \in 1 .. n /\ i \in 0 .. n /\ m + (i + 1) \in 1 .. m + n
          /\ (i + 1) - 1 = i /\ (m + (i + 1)) - 1 = m + i
          /\ i \in Nat /\ i + 1 \in Nat
      OBVIOUS
    <3>6. k[m + i] = a[m] \o b[i]
      BY <2>2 DEF Same
    <3> DEFINE x == bs[i + 1]
    <3>2. /\ k[m + (i + 1)] = IF x = Dummy THEN k[m + i] ELSE Append(k[m + i], x)
          /\ b[i + 1] = IF x = Dummy THEN b[i] ELSE Append(b[i], x)
          /\ x \in Tuples
      <4>1. x = ts[m + (i + 1)] /\ x \in Tuples
        BY <1>6, <3>1
      <4>2. k[m + (i + 1)] = IF ts[m + (i + 1)] = Dummy THEN k[m + i]
                             ELSE Append(k[m + i], ts[m + (i + 1)])
        BY <1>3, <3>1 DEF Keeps
      <4>3. b[i + 1] = IF x = Dummy THEN b[i] ELSE Append(b[i], x)
        BY <1>5, <3>1 DEF Keeps
      <4>4. QED
        BY <4>1, <4>2, <4>3
    <3> HIDE DEF x
    <3>3. a[m] \o Append(b[i], x) = Append(a[m] \o b[i], x)
      BY <1>8, <3>1, <3>2, AppendConcat
    <3>4. k[m + (i + 1)] = a[m] \o b[i + 1]
      BY <3>2, <3>3, <3>6
    <3>5. QED
      BY <3>1, <3>4 DEF Same
  <2>5. 0 \in S
    BY <2>1
  <2> HIDE DEF S
  <2>3. \A i \in 0 .. n : i \in S
    BY <2>2, <2>5, RangeInduction
  <2>4. Same(n)
    BY <2>3 DEF S
  <2>6. QED
    BY <2>4 DEF Same
<1>10. QED
  BY <1>3, <1>4, <1>5, <1>9 DEF fs, bs

\* One entry more.
LEMMA KeptOne ==
  \A n \in Nat : \A ts \in [1 .. n + 1 -> Tuples], fs \in [1 .. n -> Tuples] :
    (\A i \in 1 .. n : ts[i] = fs[i]) =>
      Kept(ts, n + 1) = IF ts[n + 1] = Dummy THEN Kept(fs, n) ELSE Append(Kept(fs, n), ts[n + 1])
<1> SUFFICES ASSUME NEW n \in Nat, NEW ts \in [1 .. n + 1 -> Tuples],
                    NEW fs \in [1 .. n -> Tuples], \A i \in 1 .. n : ts[i] = fs[i]
             PROVE  Kept(ts, n + 1) = IF ts[n + 1] = Dummy THEN Kept(fs, n)
                                      ELSE Append(Kept(fs, n), ts[n + 1])
  OBVIOUS
<1>1. n + 1 \in Nat /\ n + 1 \in 1 .. n + 1 /\ (n + 1) - 1 = n
  OBVIOUS
<1>2. PICK k : Keeps(ts, n + 1, k) /\ Kept(ts, n + 1) = k[n + 1]
  BY <1>1, KeptIs
<1>3. PICK a : Keeps(fs, n, a) /\ Kept(fs, n) = a[n]
  BY KeptIs
<1>4. k[n] = a[n]
  <2> DEFINE S == {i \in Nat : k[i] = a[i]}
  <2>1. 0 \in S
    BY <1>2, <1>3 DEF Keeps
  <2>2. ASSUME NEW i \in 0 .. n - 1, i \in S PROVE i + 1 \in S
    <3>1. i + 1 \in 1 .. n /\ i + 1 \in 1 .. n + 1 /\ (i + 1) - 1 = i /\ k[i] = a[i]
      BY <2>2
    <3>2. /\ k[i + 1] = IF ts[i + 1] = Dummy THEN k[i] ELSE Append(k[i], ts[i + 1])
          /\ a[i + 1] = IF fs[i + 1] = Dummy THEN a[i] ELSE Append(a[i], fs[i + 1])
      BY <1>2, <1>3, <3>1 DEF Keeps
    <3>3. QED
      BY <3>1, <3>2
  <2> HIDE DEF S
  <2>3. \A i \in 0 .. n : i \in S
    BY <2>1, <2>2, RangeInduction
  <2>4. QED
    BY <2>3 DEF S
<1>5. QED
  BY <1>1, <1>2, <1>3, <1>4 DEF Keeps

LEMMA ContentsType ==
  ASSUME TypeOK
  PROVE  /\ \A c \in Cores, i \in Slots : Coming(c, i) \subseteq Edges
         /\ \A c \in Cores : Contents(c) \in [Slots -> Tuples]
<1>1. \A r \in outstanding : r.tuple \in Edges \cup {Dummy}
  BY DEF TypeOK, Request
<1>2. \A c \in Cores, i \in Slots : Coming(c, i) \subseteq Edges
  BY <1>1 DEF Coming, For
<1>3. ASSUME NEW c \in Cores, NEW i \in Slots
      PROVE  (IF Coming(c, i) = {} THEN tuple[c][i]
              ELSE CHOOSE e \in Coming(c, i) : TRUE) \in Tuples
  <2>1. CASE Coming(c, i) = {}
    BY <2>1 DEF TypeOK
  <2>2. CASE Coming(c, i) # {}
    BY <1>2, <2>2 DEF Tuples
  <2>3. QED
    BY <2>1, <2>2
<1>4. QED
  BY <1>2, <1>3 DEF Contents

LEMMA HeldType ==
  ASSUME IInv, NEW c \in Cores
  PROVE  /\ COMPLETION_BUFFER_SIZE \in Nat \ {0} /\ pop[c] \in Slots
         /\ Used(c) \in 0 .. COMPLETION_BUFFER_SIZE - 1
         /\ \A k \in 1 .. Used(c) : Plus(pop[c], k - 1) \in Slots \cap InUse(c)
         /\ Held(c) \in [1 .. Used(c) -> Tuples]
         /\ Kept(Held(c), Used(c)) \in Seq(Tuples)
<1>1. /\ COMPLETION_BUFFER_SIZE \in Nat \ {0} /\ pop[c] \in Slots
      /\ remaining[c] \in 1 .. COMPLETION_BUFFER_SIZE
  BY SizesAssumption DEF IInv, TypeOK
<1>2. Used(c) \in 0 .. COMPLETION_BUFFER_SIZE - 1
  BY <1>1 DEF Used
<1>3. \A k \in 1 .. Used(c) : Plus(pop[c], k - 1) \in Slots \cap InUse(c)
  <2>1. \A k \in 1 .. Used(c) : k - 1 \in 0 .. COMPLETION_BUFFER_SIZE /\ k - 1 \in 0 .. Used(c) - 1
    BY <1>1, <1>2
  <2>2. QED
    BY <1>1, <2>1, PlusIs DEF InUse
<1>4. Held(c) \in [1 .. Used(c) -> Tuples]
  <2>1. \A k \in 1 .. Used(c) : Contents(c)[Plus(pop[c], k - 1)] \in Tuples
    BY <1>3, ContentsType DEF IInv
  <2>2. QED
    BY <2>1 DEF Held
<1>5. Kept(Held(c), Used(c)) \in Seq(Tuples)
  BY <1>2, <1>4, KeptType
<1>6. QED
  BY <1>1, <1>2, <1>3, <1>4, <1>5

\* Cores whose entries and queues a step leaves alone.
LEMMA PipelineStays ==
  ASSUME IInv, NEW c \in Cores, pop'[c] = pop[c], remaining'[c] = remaining[c],
         \A i \in Slots : i \in InUse(c) => Contents(c)'[i] = Contents(c)[i]
  PROVE  /\ Kept(Held(c), Used(c))' = Kept(Held(c), Used(c))
         /\ lsq'[c] = lsq[c] /\ prefLsq'[c] = prefLsq[c] => Pipeline(c)' = Pipeline(c)
<1>1. Used(c)' = Used(c)
  BY DEF Used
<1>2. \A k \in 1 .. Used(c) : Contents(c)'[Plus(pop[c], k - 1)] = Contents(c)[Plus(pop[c], k - 1)]
  BY HeldType
<1>3. Held(c)' = Held(c)
  BY <1>1, <1>2 DEF Held
<1>4. Kept(Held(c), Used(c))' = Kept(Held(c), Used(c))
  BY <1>1, <1>3
<1>5. Pipeline(c)' = (lsq'[c] \o prefLsq'[c]) \o Kept(Held(c), Used(c))'
  BY DEF Pipeline, Held
<1>6. QED
  BY <1>4, <1>5, PipelineIs

LEMMA ReadCompleteOrders ==
  ASSUME IInv, OInv, NEW line \in Lines, ReadComplete(line)
  PROVE  OInv'
<1> DEFINE done == Waiters(line)
<1>1. TypeOK /\ OneEdgePerEntry /\ FreeDummies /\ Ordered
  BY DEF IInv, OInv
<1>2. /\ \A c, i : /\ For(done, c, i) \subseteq For(outstanding, c, i)
                   /\ For(outstanding', c, i) = For(outstanding, c, i) \ For(done, c, i)
  BY <1>1, ServedRequests
<1>3. /\ tuple' = [c \in Cores |-> [i \in Slots |->
           IF EdgesFor(done, c, i) = {} THEN tuple[c][i]
           ELSE CHOOSE e \in EdgesFor(done, c, i) : TRUE]]
      /\ UNCHANGED <<build, push, pop, remaining, prefLsq, lsq, burst, issued, out>>
  BY DEF ReadComplete
<1> HIDE DEF done
<1>4. OneEdgePerEntry'
  BY <1>1, <1>2 DEF OneEdgePerEntry
<1>5. FreeDummies'
  <2>1. SUFFICES ASSUME SYNC', NEW c \in Cores, NEW i \in Slots, i \notin InUse(c)'
                 PROVE  tuple'[c][i] = Dummy
    BY DEF FreeDummies
  <2>2. SYNC /\ i \notin InUse(c)
    BY <1>3, <2>1 DEF SYNC, InUse, Used
  <2>3. For(outstanding, c, i) = {} /\ tuple[c][i] = Dummy
    BY <1>1, <2>2 DEF IInv, EntryExact, FreeDummies
  <2>4. EdgesFor(done, c, i) = {}
    BY <1>2, <2>3 DEF EdgesFor
  <2>5. QED
    BY <1>3, <2>3, <2>4
<1>6. ASSUME NEW c \in Cores, NEW i \in Slots PROVE Contents(c)'[i] = Contents(c)[i]
  <2>1. /\ Contents(c)[i] = IF Coming(c, i) = {} THEN tuple[c][i]
                            ELSE CHOOSE e \in Coming(c, i) : TRUE
        /\ Contents(c)'[i] = IF Coming(c, i)' = {} THEN tuple'[c][i]
                             ELSE CHOOSE e \in Coming(c, i)' : TRUE
    BY DEF Contents
  <2>2. tuple'[c][i] = IF EdgesFor(done, c, i) = {} THEN tuple[c][i]
                       ELSE CHOOSE e \in EdgesFor(done, c, i) : TRUE
    BY <1>3
  <2>3. Coming(c, i) = Coming(c, i)' \cup EdgesFor(done, c, i)
    BY <1>2 DEF Coming, EdgesFor
  <2>4. \A e, f \in Coming(c, i) : e = f
    BY <1>1 DEF OneEdgePerEntry, Coming
  <2>5. CASE EdgesFor(done, c, i) = {}
    <3>1. Coming(c, i) = Coming(c, i)' /\ tuple'[c][i] = tuple[c][i]
      BY <2>2, <2>3, <2>5
    <3>2. QED
      BY <2>1, <3>1
  <2>6. CASE EdgesFor(done, c, i) # {}
    <3>1. PICK e : e \in EdgesFor(done, c, i)
      BY <2>6
    <3>2. Coming(c, i) = {e} /\ EdgesFor(done, c, i) = {e}
          /\ (Coming(c, i)' = {} \/ Coming(c, i)' = {e})
      BY <2>3, <2>4, <3>1
    <3>3. (CHOOSE f \in {e} : TRUE) = e
      OBVIOUS
    <3>4. tuple'[c][i] = e /\ Contents(c)[i] = e
      BY <2>1, <2>2, <3>2, <3>3
    <3>5. QED
      BY <2>1, <3>2, <3>3, <3>4
  <2>7. QED
    BY <2>5, <2>6
<1>7. Ordered'
  <2>1. \A c \in Cores : Pipeline(c)' = Pipeline(c)
    BY <1>3, <1>6, PipelineStays
  <2>2. QED
    BY <1>1, <1>3, <2>1 DEF Ordered
<1>8. QED
  BY <1>4, <1>5, <1>7 DEF OInv

LEMMA CbToLsqOrders ==
  ASSUME IInv, OInv, NEW c \in Cores, CbToLsq(c)
  PROVE  OInv'
<1>1. PICK n \in 1 .. COMPLETION_BUFFER_SIZE :
        /\ CanRelease(c, n)
        /\ prefLsq' = [prefLsq EXCEPT ![c] = @ \o Front(c, n)]
        /\ remaining' = [remaining EXCEPT ![c] = @ + n]
        /\ pop' = [pop EXCEPT ![c] = Plus(@, n)]
        /\ tuple' = [tuple EXCEPT ![c] =
             [i \in Slots |-> IF i \in Span(pop[c], n) THEN Dummy ELSE @[i]]]
  BY DEF CbToLsq, Span
<1>2. UNCHANGED <<build, push, waiting, outstanding, cached, lsq, burst, issued, out>>
  BY DEF CbToLsq
<1>3. TypeOK /\ OneEdgePerEntry /\ FreeDummies /\ Ordered
  BY DEF IInv, OInv
<1>4. /\ n <= Used(c) /\ Span(pop[c], n) \subseteq InUse(c)
      /\ \A i \in Span(pop[c], n) : i \in Slots /\ For(outstanding, c, i) = {}
  BY <1>1, ReleasedInUse
<1>5. /\ COMPLETION_BUFFER_SIZE \in Nat \ {0} /\ pop[c] \in Slots
      /\ Used(c) \in 0 .. COMPLETION_BUFFER_SIZE - 1
      /\ \A k \in 1 .. Used(c) : Plus(pop[c], k - 1) \in Slots \cap InUse(c)
      /\ Held(c) \in [1 .. Used(c) -> Tuples]
  BY HeldType
<1>6. /\ remaining'[c] = remaining[c] + n /\ pop'[c] = Plus(pop[c], n)
      /\ prefLsq'[c] = prefLsq[c] \o Front(c, n)
      /\ Used(c)' = Used(c) - n
  <2>1. remaining'[c] = remaining[c] + n /\ pop'[c] = Plus(pop[c], n)
        /\ prefLsq'[c] = prefLsq[c] \o Front(c, n) /\ remaining[c] \in Int
    BY <1>1, <1>3 DEF TypeOK
  <2>2. Used(c)' = COMPLETION_BUFFER_SIZE - remaining'[c]
    BY DEF Used
  <2>3. QED
    BY <1>5, <2>1, <2>2 DEF Used
<1>7. OneEdgePerEntry'
  BY <1>2, <1>3 DEF OneEdgePerEntry
<1>8. ASSUME NEW d \in Cores, NEW i \in Slots
      PROVE  tuple'[d][i] = IF d = c /\ i \in Span(pop[c], n) THEN Dummy ELSE tuple[d][i]
  BY <1>1, <1>3 DEF TypeOK
<1>9. \A d \in Cores : d # c =>
        pop'[d] = pop[d] /\ remaining'[d] = remaining[d] /\ prefLsq'[d] = prefLsq[d]
  BY <1>1, <1>3 DEF TypeOK
<1>10. FreeDummies'
  <2>1. SUFFICES ASSUME SYNC', NEW d \in Cores, NEW i \in Slots, i \notin InUse(d)'
                 PROVE  tuple'[d][i] = Dummy
    BY DEF FreeDummies
  <2>2. SYNC /\ \A j \in Slots : j \in InUse(d) \/ tuple[d][j] = Dummy
    BY <1>2, <1>3, <2>1 DEF SYNC, FreeDummies
  <2>3. CASE d # c
    <3>1. i \notin InUse(d)
      BY <1>9, <2>1, <2>3 DEF InUse, Used
    <3>2. QED
      BY <1>8, <2>2, <2>3, <3>1
  <2>4. CASE d = c
    <3>1. InUse(c)' = InUse(c) \ Span(pop[c], n)
      <4>1. InUse(c) = Span(pop[c], Used(c))
        BY DEF InUse, Span
      <4>2. InUse(c)' = Span(Plus(pop[c], n), Used(c) - n)
        BY <1>6 DEF InUse, Span
      <4>3. /\ Used(c) \in 0 .. COMPLETION_BUFFER_SIZE /\ n \in 0 .. COMPLETION_BUFFER_SIZE
            /\ pop[c] \in Slots /\ n <= Used(c)
        BY <1>4, <1>5
      <4>4. QED
        BY <4>1, <4>2, <4>3, SpanShrinks
    <3>2. QED
      BY <1>8, <2>1, <2>2, <2>4, <3>1
  <2>5. QED
    BY <2>3, <2>4
<1>11. ASSUME NEW d \in Cores, NEW i \in Slots, ~(d = c /\ i \in Span(pop[c], n))
       PROVE  Contents(d)'[i] = Contents(d)[i]
  <2>1. /\ Contents(d)[i] = IF Coming(d, i) = {} THEN tuple[d][i]
                            ELSE CHOOSE e \in Coming(d, i) : TRUE
        /\ Contents(d)'[i] = IF Coming(d, i)' = {} THEN tuple'[d][i]
                             ELSE CHOOSE e \in Coming(d, i)' : TRUE
    BY DEF Contents
  <2>2. Coming(d, i)' = Coming(d, i)
    BY <1>2 DEF Coming
  <2>3. QED
    BY <1>8, <1>11, <2>1, <2>2
<1>12. /\ Kept(Held(c), Used(c)) = Front(c, n) \o Kept(Held(c), Used(c))'
       /\ Kept(Held(c), Used(c))' \in Seq(Tuples)
  <2> DEFINE m == Used(c) - n
             fs == [i \in 1 .. n |-> Held(c)[i]]
             bs == [i \in 1 .. m |-> Held(c)[n + i]]
  <2>1. m \in Nat /\ n \in Nat /\ n + m = Used(c) /\ m \in 0 .. COMPLETION_BUFFER_SIZE
    BY <1>4, <1>5
  <2>2. Held(c) \in [1 .. n + m -> Tuples]
    BY <1>5, <2>1
  <2>3. Kept(Held(c), n + m) = Kept(fs, n) \o Kept(bs, m)
    <3> HIDE DEF m
    <3>1. QED
      BY <2>1, <2>2, KeptSplit
  <2>4. fs = [k \in 1 .. n |-> tuple[c][Plus(pop[c], k - 1)]]
    <3>1. ASSUME NEW k \in 1 .. n PROVE Held(c)[k] = tuple[c][Plus(pop[c], k - 1)]
      <4>1. k \in 1 .. Used(c) /\ k - 1 \in 0 .. n - 1
        BY <1>4, <1>5
      <4>2. PICK i \in Slots : i = Plus(pop[c], k - 1) /\ i \in Span(pop[c], n)
        BY <1>5, <4>1 DEF Span
      <4>3. Held(c)[k] = Contents(c)[i]
        BY <4>1, <4>2 DEF Held
      <4>4. Coming(c, i) = {}
        BY <1>4, <4>2 DEF Coming
      <4>5. Contents(c)[i] = tuple[c][i]
        BY <4>4 DEF Contents
      <4>6. QED
        BY <4>2, <4>3, <4>5
    <3>2. QED
      BY <3>1
  <2>5. Held(c)' = bs
    <3>1. ASSUME NEW k \in 1 .. m
          PROVE  Contents(c)'[Plus(Plus(pop[c], n), k - 1)] = Held(c)[n + k]
      <4>1. /\ n + k \in 1 .. Used(c) /\ (n + k) - 1 = n + (k - 1)
            /\ n + (k - 1) \in 0 .. COMPLETION_BUFFER_SIZE - 1
            /\ k - 1 \in 0 .. COMPLETION_BUFFER_SIZE /\ n \in 0 .. COMPLETION_BUFFER_SIZE
            /\ n + (k - 1) <= COMPLETION_BUFFER_SIZE /\ ~(n + (k - 1) < n)
        BY <1>4, <1>5, <2>1
      <4>2. Plus(Plus(pop[c], n), k - 1) = Plus(pop[c], n + (k - 1))
        BY <1>5, <4>1, PlusPlus
      <4>3. PICK i \in Slots : i = Plus(pop[c], n + (k - 1))
        BY <1>5, <4>1
      <4>4. i \notin Span(pop[c], n)
        BY <1>5, <4>1, <4>3, SpanHas
      <4>5. Contents(c)'[i] = Contents(c)[i]
        BY <1>11, <4>4
      <4>6. Held(c)[n + k] = Contents(c)[Plus(pop[c], (n + k) - 1)]
        BY <4>1 DEF Held
      <4>7. QED
        BY <4>1, <4>2, <4>3, <4>5, <4>6
    <3>2. Held(c)' = [k \in 1 .. m |-> Contents(c)'[Plus(Plus(pop[c], n), k - 1)]]
      BY <1>6 DEF Held
    <3>3. QED
      BY <3>1, <3>2
  <2>6. Kept(Held(c), Used(c))' = Kept(bs, m)
    <3> HIDE DEF bs
    <3>1. Used(c)' = m
      BY <1>6
    <3> HIDE DEF m
    <3>2. QED
      BY <2>5, <3>1
  <2>7. Front(c, n) = Kept(fs, n)
    BY <2>4 DEF Front
  <2>8. bs \in [1 .. m -> Tuples]
    BY <2>1, <2>2
  <2> HIDE DEF fs, bs, m
  <2>9. Kept(bs, m) \in Seq(Tuples)
    BY <2>1, <2>8, KeptType
  <2>10. QED
    BY <2>1, <2>3, <2>6, <2>7, <2>9
<1>13. Pipeline(c)' = Pipeline(c)
  <2>1. /\ lsq[c] \in Seq(Tuples) /\ prefLsq[c] \in Seq(Tuples)
    BY <1>3 DEF TypeOK
  <2>2. Front(c, n) \in Seq(Tuples)
    <3>1. \A k \in 1 .. n : tuple[c][Plus(pop[c], k - 1)] \in Tuples
      <4>1. \A k \in 1 .. n : Plus(pop[c], k - 1) \in Slots
        <5>1. \A k \in 1 .. n : k \in 1 .. Used(c)
          BY <1>4, <1>5
        <5>2. QED
          BY <1>5, <5>1
      <4>2. QED
        BY <1>3, <4>1 DEF TypeOK
    <3>2. n \in Nat
      OBVIOUS
    <3>3. QED
      BY <3>1, <3>2, KeptType DEF Front
  <2> DEFINE a == lsq[c]
             b == prefLsq[c]
             f == Front(c, n)
             k == Kept(Held(c), Used(c))'
  <2>4. Pipeline(c)' = (a \o (b \o f)) \o k
    BY <1>2, <1>6 DEF Pipeline, Held
  <2>5. Pipeline(c) = (a \o b) \o (f \o k)
    BY <1>12, PipelineIs
  <2> HIDE DEF a, b, f, k
  <2>6. a \in Seq(Tuples) /\ b \in Seq(Tuples) /\ f \in Seq(Tuples) /\ k \in Seq(Tuples)
    BY <1>12, <2>1, <2>2 DEF a, b, f, k
  <2>7. a \o b \in Seq(Tuples)
    BY <2>6, ConcatProperties
  <2>8. (a \o b) \o (f \o k) = ((a \o b) \o f) \o k
    BY <2>6, <2>7, Associative, Zenon
  <2>9. (a \o b) \o f = a \o (b \o f)
    BY <2>6, Associative, Zenon
  <2>10. QED
    BY <2>4, <2>5, <2>8, <2>9
<1>14. ASSUME NEW d \in Cores, d # c PROVE Pipeline(d)' = Pipeline(d)
  <2>1. \A i \in Slots : Contents(d)'[i] = Contents(d)[i]
    BY <1>11, <1>14
  <2>2. QED
    BY <1>2, <1>9, <1>14, <2>1, PipelineStays
<1>15. Ordered'
  BY <1>2, <1>3, <1>13, <1>14 DEF Ordered
<1>16. QED
  BY <1>7, <1>10, <1>15 DEF OInv

\* Steps that leave the ring alone.
LEMMA EntriesStay ==
  ASSUME IInv, OInv, UNCHANGED <<build, ringVars, outstanding>>
  PROVE  /\ OneEdgePerEntry' /\ FreeDummies'
         /\ \A c \in Cores :
              /\ Kept(Held(c), Used(c))' = Kept(Held(c), Used(c))
              /\ lsq'[c] = lsq[c] /\ prefLsq'[c] = prefLsq[c] => Pipeline(c)' = Pipeline(c)
<1>1. UNCHANGED <<push, pop, remaining, valid, waiting, tuple, outstanding, build>>
  BY DEF ringVars
<1>2. OneEdgePerEntry'
  BY <1>1 DEF OInv, OneEdgePerEntry
<1>3. FreeDummies'
  BY <1>1 DEF OInv, FreeDummies, SYNC, InUse, Used
<1>4. \A c \in Cores : \A i \in Slots : Contents(c)'[i] = Contents(c)[i]
  BY <1>1 DEF Contents, Coming
<1>5. QED
  BY <1>1, <1>2, <1>3, <1>4, PipelineStays

LEMMA MoveToCoreOrders ==
  ASSUME IInv, OInv, NEW c \in Cores, MoveToCore(c)
  PROVE  OInv'
<1> DEFINE room == AGG_FIFO_DEP_LEN - Len(lsq[c])
           n == IF room < Len(prefLsq[c]) THEN room ELSE Len(prefLsq[c])
<1>1. /\ lsq' = [lsq EXCEPT ![c] = @ \o SubSeq(prefLsq[c], 1, n)]
      /\ prefLsq' = [prefLsq EXCEPT ![c] = SubSeq(@, n + 1, Len(@))]
      /\ UNCHANGED <<build, ringVars, outstanding, cached, burst, issued, out>>
      /\ Len(lsq[c]) < AGG_FIFO_DEP_LEN
  BY DEF MoveToCore
<1>2. prefLsq[c] \in Seq(Tuples) /\ lsq[c] \in Seq(Tuples) /\ TypeOK /\ Ordered
  BY DEF IInv, TypeOK, OInv
<1>3. n \in 0 .. Len(prefLsq[c]) /\ Len(prefLsq[c]) \in Nat
  <2>1. Len(prefLsq[c]) \in Nat /\ Len(lsq[c]) \in Nat /\ AGG_FIFO_DEP_LEN \in Nat
    BY <1>2, SizesAssumption, LenProperties
  <2> HIDE DEF n
  <2>2. QED
    BY <1>1, <2>1 DEF n
<1> HIDE DEF n
<1> DEFINE p == prefLsq[c]
           head == SubSeq(p, 1, n)
           rest == SubSeq(p, n + 1, Len(p))
<1>4. /\ OneEdgePerEntry' /\ FreeDummies'
      /\ \A d \in Cores :
           /\ Kept(Held(d), Used(d))' = Kept(Held(d), Used(d))
           /\ lsq'[d] = lsq[d] /\ prefLsq'[d] = prefLsq[d] => Pipeline(d)' = Pipeline(d)
  BY <1>1, EntriesStay
<1>5. /\ lsq'[c] = lsq[c] \o head /\ prefLsq'[c] = rest
      /\ \A d \in Cores : d # c => lsq'[d] = lsq[d] /\ prefLsq'[d] = prefLsq[d]
  BY <1>1, <1>2 DEF TypeOK
<1>6. head \o rest = p
  <2>1. 1 \in 1 .. Len(p) + 1 /\ n \in 1 - 1 .. Len(p) /\ Len(p) \in n .. Len(p)
    BY <1>3
  <2>2. head \o rest = SubSeq(p, 1, Len(p))
    BY <1>2, <2>1, ConcatAdjacentSubSeq
  <2>3. QED
    BY <1>2, <2>2, SubSeqFull
<1>7. head \in Seq(Tuples) /\ rest \in Seq(Tuples)
  <2>1. \A i \in 1 .. Len(p) : p[i] \in Tuples
    BY <1>2, ElementOfSeq
  <2>2. n + 1 \in Int /\ n \in Int /\ Len(p) \in Nat
    BY <1>3
  <2>3. QED
    BY <1>2, <1>3, <2>1, <2>2, SubSeqProperties
<1>8. Pipeline(c)' = Pipeline(c)
  <2>1. Pipeline(c)' = ((lsq[c] \o head) \o rest) \o Kept(Held(c), Used(c))
    <3>1. Pipeline(c)' = (lsq'[c] \o prefLsq'[c]) \o Kept(Held(c), Used(c))'
      BY DEF Pipeline, Held
    <3>2. QED
      BY <1>4, <1>5, <3>1
  <2> HIDE DEF head, rest, p
  <2>2. (lsq[c] \o head) \o rest = lsq[c] \o p
    BY <1>2, <1>6, <1>7, Associative
  <2>3. QED
    BY <2>1, <2>2, PipelineIs DEF p
<1>9. Ordered'
  BY <1>1, <1>2, <1>4, <1>5, <1>8 DEF Ordered
<1>10. QED
  BY <1>4, <1>9 DEF OInv

\* An edge that goes to the process stage is the oldest the core asked for.
LEMMA ConsumeIsFirst ==
  ASSUME IInv, OInv, NEW c \in Cores, Consume(c)
  PROVE  /\ issued[c] # <<>> /\ Head(lsq[c]) = Head(issued[c])
         /\ issued' = [issued EXCEPT ![c] = Tail(@)]
         /\ Tail(issued[c]) = (Tail(lsq[c]) \o prefLsq[c]) \o Kept(Held(c), Used(c))
<1>1. /\ lsq[c] \in Seq(Tuples) /\ lsq[c] # <<>> /\ prefLsq[c] \in Seq(Tuples)
      /\ issued' = [issued EXCEPT ![c] = IF @ = <<>> THEN @ ELSE Tail(@)]
      /\ issued[c] = Pipeline(c)
  BY DEF Consume, IInv, TypeOK, OInv, Ordered
<1> DEFINE k == Kept(Held(c), Used(c))
           b == prefLsq[c]
<1>2. k \in Seq(Tuples) /\ b \in Seq(Tuples)
  BY <1>1, HeldType
<1>3. issued[c] = (lsq[c] \o b) \o k
  BY <1>1, PipelineIs
<1> HIDE DEF k, b
<1>4. /\ lsq[c] \o b \in Seq(Tuples) /\ lsq[c] \o b # <<>>
      /\ Head(lsq[c] \o b) = Head(lsq[c]) /\ Tail(lsq[c] \o b) = Tail(lsq[c]) \o b
  BY <1>1, <1>2, TailConcat, ConcatProperties
<1> DEFINE a == lsq[c] \o b
<1> HIDE DEF a
<1>5. a \o k # <<>> /\ Head(a \o k) = Head(a) /\ Tail(a \o k) = Tail(a) \o k
  BY <1>2, <1>4, TailConcat DEF a
<1>6. issued[c] # <<>> /\ Head(lsq[c]) = Head(issued[c])
  BY <1>3, <1>4, <1>5 DEF a
<1>7. Tail(issued[c]) = (Tail(lsq[c]) \o b) \o k
  BY <1>3, <1>4, <1>5 DEF a
<1>8. issued' = [issued EXCEPT ![c] = Tail(@)]
  BY <1>1, <1>6
<1>9. QED
  BY <1>6, <1>7, <1>8 DEF b, k

LEMMA ConsumeOrders ==
  ASSUME IInv, OInv, NEW c \in Cores, Consume(c)
  PROVE  OInv'
<1>1. /\ issued' = [issued EXCEPT ![c] = Tail(@)]
      /\ Tail(issued[c]) = (Tail(lsq[c]) \o prefLsq[c]) \o Kept(Held(c), Used(c))
  BY ConsumeIsFirst
<1>2. /\ lsq' = [lsq EXCEPT ![c] = Tail(@)]
      /\ UNCHANGED <<build, ringVars, outstanding, cached, prefLsq, burst>>
  BY DEF Consume
<1>3. TypeOK /\ Ordered
  BY DEF IInv, OInv
<1>4. /\ OneEdgePerEntry' /\ FreeDummies'
      /\ \A d \in Cores :
           /\ Kept(Held(d), Used(d))' = Kept(Held(d), Used(d))
           /\ lsq'[d] = lsq[d] /\ prefLsq'[d] = prefLsq[d] => Pipeline(d)' = Pipeline(d)
  BY <1>2, EntriesStay
<1>5. issued'[c] = Pipeline(c)'
  <2>1. Pipeline(c)' = (lsq'[c] \o prefLsq'[c]) \o Kept(Held(c), Used(c))'
    BY DEF Pipeline, Held
  <2>2. lsq'[c] = Tail(lsq[c]) /\ prefLsq'[c] = prefLsq[c] /\ issued'[c] = Tail(issued[c])
    BY <1>1, <1>2, <1>3 DEF TypeOK
  <2>3. QED
    BY <1>1, <1>4, <2>1, <2>2
<1>6. ASSUME NEW d \in Cores, d # c PROVE issued'[d] = Pipeline(d)'
  <2>1. lsq'[d] = lsq[d] /\ prefLsq'[d] = prefLsq[d] /\ issued'[d] = issued[d]
    BY <1>1, <1>2, <1>3, <1>6 DEF TypeOK
  <2>2. QED
    BY <1>3, <1>4, <2>1 DEF Ordered
<1>7. QED
  BY <1>4, <1>5, <1>6 DEF OInv, Ordered

LEMMA AccessEdgeOrders ==
  ASSUME IInv, OInv, CountsHits(build), NEW c \in Cores, NEW e \in Edges, NEW first \in BOOLEAN,
         NEW vline \in VertexLines, NEW S \in SUBSET EdgeLines,
         AccessEdge(c, e, first, vline, S)
  PROVE  OInv'
<1>1. PICK slot, used, misses : Adds(c, e, slot, used, misses)
  BY AccessAdds
<1>2. /\ issued' = [issued EXCEPT ![c] = Append(@, e)]
      /\ UNCHANGED <<build, pop, cached, prefLsq, lsq, out>>
  BY DEF AccessEdge
<1>3. TypeOK /\ OneEdgePerEntry /\ FreeDummies /\ Ordered /\ e \in Tuples /\ e # Dummy
  BY NamesAssumption DEF IInv, OInv, Tuples
<1>4. /\ Used(c)' = Used(c) + used /\ Used(c) \in Nat
      /\ push[c] = Plus(pop[c], Used(c))
      /\ used = 2 => slot = Plus(pop[c], Used(c) + 1) /\ slot # push[c]
      /\ InUse(c)' = InUse(c) \cup {push[c], slot}
      /\ push[c] \notin InUse(c) /\ slot \notin InUse(c)
      /\ \A d \in Cores \ {c} : InUse(d)' = InUse(d)
  BY <1>1, <1>2, AddedEntries
<1>5. /\ slot \in Slots /\ push[c] \in Slots /\ used \in {1, 2}
      /\ used = 1 => slot = push[c]
      /\ used = 2 => SYNC
      /\ \A d \in Cores \ {c} : remaining'[d] = remaining[d]
  <2>1. \A d \in Cores \ {c} : remaining'[d] = remaining[d]
    BY <1>1, <1>3 DEF Adds, TypeOK
  <2>2. push[c] \in Slots
    BY <1>3 DEF TypeOK
  <2>3. /\ slot \in Slots /\ used \in {1, 2}
        /\ used = 1 => slot = push[c]
        /\ used = 2 => SYNC
    BY <1>1 DEF Adds
  <2>4. QED
    BY <2>1, <2>2, <2>3
<1>6. /\ tuple' \in [Cores -> [Slots -> Tuples]]
      /\ \A d \in Cores, i \in Slots : d # c \/ i # slot => tuple'[d][i] = tuple[d][i]
      /\ For(misses, c, slot) = {} => tuple'[c][slot] = e
  BY <1>1, <1>3, AddedValues
<1>7. ASSUME NEW d \in Cores, NEW i \in Slots
      PROVE  /\ For(outstanding', d, i) = For(outstanding, d, i) \cup For(misses, d, i)
             /\ d # c \/ i \notin {push[c], slot} => For(misses, d, i) = {}
             /\ \A r \in For(misses, d, i) : r.tuple \in {Dummy, e}
  BY <1>1 DEF Adds, For
<1>8. For(outstanding, c, push[c]) = {} /\ For(outstanding, c, slot) = {}
  BY <1>4, <1>5 DEF IInv, EntryExact
<1>9. OneEdgePerEntry'
  <2>1. SUFFICES ASSUME NEW d \in Cores, NEW i \in Slots,
                        NEW r \in For(outstanding', d, i), NEW s \in For(outstanding', d, i),
                        r.tuple # Dummy, s.tuple # Dummy
                 PROVE  r.tuple = s.tuple
    BY DEF OneEdgePerEntry
  <2>2. CASE d = c /\ i \in {push[c], slot}
    BY <1>7, <1>8, <2>1, <2>2
  <2>3. CASE d # c \/ i \notin {push[c], slot}
    <3>1. For(outstanding', d, i) = For(outstanding, d, i)
      <4>1. For(misses, d, i) = {}
        BY <1>7, <2>3
      <4>2. QED
        BY <1>7, <4>1
    <3>2. QED
      BY <1>3, <2>1, <3>1 DEF OneEdgePerEntry
  <2>4. QED
    BY <2>2, <2>3
<1>10. FreeDummies'
  <2>1. SUFFICES ASSUME SYNC', NEW d \in Cores, NEW i \in Slots, i \notin InUse(d)'
                 PROVE  tuple'[d][i] = Dummy
    BY DEF FreeDummies
  <2>2. SYNC /\ i \notin InUse(d) /\ (d # c \/ i # slot)
    BY <1>2, <1>4, <2>1 DEF SYNC
  <2>3. tuple[d][i] = Dummy
    BY <1>3, <2>2 DEF FreeDummies
  <2>4. QED
    BY <1>6, <2>2, <2>3
<1>11. ASSUME NEW d \in Cores, NEW i \in Slots
       PROVE  Contents(d)'[i] = IF Coming(d, i)' = {} THEN tuple'[d][i]
                                ELSE CHOOSE f \in Coming(d, i)' : TRUE
  BY DEF Contents
<1>12. ASSUME NEW d \in Cores, NEW i \in Slots, i \in InUse(d)
       PROVE  Contents(d)'[i] = Contents(d)[i]
  <2>1. d # c \/ i \notin {push[c], slot}
    BY <1>4, <1>12
  <2>2. For(outstanding', d, i) = For(outstanding, d, i)
    <3>1. For(misses, d, i) = {}
      BY <1>7, <2>1
    <3>2. For(outstanding', d, i) = For(outstanding, d, i) \cup For(misses, d, i)
      BY <1>7
    <3>3. QED
      BY <3>1, <3>2
  <2>3. tuple'[d][i] = tuple[d][i]
    BY <1>6, <2>1
  <2>4. Coming(d, i)' = Coming(d, i)
    BY <2>2 DEF Coming
  <2>5. QED
    BY <1>11, <2>3, <2>4 DEF Contents
<1>13. Contents(c)'[slot] = e
  <2>1. For(outstanding', c, slot) = For(misses, c, slot)
    BY <1>5, <1>7, <1>8
  <2>2. CASE For(misses, c, slot) = {}
    <3>1. Coming(c, slot)' = {}
      BY <2>1, <2>2 DEF Coming
    <3>2. QED
      BY <1>5, <1>6, <1>11, <2>2, <3>1
  <2>3. CASE For(misses, c, slot) # {}
    <3>1. \E r \in For(misses, c, slot) : r.tuple = e
      BY <1>1, <2>3 DEF Adds
    <3>2. Coming(c, slot)' = {e}
      BY <1>3, <1>5, <1>7, <2>1, <3>1 DEF Coming
    <3>3. (CHOOSE f \in {e} : TRUE) = e
      OBVIOUS
    <3>4. QED
      BY <1>5, <1>11, <3>2, <3>3
  <2>4. QED
    BY <2>2, <2>3
<1>14. PICK p \in Slots, u \in Nat : p = push[c] /\ u = Used(c)
  BY <1>4, <1>5
<1>15. used = 2 => Contents(c)'[p] = Dummy
  <2>1. SUFFICES ASSUME used = 2 PROVE Contents(c)'[p] = Dummy
    OBVIOUS
  <2>2. slot # p /\ SYNC /\ p \notin InUse(c)
    BY <1>4, <1>5, <1>14, <2>1
  <2>3. \A r \in For(outstanding', c, p) : r.tuple = Dummy
    <3>1. For(outstanding', c, p) = For(misses, c, p)
      BY <1>7, <1>8, <1>14
    <3>2. \A r \in misses : r.slot = p => r.tuple = Dummy
      BY <1>1, <1>14, <2>1, <2>2 DEF Adds
    <3>3. QED
      BY <3>1, <3>2 DEF For
  <2>4. Coming(c, p)' = {}
    BY <2>3 DEF Coming
  <2>5. tuple'[c][p] = Dummy
    BY <1>3, <1>6, <2>2 DEF FreeDummies
  <2>6. QED
    BY <1>11, <2>4, <2>5
<1>16. /\ Held(c)' = [k \in 1 .. u + used |-> Contents(c)'[Plus(pop[c], k - 1)]]
       /\ Used(c)' = u + used
  BY <1>2, <1>4, <1>14 DEF Held
<1>17. /\ Held(c) \in [1 .. u -> Tuples] /\ Kept(Held(c), u) \in Seq(Tuples)
       /\ \A k \in 1 .. u : Contents(c)'[Plus(pop[c], k - 1)] = Held(c)[k]
  <2>1. /\ Held(c) \in [1 .. u -> Tuples] /\ Kept(Held(c), u) \in Seq(Tuples)
        /\ \A k \in 1 .. u : Plus(pop[c], k - 1) \in Slots \cap InUse(c)
    BY <1>14, HeldType
  <2>2. \A k \in 1 .. u : Held(c)[k] = Contents(c)[Plus(pop[c], k - 1)]
    BY <1>14 DEF Held
  <2>3. QED
    BY <1>12, <2>1, <2>2
<1>18. Kept(Held(c), Used(c))' = Append(Kept(Held(c), u), e)
  <2> DEFINE H == Held(c)'
             h == Held(c)
  <2>1. Kept(Held(c), Used(c))' = Kept(H, u + used)
    BY <1>16
  <2>2. CASE used = 1
    <3>1. H = [k \in 1 .. u + 1 |-> Contents(c)'[Plus(pop[c], k - 1)]]
      BY <1>16, <2>2
    <3>2. H[u + 1] = e
      <4>1. u + 1 \in 1 .. u + 1 /\ (u + 1) - 1 = u
        OBVIOUS
      <4>2. Contents(c)'[Plus(pop[c], u)] = e
        BY <1>4, <1>5, <1>13, <1>14, <2>2
      <4>3. QED
        BY <3>1, <4>1, <4>2
    <3>3. \A k \in 1 .. u : H[k] = h[k]
      BY <1>17, <3>1
    <3>4. H \in [1 .. u + 1 -> Tuples]
      <4>1. ASSUME NEW k \in 1 .. u + 1 PROVE H[k] \in Tuples
        <5>1. CASE k = u + 1
          BY <1>3, <3>2, <5>1
        <5>2. CASE k # u + 1
          <6>1. k \in 1 .. u
            BY <5>2
          <6>2. QED
            BY <1>17, <3>3, <6>1
        <5>3. QED
          BY <5>1, <5>2
      <4>2. QED
        BY <3>1, <4>1
    <3> HIDE DEF H, h
    <3>5. h \in [1 .. u -> Tuples]
      BY <1>17 DEF h
    <3>6. Kept(H, u + 1) = Append(Kept(h, u), e)
      BY <1>3, <3>2, <3>3, <3>4, <3>5, KeptOne
    <3>7. QED
      BY <2>1, <2>2, <3>6 DEF h
  <2>3. CASE used = 2
    <3>1. H = [k \in 1 .. u + 2 |-> Contents(c)'[Plus(pop[c], k - 1)]]
      BY <1>16, <2>3
    <3> DEFINE g == [k \in 1 .. u + 1 |-> H[k]]
    <3>2. H[u + 1] = Dummy
      <4>1. u + 1 \in 1 .. u + 2 /\ (u + 1) - 1 = u
        OBVIOUS
      <4>2. Contents(c)'[Plus(pop[c], u)] = Dummy
        BY <1>4, <1>14, <1>15, <2>3
      <4>3. QED
        BY <3>1, <4>1, <4>2
    <3>3. H[(u + 1) + 1] = e
      <4>1. (u + 1) + 1 \in 1 .. u + 2 /\ ((u + 1) + 1) - 1 = u + 1
        OBVIOUS
      <4>2. Contents(c)'[Plus(pop[c], u + 1)] = e
        BY <1>4, <1>13, <1>14, <2>3
      <4>3. QED
        BY <3>1, <4>1, <4>2
    <3>4. \A k \in 1 .. u : H[k] = h[k]
      BY <1>17, <3>1
    <3>5. ASSUME NEW k \in 1 .. (u + 1) + 1 PROVE H[k] \in Tuples
      <4>1. CASE k = (u + 1) + 1
        BY <1>3, <3>3, <4>1
      <4>2. CASE k = u + 1
        BY <3>2, <4>2 DEF Tuples
      <4>3. CASE k # (u + 1) + 1 /\ k # u + 1
        <5>1. k \in 1 .. u
          BY <4>3
        <5>2. QED
          BY <1>17, <3>4, <5>1
      <4>4. QED
        BY <4>1, <4>2, <4>3
    <3>6. H \in [1 .. (u + 1) + 1 -> Tuples]
      <4>1. u + 2 = (u + 1) + 1
        OBVIOUS
      <4>2. QED
        BY <3>1, <3>5, <4>1
    <3> HIDE DEF H, h
    <3>7. /\ g \in [1 .. u + 1 -> Tuples] /\ g[u + 1] = Dummy
          /\ \A k \in 1 .. u + 1 : H[k] = g[k]
          /\ \A k \in 1 .. u : g[k] = h[k]
      BY <3>2, <3>4, <3>5
    <3> HIDE DEF g
    <3>8. h \in [1 .. u -> Tuples] /\ u + 1 \in Nat
      BY <1>17 DEF h
    <3>9. Kept(g, u + 1) = Kept(h, u)
      BY <3>7, <3>8, KeptOne
    <3>10. Kept(H, (u + 1) + 1) = Append(Kept(g, u + 1), e)
      BY <1>3, <3>3, <3>6, <3>7, <3>8, KeptOne
    <3>11. u + used = (u + 1) + 1
      BY <2>3
    <3>12. QED
      BY <2>1, <3>9, <3>10, <3>11 DEF h
  <2>4. QED
    BY <1>5, <2>2, <2>3
<1>19. issued'[c] = Pipeline(c)'
  <2>1. lsq[c] \in Seq(Tuples) /\ prefLsq[c] \in Seq(Tuples)
    BY <1>3 DEF TypeOK
  <2>2. Pipeline(c)' = (lsq[c] \o prefLsq[c]) \o Append(Kept(Held(c), u), e)
    <3>1. Pipeline(c)' = (lsq'[c] \o prefLsq'[c]) \o Kept(Held(c), Used(c))'
      BY DEF Pipeline, Held
    <3>2. QED
      BY <1>2, <1>18, <3>1
  <2> DEFINE a == lsq[c] \o prefLsq[c]
             k == Kept(Held(c), u)
  <2>3. a \in Seq(Tuples) /\ k \in Seq(Tuples)
    BY <1>17, <2>1, ConcatProperties
  <2>4. a \o k = issued[c]
    BY <1>3, <1>14, PipelineIs DEF Ordered
  <2> HIDE DEF a, k
  <2>5. a \o Append(k, e) = Append(a \o k, e)
    BY <1>3, <2>3, AppendConcat
  <2>6. issued'[c] = Append(issued[c], e)
    BY <1>2, <1>3 DEF TypeOK
  <2>7. QED
    BY <2>2, <2>4, <2>5, <2>6 DEF a, k
<1>20. ASSUME NEW d \in Cores, d # c PROVE issued'[d] = Pipeline(d)'
  <2>1. Pipeline(d)' = Pipeline(d)
    BY <1>2, <1>5, <1>12, <1>20, PipelineStays
  <2>2. issued'[d] = issued[d]
    BY <1>2, <1>3, <1>20 DEF TypeOK
  <2>3. QED
    BY <1>3, <2>1, <2>2 DEF Ordered
<1>21. QED
  BY <1>9, <1>10, <1>19, <1>20 DEF OInv, Ordered

LEMMA InitOrders ==
  ASSUME Init, SYNC => build.fresh \subseteq {Dummy}
  PROVE  OInv
<1>1. COMPLETION_BUFFER_SIZE \in Nat \ {0} /\ IInv
  BY SizesAssumption, InitIInv
<1>2. OneEdgePerEntry
  BY DEF Init, OneEdgePerEntry, For
<1>3. FreeDummies
  BY DEF Init, FreeDummies
<1>4. ASSUME NEW c \in Cores PROVE issued[c] = Pipeline(c)
  <2>1. Used(c) = 0
    BY <1>1 DEF Init, Used
  <2>2. Held(c) \in [1 .. 0 -> Tuples] /\ 0 \in Nat
    BY <1>1, <2>1, HeldType
  <2>3. PICK kept : Keeps(Held(c), 0, kept) /\ Kept(Held(c), 0) = kept[0]
    BY <2>2, KeptIs
  <2>4. Kept(Held(c), Used(c)) = <<>>
    BY <2>1, <2>3 DEF Keeps
  <2>5. (<<>> \o <<>>) \o <<>> = <<>>
    <3>1. <<>> \in Seq(Tuples)
      BY EmptySeq
    <3>2. QED
      BY <3>1, ConcatEmptySeq
  <2>6. lsq[c] = <<>> /\ prefLsq[c] = <<>> /\ issued[c] = <<>>
    BY DEF Init
  <2>7. QED
    BY <2>4, <2>5, <2>6, PipelineIs
<1>5. QED
  BY <1>2, <1>3, <1>4 DEF OInv, Ordered

LEMMA StepOrders ==
  ASSUME IInv, OInv, CountsHits(build), [Next]_vars
  PROVE  OInv'
<1>1. ASSUME NEW c \in Cores, NEW e \in Edges, NEW first \in BOOLEAN, NEW vline \in VertexLines,
             NEW S \in SUBSET EdgeLines, AccessEdge(c, e, first, vline, S)
      PROVE  OInv'
  BY <1>1, AccessEdgeOrders
<1>2. ASSUME NEW line \in Lines, ReadComplete(line) PROVE OInv'
  BY <1>2, ReadCompleteOrders
<1>3. ASSUME NEW c \in Cores, CbToLsq(c) PROVE OInv'
  BY <1>3, CbToLsqOrders
<1>4. ASSUME NEW c \in Cores, MoveToCore(c) PROVE OInv'
  BY <1>4, MoveToCoreOrders
<1>5. ASSUME NEW c \in Cores, Consume(c) PROVE OInv'
  BY <1>5, ConsumeOrders
<1>6. ASSUME UNCHANGED vars PROVE OInv'
  <2>1. UNCHANGED <<build, ringVars, outstanding>> /\ UNCHANGED <<lsq, prefLsq, issued>>
    BY <1>6 DEF vars
  <2>2. OneEdgePerEntry' /\ FreeDummies' /\ \A c \in Cores : Pipeline(c)' = Pipeline(c)
    BY <2>1, EntriesStay
  <2>3. QED
    BY <2>1, <2>2 DEF OInv, Ordered
<1>7. QED
  BY <1>1, <1>2, <1>3, <1>4, <1>5, <1>6 DEF Next

\* The two hypotheses about the builds: a hit in the L2 counts for every entry,
\* and the constructor of an entry leaves no stray tuple where the synchronous
\* model relies on there being none.
OrderedBuild(b) == CountsHits(b) /\ (b.sync => b.fresh \subseteq {Dummy})

LEMMA OrderInvariance ==
  ASSUME \A b \in Builds : OrderedBuild(b)
  PROVE  Spec => [](IInv /\ OInv)
<1> DEFINE Inv == IInv /\ OInv /\ CountsHits(build)
<1>1. Init => Inv
  BY InitIInv, InitOrders DEF IInv, TypeOK, OrderedBuild, SYNC
<1>2. Inv /\ [Next]_vars => Inv'
  BY StepIInv, StepOrders, BuildStays DEF CountsHits
<1>3. Inv => IInv /\ OInv
  OBVIOUS
<1> HIDE DEF Inv
<1>4. QED
  BY <1>1, <1>2, <1>3, PTL DEF Spec

\* The edges a core asked for are on their way to its process stage in the order
\* of access_edge, whatever the order of read_complete, for every size of the
\* ring and of the two queues.
THEOREM EdgesStayOrdered ==
  ASSUME \A b \in Builds : OrderedBuild(b)
  PROVE  Spec => []Ordered
<1>1. Spec => [](IInv /\ OInv)
  BY OrderInvariance
<1>2. IInv /\ OInv => Ordered
  BY DEF OInv
<1>3. QED
  BY <1>1, <1>2, PTL

\* The path from access_edge over DRAM to consume_lsq_responses implements
\* ordered reads: every step that hands an edge over hands over the oldest one
\* asked for, and every other step asks for one or changes nothing a core sees.
THEOREM ImplementsOrderedReads ==
  ASSUME \A b \in Builds : OrderedBuild(b)
  PROVE  Spec => Reads!Safety
<1>1. Init => Reads!Init
  BY DEF Init, Reads!Init
<1>2. ASSUME IInv, OInv, [Next]_vars PROVE [Reads!Next]_<<issued, out>>
  <2>1. ASSUME NEW c \in Cores, NEW e \in Edges, NEW first \in BOOLEAN, NEW vline \in VertexLines,
               NEW S \in SUBSET EdgeLines, AccessEdge(c, e, first, vline, S)
        PROVE  Reads!Next
    <3>1. Reads!Ask(c, e)
      BY <2>1 DEF AccessEdge, Reads!Ask
    <3>2. QED
      BY <3>1 DEF Reads!Next
  <2>2. ASSUME NEW line \in Lines, ReadComplete(line) PROVE UNCHANGED <<issued, out>>
    BY <2>2 DEF ReadComplete
  <2>3. ASSUME NEW c \in Cores, CbToLsq(c) PROVE UNCHANGED <<issued, out>>
    BY <2>3 DEF CbToLsq
  <2>4. ASSUME NEW c \in Cores, MoveToCore(c) PROVE UNCHANGED <<issued, out>>
    BY <2>4 DEF MoveToCore
  <2>5. ASSUME NEW c \in Cores, Consume(c) PROVE Reads!Next
    <3>1. out' = [out EXCEPT ![c] = Head(lsq[c])]
      BY <2>5 DEF Consume
    <3>2. issued[c] # <<>> /\ Head(lsq[c]) = Head(issued[c])
          /\ issued' = [issued EXCEPT ![c] = Tail(@)]
      BY <1>2, <2>5, ConsumeIsFirst
    <3>3. Reads!Get(c)
      BY <3>1, <3>2 DEF Reads!Get
    <3>4. QED
      BY <3>3 DEF Reads!Next
  <2>6. ASSUME UNCHANGED vars PROVE UNCHANGED <<issued, out>>
    BY <2>6 DEF vars
  <2>7. QED
    BY <1>2, <2>1, <2>2, <2>3, <2>4, <2>5, <2>6 DEF Next
<1>3. Spec => [](IInv /\ OInv)
  BY OrderInvariance
<1>4. QED
  BY <1>1, <1>2, <1>3, PTL DEF Spec, Reads!Safety
=============================================================================
