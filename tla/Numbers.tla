------------------------------- MODULE Numbers -------------------------------
(***************************************************************************)
(* Facts about natural numbers that the proof modules rest on: induction,  *)
(* stated for a set of numbers where the library's theorems take a         *)
(* predicate, the existence of the function that a recursion over a range  *)
(* defines, and positions on a ring.                                       *)
(***************************************************************************)
EXTENDS Selection, Integers, WellFoundedInduction, FiniteSetTheorems, SequenceTheorems, TLAPS

\* A set of natural numbers has a least one.
LEMMA NatLeast ==
  ASSUME NEW T \in SUBSET Nat, T # {}
  PROVE  \E n \in T : \A m \in T : n <= m
<1> DEFINE R == {ss \in Nat \X Nat : ss[1] < ss[2]}
<1>1. IsWellFoundedOn(R, Nat)
  BY NatLessThanWellFounded, Zenon DEF OpToRel
<1>2. \E n \in T : \A y \in T : ~ (<<y, n>> \in R)
  <2> HIDE DEF R
  <2> QED BY <1>1, WFMin
<1>3. PICK n \in T : \A y \in T : ~ (<<y, n>> \in R)
  BY <1>2
<1>4. ASSUME NEW m \in T PROVE n <= m
  <2>1. ~ (<<m, n>> \in R) /\ m \in Nat /\ n \in Nat
    BY <1>3
  <2>2. ~ (m < n)
    BY <2>1
  <2>3. QED
    BY <2>1, <2>2
<1>5. QED
  BY <1>4

\* Induction: the numbers for which a property holds, as a set.
LEMMA SetInduction ==
  ASSUME NEW S, 0 \in S, \A n \in Nat : n \in S => n + 1 \in S
  PROVE  \A n \in Nat : n \in S
<1> DEFINE T == {n \in Nat : n \notin S}
<1> SUFFICES ASSUME T # {} PROVE FALSE
  OBVIOUS
<1>1. PICK n \in T : \A m \in T : n <= m
  BY NatLeast
<1>2. n # 0 /\ n - 1 \in Nat
  BY <1>1
<1>3. n - 1 \in S
  BY <1>1, <1>2
<1>4. QED
  BY <1>1, <1>2, <1>3

\* The same up to a bound.
LEMMA RangeInduction ==
  ASSUME NEW N \in Nat, NEW S, 0 \in S,
         \A n \in 0 .. N - 1 : n \in S => n + 1 \in S
  PROVE  \A n \in 0 .. N : n \in S
<1> DEFINE T == {n \in Nat : n <= N => n \in S}
<1>1. 0 \in T
  OBVIOUS
<1>2. ASSUME NEW n \in Nat, n \in T PROVE n + 1 \in T
  <2>1. CASE n + 1 <= N
    <3>1. n \in 0 .. N - 1 /\ n \in S
      BY <1>2, <2>1
    <3>2. QED
      BY <3>1
  <2>2. CASE ~ (n + 1 <= N)
    BY <2>2
  <2>3. QED
    BY <2>1, <2>2
<1> HIDE DEF T
<1>3. \A n \in Nat : n \in T
  BY <1>1, <1>2, SetInduction
<1>4. QED
  BY <1>3 DEF T

\* f is a recursion over 0 .. N: step[i] computes the value at i from the one
\* at i - 1.
Unfolds(f, N, base, step) == f[0] = base /\ \A i \in 1 .. N : f[i] = step[i][f[i - 1]]

\* There is such an f.
LEMMA RecursionExists ==
  ASSUME NEW N \in Nat, NEW X, NEW base \in X, NEW step \in [1 .. N -> [X -> X]]
  PROVE  \E f \in [0 .. N -> X] : Unfolds(f, N, base, step)
<1> DEFINE Solves(f, n) == f[0] = base /\ \A i \in 1 .. n : f[i] = step[i][f[i - 1]]
           S == {n \in Nat : \E f \in [0 .. n -> X] : Solves(f, n)}
<1>1. 0 \in S
  <2> DEFINE f == [i \in 0 .. 0 |-> base]
  <2>1. f \in [0 .. 0 -> X] /\ Solves(f, 0)
    OBVIOUS
  <2>2. QED
    BY <2>1
<1>2. ASSUME NEW n \in 0 .. N - 1, n \in S PROVE n + 1 \in S
  <2>1. PICK f \in [0 .. n -> X] : Solves(f, n)
    BY <1>2
  <2> DEFINE g == [i \in 0 .. n + 1 |-> IF i <= n THEN f[i] ELSE step[i][f[n]]]
  <2>2. n \in 0 .. n /\ n + 1 \in 1 .. N /\ f[n] \in X
    OBVIOUS
  <2>3. step[n + 1][f[n]] \in X
    BY <2>2
  <2>4. g \in [0 .. n + 1 -> X]
    <3>1. ASSUME NEW i \in 0 .. n + 1
          PROVE  (IF i <= n THEN f[i] ELSE step[i][f[n]]) \in X
      <4>1. CASE i <= n
        BY <4>1
      <4>2. CASE ~ (i <= n)
        <5>1. i = n + 1
          BY <4>2
        <5>2. QED
          BY <2>3, <4>2, <5>1
      <4>3. QED
        BY <4>1, <4>2
    <3>2. QED
      BY <3>1
  <2>5. \A i \in 0 .. n : g[i] = f[i]
    OBVIOUS
  <2>6. g[n + 1] = step[n + 1][f[n]]
    OBVIOUS
  <2> HIDE DEF g
  <2>7. ASSUME NEW i \in 1 .. n + 1 PROVE g[i] = step[i][g[i - 1]]
    <3>1. CASE i <= n
      <4>1. i \in 1 .. n /\ i \in 0 .. n /\ i - 1 \in 0 .. n
        BY <3>1
      <4>2. QED
        BY <2>1, <2>5, <4>1
    <3>2. CASE ~ (i <= n)
      <4>1. i = n + 1 /\ i - 1 = n
        BY <3>2
      <4>2. QED
        BY <2>2, <2>5, <2>6, <4>1
    <3>3. QED
      BY <3>1, <3>2
  <2>8. g[0] = base
    BY <2>1, <2>5
  <2>9. QED
    BY <2>4, <2>7, <2>8
<1> HIDE DEF S
<1>3. \A n \in 0 .. N - 1 : n \in S => n + 1 \in S
  BY <1>2
<1>4. \A n \in 0 .. N : n \in S
  BY <1>1, <1>3, RangeInduction, Zenon
<1>5. N \in 0 .. N
  OBVIOUS
<1>6. N \in S
  BY <1>4, <1>5
<1>7. QED
  BY <1>6 DEF S, Unfolds

\* k numbers are not enough for more than k different ones.
LEMMA PigeonHole ==
  ASSUME NEW n \in Nat, NEW k \in Nat, NEW a \in Int, NEW f \in [1 .. n -> a .. a + k - 1],
         \A i, j \in 1 .. n : f[i] = f[j] => i = j
  PROVE  n <= k
<1> DEFINE T == a .. a + k - 1
<1>1. IsFiniteSet(1 .. n) /\ Cardinality(1 .. n) = n
  <2>1. IsFiniteSet(1 .. n) /\ Cardinality(1 .. n) = IF 1 > n THEN 0 ELSE n - 1 + 1
    BY FS_Interval
  <2>2. QED
    BY <2>1
<1>2. IsFiniteSet(T) /\ Cardinality(T) = k
  <2>1. a + k - 1 \in Int
    OBVIOUS
  <2>2. IsFiniteSet(T) /\ Cardinality(T) = IF a > a + k - 1 THEN 0 ELSE (a + k - 1) - a + 1
    BY <2>1, FS_Interval
  <2>3. QED
    BY <2>2
<1> SUFFICES ASSUME n > k PROVE FALSE
  OBVIOUS
<1>3. Cardinality(T) < Cardinality(1 .. n) /\ f \in [1 .. n -> T]
  BY <1>1, <1>2
<1> HIDE DEF T
<1>4. \E i, j \in 1 .. n : i # j /\ f[i] = f[j]
  BY <1>1, <1>2, <1>3, FS_PigeonHole
<1>5. QED
  BY <1>4

\* Positions on a ring of n: there are n, one step from the last is the first.
LEMMA RingPosition ==
  ASSUME NEW n \in Nat \ {0}, NEW a \in Nat
  PROVE  a % n \in 0 .. n - 1 /\ (a < n => a % n = a)
OBVIOUS

\* From any position on, n steps visit every position.
LEMMA RingCovered ==
  ASSUME NEW n \in Nat \ {0}, NEW p \in 0 .. n - 1, NEW c \in 0 .. n - 1
  PROVE  \E t \in 0 .. n - 1 : (p + t) % n = c
<1>1. CASE c >= p
  <2>1. c - p \in 0 .. n - 1 /\ p + (c - p) = c /\ c % n = c
    BY <1>1
  <2>2. QED
    BY <2>1
<1>2. CASE c < p
  <2>1. c - p + n \in 0 .. n - 1 /\ p + (c - p + n) = c + n
    BY <1>2
  <2>2. (c + n) % n = c
    OBVIOUS
  <2>3. QED
    BY <2>1, <2>2
<1>3. QED
  BY <1>1, <1>2

\* Less than twice round the ring.
LEMMA RingStep ==
  ASSUME NEW n \in Nat \ {0}, NEW a \in 0 .. 2 * n - 1
  PROVE  a % n = IF a < n THEN a ELSE a - n
<1>1. CASE a < n
  BY <1>1
<1>2. CASE ~(a < n)
  <2>1. a = n * 1 + (a - n) /\ a - n \in 0 .. n - 1
    BY <1>2
  <2>2. QED
    BY <1>2, <2>1
<1>3. QED
  BY <1>1, <1>2

(***************************************************************************)
(* Selections from a list.                                                 *)
(***************************************************************************)

\* The selection entry by entry: out[n] is what the first n entries leave.
Collects(out, s, I) ==
  /\ out[0] = <<>>
  /\ \A n \in 1 .. Len(s) : n \in I => out[n] = Append(out[n - 1], s[n])
  /\ \A n \in 1 .. Len(s) : n \notin I => out[n] = out[n - 1]
  /\ Selected(s, I) = out[Len(s)]

\* t has the entries of s at the positions in I, f says which comes from where.
Picks(t, s, I, f) ==
  /\ f \in [1 .. Len(t) -> I]
  /\ \A k \in 1 .. Len(t) : t[k] = s[f[k]]
  /\ \A k, l \in 1 .. Len(t) : k < l => f[k] < f[l]
  /\ \A i \in I : \E k \in 1 .. Len(t) : f[k] = i

\* Every selection is collected so.
LEMMA SelectedUnfolds ==
  ASSUME NEW S, NEW s \in Seq(S), NEW I
  PROVE  \E out \in [0 .. Len(s) -> Seq(S)] : Collects(out, s, I)
<1> DEFINE N == Len(s)
           X == Seq(S)
           add(x, n) == IF n \in I THEN Append(x, s[n]) ELSE x
           step == [n \in 1 .. N |-> [x \in X |-> add(x, n)]]
           Body(g) == [n \in 0 .. N |-> IF n = 0 THEN <<>> ELSE add(g[n - 1], n)]
           after == CHOOSE g : g = Body(g)
<1>0. N \in Nat /\ \A n \in 1 .. N : s[n] \in S
  OBVIOUS
<1>1. \A x \in X, n \in 1 .. N : add(x, n) \in X
  BY <1>0, AppendProperties
<1>2. step \in [1 .. N -> [X -> X]] /\ <<>> \in X
  <2> HIDE DEF add
  <2>1. <<>> \in X
    OBVIOUS
  <2> HIDE DEF X
  <2>2. QED
    BY <1>1, <2>1
<1> HIDE DEF N
<1>3. PICK g \in [0 .. N -> X] : Unfolds(g, N, <<>>, step)
  <2> HIDE DEF step, X
  <2> QED BY <1>0, <1>2, RecursionExists
<1>4. \A n \in 1 .. N : g[n] = add(g[n - 1], n)
  <2> SUFFICES ASSUME NEW n \in 1 .. N PROVE g[n] = add(g[n - 1], n)
    OBVIOUS
  <2> HIDE DEF X, add
  <2>1. n - 1 \in 0 .. N
    BY <1>0
  <2>2. g[n] = step[n][g[n - 1]] /\ g[n - 1] \in X
    BY <1>3, <2>1 DEF Unfolds
  <2>3. QED
    BY <2>2
<1>5. g[0] = <<>>
  BY <1>3 DEF Unfolds
<1>6. g = Body(g)
  <2> HIDE DEF add, X
  <2>1. ASSUME NEW n \in 0 .. N
        PROVE  g[n] = IF n = 0 THEN <<>> ELSE add(g[n - 1], n)
    <3>1. CASE n = 0
      BY <1>5, <3>1
    <3>2. CASE n # 0
      <4>1. n \in 1 .. N /\ n > 0
        BY <1>0, <3>2
      <4>2. QED
        BY <1>4, <4>1
    <3>3. QED
      BY <3>1, <3>2
  <2>2. g = [n \in 0 .. N |-> g[n]]
    BY <1>3
  <2>3. QED
    BY <2>1, <2>2
<1>7. after = Body(after)
  <2> HIDE DEF Body
  <2> QED BY <1>6
<1>8. Selected(s, I) = after[N]
  BY DEF Selected, N
<1> HIDE DEF after
<1>9. /\ after[0] = <<>>
      /\ \A n \in 1 .. N : after[n] = add(after[n - 1], n)
      /\ after = [n \in 0 .. N |-> after[n]]
  <2> HIDE DEF add
  <2>1. \A n \in 0 .. N : after[n] = IF n = 0 THEN <<>> ELSE add(after[n - 1], n)
    BY <1>7
  <2>2. 0 \in 0 .. N /\ \A n \in 1 .. N : n \in 0 .. N /\ n # 0 /\ n > 0
    BY <1>0
  <2>3. after[0] = <<>>
    BY <2>1, <2>2
  <2>4. ASSUME NEW n \in 1 .. N PROVE after[n] = add(after[n - 1], n)
    BY <2>1, <2>2
  <2>5. QED
    BY <1>7, <2>3, <2>4
<1>10. \A n \in 0 .. N : after[n] \in X
  <2> DEFINE T == {n \in Nat : after[n] \in X}
  <2>1. 0 \in T
    BY <1>2, <1>9
  <2>2. ASSUME NEW n \in 0 .. N - 1, n \in T PROVE n + 1 \in T
    <3>1. n + 1 \in 1 .. N /\ (n + 1) - 1 = n /\ n + 1 \in Nat
      BY <1>0
    <3> HIDE DEF add, X
    <3>2. QED
      BY <1>1, <1>9, <2>2, <3>1
  <2> HIDE DEF T
  <2>3. \A n \in 0 .. N : n \in T
    BY <1>0, <2>1, <2>2, RangeInduction
  <2>4. QED
    BY <2>3 DEF T
<1>11. after \in [0 .. N -> X]
  BY <1>9, <1>10
<1>12. QED
  BY <1>8, <1>9, <1>11 DEF N, Collects

\* A later entry joins a selection.
LEMMA PicksMore ==
  ASSUME NEW S, NEW t \in Seq(S), NEW s, NEW J \in SUBSET Int, NEW f, Picks(t, s, J, f),
         NEW i \in Int, \A j \in J : j < i, s[i] \in S
  PROVE  \E g : Picks(Append(t, s[i]), s, J \cup {i}, g)
<1> DEFINE m == Len(t)
           u == Append(t, s[i])
           g == [k \in 1 .. m + 1 |-> IF k <= m THEN f[k] ELSE i]
<1>1. /\ Len(u) = m + 1 /\ m \in Nat
      /\ \A k \in 1 .. m : u[k] = t[k]
      /\ u[m + 1] = s[i]
  BY AppendProperties
<1>2. /\ \A k \in 1 .. m : f[k] \in J /\ f[k] < i /\ t[k] = s[f[k]]
      /\ \A k, l \in 1 .. m : k < l => f[k] < f[l]
      /\ \A j \in J : \E k \in 1 .. m : f[k] = j
  BY DEF Picks
<1> HIDE DEF u, m
<1>3. ASSUME NEW k \in 1 .. m + 1 PROVE g[k] \in J \cup {i} /\ u[k] = s[g[k]]
  <2>1. CASE k <= m
    BY <1>1, <1>2, <2>1
  <2>2. CASE k = m + 1
    BY <1>1, <2>2
  <2>3. QED
    BY <1>1, <2>1, <2>2
<1>4. ASSUME NEW k \in 1 .. m + 1, NEW l \in 1 .. m + 1, k < l PROVE g[k] < g[l]
  <2>1. k \in 1 .. m /\ g[k] = f[k]
    BY <1>1, <1>4
  <2>2. CASE l <= m
    BY <1>1, <1>2, <1>4, <2>1, <2>2
  <2>3. CASE l = m + 1
    BY <1>1, <1>2, <2>1, <2>3
  <2>4. QED
    BY <1>1, <2>2, <2>3
<1>5. ASSUME NEW j \in J \cup {i} PROVE \E k \in 1 .. m + 1 : g[k] = j
  <2>1. CASE j = i
    <3>1. m + 1 \in 1 .. m + 1 /\ g[m + 1] = i
      BY <1>1
    <3>2. QED
      BY <2>1, <3>1
  <2>2. CASE j # i
    <3>1. PICK k \in 1 .. m : f[k] = j
      BY <1>2, <2>2
    <3>2. k \in 1 .. m + 1 /\ g[k] = j
      BY <1>1, <3>1
    <3>3. QED
      BY <3>2
  <2>3. QED
    BY <2>1, <2>2
<1>6. g \in [1 .. m + 1 -> J \cup {i}]
  BY <1>3
<1> HIDE DEF g
<1>7. Picks(u, s, J \cup {i}, g)
  BY <1>1, <1>3, <1>4, <1>5, <1>6 DEF Picks
<1>8. QED
  BY <1>7 DEF u

\* A selection keeps the order: its entries are entries of the list at growing
\* positions, the positions selected.
LEMMA SelectedIs ==
  ASSUME NEW S, NEW s \in Seq(S), NEW I \in SUBSET (1 .. Len(s))
  PROVE  /\ Selected(s, I) \in Seq(S)
         /\ Len(Selected(s, I)) <= Len(s)
         /\ \E f : Picks(Selected(s, I), s, I, f)
<1> DEFINE N == Len(s)
<1>0. N \in Nat /\ (\A n \in 1 .. N : s[n] \in S) /\ I \subseteq Int
  OBVIOUS
<1>1. PICK out \in [0 .. N -> Seq(S)] : Collects(out, s, I)
  BY SelectedUnfolds, Zenon
<1>2. /\ out[0] = <<>>
      /\ \A n \in 1 .. N : n \in I => out[n] = Append(out[n - 1], s[n])
      /\ \A n \in 1 .. N : n \notin I => out[n] = out[n - 1]
      /\ Selected(s, I) = out[N]
  BY <1>1 DEF Collects
<1> HIDE DEF N
<1> DEFINE First(n) == I \cap (1 .. n)
           T == {n \in Nat : Len(out[n]) <= n /\ \E f : Picks(out[n], s, First(n), f)}
<1>3. 0 \in T
  <2> DEFINE f == [k \in 1 .. 0 |-> 0]
  <2>1. Len(<<>>) = 0 /\ 1 .. 0 = {}
    OBVIOUS
  <2>2. First(0) = {} /\ f \in [1 .. 0 -> {}]
    BY <2>1
  <2>3. Picks(<<>>, s, First(0), f)
    BY <2>1, <2>2 DEF Picks
  <2> HIDE DEF f, First
  <2>4. QED
    BY <1>2, <2>1, <2>3
<1>4. ASSUME NEW n \in 0 .. N - 1, n \in T PROVE n + 1 \in T
  <2>1. n \in 0 .. N /\ n + 1 \in 1 .. N /\ n + 1 \in Nat /\ n \in Nat /\ (n + 1) - 1 = n
    BY <1>0
  <2>2. PICK f : Picks(out[n], s, First(n), f)
    BY <1>4
  <2>3. out[n] \in Seq(S) /\ Len(out[n]) \in Nat /\ Len(out[n]) <= n /\ s[n + 1] \in S
    <3>1. out[n] \in Seq(S)
      BY <1>1, <2>1
    <3>2. QED
      BY <1>0, <1>4, <2>1, <3>1, LenProperties
  <2>4. CASE n + 1 \notin I
    <3>1. out[n + 1] = out[n]
      BY <1>2, <2>1, <2>4
    <3>2. First(n + 1) = First(n)
      BY <2>1, <2>4
    <3> HIDE DEF First
    <3>3. QED
      BY <2>1, <2>2, <2>3, <3>1, <3>2
  <2>5. CASE n + 1 \in I
    <3>1. out[n + 1] = Append(out[n], s[n + 1])
      BY <1>2, <2>1, <2>5
    <3>2. First(n + 1) = First(n) \cup {n + 1} /\ First(n) \subseteq Int
          /\ \A j \in First(n) : j < n + 1
      BY <1>0, <2>1, <2>5
    <3> HIDE DEF First
    <3>3. \E g : Picks(Append(out[n], s[n + 1]), s, First(n) \cup {n + 1}, g)
      <4>1. out[n] \in Seq(S) /\ First(n) \in SUBSET Int /\ n + 1 \in Int /\ s[n + 1] \in S
        BY <2>1, <2>3, <3>2
      <4>2. Picks(out[n], s, First(n), f) /\ \A j \in First(n) : j < n + 1
        BY <2>2, <3>2
      <4>3. QED
        BY <4>1, <4>2, PicksMore, Zenon
    <3>4. Len(out[n + 1]) <= n + 1
      BY <2>1, <2>3, <3>1, AppendProperties
    <3>5. QED
      BY <2>1, <3>1, <3>2, <3>3, <3>4
  <2>6. QED
    BY <2>4, <2>5
<1> HIDE DEF T
<1>5. \A n \in 0 .. N : n \in T
  BY <1>0, <1>3, <1>4, RangeInduction
<1>6. N \in 0 .. N /\ First(N) = I
  BY <1>0 DEF N
<1>7. Selected(s, I) \in Seq(S)
  BY <1>1, <1>2, <1>6
<1>8. Len(out[N]) <= N /\ \E f : Picks(out[N], s, I, f)
  <2> HIDE DEF First
  <2> QED BY <1>5, <1>6 DEF T
<1>9. QED
  BY <1>2, <1>7, <1>8 DEF N
=============================================================================
