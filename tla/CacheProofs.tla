---------------------------- MODULE CacheProofs ----------------------------
(***************************************************************************)
(* Theorems about Cache.  The LRU stack of a set is the order of the last  *)
(* uses for every number of ways, and the policies that rank the ways use  *)
(* free ones first (IInv).  No tree leads to the way used last, and the    *)
(* masks steer it away from the ways that are being replaced (SparingInv). *)
(***************************************************************************)
EXTENDS Cache, Numbers, TLAPS

\* the policies that find a free way by themselves
Ranking == {"LRU", "MRU", "RRIP"}

States == [pos : [Ways -> Nat], rr : [Ways -> Nat], entry : SUBSET Nat,
           pending : SUBSET Nat, or_mask : SUBSET Nat, and_mask : SUBSET Nat]

\* none of them asks for a victim before it fills it
Unasked == build.policy \in Ranking => asked = {}

\* the stack positions are a permutation of the ways
Permutation(pos) ==
  /\ pos \in [Ways -> Ways]
  /\ \A v, w \in Ways : pos[v] = pos[w] => v = w
  /\ \A p \in Ways : \E w \in Ways : pos[w] = p

StackIsOrder ==
  build.policy = "LRU" =>
    /\ r \in States
    /\ valid \subseteq Ways
    /\ Permutation(r.pos)
    /\ \A v \in valid, w \in Ways : v \in since[w] <=> r.pos[v] < r.pos[w]
    /\ \A v, w \in Ways \ valid : v < w <=> r.pos[v] < r.pos[w]
    /\ \A v \in valid, w \in Ways \ valid : r.pos[v] < r.pos[w]

\* while a way is free, a used way has its bit set
BitsAreUses ==
  build.policy = "MRU" /\ valid # Ways =>
    /\ r \in States
    /\ valid \subseteq Ways
    /\ \A w \in Ways : r.pos[w] = IF w \in valid THEN 1 ELSE 0

\* and no way has aged
NothingAged ==
  build.policy = "RRIP" /\ valid # Ways =>
    /\ r \in States
    /\ valid \subseteq Ways
    /\ \A w \in Ways : r.rr[w] = IF w \in valid THEN 0 ELSE 7

IInv ==
  /\ build \in Builds
  /\ since \in [Ways -> SUBSET Ways]
  /\ Unasked
  /\ StackIsOrder
  /\ BitsAreUses
  /\ NothingAged

----------------------------------------------------------------------------
(* Helpers.                                                                *)

\* First returns a member of any set of ways that is not empty.
LEMMA FirstIsMember ==
  ASSUME NEW W \in SUBSET Nat, W # {}
  PROVE  First(W) \in W
<1>1. \E w \in W : \A v \in W : w <= v
  BY NatLeast
<1>2. QED
  BY <1>1 DEF First

\* A ranking policy never asks for a victim in advance.
LEMMA NoFix ==
  ASSUME NEW b \in Builds, b.policy \in Ranking
  PROVE  ~b.fix /\ b.assoc \in Nat \ {0}
BY BuildsAssumption DEF Ranking, Trees

\* UpdateLRU moves a way to the top, and the others keep their order below it.
LEMMA UpdateLRUReorders ==
  ASSUME build \in Builds, build.policy = "LRU",
         NEW pos, Permutation(pos), NEW w \in Ways
  PROVE  /\ Permutation(UpdateLRU(pos, w))
         /\ UpdateLRU(pos, w)[w] = 0
         /\ \A v \in Ways : v # w => UpdateLRU(pos, w)[v] > 0
         /\ \A u, v \in Ways : u # w /\ v # w =>
              (UpdateLRU(pos, w)[u] < UpdateLRU(pos, w)[v] <=> pos[u] < pos[v])
<1> DEFINE new == UpdateLRU(pos, w)
<1>1. assoc \in Nat \ {0}
  BY NoFix DEF assoc, Ranking
<1>2. /\ Ways \subseteq Nat /\ 0 \in Ways
      /\ \A i \in Ways, j \in Nat : j <= i => j \in Ways
  BY <1>1 DEF Ways
<1>3. \A v \in Ways : pos[v] \in Ways /\ pos[v] \in Nat
  BY <1>2 DEF Permutation
<1>4. new = [v \in Ways |-> IF v = w THEN 0 ELSE IF pos[v] < pos[w] THEN pos[v] + 1 ELSE pos[v]]
  BY DEF UpdateLRU
<1>5. new[w] = 0
  BY <1>4
<1>6. \A v \in Ways : v # w => new[v] = IF pos[v] < pos[w] THEN pos[v] + 1 ELSE pos[v]
  BY <1>4
<1>7. \A v \in Ways : v # w => pos[v] # pos[w]
  BY DEF Permutation
<1> HIDE DEF new
<1>8. \A v \in Ways : v # w => new[v] > 0
  BY <1>3, <1>6, <1>7
<1>9. \A u, v \in Ways : u # w /\ v # w => (new[u] < new[v] <=> pos[u] < pos[v])
  BY <1>3, <1>6, <1>7
<1>10. new \in [Ways -> Ways]
  <2>1. ASSUME NEW v \in Ways PROVE new[v] \in Ways
    <3>1. CASE v = w
      BY <1>2, <1>5, <3>1
    <3>2. CASE v # w /\ pos[v] < pos[w]
      <4>1. new[v] = pos[v] + 1
        BY <1>6, <3>2
      <4>2. pos[v] + 1 \in Nat /\ pos[v] + 1 <= pos[w]
        BY <1>3, <3>2
      <4>3. QED
        BY <1>2, <1>3, <4>1, <4>2
    <3>3. CASE v # w /\ ~(pos[v] < pos[w])
      BY <1>3, <1>6, <3>3
    <3>4. QED
      BY <3>1, <3>2, <3>3
  <2>2. QED
    BY <1>4, <2>1
<1>11. \A u, v \in Ways : new[u] = new[v] => u = v
  <2> SUFFICES ASSUME NEW u \in Ways, NEW v \in Ways, new[u] = new[v], u # v
               PROVE  FALSE
    OBVIOUS
  <2>1. u # w /\ v # w
    BY <1>5, <1>8
  <2>2. pos[u] # pos[v]
    BY DEF Permutation
  <2>3. QED
    BY <1>3, <1>6, <1>7, <2>1, <2>2
<1>12. \A p \in Ways : \E v \in Ways : new[v] = p
  <2> SUFFICES ASSUME NEW p \in Ways PROVE \E v \in Ways : new[v] = p
    OBVIOUS
  <2>1. CASE p = 0
    BY <1>5, <2>1
  <2>2. CASE p # 0 /\ p <= pos[w]
    <3>1. p - 1 \in Ways
      <4>1. p \in Nat
        BY <1>2
      <4>2. p - 1 \in Nat /\ p - 1 <= p
        BY <2>2, <4>1
      <4>3. QED
        BY <1>2, <4>2
    <3>2. PICK v \in Ways : pos[v] = p - 1
      BY <3>1 DEF Permutation
    <3>3. v # w /\ pos[v] < pos[w]
      BY <1>2, <1>3, <2>2, <3>2
    <3>4. new[v] = p
      BY <1>2, <1>6, <3>2, <3>3
    <3>5. QED
      BY <3>4
  <2>3. CASE p # 0 /\ ~(p <= pos[w])
    <3>1. PICK v \in Ways : pos[v] = p
      BY DEF Permutation
    <3>2. v # w /\ ~(pos[v] < pos[w])
      BY <1>2, <1>3, <2>3, <3>1
    <3>3. new[v] = p
      BY <1>6, <3>1, <3>2
    <3>4. QED
      BY <3>3
  <2>4. QED
    BY <2>1, <2>2, <2>3
<1>13. Permutation(new)
  BY <1>10, <1>11, <1>12 DEF Permutation
<1>14. QED
  BY <1>5, <1>8, <1>9, <1>13 DEF new


----------------------------------------------------------------------------
(* Steps.  A use of a way under each of the ranking policies.              *)

\* A hit or a fill of way w: what both do to the history and to the stack.
Use(w) ==
  /\ Used(w)
  /\ valid' = valid \cup {w}
  /\ UNCHANGED <<build, asked>>

\* LRU: any way may be used, whether it was free or not.
LEMMA StackUse ==
  ASSUME IInv, build.policy = "LRU", NEW w \in Ways, Use(w),
         r' = [r EXCEPT !.pos = UpdateLRU(@, w)]
  PROVE  StackIsOrder'
<1>1. /\ r \in States /\ valid \subseteq Ways /\ Permutation(r.pos)
      /\ since \in [Ways -> SUBSET Ways] /\ build \in Builds
  BY DEF IInv, StackIsOrder
<1>2. Ways' = Ways /\ build' = build /\ Ways \subseteq Nat
  BY NoFix, <1>1 DEF Use, Ways, assoc, Ranking
<1> DEFINE old == r.pos
           new == UpdateLRU(r.pos, w)
<1>3. /\ Permutation(new)
      /\ new[w] = 0
      /\ \A v \in Ways : v # w => new[v] > 0
      /\ \A u, v \in Ways : u # w /\ v # w => (new[u] < new[v] <=> old[u] < old[v])
  BY <1>1, UpdateLRUReorders
<1>4. new \in [Ways -> Ways] /\ new \in [Ways -> Nat]
  BY <1>2, <1>3 DEF Permutation
<1>5. r' \in States /\ r'.pos = new
  <2> HIDE DEF new
  <2>1. r' = [r EXCEPT !.pos = new]
    BY DEF new
  <2>2. QED
    BY <1>1, <1>4, <2>1 DEF States
<1>6. States' = States
  BY <1>2 DEF States
<1>7. /\ \A v \in valid, u \in Ways : v \in since[u] <=> old[v] < old[u]
      /\ \A v, u \in Ways \ valid : v < u <=> old[v] < old[u]
      /\ \A v \in valid, u \in Ways \ valid : old[v] < old[u]
  BY DEF IInv, StackIsOrder
<1>8. \A v \in Ways : since'[v] = IF v = w THEN {} ELSE since[v] \cup {w}
  BY DEF Use, Used
<1>9. valid' = valid \cup {w}
  BY DEF Use
<1>10. \A v \in Ways : new[v] \in Nat
  BY <1>4
<1> HIDE DEF new, old
<1>11. ASSUME NEW v \in valid', NEW u \in Ways
       PROVE  v \in since'[u] <=> new[v] < new[u]
  <2>1. v \in Ways
    BY <1>1, <1>9
  <2>2. CASE u = w
    <3>1. since'[u] = {} /\ new[u] = 0
      BY <1>3, <1>8, <2>2
    <3>2. new[v] \in Nat
      BY <1>10, <2>1
    <3>3. QED
      BY <3>1, <3>2
  <2>3. CASE u # w /\ v = w
    BY <1>3, <1>8, <1>10, <2>3
  <2>4. CASE u # w /\ v # w
    <3>1. v \in valid /\ (v \in since'[u] <=> v \in since[u])
      BY <1>8, <1>9, <2>4
    <3>2. QED
      BY <1>3, <1>7, <2>1, <2>4, <3>1
  <2>5. QED
    BY <2>2, <2>3, <2>4
<1>12. \A v, u \in Ways \ valid' : v < u <=> new[v] < new[u]
  BY <1>3, <1>7, <1>9
<1>13. \A v \in valid', u \in Ways \ valid' : new[v] < new[u]
  <2> SUFFICES ASSUME NEW v \in valid', NEW u \in Ways \ valid'
               PROVE  new[v] < new[u]
    OBVIOUS
  <2>1. u # w /\ u \in Ways \ valid /\ v \in Ways
    BY <1>1, <1>9
  <2>2. CASE v = w
    BY <1>3, <1>10, <2>1, <2>2
  <2>3. CASE v # w
    <3>1. v \in valid
      BY <1>9, <2>3
    <3>2. QED
      BY <1>3, <1>7, <2>1, <2>3, <3>1
  <2>4. QED
    BY <2>2, <2>3
<1>14. Permutation(r.pos)'
  BY <1>2, <1>3, <1>5 DEF Permutation
<1>15. valid' \subseteq Ways'
  BY <1>1, <1>2, <1>9
<1>16. QED
  BY <1>2, <1>5, <1>6, <1>11, <1>12, <1>13, <1>14, <1>15 DEF StackIsOrder


\* MRU: a free way becomes used, or a used way is used again.
LEMMA BitsUse ==
  ASSUME IInv, build.policy = "MRU", valid' # Ways, NEW w \in Ways, Use(w),
         r' = [r EXCEPT !.pos = UpdateMRU(@, w)] \/ (r' = r /\ assoc = 1)
  PROVE  BitsAreUses'
<1>1. Ways' = Ways /\ build' = build /\ valid' = valid \cup {w} /\ build \in Builds
  BY DEF Use, Ways, assoc, IInv
<1>2. assoc \in Nat \ {0}
  BY NoFix, <1>1 DEF assoc, Ranking
<1>3. assoc # 1
  <2> SUFFICES ASSUME assoc = 1 PROVE FALSE
    OBVIOUS
  <2>1. Ways = {0}
    BY DEF Ways
  <2>2. valid # Ways
    BY <1>1
  <2>3. valid \subseteq Ways
    BY <2>1, <2>2 DEF IInv, BitsAreUses
  <2>4. QED
    BY <1>1, <2>1, <2>3
<1>4. PICK u \in Ways : u \notin valid \cup {w}
  <2>1. valid # Ways => valid \subseteq Ways
    BY DEF IInv, BitsAreUses
  <2>2. QED
    BY <1>1, <2>1
<1>5. /\ r \in States /\ valid \subseteq Ways
      /\ \A v \in Ways : r.pos[v] = IF v \in valid THEN 1 ELSE 0
  BY <1>4 DEF IInv, BitsAreUses
<1> DEFINE new == UpdateMRU(r.pos, w)
<1>6. \A v \in Ways : new[v] = IF v \in valid \cup {w} THEN 1 ELSE 0
  <2>1. r.pos[u] = 0
    BY <1>4, <1>5
  <2>2. CASE r.pos[w] # 0
    BY <1>5, <2>2 DEF UpdateMRU
  <2>3. CASE r.pos[w] = 0
    <3>1. new = [v \in Ways |-> IF v = w THEN 1 ELSE r.pos[v]]
      BY <1>4, <2>1, <2>3 DEF UpdateMRU
    <3>2. QED
      BY <1>5, <3>1
  <2>4. QED
    BY <2>2, <2>3
<1>7. new \in [Ways -> Nat]
  <2>1. r.pos \in [Ways -> Nat]
    BY <1>5 DEF States
  <2>2. \A v \in Ways : new[v] \in Nat
    BY <1>6
  <2>3. QED
    BY <2>1, <2>2 DEF UpdateMRU
<1>8. r' \in States /\ r'.pos = new
  <2> HIDE DEF new
  <2>1. r' = [r EXCEPT !.pos = new]
    BY <1>3 DEF new
  <2>2. QED
    BY <1>5, <1>7, <2>1 DEF States
<1>9. States' = States
  BY <1>1 DEF States
<1> HIDE DEF new
<1>10. QED
  BY <1>1, <1>5, <1>6, <1>8, <1>9 DEF BitsAreUses

\* RRIP: the same, with the age of a used way at 0.
LEMMA AgesUse ==
  ASSUME IInv, build.policy = "RRIP", valid' # Ways, NEW w \in Ways, Use(w),
         assoc = 1 \/ r' = [r EXCEPT !.rr[w] = 0] \/ r' = [Chosen(r, w) EXCEPT !.rr[w] = 0]
  PROVE  NothingAged'
<1>1. Ways' = Ways /\ build' = build /\ valid' = valid \cup {w} /\ build \in Builds
  BY DEF Use, Ways, assoc, IInv
<1>2. assoc # 1
  <2> SUFFICES ASSUME assoc = 1 PROVE FALSE
    OBVIOUS
  <2>1. Ways = {0}
    BY DEF Ways
  <2>2. valid # Ways
    BY <1>1
  <2>3. valid \subseteq Ways
    BY <2>1, <2>2 DEF IInv, NothingAged
  <2>4. QED
    BY <1>1, <2>1, <2>3
<1>3. PICK u \in Ways : u \notin valid \cup {w}
  <2>1. valid # Ways => valid \subseteq Ways
    BY DEF IInv, NothingAged
  <2>2. QED
    BY <1>1, <2>1
<1>4. /\ r \in States /\ valid \subseteq Ways
      /\ \A v \in Ways : r.rr[v] = IF v \in valid THEN 0 ELSE 7
  BY <1>3 DEF IInv, NothingAged
<1>5. r.rr \in [Ways -> Nat]
  BY <1>4 DEF States
<1>6. Oldest(r) = 7
  <2>1. \A v \in 0 .. 7 :
          (\A x \in Ways : r.rr[x] <= v) /\ (\E x \in Ways : r.rr[x] = v) <=> v = 7
    BY <1>3, <1>4
  <2>2. QED
    BY <2>1 DEF Oldest
<1> DEFINE new == [r.rr EXCEPT ![w] = 0]
<1>7. r' = [r EXCEPT !.rr = new]
  <2>1. CASE r' = [r EXCEPT !.rr[w] = 0]
    BY <2>1
  <2>2. CASE r' = [Chosen(r, w) EXCEPT !.rr[w] = 0]
    <3> DEFINE aged == [v \in Ways |-> IF v = w THEN 3 ELSE r.rr[v] + 7 - Oldest(r)]
    <3>1. Chosen(r, w) = [r EXCEPT !.rr = aged]
      BY DEF Chosen, Trees
    <3>2. [aged EXCEPT ![w] = 0] = new
      <4>1. \A v \in Ways : r.rr[v] + 7 - Oldest(r) = r.rr[v]
        BY <1>5, <1>6
      <4>2. aged = [v \in Ways |-> IF v = w THEN 3 ELSE r.rr[v]]
        BY <4>1
      <4>3. QED
        BY <1>5, <4>2
    <3> HIDE DEF aged, new
    <3>3. Chosen(r, w) \in [pos : [Ways -> Nat], rr : {aged}, entry : SUBSET Nat,
                            pending : SUBSET Nat, or_mask : SUBSET Nat, and_mask : SUBSET Nat]
      BY <1>4, <3>1 DEF States
    <3>4. r' = [r EXCEPT !.rr = [aged EXCEPT ![w] = 0]]
      BY <1>4, <2>2, <3>1, <3>3 DEF States
    <3>5. QED
      BY <3>2, <3>4
  <2>3. QED
    BY <1>2, <2>1, <2>2
<1>8. new \in [Ways -> Nat] /\ \A v \in Ways : new[v] = IF v \in valid \cup {w} THEN 0 ELSE 7
  BY <1>4, <1>5
<1> HIDE DEF new
<1>9. r' \in States /\ r'.rr = new
  BY <1>4, <1>7, <1>8 DEF States
<1>10. States' = States
  BY <1>1 DEF States
<1>11. QED
  BY <1>1, <1>4, <1>8, <1>9, <1>10 DEF NothingAged


\* What UpdateReplacementState does under each ranking policy.
LEMMA UpdateUnderLRU ==
  ASSUME IInv, build.policy = "LRU", NEW w \in Ways, NEW hit \in BOOLEAN
  PROVE  UpdateReplacementState(r, w, hit) = [r EXCEPT !.pos = UpdateLRU(@, w)]
<1>1. r \in States /\ Permutation(r.pos) /\ assoc \in Nat \ {0}
  BY NoFix DEF IInv, StackIsOrder, assoc, Ranking
<1>2. CASE assoc = 1
  <2>1. Ways = {0} /\ w = 0
    BY <1>2 DEF Ways
  <2>2. UpdateLRU(r.pos, w) = r.pos
    BY <1>1, <2>1 DEF UpdateLRU, Permutation
  <2>3. QED
    BY <1>1, <1>2, <2>2 DEF UpdateReplacementState, States
<1>3. CASE assoc > 1
  BY <1>3 DEF UpdateReplacementState, Trees
<1>4. QED
  BY <1>1, <1>2, <1>3

LEMMA UpdateUnderMRU ==
  ASSUME build \in Builds, build.policy = "MRU", NEW w \in Ways, NEW hit \in BOOLEAN
  PROVE  UpdateReplacementState(r, w, hit) =
           IF assoc = 1 THEN r ELSE [r EXCEPT !.pos = UpdateMRU(@, w)]
<1>1. assoc \in Nat \ {0}
  BY NoFix DEF assoc, Ranking
<1>2. CASE assoc = 1
  BY <1>2 DEF UpdateReplacementState
<1>3. CASE assoc > 1
  BY <1>3 DEF UpdateReplacementState
<1>4. QED
  BY <1>1, <1>2, <1>3

LEMMA UpdateUnderRRIP ==
  ASSUME build \in Builds, build.policy = "RRIP", NEW w \in Ways, NEW s, NEW hit \in BOOLEAN
  PROVE  UpdateReplacementState(s, w, hit) = IF assoc = 1 THEN s ELSE [s EXCEPT !.rr[w] = 0]
<1>1. assoc \in Nat \ {0}
  BY NoFix DEF assoc, Ranking
<1>2. CASE assoc = 1
  BY <1>2 DEF UpdateReplacementState
<1>3. CASE assoc > 1
  BY <1>3 DEF UpdateReplacementState
<1>4. QED
  BY <1>1, <1>2, <1>3

\* The step of a hit or a fill leads from the invariant to the invariant.
LEMMA UseStep ==
  ASSUME IInv, NEW w \in Ways, Use(w),
         build.policy \in Ranking =>
           \/ \E hit \in BOOLEAN : r' = UpdateReplacementState(r, w, hit)
           \/ build.policy = "RRIP" /\ r' = UpdateReplacementState(Chosen(r, w), w, FALSE)
  PROVE  IInv'
<1>1. build \in Builds /\ build' = build /\ Ways' = Ways /\ asked' = asked
  BY DEF IInv, Use, Ways, assoc
<1>2. since' \in [Ways -> SUBSET Ways]
  <2>1. ASSUME NEW v \in Ways
        PROVE  (CASE v = w -> {}
                  [] v # w /\ build.policy = "LRU" -> since[v] \cup {w}
                  [] v # w /\ build.policy # "LRU" -> {w}) \in SUBSET Ways
    <3>1. since[v] \in SUBSET Ways
      BY DEF IInv
    <3>2. QED
      BY <3>1
  <2>2. QED
    BY <2>1 DEF Use, Used
<1>3. StackIsOrder'
  <2>1. CASE build.policy = "LRU"
    <3>1. PICK hit \in BOOLEAN : r' = UpdateReplacementState(r, w, hit)
      BY <2>1 DEF Ranking
    <3>2. QED
      BY <2>1, <3>1, UpdateUnderLRU, StackUse
  <2>2. CASE build.policy # "LRU"
    BY <1>1, <2>2 DEF StackIsOrder
  <2>3. QED
    BY <2>1, <2>2
<1>4. BitsAreUses'
  <2>1. CASE build.policy = "MRU" /\ valid' # Ways
    <3>1. PICK hit \in BOOLEAN : r' = UpdateReplacementState(r, w, hit)
      BY <2>1 DEF Ranking
    <3>2. QED
      BY <1>1, <2>1, <3>1, UpdateUnderMRU, BitsUse
  <2>2. CASE build.policy # "MRU" \/ valid' = Ways
    BY <1>1, <2>2 DEF BitsAreUses
  <2>3. QED
    BY <2>1, <2>2
<1>5. NothingAged'
  <2>1. CASE build.policy = "RRIP" /\ valid' # Ways
    <3>1. assoc = 1 \/ r' = [r EXCEPT !.rr[w] = 0]
            \/ r' = [Chosen(r, w) EXCEPT !.rr[w] = 0]
      <4>1. CASE \E hit \in BOOLEAN : r' = UpdateReplacementState(r, w, hit)
        BY <1>1, <2>1, <4>1, UpdateUnderRRIP
      <4>2. CASE r' = UpdateReplacementState(Chosen(r, w), w, FALSE)
        BY <1>1, <2>1, <4>2, UpdateUnderRRIP
      <4>3. QED
        BY <2>1, <4>1, <4>2 DEF Ranking
    <3>2. QED
      BY <2>1, <3>1, AgesUse
  <2>2. CASE build.policy # "RRIP" \/ valid' = Ways
    BY <1>1, <2>2 DEF NothingAged
  <2>3. QED
    BY <2>1, <2>2
<1>6. Unasked'
  BY <1>1 DEF IInv, Unasked
<1>7. QED
  BY <1>1, <1>2, <1>3, <1>4, <1>5, <1>6 DEF IInv

----------------------------------------------------------------------------
(* One lemma per action.                                                   *)

LEMMA HitStep ==
  ASSUME IInv, NEW w \in Ways, Hit(w)
  PROVE  IInv'
<1>1. Use(w)
  BY DEF Hit, Use
<1>2. r' = UpdateReplacementState(r, w, TRUE)
  BY DEF Hit, LookupHit
<1>3. QED
  BY <1>1, <1>2, UseStep

LEMMA FillStep ==
  ASSUME IInv, NEW w \in Ways, Fill(w)
  PROVE  IInv'
<1>1. Use(w)
  BY DEF Fill, Use
<1>2. r' = UpdateReplacementState(AfterVictim(w), w, FALSE)
  BY DEF Fill
<1>3. CASE Invalid # {}
  <2>1. AfterVictim(w) = r
    BY <1>3 DEF AfterVictim
  <2>2. QED
    BY <1>1, <1>2, <2>1, UseStep
<1>4. CASE Invalid = {}
  <2>1. AfterVictim(w) = Chosen(r, w)
    BY <1>4 DEF AfterVictim
  <2>2. CASE build.policy = "RRIP"
    BY <1>1, <1>2, <2>1, <2>2, UseStep
  <2>3. CASE build.policy # "RRIP"
    <3>1. build.policy \in Ranking => Chosen(r, w) = r
      BY <2>3 DEF Ranking, Chosen, Trees
    <3>2. QED
      BY <1>1, <1>2, <2>1, <2>3, <3>1, UseStep
  <2>4. QED
    BY <2>2, <2>3
<1>5. QED
  BY <1>3, <1>4

LEMMA MissStep ==
  ASSUME IInv, NEW w \in Ways, FindVictim(w) \/ FillCache(w) \/ ClearLineReplacementMask(w)
  PROVE  IInv'
<1>1. build \in Builds /\ build' = build /\ Ways' = Ways
  BY DEF IInv, FindVictim, FillCache, ClearLineReplacementMask, Ways, assoc
<1>2. build.policy \notin Ranking
  <2> SUFFICES ASSUME build.policy \in Ranking PROVE FALSE
    OBVIOUS
  <2>1. ~build.fix /\ asked = {}
    BY <1>1, NoFix DEF IInv, Unasked
  <2>2. QED
    BY <2>1 DEF FindVictim, FillCache, ClearLineReplacementMask
<1>3. build.policy \notin {"LRU", "MRU", "RRIP"}
  BY <1>2 DEF Ranking
<1>4. Unasked' /\ StackIsOrder' /\ BitsAreUses' /\ NothingAged'
  BY <1>1, <1>3 DEF Unasked, Ranking, StackIsOrder, BitsAreUses, NothingAged
<1>5. since' \in [Ways -> SUBSET Ways]
  <2>1. ASSUME NEW v \in Ways
        PROVE  (CASE v = w -> {}
                  [] v # w /\ build.policy = "LRU" -> since[v] \cup {w}
                  [] v # w /\ build.policy # "LRU" -> {w}) \in SUBSET Ways
    BY <1>3
  <2>2. since \in [Ways -> SUBSET Ways]
    BY DEF IInv
  <2>3. CASE Used(w)
    BY <2>1, <2>3 DEF Used
  <2>4. CASE since' = since
    BY <2>2, <2>4
  <2>5. QED
    BY <2>3, <2>4 DEF FindVictim, FillCache, ClearLineReplacementMask
<1>6. QED
  BY <1>1, <1>4, <1>5 DEF IInv

LEMMA InitEstablishes ==
  ASSUME Init
  PROVE  IInv
<1>1. build \in Builds /\ valid = {} /\ asked = {} /\ r = InitReplacementState(build)
  BY DEF Init
<1>2. since \in [Ways -> SUBSET Ways]
  BY DEF Init, Ways, assoc
<1>3. ASSUME build.policy \in Ranking
      PROVE  /\ r \in States
             /\ \A w \in Ways : r.pos[w] = (IF build.policy = "LRU" THEN w ELSE 0) /\ r.rr[w] = 7
             /\ Ways \subseteq Nat
             /\ r.pos = [w \in Ways |-> IF build.policy = "LRU" THEN w ELSE 0]
  <2>1. assoc \in Nat \ {0}
    BY <1>1, <1>3, NoFix DEF assoc
  <2>2. Ways \subseteq Nat
    BY <2>1 DEF Ways
  <2>3. r.pos = [w \in Ways |-> IF build.policy = "LRU" THEN w ELSE 0] /\ r.rr = [w \in Ways |-> 7]
    BY <1>1 DEF InitReplacementState, Ways, assoc
  <2>4. r.pos \in [Ways -> Nat] /\ r.rr \in [Ways -> Nat]
    BY <2>2, <2>3
  <2>5. r \in States
    <3>1. r = [pos |-> r.pos, rr |-> r.rr, entry |-> {}, pending |-> {}, or_mask |-> {},
               and_mask |-> Bits]
      BY <1>1 DEF InitReplacementState
    <3>2. Bits \subseteq Nat
      BY DEF Bits
    <3>3. QED
      BY <2>4, <3>1, <3>2 DEF States
  <2>6. QED
    BY <2>2, <2>3, <2>5
<1>4. StackIsOrder
  <2> SUFFICES ASSUME build.policy = "LRU" PROVE StackIsOrder
    BY DEF StackIsOrder
  <2>1. r \in States /\ Ways \subseteq Nat /\ r.pos = [w \in Ways |-> w]
    BY <1>3 DEF Ranking
  <2>2. Permutation(r.pos)
    BY <2>1 DEF Permutation
  <2>3. QED
    BY <1>1, <2>1, <2>2 DEF StackIsOrder
<1>5. BitsAreUses /\ NothingAged
  BY <1>1, <1>3 DEF BitsAreUses, NothingAged, Ranking
<1>6. QED
  BY <1>1, <1>2, <1>4, <1>5 DEF IInv, Unasked

----------------------------------------------------------------------------
(* Theorems.                                                               *)

\* The bookkeeping of the ranking policies is inductive, for every number of ways.
THEOREM Invariance == Spec => []IInv
<1>1. Init => IInv
  BY InitEstablishes
<1>2. IInv /\ [Next]_vars => IInv'
  <2> SUFFICES ASSUME IInv, [Next]_vars PROVE IInv'
    OBVIOUS
  <2>1. CASE Next
    <3>1. PICK w \in Ways : Hit(w) \/ Fill(w) \/ FindVictim(w) \/ FillCache(w)
                               \/ ClearLineReplacementMask(w)
      BY <2>1 DEF Next
    <3>2. QED
      BY <3>1, HitStep, FillStep, MissStep
  <2>2. CASE UNCHANGED vars
    BY <2>2 DEF vars, IInv, Unasked, StackIsOrder, BitsAreUses, NothingAged, Permutation,
                States, Ways, assoc
  <2>3. QED
    BY <2>1, <2>2
<1>3. QED
  BY <1>1, <1>2, PTL DEF Spec

\* With REPL_LRU, the only policy the simulator builds, the stack of a set is the
\* order of the last uses, the free ways below in their own order.
THEOREM LruStackIsExact == Spec => []LruIsExact
<1>1. IInv => LruIsExact
  <2> SUFFICES ASSUME IInv, build.policy = "LRU" PROVE LruIsExact
    BY DEF LruIsExact
  <2>1. {r.pos[w] : w \in Ways} = Ways
    BY DEF IInv, StackIsOrder, Permutation
  <2>2. QED
    BY <2>1 DEF IInv, StackIsOrder, LruIsExact
<1>2. QED
  BY <1>1, Invariance, PTL

\* LRU, MRU and RRIP evict no line while the set has a free way, whatever memory
\* gave as the evict_state that InitCache leaves alone.
THEOREM FreeWaysAreFirst == Spec => []FreeWaysFirst
<1>1. IInv => FreeWaysFirst
  <2> SUFFICES ASSUME IInv, build.policy \in Ranking, valid # Ways
               PROVE  VictimsInSet \cap valid = {}
    BY DEF FreeWaysFirst, Ranking
  <2>1. assoc \in Nat \ {0}
    BY NoFix DEF IInv, assoc
  <2>2. Ways \subseteq Nat /\ assoc - 1 \in Ways /\ \A w \in Ways : w <= assoc - 1
    BY <2>1 DEF Ways
  <2>3. PICK u \in Ways : u \notin valid
    BY DEF IInv, StackIsOrder, BitsAreUses, NothingAged, Ranking
  <2>4. CASE Invalid # {}
    <3>1. Invalid \subseteq Ways \ valid
      BY DEF Invalid
    <3>2. First(Invalid) \in Invalid
      BY <2>2, <2>4, <3>1, FirstIsMember
    <3>3. QED
      BY <2>4, <3>1, <3>2 DEF VictimsInSet
  <2>5. CASE Invalid = {} /\ assoc = 1
    <3>1. VictimsInSet = {0} /\ Ways = {0}
      BY <2>5 DEF VictimsInSet, Victims, Ways
    <3>2. QED
      BY <2>3, <3>1
  <2>6. CASE Invalid = {} /\ assoc # 1 /\ build.policy = "LRU"
    <3> DEFINE L == {w \in Ways : r.pos[w] = assoc - 1}
    <3>1. VictimsInSet = FirstOr0(L)
      <4>1. Victims(r) = Get_LRU_Victim(r)
        BY <2>6 DEF Victims, Trees
      <4>2. VictimsInSet = Victims(r)
        BY <2>6 DEF VictimsInSet
      <4>3. QED
        BY <4>1, <4>2 DEF Get_LRU_Victim
    <3>2. L # {}
      BY <2>2, <2>6 DEF IInv, StackIsOrder, Permutation
    <3>3. VictimsInSet = {First(L)} /\ First(L) \in L
      BY <2>2, <3>1, <3>2, FirstIsMember DEF FirstOr0
    <3>4. L \cap valid = {}
      <4>1. /\ \A v \in valid, w \in Ways \ valid : r.pos[v] < r.pos[w]
            /\ r.pos \in [Ways -> Ways]
        BY <2>6 DEF IInv, StackIsOrder, Permutation
      <4>2. r.pos[u] <= assoc - 1 /\ r.pos[u] \in Nat
        BY <2>2, <4>1
      <4>3. ASSUME NEW v \in L, v \in valid PROVE FALSE
        <5>1. r.pos[v] < r.pos[u] /\ r.pos[v] = assoc - 1
          BY <2>3, <4>1, <4>3
        <5>2. QED
          BY <2>1, <4>2, <5>1
      <4>4. QED
        BY <4>3
    <3>5. QED
      BY <3>3, <3>4
  <2>7. CASE Invalid = {} /\ assoc # 1 /\ build.policy = "MRU"
    <3> DEFINE L == {w \in Ways : r.pos[w] = 0}
    <3>1. VictimsInSet = {First(L)}
      BY <2>7 DEF VictimsInSet, Victims, Get_MRU_Victim, Trees
    <3>2. L = Ways \ valid
      BY <2>7 DEF IInv, BitsAreUses
    <3>3. First(L) \in L
      BY <2>2, <2>3, <3>2, FirstIsMember
    <3>4. QED
      BY <3>1, <3>2, <3>3
  <2>8. CASE Invalid = {} /\ assoc # 1 /\ build.policy = "RRIP"
    <3> DEFINE L == {w \in Ways : r.rr[w] = Oldest(r)}
    <3>1. VictimsInSet = {First(L)}
      <4>1. build.policy \notin Trees
        BY <2>8 DEF Trees
      <4>2. Victims(r) = Get_RRIP_Victim(r)
        BY <2>8, <4>1 DEF Victims
      <4>3. VictimsInSet = Victims(r)
        BY <2>8 DEF VictimsInSet
      <4>4. QED
        BY <4>2, <4>3 DEF Get_RRIP_Victim
    <3>2. \A w \in Ways : r.rr[w] = IF w \in valid THEN 0 ELSE 7
      BY <2>8 DEF IInv, NothingAged
    <3>3. \A v \in 0 .. 7 :
            (\A x \in Ways : r.rr[x] <= v) /\ (\E x \in Ways : r.rr[x] = v) <=> v = 7
      BY <2>3, <3>2
    <3>4. Oldest(r) = 7
      BY <3>3 DEF Oldest
    <3>5. L = Ways \ valid
      BY <3>2, <3>4
    <3>6. First(L) \in L
      BY <2>2, <2>3, <3>5, FirstIsMember
    <3>7. QED
      BY <3>1, <3>5, <3>6
  <2>9. QED
    BY <2>4, <2>5, <2>6, <2>7, <2>8 DEF Ranking
<1>2. QED
  BY <1>1, Invariance, PTL

----------------------------------------------------------------------------
(* Masks.  What is forced away from the ways that are being replaced.       *)

\* the ways on either side of a bit of the tree
OnLeft == [n \in Bits |-> CASE n = 0 -> {0, 1, 2, 3} [] n = 1 -> {0, 1} [] n = 2 -> {0}
                            [] n = 3 -> {2} [] n = 4 -> {4, 5} [] n = 5 -> {4} [] n = 6 -> {6}]
OnRight == [n \in Bits |-> CASE n = 0 -> {4, 5, 6, 7} [] n = 1 -> {2, 3} [] n = 2 -> {1}
                             [] n = 3 -> {3} [] n = 4 -> {6, 7} [] n = 5 -> {5} [] n = 6 -> {7}]

\* Where one side of a bit is pending altogether and the other is not, the masks
\* force the bit to the other.
Steered(s) ==
  \A n \in Bits :
    /\ OnLeft[n] \subseteq s.pending /\ ~(OnRight[n] \subseteq s.pending)
         => n \in s.or_mask /\ n \in s.and_mask
    /\ OnRight[n] \subseteq s.pending /\ ~(OnLeft[n] \subseteq s.pending)
         => n \notin s.and_mask

\* The same of one bit, from whether each of its sides is pending altogether.
Fork(s, n, left, right) ==
  /\ left /\ ~right => n \in s.or_mask /\ n \in s.and_mask
  /\ right /\ ~left => n \notin s.and_mask

\* The same, bit by bit.
LEMMA SteeredIs ==
  ASSUME NEW s
  PROVE  Steered(s) <=>
           /\ Fork(s, 0, 0 \in s.pending /\ 1 \in s.pending /\ 2 \in s.pending /\ 3 \in s.pending,
                         4 \in s.pending /\ 5 \in s.pending /\ 6 \in s.pending /\ 7 \in s.pending)
           /\ Fork(s, 1, 0 \in s.pending /\ 1 \in s.pending, 2 \in s.pending /\ 3 \in s.pending)
           /\ Fork(s, 2, 0 \in s.pending, 1 \in s.pending)
           /\ Fork(s, 3, 2 \in s.pending, 3 \in s.pending)
           /\ Fork(s, 4, 4 \in s.pending /\ 5 \in s.pending, 6 \in s.pending /\ 7 \in s.pending)
           /\ Fork(s, 5, 4 \in s.pending, 5 \in s.pending)
           /\ Fork(s, 6, 6 \in s.pending, 7 \in s.pending)
<1> DEFINE P == s.pending
<1>1. Bits = {0, 1, 2, 3, 4, 5, 6}
  BY DEF Bits
<1>3. /\ OnLeft[0] = {0, 1, 2, 3} /\ OnRight[0] = {4, 5, 6, 7}
      /\ OnLeft[1] = {0, 1} /\ OnRight[1] = {2, 3}
      /\ OnLeft[2] = {0} /\ OnRight[2] = {1}
      /\ OnLeft[3] = {2} /\ OnRight[3] = {3}
      /\ OnLeft[4] = {4, 5} /\ OnRight[4] = {6, 7}
      /\ OnLeft[5] = {4} /\ OnRight[5] = {5}
      /\ OnLeft[6] = {6} /\ OnRight[6] = {7}
  BY DEF OnLeft, OnRight, Bits
<1>4. /\ OnLeft[0] \subseteq P <=> 0 \in P /\ 1 \in P /\ 2 \in P /\ 3 \in P
      /\ OnRight[0] \subseteq P <=> 4 \in P /\ 5 \in P /\ 6 \in P /\ 7 \in P
      /\ OnLeft[1] \subseteq P <=> 0 \in P /\ 1 \in P
      /\ OnRight[1] \subseteq P <=> 2 \in P /\ 3 \in P
      /\ OnLeft[2] \subseteq P <=> 0 \in P
      /\ OnRight[2] \subseteq P <=> 1 \in P
      /\ OnLeft[3] \subseteq P <=> 2 \in P
      /\ OnRight[3] \subseteq P <=> 3 \in P
      /\ OnLeft[4] \subseteq P <=> 4 \in P /\ 5 \in P
      /\ OnRight[4] \subseteq P <=> 6 \in P /\ 7 \in P
      /\ OnLeft[5] \subseteq P <=> 4 \in P
      /\ OnRight[5] \subseteq P <=> 5 \in P
      /\ OnLeft[6] \subseteq P <=> 6 \in P
      /\ OnRight[6] \subseteq P <=> 7 \in P
  BY <1>3
<1>5. Steered(s) <=> \A n \in {0, 1, 2, 3, 4, 5, 6} :
        /\ OnLeft[n] \subseteq P /\ ~(OnRight[n] \subseteq P) => n \in s.or_mask /\ n \in s.and_mask
        /\ OnRight[n] \subseteq P /\ ~(OnLeft[n] \subseteq P) => n \notin s.and_mask
  BY <1>1, Zenon DEF Steered
<1> HIDE DEF P
<1>6. QED
  BY <1>4, <1>5 DEF Fork, P

\* A replacement state with other masks.
WithMasks(s, O, A) == [s EXCEPT !.or_mask = O, !.and_mask = A]

\* Nothing else of the state changes with the masks.
LEMMA Remasked ==
  ASSUME NEW s \in States, NEW O \in SUBSET Nat, NEW A \in SUBSET Nat
  PROVE  /\ WithMasks(s, O, A) \in States
         /\ WithMasks(s, O, A).or_mask = O /\ WithMasks(s, O, A).and_mask = A
         /\ WithMasks(s, O, A).pending = s.pending /\ WithMasks(s, O, A).entry = s.entry
<1> DEFINE t == WithMasks(s, O, A)
<1>1. s = [pos |-> s.pos, rr |-> s.rr, entry |-> s.entry, pending |-> s.pending,
           or_mask |-> s.or_mask, and_mask |-> s.and_mask]
  BY DEF States
<1>2. t = [pos |-> s.pos, rr |-> s.rr, entry |-> s.entry, pending |-> s.pending,
           or_mask |-> O, and_mask |-> A]
  <2>1. DOMAIN s = {"pos", "rr", "entry", "pending", "or_mask", "and_mask"}
    BY <1>1
  <2>2. t = [f \in DOMAIN s |-> IF f = "and_mask" THEN A ELSE IF f = "or_mask" THEN O ELSE s[f]]
    BY <2>1 DEF WithMasks
  <2>3. QED
    BY <2>1, <2>2
<1>3. /\ s.pos \in [Ways -> Nat] /\ s.rr \in [Ways -> Nat] /\ s.entry \in SUBSET Nat
      /\ s.pending \in SUBSET Nat
  BY DEF States
<1> HIDE DEF t
<1>4. t \in States /\ t.or_mask = O /\ t.and_mask = A /\ t.pending = s.pending /\ t.entry = s.entry
  BY <1>2, <1>3 DEF States
<1>5. QED
  BY <1>4 DEF t

\* t is s with a bit forced, or with some left to the tree.
SteeredTo(s, t, bit, one) ==
  /\ t \in States /\ t.pending = s.pending /\ t.entry = s.entry
  /\ \A n : n \in t.or_mask <=> IF n = bit THEN one ELSE n \in s.or_mask
  /\ \A n : n \in t.and_mask <=> IF n = bit THEN one ELSE n \in s.and_mask
FreedTo(s, t, bits) ==
  /\ t \in States /\ t.pending = s.pending /\ t.entry = s.entry
  /\ \A n : n \in t.or_mask <=> n \in s.or_mask /\ n \notin bits
  /\ \A n : n \in t.and_mask <=> n \in s.and_mask \/ n \in bits

\* What Steer and Free do to the masks; they change nothing else.
LEMMA SteerBits ==
  ASSUME NEW s \in States, NEW bit \in Bits, NEW one \in BOOLEAN
  PROVE  SteeredTo(s, Steer(s, bit, one), bit, one)
<1> DEFINE O == IF one THEN s.or_mask \cup {bit} ELSE s.or_mask \ {bit}
           A == IF one THEN s.and_mask \cup {bit} ELSE s.and_mask \ {bit}
           t == Steer(s, bit, one)
<1>1. s.or_mask \in SUBSET Nat /\ s.and_mask \in SUBSET Nat /\ bit \in Nat
  BY DEF States, Bits
<1>2. O \in SUBSET Nat /\ A \in SUBSET Nat
  BY <1>1
<1>3. t = WithMasks(s, O, A)
  BY DEF Steer, WithMasks
<1>4. /\ \A n : n \in O <=> IF n = bit THEN one ELSE n \in s.or_mask
      /\ \A n : n \in A <=> IF n = bit THEN one ELSE n \in s.and_mask
  OBVIOUS
<1> HIDE DEF O, A, t
<1>5. t \in States /\ t.or_mask = O /\ t.and_mask = A /\ t.pending = s.pending /\ t.entry = s.entry
  BY <1>2, <1>3, Remasked
<1>6. QED
  BY <1>4, <1>5 DEF t, SteeredTo

\* The same for Free, which leaves bits to the tree.
LEMMA FreeBits ==
  ASSUME NEW s \in States, NEW bits \in SUBSET Bits
  PROVE  FreedTo(s, Free(s, bits), bits)
<1> DEFINE O == s.or_mask \ bits
           A == s.and_mask \cup bits
           t == Free(s, bits)
<1>1. s.or_mask \in SUBSET Nat /\ s.and_mask \in SUBSET Nat /\ bits \in SUBSET Nat
  BY DEF States, Bits
<1>2. O \in SUBSET Nat /\ A \in SUBSET Nat
  BY <1>1
<1>3. t = WithMasks(s, O, A)
  BY DEF Free, WithMasks
<1> HIDE DEF O, A, t
<1>5. t \in States /\ t.or_mask = O /\ t.and_mask = A /\ t.pending = s.pending /\ t.entry = s.entry
  BY <1>2, <1>3, Remasked
<1>6. QED
  BY <1>5 DEF t, O, A, FreedTo

\* A replacement state with other pending ways.
WithPending(s, P) == [s EXCEPT !.pending = P]

\* Nothing else of the state changes with the pending ways.
LEMMA Repended ==
  ASSUME NEW s \in States, NEW P \in SUBSET Nat
  PROVE  /\ WithPending(s, P) \in States
         /\ WithPending(s, P).pending = P /\ WithPending(s, P).entry = s.entry
         /\ WithPending(s, P).or_mask = s.or_mask /\ WithPending(s, P).and_mask = s.and_mask
<1> DEFINE t == WithPending(s, P)
<1>1. s = [pos |-> s.pos, rr |-> s.rr, entry |-> s.entry, pending |-> s.pending,
           or_mask |-> s.or_mask, and_mask |-> s.and_mask]
  BY DEF States
<1>2. t = [pos |-> s.pos, rr |-> s.rr, entry |-> s.entry, pending |-> P,
           or_mask |-> s.or_mask, and_mask |-> s.and_mask]
  <2>1. DOMAIN s = {"pos", "rr", "entry", "pending", "or_mask", "and_mask"}
    BY <1>1
  <2>2. t = [f \in DOMAIN s |-> IF f = "pending" THEN P ELSE s[f]]
    BY <2>1 DEF WithPending
  <2>3. QED
    BY <2>1, <2>2
<1>3. /\ s.pos \in [Ways -> Nat] /\ s.rr \in [Ways -> Nat] /\ s.entry \in SUBSET Nat
      /\ s.or_mask \in SUBSET Nat /\ s.and_mask \in SUBSET Nat
  BY DEF States
<1> HIDE DEF t
<1>4. /\ t \in States /\ t.pending = P /\ t.entry = s.entry
      /\ t.or_mask = s.or_mask /\ t.and_mask = s.and_mask
  BY <1>2, <1>3 DEF States
<1>5. QED
  BY <1>4 DEF t

\* The ways and bits around each way.
LEMMA Around ==
  /\ Half(0) = {0, 1, 2, 3} /\ Pair(0) = {0, 1} /\ PairBit(0) = 1 /\ LeafBit(0) = 2 /\ LeafBit(Across(0)) = 3
  /\ Half(1) = {0, 1, 2, 3} /\ Pair(1) = {0, 1} /\ PairBit(1) = 1 /\ LeafBit(1) = 2 /\ LeafBit(Across(1)) = 3
  /\ Half(2) = {0, 1, 2, 3} /\ Pair(2) = {2, 3} /\ PairBit(2) = 1 /\ LeafBit(2) = 3 /\ LeafBit(Across(2)) = 2
  /\ Half(3) = {0, 1, 2, 3} /\ Pair(3) = {2, 3} /\ PairBit(3) = 1 /\ LeafBit(3) = 3 /\ LeafBit(Across(3)) = 2
  /\ Half(4) = {4, 5, 6, 7} /\ Pair(4) = {4, 5} /\ PairBit(4) = 4 /\ LeafBit(4) = 5 /\ LeafBit(Across(4)) = 6
  /\ Half(5) = {4, 5, 6, 7} /\ Pair(5) = {4, 5} /\ PairBit(5) = 4 /\ LeafBit(5) = 5 /\ LeafBit(Across(5)) = 6
  /\ Half(6) = {4, 5, 6, 7} /\ Pair(6) = {6, 7} /\ PairBit(6) = 4 /\ LeafBit(6) = 6 /\ LeafBit(Across(6)) = 5
  /\ Half(7) = {4, 5, 6, 7} /\ Pair(7) = {6, 7} /\ PairBit(7) = 4 /\ LeafBit(7) = 6 /\ LeafBit(Across(7)) = 5
<1>1. 0 .. 3 = {0, 1, 2, 3} /\ 4 .. 7 = {4, 5, 6, 7}
  OBVIOUS
<1>2. /\ Half(0) = {0, 1, 2, 3} /\ Half(1) = {0, 1, 2, 3} /\ Half(2) = {0, 1, 2, 3} /\ Half(3) = {0, 1, 2, 3}
      /\ Half(4) = {4, 5, 6, 7} /\ Half(5) = {4, 5, 6, 7} /\ Half(6) = {4, 5, 6, 7} /\ Half(7) = {4, 5, 6, 7}
  BY <1>1 DEF Half
<1>3. /\ Pair(0) = {0, 1} /\ Pair(1) = {0, 1} /\ Pair(2) = {2, 3} /\ Pair(3) = {2, 3}
      /\ Pair(4) = {4, 5} /\ Pair(5) = {4, 5} /\ Pair(6) = {6, 7} /\ Pair(7) = {6, 7}
  BY DEF Pair
<1>4. /\ PairBit(0) = 1 /\ PairBit(1) = 1 /\ PairBit(2) = 1 /\ PairBit(3) = 1
      /\ PairBit(4) = 4 /\ PairBit(5) = 4 /\ PairBit(6) = 4 /\ PairBit(7) = 4
  BY DEF PairBit
<1>5. /\ LeafBit(0) = 2 /\ LeafBit(1) = 2 /\ LeafBit(2) = 3 /\ LeafBit(3) = 3
      /\ LeafBit(4) = 5 /\ LeafBit(5) = 5 /\ LeafBit(6) = 6 /\ LeafBit(7) = 6
  BY DEF LeafBit
<1>6. /\ Across(0) = 2 /\ Across(1) = 3 /\ Across(2) = 0 /\ Across(3) = 1
      /\ Across(4) = 6 /\ Across(5) = 7 /\ Across(6) = 4 /\ Across(7) = 5
  BY DEF Across
<1>7. QED
  BY <1>2, <1>3, <1>4, <1>5, <1>6

\* A bit after its steering, its release or neither.
Steers(t, n, one) == (n \in t.or_mask <=> one) /\ (n \in t.and_mask <=> one)
Frees(t, n) == n \notin t.or_mask /\ n \in t.and_mask
Keeps(s, t, n) == (n \in t.or_mask <=> n \in s.or_mask) /\ (n \in t.and_mask <=> n \in s.and_mask)

\* UpdatepLRUMasks: what it does to each bit.
LEMMA UpdateBits ==
  ASSUME NEW s \in States, NEW w \in 0 .. 7
  PROVE  LET t == UpdatepLRUMasks(s, w)
         IN  /\ t \in States /\ t.pending = s.pending /\ t.entry = s.entry
             /\ Half(w) \subseteq s.pending =>
                  \A n \in Bits :
                    IF n = 0 THEN Steers(t, n, w < 4)
                    ELSE IF n \in {PairBit(w), LeafBit(w), LeafBit(Across(w))} THEN Frees(t, n)
                    ELSE Keeps(s, t, n)
             /\ ~(Half(w) \subseteq s.pending) /\ Pair(w) \subseteq s.pending =>
                  \A n \in Bits :
                    IF n = PairBit(w) THEN Steers(t, n, w % 4 < 2)
                    ELSE IF n = LeafBit(w) THEN Frees(t, n) ELSE Keeps(s, t, n)
             /\ ~(Half(w) \subseteq s.pending) /\ ~(Pair(w) \subseteq s.pending) =>
                  \A n \in Bits :
                    IF n = LeafBit(w) THEN Steers(t, n, w % 2 = 0) ELSE Keeps(s, t, n)
<1> DEFINE t == UpdatepLRUMasks(s, w)
           x == PairBit(w)
           y == LeafBit(w)
           z == LeafBit(Across(w))
<1>1. /\ x \in Bits /\ y \in Bits /\ z \in Bits /\ x # 0 /\ y # 0 /\ z # 0 /\ x # y
      /\ Half(w) \subseteq s.pending => Pair(w) \subseteq s.pending
  <2>1. w \in {0, 1, 2, 3, 4, 5, 6, 7}
    OBVIOUS
  <2>2. QED
    BY <2>1, Around DEF Bits
<1>2. 0 \in Bits /\ (w < 4) \in BOOLEAN /\ (w % 4 < 2) \in BOOLEAN /\ (w % 2 = 0) \in BOOLEAN
  BY DEF Bits
<1>3. CASE Half(w) \subseteq s.pending
  <2> DEFINE u == Steer(s, 0, w < 4)
  <2>1. t = Free(u, {x, y, z})
    BY <1>3 DEF UpdatepLRUMasks
  <2>2. SteeredTo(s, u, 0, w < 4)
    BY <1>2, SteerBits, Zenon
  <2> HIDE DEF u
  <2>3. {x, y, z} \in SUBSET Bits
    BY <1>1
  <2>4. FreedTo(u, t, {x, y, z})
    <3>1. u \in States
      BY <2>2 DEF SteeredTo
    <3> HIDE DEF t, x, y, z
    <3>2. QED
      BY <2>1, <2>3, <3>1, FreeBits, Zenon
  <2> HIDE DEF t, x, y, z
  <2>5. \A n \in Bits : IF n = 0 THEN Steers(t, n, w < 4)
                        ELSE IF n \in {x, y, z} THEN Frees(t, n) ELSE Keeps(s, t, n)
    BY <1>1, <2>2, <2>4 DEF Steers, Frees, Keeps, SteeredTo, FreedTo
  <2>6. QED
    BY <1>3, <2>2, <2>4, <2>5 DEF t, x, y, z, SteeredTo, FreedTo
<1>4. CASE ~(Half(w) \subseteq s.pending) /\ Pair(w) \subseteq s.pending
  <2> DEFINE u == Steer(s, x, w % 4 < 2)
  <2>1. t = Free(u, {y})
    BY <1>4 DEF UpdatepLRUMasks
  <2>2. SteeredTo(s, u, x, w % 4 < 2)
    <3> HIDE DEF x
    <3> QED
      BY <1>1, <1>2, SteerBits, Zenon
  <2> HIDE DEF u
  <2>3. {y} \in SUBSET Bits
    BY <1>1
  <2>4. FreedTo(u, t, {y})
    <3>1. u \in States
      BY <2>2 DEF SteeredTo
    <3> HIDE DEF t, x, y, z
    <3>2. QED
      BY <2>1, <2>3, <3>1, FreeBits, Zenon
  <2> HIDE DEF t, x, y, z
  <2>5. \A n \in Bits : IF n = x THEN Steers(t, n, w % 4 < 2)
                        ELSE IF n = y THEN Frees(t, n) ELSE Keeps(s, t, n)
    BY <1>1, <2>2, <2>4 DEF Steers, Frees, Keeps, SteeredTo, FreedTo
  <2>6. QED
    BY <1>4, <2>2, <2>4, <2>5 DEF t, x, y, z, SteeredTo, FreedTo
<1>5. CASE ~(Half(w) \subseteq s.pending) /\ ~(Pair(w) \subseteq s.pending)
  <2>1. t = Steer(s, y, w % 2 = 0)
    BY <1>5 DEF UpdatepLRUMasks
  <2>2. SteeredTo(s, t, y, w % 2 = 0)
    <3> HIDE DEF t, y
    <3> QED
      BY <1>1, <1>2, <2>1, SteerBits, Zenon
  <2> HIDE DEF t, x, y, z
  <2>3. \A n \in Bits : IF n = y THEN Steers(t, n, w % 2 = 0) ELSE Keeps(s, t, n)
    BY <2>2 DEF Steers, Keeps, SteeredTo
  <2>4. QED
    BY <1>5, <2>2, <2>3 DEF t, x, y, z, SteeredTo
<1>6. QED
  BY <1>3, <1>4, <1>5

\* t is s with one bit forced or left to the tree.
Turned(s, t, bit, force, one) ==
  /\ t \in States /\ t.pending = s.pending /\ t.entry = s.entry
  /\ force => Steers(t, bit, one)
  /\ ~force => Frees(t, bit)
  /\ \A n \in Bits \ {bit} : Keeps(s, t, n)

\* Steer forces its bit.
LEMMA SteerTurns ==
  ASSUME NEW s \in States, NEW bit \in Bits, NEW one \in BOOLEAN
  PROVE  Turned(s, Steer(s, bit, one), bit, TRUE, one)
<1> DEFINE t == Steer(s, bit, one)
<1>1. SteeredTo(s, t, bit, one)
  BY SteerBits, Zenon
<1> HIDE DEF t
<1>2. Turned(s, t, bit, TRUE, one)
  BY <1>1 DEF SteeredTo, Turned, Steers, Frees, Keeps
<1>3. QED
  BY <1>2 DEF t

\* Free leaves it to the tree.
LEMMA FreeTurns ==
  ASSUME NEW s \in States, NEW bit \in Bits, NEW one
  PROVE  Turned(s, Free(s, {bit}), bit, FALSE, one)
<1> DEFINE t == Free(s, {bit})
<1>1. FreedTo(s, t, {bit})
  BY FreeBits
<1> HIDE DEF t
<1>2. Turned(s, t, bit, FALSE, one)
  BY <1>1 DEF FreedTo, Turned, Steers, Frees, Keeps
<1>3. QED
  BY <1>2 DEF t

\* ClearpLRUMasks: what it does to each bit.
LEMMA ClearBits ==
  ASSUME NEW s \in States, NEW w \in 0 .. 7
  PROVE  LET t == ClearpLRUMasks(s, w)
         IN  /\ t \in States /\ t.pending = s.pending /\ t.entry = s.entry
             /\ (0 .. 7) \ Half(w) \subseteq s.pending => Steers(t, 0, w >= 4)
             /\ Half(w) \ Pair(w) \subseteq s.pending => Steers(t, PairBit(w), w % 4 >= 2)
             /\ Pair(w) \ {w} \subseteq s.pending => Steers(t, LeafBit(w), w % 2 = 1)
             /\ \A n \in Bits \ {0, PairBit(w), LeafBit(w)} : Keeps(s, t, n)
<1> DEFINE x == PairBit(w)
           y == LeafBit(w)
           c == (0 .. 7) \ Half(w) \subseteq s.pending
           d == Half(w) \ Pair(w) \subseteq s.pending
           e == Pair(w) \ {w} \subseteq s.pending
           u == IF c THEN Steer(s, 0, w >= 4) ELSE Free(s, {0})
           v == IF d THEN Steer(u, x, w % 4 >= 2) ELSE Free(u, {x})
           t == IF e THEN Steer(v, y, w % 2 = 1) ELSE Free(v, {y})
<1>1. ClearpLRUMasks(s, w) = t
  BY DEF ClearpLRUMasks
<1>2. 0 \in Bits /\ x \in Bits /\ y \in Bits /\ x # 0 /\ y # 0 /\ x # y
  <2>1. w \in {0, 1, 2, 3, 4, 5, 6, 7}
    OBVIOUS
  <2>2. QED
    BY <2>1, Around DEF Bits
<1>3. (w >= 4) \in BOOLEAN /\ (w % 4 >= 2) \in BOOLEAN /\ (w % 2 = 1) \in BOOLEAN
  OBVIOUS
<1>4. /\ c => Turned(s, u, 0, TRUE, w >= 4)
      /\ ~c => Turned(s, u, 0, FALSE, w >= 4)
  <2> HIDE DEF c
  <2>1. CASE c
    <3>1. u = Steer(s, 0, w >= 4)
      BY <2>1
    <3>2. Turned(s, Steer(s, 0, w >= 4), 0, TRUE, w >= 4)
      BY <1>2, <1>3, SteerTurns, Zenon
    <3>3. QED
      BY <2>1, <3>1, <3>2, Zenon
  <2>2. CASE ~c
    <3>1. u = Free(s, {0})
      BY <2>2
    <3>2. Turned(s, Free(s, {0}), 0, FALSE, w >= 4)
      BY <1>2, <1>3, FreeTurns, Zenon
    <3>3. QED
      BY <2>2, <3>1, <3>2, Zenon
  <2>3. QED
    BY <2>1, <2>2
<1>5. u \in States
  BY <1>4 DEF Turned
<1>6. /\ d => Turned(u, v, x, TRUE, w % 4 >= 2)
      /\ ~d => Turned(u, v, x, FALSE, w % 4 >= 2)
  <2> HIDE DEF d, u, x
  <2>1. CASE d
    <3>1. v = Steer(u, x, w % 4 >= 2)
      BY <2>1
    <3>2. Turned(u, Steer(u, x, w % 4 >= 2), x, TRUE, w % 4 >= 2)
      BY <1>2, <1>3, <1>5, SteerTurns, Zenon
    <3>3. QED
      BY <2>1, <3>1, <3>2, Zenon
  <2>2. CASE ~d
    <3>1. v = Free(u, {x})
      BY <2>2
    <3>2. Turned(u, Free(u, {x}), x, FALSE, w % 4 >= 2)
      BY <1>2, <1>3, <1>5, FreeTurns, Zenon
    <3>3. QED
      BY <2>2, <3>1, <3>2, Zenon
  <2>3. QED
    BY <2>1, <2>2
<1>7. v \in States
  BY <1>6 DEF Turned
<1>8. /\ e => Turned(v, t, y, TRUE, w % 2 = 1)
      /\ ~e => Turned(v, t, y, FALSE, w % 2 = 1)
  <2> HIDE DEF e, v, y
  <2>1. CASE e
    <3>1. t = Steer(v, y, w % 2 = 1)
      BY <2>1
    <3>2. Turned(v, Steer(v, y, w % 2 = 1), y, TRUE, w % 2 = 1)
      BY <1>2, <1>3, <1>7, SteerTurns, Zenon
    <3>3. QED
      BY <2>1, <3>1, <3>2, Zenon
  <2>2. CASE ~e
    <3>1. t = Free(v, {y})
      BY <2>2
    <3>2. Turned(v, Free(v, {y}), y, FALSE, w % 2 = 1)
      BY <1>2, <1>3, <1>7, FreeTurns, Zenon
    <3>3. QED
      BY <2>2, <3>1, <3>2, Zenon
  <2>3. QED
    BY <2>1, <2>2
<1> HIDE DEF c, d, e, u, v, t, x, y
<1>9. t \in States /\ t.pending = s.pending /\ t.entry = s.entry
  BY <1>4, <1>6, <1>8 DEF Turned
<1>10. c => Steers(t, 0, w >= 4)
  BY <1>2, <1>4, <1>6, <1>8 DEF Turned, Steers, Keeps
<1>11. d => Steers(t, x, w % 4 >= 2)
  BY <1>2, <1>6, <1>8 DEF Turned, Steers, Keeps
<1>12. e => Steers(t, y, w % 2 = 1)
  BY <1>8 DEF Turned
<1>13. \A n \in Bits \ {0, x, y} : Keeps(s, t, n)
  BY <1>4, <1>6, <1>8 DEF Turned, Keeps
<1>14. QED
  BY <1>1, <1>9, <1>10, <1>11, <1>12, <1>13 DEF c, d, e, x, y

\* A way that is no longer to be chosen: the masks steer away from it.
LEMMA SetSteers ==
  ASSUME NEW s \in States, NEW w \in 0 .. 7, Steered(s), w \notin s.pending
  PROVE  LET t == SetPseudoLRUPedingWay(s, w)
         IN  /\ t \in States /\ t.pending = s.pending \cup {w} /\ t.entry = s.entry
             /\ Steered(t)
<1> DEFINE P == s.pending \cup {w}
           u == WithPending(s, P)
           t == UpdatepLRUMasks(u, w)
<1>1. SetPseudoLRUPedingWay(s, w) = t
  BY DEF SetPseudoLRUPedingWay, WithPending
<1>2. P \in SUBSET Nat
  BY DEF States
<1>3. /\ u \in States /\ u.pending = P /\ u.entry = s.entry
      /\ u.or_mask = s.or_mask /\ u.and_mask = s.and_mask
  <2> HIDE DEF P
  <2> QED
    BY <1>2, Repended
<1> HIDE DEF u
<1>4. /\ t \in States /\ t.pending = P /\ t.entry = s.entry
      /\ Half(w) \subseteq P =>
           \A n \in Bits :
             IF n = 0 THEN Steers(t, n, w < 4)
             ELSE IF n \in {PairBit(w), LeafBit(w), LeafBit(Across(w))} THEN Frees(t, n)
             ELSE Keeps(s, t, n)
      /\ ~(Half(w) \subseteq P) /\ Pair(w) \subseteq P =>
           \A n \in Bits :
             IF n = PairBit(w) THEN Steers(t, n, w % 4 < 2)
             ELSE IF n = LeafBit(w) THEN Frees(t, n) ELSE Keeps(s, t, n)
      /\ ~(Half(w) \subseteq P) /\ ~(Pair(w) \subseteq P) =>
           \A n \in Bits :
             IF n = LeafBit(w) THEN Steers(t, n, w % 2 = 0) ELSE Keeps(s, t, n)
  BY <1>3, UpdateBits DEF Keeps
<1>5. Bits = {0, 1, 2, 3, 4, 5, 6}
  BY DEF Bits
<1> HIDE DEF t
<1>6. \A v : v \in P <=> v \in s.pending \/ v = w
  OBVIOUS
<1> HIDE DEF P
<1>7. Steered(t)
  <2>1. CASE w = 0
    <3>1. /\ Half(w) \subseteq P <=> 0 \in P /\ 1 \in P /\ 2 \in P /\ 3 \in P
          /\ Pair(w) \subseteq P <=> 0 \in P /\ 1 \in P
      BY <2>1, Around
    <3>2. /\ 0 \in P /\ 1 \in P /\ 2 \in P /\ 3 \in P =>
               Steers(t, 0, TRUE) /\ \A n \in {4, 5, 6} : Keeps(s, t, n)
          /\ ~(0 \in P /\ 1 \in P /\ 2 \in P /\ 3 \in P) /\ 0 \in P /\ 1 \in P =>
               Steers(t, 1, TRUE) /\ \A n \in {0, 3, 4, 5, 6} : Keeps(s, t, n)
          /\ ~(0 \in P /\ 1 \in P /\ 2 \in P /\ 3 \in P) /\ ~(0 \in P /\ 1 \in P) =>
               Steers(t, 2, TRUE) /\ \A n \in {0, 1, 3, 4, 5, 6} : Keeps(s, t, n)
      BY <1>4, <1>5, <2>1, <3>1, Around DEF Steers
    <3>3. QED
      BY <1>4, <1>6, <2>1, <3>2, SteeredIs DEF Fork, Keeps, Steers
  <2>2. CASE w = 1
    <3>1. /\ Half(w) \subseteq P <=> 0 \in P /\ 1 \in P /\ 2 \in P /\ 3 \in P
          /\ Pair(w) \subseteq P <=> 0 \in P /\ 1 \in P
      BY <2>2, Around
    <3>2. /\ 0 \in P /\ 1 \in P /\ 2 \in P /\ 3 \in P =>
               Steers(t, 0, TRUE) /\ \A n \in {4, 5, 6} : Keeps(s, t, n)
          /\ ~(0 \in P /\ 1 \in P /\ 2 \in P /\ 3 \in P) /\ 0 \in P /\ 1 \in P =>
               Steers(t, 1, TRUE) /\ \A n \in {0, 3, 4, 5, 6} : Keeps(s, t, n)
          /\ ~(0 \in P /\ 1 \in P /\ 2 \in P /\ 3 \in P) /\ ~(0 \in P /\ 1 \in P) =>
               Steers(t, 2, FALSE) /\ \A n \in {0, 1, 3, 4, 5, 6} : Keeps(s, t, n)
      BY <1>4, <1>5, <2>2, <3>1, Around DEF Steers
    <3>3. QED
      BY <1>4, <1>6, <2>2, <3>2, SteeredIs DEF Fork, Keeps, Steers
  <2>3. CASE w = 2
    <3>1. /\ Half(w) \subseteq P <=> 0 \in P /\ 1 \in P /\ 2 \in P /\ 3 \in P
          /\ Pair(w) \subseteq P <=> 2 \in P /\ 3 \in P
      BY <2>3, Around
    <3>2. /\ 0 \in P /\ 1 \in P /\ 2 \in P /\ 3 \in P =>
               Steers(t, 0, TRUE) /\ \A n \in {4, 5, 6} : Keeps(s, t, n)
          /\ ~(0 \in P /\ 1 \in P /\ 2 \in P /\ 3 \in P) /\ 2 \in P /\ 3 \in P =>
               Steers(t, 1, FALSE) /\ \A n \in {0, 2, 4, 5, 6} : Keeps(s, t, n)
          /\ ~(0 \in P /\ 1 \in P /\ 2 \in P /\ 3 \in P) /\ ~(2 \in P /\ 3 \in P) =>
               Steers(t, 3, TRUE) /\ \A n \in {0, 1, 2, 4, 5, 6} : Keeps(s, t, n)
      BY <1>4, <1>5, <2>3, <3>1, Around DEF Steers
    <3>3. QED
      BY <1>4, <1>6, <2>3, <3>2, SteeredIs DEF Fork, Keeps, Steers
  <2>4. CASE w = 3
    <3>1. /\ Half(w) \subseteq P <=> 0 \in P /\ 1 \in P /\ 2 \in P /\ 3 \in P
          /\ Pair(w) \subseteq P <=> 2 \in P /\ 3 \in P
      BY <2>4, Around
    <3>2. /\ 0 \in P /\ 1 \in P /\ 2 \in P /\ 3 \in P =>
               Steers(t, 0, TRUE) /\ \A n \in {4, 5, 6} : Keeps(s, t, n)
          /\ ~(0 \in P /\ 1 \in P /\ 2 \in P /\ 3 \in P) /\ 2 \in P /\ 3 \in P =>
               Steers(t, 1, FALSE) /\ \A n \in {0, 2, 4, 5, 6} : Keeps(s, t, n)
          /\ ~(0 \in P /\ 1 \in P /\ 2 \in P /\ 3 \in P) /\ ~(2 \in P /\ 3 \in P) =>
               Steers(t, 3, FALSE) /\ \A n \in {0, 1, 2, 4, 5, 6} : Keeps(s, t, n)
      BY <1>4, <1>5, <2>4, <3>1, Around DEF Steers
    <3>3. QED
      BY <1>4, <1>6, <2>4, <3>2, SteeredIs DEF Fork, Keeps, Steers
  <2>5. CASE w = 4
    <3>1. /\ Half(w) \subseteq P <=> 4 \in P /\ 5 \in P /\ 6 \in P /\ 7 \in P
          /\ Pair(w) \subseteq P <=> 4 \in P /\ 5 \in P
      BY <2>5, Around
    <3>2. /\ 4 \in P /\ 5 \in P /\ 6 \in P /\ 7 \in P =>
               Steers(t, 0, FALSE) /\ \A n \in {1, 2, 3} : Keeps(s, t, n)
          /\ ~(4 \in P /\ 5 \in P /\ 6 \in P /\ 7 \in P) /\ 4 \in P /\ 5 \in P =>
               Steers(t, 4, TRUE) /\ \A n \in {0, 1, 2, 3, 6} : Keeps(s, t, n)
          /\ ~(4 \in P /\ 5 \in P /\ 6 \in P /\ 7 \in P) /\ ~(4 \in P /\ 5 \in P) =>
               Steers(t, 5, TRUE) /\ \A n \in {0, 1, 2, 3, 4, 6} : Keeps(s, t, n)
      BY <1>4, <1>5, <2>5, <3>1, Around DEF Steers
    <3>3. QED
      BY <1>4, <1>6, <2>5, <3>2, SteeredIs DEF Fork, Keeps, Steers
  <2>6. CASE w = 5
    <3>1. /\ Half(w) \subseteq P <=> 4 \in P /\ 5 \in P /\ 6 \in P /\ 7 \in P
          /\ Pair(w) \subseteq P <=> 4 \in P /\ 5 \in P
      BY <2>6, Around
    <3>2. /\ 4 \in P /\ 5 \in P /\ 6 \in P /\ 7 \in P =>
               Steers(t, 0, FALSE) /\ \A n \in {1, 2, 3} : Keeps(s, t, n)
          /\ ~(4 \in P /\ 5 \in P /\ 6 \in P /\ 7 \in P) /\ 4 \in P /\ 5 \in P =>
               Steers(t, 4, TRUE) /\ \A n \in {0, 1, 2, 3, 6} : Keeps(s, t, n)
          /\ ~(4 \in P /\ 5 \in P /\ 6 \in P /\ 7 \in P) /\ ~(4 \in P /\ 5 \in P) =>
               Steers(t, 5, FALSE) /\ \A n \in {0, 1, 2, 3, 4, 6} : Keeps(s, t, n)
      BY <1>4, <1>5, <2>6, <3>1, Around DEF Steers
    <3>3. QED
      BY <1>4, <1>6, <2>6, <3>2, SteeredIs DEF Fork, Keeps, Steers
  <2>7. CASE w = 6
    <3>1. /\ Half(w) \subseteq P <=> 4 \in P /\ 5 \in P /\ 6 \in P /\ 7 \in P
          /\ Pair(w) \subseteq P <=> 6 \in P /\ 7 \in P
      BY <2>7, Around
    <3>2. /\ 4 \in P /\ 5 \in P /\ 6 \in P /\ 7 \in P =>
               Steers(t, 0, FALSE) /\ \A n \in {1, 2, 3} : Keeps(s, t, n)
          /\ ~(4 \in P /\ 5 \in P /\ 6 \in P /\ 7 \in P) /\ 6 \in P /\ 7 \in P =>
               Steers(t, 4, FALSE) /\ \A n \in {0, 1, 2, 3, 5} : Keeps(s, t, n)
          /\ ~(4 \in P /\ 5 \in P /\ 6 \in P /\ 7 \in P) /\ ~(6 \in P /\ 7 \in P) =>
               Steers(t, 6, TRUE) /\ \A n \in {0, 1, 2, 3, 4, 5} : Keeps(s, t, n)
      BY <1>4, <1>5, <2>7, <3>1, Around DEF Steers
    <3>3. QED
      BY <1>4, <1>6, <2>7, <3>2, SteeredIs DEF Fork, Keeps, Steers
  <2>8. CASE w = 7
    <3>1. /\ Half(w) \subseteq P <=> 4 \in P /\ 5 \in P /\ 6 \in P /\ 7 \in P
          /\ Pair(w) \subseteq P <=> 6 \in P /\ 7 \in P
      BY <2>8, Around
    <3>2. /\ 4 \in P /\ 5 \in P /\ 6 \in P /\ 7 \in P =>
               Steers(t, 0, FALSE) /\ \A n \in {1, 2, 3} : Keeps(s, t, n)
          /\ ~(4 \in P /\ 5 \in P /\ 6 \in P /\ 7 \in P) /\ 6 \in P /\ 7 \in P =>
               Steers(t, 4, FALSE) /\ \A n \in {0, 1, 2, 3, 5} : Keeps(s, t, n)
          /\ ~(4 \in P /\ 5 \in P /\ 6 \in P /\ 7 \in P) /\ ~(6 \in P /\ 7 \in P) =>
               Steers(t, 6, FALSE) /\ \A n \in {0, 1, 2, 3, 4, 5} : Keeps(s, t, n)
      BY <1>4, <1>5, <2>8, <3>1, Around DEF Steers
    <3>3. QED
      BY <1>4, <1>6, <2>8, <3>2, SteeredIs DEF Fork, Keeps, Steers
  <2>9. QED
    BY <2>1, <2>2, <2>3, <2>4, <2>5, <2>6, <2>7, <2>8
<1>8. QED
  BY <1>1, <1>4, <1>7 DEF P

\* A way that may be chosen again: the masks steer to it, where it is the only one.
LEMMA ClearSteers ==
  ASSUME NEW s \in States, NEW w \in 0 .. 7, Steered(s), w \in s.pending
  PROVE  LET t == ClearPseudoLRUPedingWay(s, w)
         IN  /\ t \in States /\ t.pending = s.pending \ {w} /\ t.entry = s.entry
             /\ Steered(t)
<1> DEFINE P == s.pending \ {w}
           u == WithPending(s, P)
           t == ClearpLRUMasks(u, w)
<1>1. ClearPseudoLRUPedingWay(s, w) = t
  BY DEF ClearPseudoLRUPedingWay, WithPending
<1>2. P \in SUBSET Nat
  BY DEF States
<1>3. /\ u \in States /\ u.pending = P /\ u.entry = s.entry
      /\ u.or_mask = s.or_mask /\ u.and_mask = s.and_mask
  <2> HIDE DEF P
  <2> QED
    BY <1>2, Repended
<1> HIDE DEF u
<1>4. /\ t \in States /\ t.pending = P /\ t.entry = s.entry
      /\ (0 .. 7) \ Half(w) \subseteq P => Steers(t, 0, w >= 4)
      /\ Half(w) \ Pair(w) \subseteq P => Steers(t, PairBit(w), w % 4 >= 2)
      /\ Pair(w) \ {w} \subseteq P => Steers(t, LeafBit(w), w % 2 = 1)
      /\ \A n \in Bits \ {0, PairBit(w), LeafBit(w)} : Keeps(s, t, n)
  BY <1>3, ClearBits DEF Keeps
<1>5. Bits = {0, 1, 2, 3, 4, 5, 6} /\ 0 .. 7 = {0, 1, 2, 3, 4, 5, 6, 7}
  BY DEF Bits
<1> HIDE DEF t
<1>6. \A v : v \in P <=> v \in s.pending /\ v # w
  OBVIOUS
<1> HIDE DEF P
<1>7. Steered(t)
  <2>1. CASE w = 0
    <3>1. /\ (0 .. 7) \ Half(w) \subseteq P <=> 4 \in P /\ 5 \in P /\ 6 \in P /\ 7 \in P
          /\ Half(w) \ Pair(w) \subseteq P <=> 2 \in P /\ 3 \in P
          /\ Pair(w) \ {w} \subseteq P <=> 1 \in P
      BY <1>5, <2>1, Around
    <3>2. /\ 4 \in P /\ 5 \in P /\ 6 \in P /\ 7 \in P => Steers(t, 0, FALSE)
          /\ 2 \in P /\ 3 \in P => Steers(t, 1, FALSE)
          /\ 1 \in P => Steers(t, 2, FALSE)
          /\ \A n \in {3, 4, 5, 6} : Keeps(s, t, n)
      BY <1>4, <1>5, <2>1, <3>1, Around DEF Steers
    <3>3. QED
      BY <1>4, <1>6, <2>1, <3>2, SteeredIs DEF Fork, Keeps, Steers
  <2>2. CASE w = 1
    <3>1. /\ (0 .. 7) \ Half(w) \subseteq P <=> 4 \in P /\ 5 \in P /\ 6 \in P /\ 7 \in P
          /\ Half(w) \ Pair(w) \subseteq P <=> 2 \in P /\ 3 \in P
          /\ Pair(w) \ {w} \subseteq P <=> 0 \in P
      BY <1>5, <2>2, Around
    <3>2. /\ 4 \in P /\ 5 \in P /\ 6 \in P /\ 7 \in P => Steers(t, 0, FALSE)
          /\ 2 \in P /\ 3 \in P => Steers(t, 1, FALSE)
          /\ 0 \in P => Steers(t, 2, TRUE)
          /\ \A n \in {3, 4, 5, 6} : Keeps(s, t, n)
      BY <1>4, <1>5, <2>2, <3>1, Around DEF Steers
    <3>3. QED
      BY <1>4, <1>6, <2>2, <3>2, SteeredIs DEF Fork, Keeps, Steers
  <2>3. CASE w = 2
    <3>1. /\ (0 .. 7) \ Half(w) \subseteq P <=> 4 \in P /\ 5 \in P /\ 6 \in P /\ 7 \in P
          /\ Half(w) \ Pair(w) \subseteq P <=> 0 \in P /\ 1 \in P
          /\ Pair(w) \ {w} \subseteq P <=> 3 \in P
      BY <1>5, <2>3, Around
    <3>2. /\ 4 \in P /\ 5 \in P /\ 6 \in P /\ 7 \in P => Steers(t, 0, FALSE)
          /\ 0 \in P /\ 1 \in P => Steers(t, 1, TRUE)
          /\ 3 \in P => Steers(t, 3, FALSE)
          /\ \A n \in {2, 4, 5, 6} : Keeps(s, t, n)
      BY <1>4, <1>5, <2>3, <3>1, Around DEF Steers
    <3>3. QED
      BY <1>4, <1>6, <2>3, <3>2, SteeredIs DEF Fork, Keeps, Steers
  <2>4. CASE w = 3
    <3>1. /\ (0 .. 7) \ Half(w) \subseteq P <=> 4 \in P /\ 5 \in P /\ 6 \in P /\ 7 \in P
          /\ Half(w) \ Pair(w) \subseteq P <=> 0 \in P /\ 1 \in P
          /\ Pair(w) \ {w} \subseteq P <=> 2 \in P
      BY <1>5, <2>4, Around
    <3>2. /\ 4 \in P /\ 5 \in P /\ 6 \in P /\ 7 \in P => Steers(t, 0, FALSE)
          /\ 0 \in P /\ 1 \in P => Steers(t, 1, TRUE)
          /\ 2 \in P => Steers(t, 3, TRUE)
          /\ \A n \in {2, 4, 5, 6} : Keeps(s, t, n)
      BY <1>4, <1>5, <2>4, <3>1, Around DEF Steers
    <3>3. QED
      BY <1>4, <1>6, <2>4, <3>2, SteeredIs DEF Fork, Keeps, Steers
  <2>5. CASE w = 4
    <3>1. /\ (0 .. 7) \ Half(w) \subseteq P <=> 0 \in P /\ 1 \in P /\ 2 \in P /\ 3 \in P
          /\ Half(w) \ Pair(w) \subseteq P <=> 6 \in P /\ 7 \in P
          /\ Pair(w) \ {w} \subseteq P <=> 5 \in P
      BY <1>5, <2>5, Around
    <3>2. /\ 0 \in P /\ 1 \in P /\ 2 \in P /\ 3 \in P => Steers(t, 0, TRUE)
          /\ 6 \in P /\ 7 \in P => Steers(t, 4, FALSE)
          /\ 5 \in P => Steers(t, 5, FALSE)
          /\ \A n \in {1, 2, 3, 6} : Keeps(s, t, n)
      BY <1>4, <1>5, <2>5, <3>1, Around DEF Steers
    <3>3. QED
      BY <1>4, <1>6, <2>5, <3>2, SteeredIs DEF Fork, Keeps, Steers
  <2>6. CASE w = 5
    <3>1. /\ (0 .. 7) \ Half(w) \subseteq P <=> 0 \in P /\ 1 \in P /\ 2 \in P /\ 3 \in P
          /\ Half(w) \ Pair(w) \subseteq P <=> 6 \in P /\ 7 \in P
          /\ Pair(w) \ {w} \subseteq P <=> 4 \in P
      BY <1>5, <2>6, Around
    <3>2. /\ 0 \in P /\ 1 \in P /\ 2 \in P /\ 3 \in P => Steers(t, 0, TRUE)
          /\ 6 \in P /\ 7 \in P => Steers(t, 4, FALSE)
          /\ 4 \in P => Steers(t, 5, TRUE)
          /\ \A n \in {1, 2, 3, 6} : Keeps(s, t, n)
      BY <1>4, <1>5, <2>6, <3>1, Around DEF Steers
    <3>3. QED
      BY <1>4, <1>6, <2>6, <3>2, SteeredIs DEF Fork, Keeps, Steers
  <2>7. CASE w = 6
    <3>1. /\ (0 .. 7) \ Half(w) \subseteq P <=> 0 \in P /\ 1 \in P /\ 2 \in P /\ 3 \in P
          /\ Half(w) \ Pair(w) \subseteq P <=> 4 \in P /\ 5 \in P
          /\ Pair(w) \ {w} \subseteq P <=> 7 \in P
      BY <1>5, <2>7, Around
    <3>2. /\ 0 \in P /\ 1 \in P /\ 2 \in P /\ 3 \in P => Steers(t, 0, TRUE)
          /\ 4 \in P /\ 5 \in P => Steers(t, 4, TRUE)
          /\ 7 \in P => Steers(t, 6, FALSE)
          /\ \A n \in {1, 2, 3, 5} : Keeps(s, t, n)
      BY <1>4, <1>5, <2>7, <3>1, Around DEF Steers
    <3>3. QED
      BY <1>4, <1>6, <2>7, <3>2, SteeredIs DEF Fork, Keeps, Steers
  <2>8. CASE w = 7
    <3>1. /\ (0 .. 7) \ Half(w) \subseteq P <=> 0 \in P /\ 1 \in P /\ 2 \in P /\ 3 \in P
          /\ Half(w) \ Pair(w) \subseteq P <=> 4 \in P /\ 5 \in P
          /\ Pair(w) \ {w} \subseteq P <=> 6 \in P
      BY <1>5, <2>8, Around
    <3>2. /\ 0 \in P /\ 1 \in P /\ 2 \in P /\ 3 \in P => Steers(t, 0, TRUE)
          /\ 4 \in P /\ 5 \in P => Steers(t, 4, TRUE)
          /\ 6 \in P => Steers(t, 6, TRUE)
          /\ \A n \in {1, 2, 3, 5} : Keeps(s, t, n)
      BY <1>4, <1>5, <2>8, <3>1, Around DEF Steers
    <3>3. QED
      BY <1>4, <1>6, <2>8, <3>2, SteeredIs DEF Fork, Keeps, Steers
  <2>9. QED
    BY <2>1, <2>2, <2>3, <2>4, <2>5, <2>6, <2>7, <2>8
<1>8. QED
  BY <1>1, <1>4, <1>7 DEF P

\* The case list of Get_PseudoLRU_Victim walks down the tree.
LEMMA TreeWayIs ==
  ASSUME NEW e
  PROVE  TreeWay(e) =
           IF 0 \notin e THEN IF 1 \notin e THEN IF 2 \notin e THEN 0 ELSE 1
                                            ELSE IF 3 \notin e THEN 2 ELSE 3
                         ELSE IF 4 \notin e THEN IF 5 \notin e THEN 4 ELSE 5
                                            ELSE IF 6 \notin e THEN 6 ELSE 7
<1>1. /\ {0, 1, 2} \cap e = {} <=> 0 \notin e /\ 1 \notin e /\ 2 \notin e
      /\ {0, 1, 2} \cap e = {2} <=> 0 \notin e /\ 1 \notin e /\ 2 \in e
      /\ {0, 1, 3} \cap e = {1} <=> 0 \notin e /\ 1 \in e /\ 3 \notin e
      /\ {0, 1, 3} \cap e = {1, 3} <=> 0 \notin e /\ 1 \in e /\ 3 \in e
  OBVIOUS
<1>2. /\ {0, 4, 5} \cap e = {0} <=> 0 \in e /\ 4 \notin e /\ 5 \notin e
      /\ {0, 4, 5} \cap e = {0, 5} <=> 0 \in e /\ 4 \notin e /\ 5 \in e
      /\ {0, 4, 6} \cap e = {0, 4} <=> 0 \in e /\ 4 \in e /\ 6 \notin e
      /\ {0, 4, 6} \cap e = {0, 4, 6} <=> 0 \in e /\ 4 \in e /\ 6 \in e
  OBVIOUS
<1>3. TreeWay(e) =
        CASE 0 \notin e /\ 1 \notin e /\ 2 \notin e -> 0
          [] 0 \notin e /\ 1 \notin e /\ 2 \in e -> 1
          [] 0 \notin e /\ 1 \in e /\ 3 \notin e -> 2
          [] 0 \notin e /\ 1 \in e /\ 3 \in e -> 3
          [] 0 \in e /\ 4 \notin e /\ 5 \notin e -> 4
          [] 0 \in e /\ 4 \notin e /\ 5 \in e -> 5
          [] 0 \in e /\ 4 \in e /\ 6 \notin e -> 6
          [] 0 \in e /\ 4 \in e /\ 6 \in e -> 7
  BY <1>1, <1>2 DEF TreeWay
<1>4. QED
  BY <1>3

\* What the masks steer to is not pending, as long as something is not.
LEMMA SteeredAvoids ==
  ASSUME NEW s \in States, Steered(s), s.pending \subseteq 0 .. 7, s.pending # 0 .. 7
  PROVE  TreeWay((s.entry \cup s.or_mask) \cap s.and_mask) \in (0 .. 7) \ s.pending
<1> DEFINE e == (s.entry \cup s.or_mask) \cap s.and_mask
           P == s.pending
<1>1. /\ \A n : n \in s.or_mask /\ n \in s.and_mask => n \in e
      /\ \A n : n \notin s.and_mask => n \notin e
  OBVIOUS
<1>2. 0 .. 7 = {0, 1, 2, 3, 4, 5, 6, 7}
  OBVIOUS
<1>3. ~(/\ 0 \in P /\ 1 \in P /\ 2 \in P /\ 3 \in P
        /\ 4 \in P /\ 5 \in P /\ 6 \in P /\ 7 \in P)
  BY <1>2
<1> HIDE DEF e
<1>4. TreeWay(e) \in {0, 1, 2, 3, 4, 5, 6, 7} /\ TreeWay(e) \notin P
  BY <1>1, <1>3, TreeWayIs, SteeredIs DEF Fork
<1>5. QED
  BY <1>2, <1>4 DEF e

\* Seven bits are all that the case list looks at.
LEMMA TreeWayBits ==
  ASSUME NEW e
  PROVE  TreeWay((e \cup {}) \cap Bits) = TreeWay(e)
<1> DEFINE f == (e \cup {}) \cap Bits
<1>1. \A n \in {0, 1, 2, 3, 4, 5, 6} : n \in f <=> n \in e
  BY DEF Bits
<1> HIDE DEF f
<1>2. TreeWay(f) = TreeWay(e)
  BY <1>1, TreeWayIs
<1>3. QED
  BY <1>2 DEF f

\* After a use of a way, of either kind, the tree leads elsewhere.
LEMMA TreeLeavesUsed ==
  ASSUME NEW e, NEW w \in 0 .. 7
  PROVE  /\ TreeWay((e \cup Sets[w]) \ Clears[w]) # w
         /\ TreeWay((e \cup HitSets[w]) \ HitClears[w]) # w
<1>1. w \in {0, 1, 2, 3, 4, 5, 6, 7}
  OBVIOUS
<1>2. /\ w < 4 => 0 \in Sets[w] /\ 0 \notin Clears[w]
      /\ w >= 4 => 0 \in Clears[w]
  <2>1. 0 \in Sets[0] /\ 0 \in Sets[1] /\ 0 \in Sets[2] /\ 0 \in Sets[3]
    BY DEF Sets
  <2>2. /\ Clears[0] = {} /\ Clears[1] = {2} /\ Clears[2] = {1} /\ Clears[3] = {1, 3}
        /\ 0 \in Clears[4] /\ 0 \in Clears[5] /\ 0 \in Clears[6] /\ 0 \in Clears[7]
    BY DEF Clears
  <2>3. QED
    BY <1>1, <2>1, <2>2
<1>3. TreeWay((e \cup Sets[w]) \ Clears[w]) # w
  <2> DEFINE f == (e \cup Sets[w]) \ Clears[w]
  <2>1. (w < 4 => 0 \in f) /\ (w >= 4 => 0 \notin f)
    BY <1>2
  <2> HIDE DEF f
  <2>2. TreeWay(f) # w
    BY <1>1, <2>1, TreeWayIs
  <2>3. QED
    BY <2>2 DEF f
<1>4. TreeWay((e \cup HitSets[w]) \ HitClears[w]) # w
  <2> DEFINE f == (e \cup HitSets[w]) \ HitClears[w]
  <2>1. /\ w = 0 => 0 \in f
        /\ w = 1 => 1 \in f
        /\ w = 2 => 3 \in f
        /\ w = 3 => 1 \notin f
        /\ w = 4 => 4 \in f
        /\ w = 5 => 5 \notin f
        /\ w = 6 => 6 \in f
        /\ w = 7 => 0 \notin f
    <3>1. /\ 0 \in HitSets[0] /\ 1 \in HitSets[1] /\ 3 \in HitSets[2] /\ 4 \in HitSets[4]
          /\ 6 \in HitSets[6]
      BY DEF HitSets
    <3>2. /\ HitClears[0] = {} /\ HitClears[1] = {} /\ HitClears[2] = {} /\ HitClears[4] = {}
          /\ HitClears[6] = {} /\ 1 \in HitClears[3] /\ 5 \in HitClears[5] /\ 0 \in HitClears[7]
      BY DEF HitClears
    <3>3. QED
      BY <3>1, <3>2
  <2> HIDE DEF f
  <2>2. TreeWay(f) # w
    BY <1>1, <2>1, TreeWayIs
  <2>3. QED
    BY <2>2 DEF f
<1>5. QED
  BY <1>3, <1>4

\* The same for the tree of REPL_KNH, whatever the number of ways.
LEMMA KnhLeavesUsed ==
  ASSUME assoc \in {2, 4, 8, 16, 32}, NEW e
  PROVE  /\ Get_PseudoLRU_Victim_KNH(e) \in Ways
         /\ \A w \in Ways : /\ Get_PseudoLRU_Victim_KNH(UpdatePseudoLRU_KNH(e, w)) # w
                            /\ e \subseteq Nat => UpdatePseudoLRU_KNH(e, w) \subseteq Nat
<1>1. \/ assoc = 2 /\ Scale = 16 /\ Ways = 0 .. 1
      \/ assoc = 4 /\ Scale = 8 /\ Ways = 0 .. 3
      \/ assoc = 8 /\ Scale = 4 /\ Ways = 0 .. 7
      \/ assoc = 16 /\ Scale = 2 /\ Ways = 0 .. 15
      \/ assoc = 32 /\ Scale = 1 /\ Ways = 0 .. 31
  BY DEF Scale, Ways
<1>2. ASSUME NEW f
      PROVE  \E n \in 0 .. 31 : /\ Get_PseudoLRU_Victim_KNH(f) = n \div Scale
                                /\ 0 \in f <=> n >= 16
  <2> DEFINE Down(node) == 1 + 2 * node + (IF node \in f THEN 1 ELSE 0)
             a == Down(0)
             b == Down(a)
             c == Down(b)
             d == Down(c)
             g == Down(d)
  <2>1. Get_PseudoLRU_Victim_KNH(f) = (g - 31) \div Scale
    BY DEF Get_PseudoLRU_Victim_KNH
  <2>2. a \in {1, 2} /\ (0 \in f <=> a = 2)
    OBVIOUS
  <2>3. \A n \in Nat : Down(n) = 1 + 2 * n \/ Down(n) = 2 + 2 * n
    OBVIOUS
  <2> HIDE DEF Down
  <2>4. b \in Nat /\ b >= 1 + 2 * a /\ b <= 2 + 2 * a
    <3> HIDE DEF a
    <3> QED BY <2>2, <2>3
  <2>5. c \in Nat /\ c >= 1 + 2 * b /\ c <= 2 + 2 * b
    <3> HIDE DEF b
    <3> QED BY <2>3, <2>4
  <2>6. d \in Nat /\ d >= 1 + 2 * c /\ d <= 2 + 2 * c
    <3> HIDE DEF c
    <3> QED BY <2>3, <2>5
  <2>7. g \in Nat /\ g >= 1 + 2 * d /\ g <= 2 + 2 * d
    <3> HIDE DEF d
    <3> QED BY <2>3, <2>6
  <2> HIDE DEF a, b, c, d, g
  <2>8. g - 31 \in 0 .. 31 /\ (0 \in f <=> g - 31 >= 16)
    BY <2>2, <2>4, <2>5, <2>6, <2>7
  <2>9. QED
    BY <2>1, <2>8
<1>3. ASSUME NEW w \in Ways
      PROVE  /\ 0 \in UpdatePseudoLRU_KNH(e, w) <=> w * Scale < 16
             /\ e \subseteq Nat => UpdatePseudoLRU_KNH(e, w) \subseteq Nat
  <2> DEFINE leaf == 31 + w * Scale
             Up(node) == (node - 1) \div 2
             a == Up(leaf)
             b == Up(a)
             c == Up(b)
             d == Up(c)
             path == {leaf, a, b, c, d}
  <2>1. UpdatePseudoLRU_KNH(e, w) =
          {n \in e \cup {Up(m) : m \in path} : \A m \in path : Up(m) = n => m % 2 = 1}
    BY DEF UpdatePseudoLRU_KNH
  <2>2. leaf \in 31 .. 62 /\ (w * Scale < 16 <=> leaf < 47)
    BY <1>1
  <2> HIDE DEF leaf
  <2>3. \A n \in Nat \ {0} : Up(n) \in Nat /\ 2 * Up(n) <= n - 1 /\ n - 2 <= 2 * Up(n)
    OBVIOUS
  <2> HIDE DEF Up
  <2>4. a \in Nat /\ 2 * a <= leaf - 1 /\ leaf - 2 <= 2 * a
    BY <2>2, <2>3
  <2>5. b \in Nat /\ 2 * b <= a - 1 /\ a - 2 <= 2 * b
    <3> HIDE DEF a
    <3> QED BY <2>2, <2>3, <2>4
  <2>6. c \in Nat /\ 2 * c <= b - 1 /\ b - 2 <= 2 * c
    <3> HIDE DEF a, b
    <3> QED BY <2>2, <2>3, <2>4, <2>5
  <2>7. d \in Nat /\ 2 * d <= c - 1 /\ c - 2 <= 2 * d
    <3> HIDE DEF a, b, c
    <3> QED BY <2>2, <2>3, <2>4, <2>5, <2>6
  <2>8. Up(a) = b /\ Up(b) = c /\ Up(c) = d /\ Up(leaf) = a
    OBVIOUS
  <2> HIDE DEF a, b, c, d
  <2>9. /\ d \in {1, 2} /\ (leaf < 47 <=> d = 1)
        /\ a # 0 /\ b # 0 /\ c # 0
    BY <2>2, <2>4, <2>5, <2>6, <2>7
  <2>10. Up(d) = 0
    BY <2>3, <2>9
  <2>11. /\ 0 \in {Up(m) : m \in path}
         /\ \A m \in path : Up(m) = 0 <=> m = d
    <3>1. d \in path /\ \A m \in path : m = leaf \/ m = a \/ m = b \/ m = c \/ m = d
      OBVIOUS
    <3> HIDE DEF path
    <3>2. 0 \in {Up(m) : m \in path}
      BY <2>10, <3>1
    <3>3. d # 0
      BY <2>9
    <3>4. QED
      BY <2>8, <2>9, <2>10, <3>1, <3>2, <3>3
  <2>12. 0 \in UpdatePseudoLRU_KNH(e, w) <=> d % 2 = 1
    <3>1. d \in path
      OBVIOUS
    <3> HIDE DEF path
    <3>2. QED
      BY <2>1, <2>11, <3>1
  <2>13. \A m \in path : Up(m) \in Nat
    BY <2>4, <2>5, <2>6, <2>7, <2>8, <2>10
  <2> HIDE DEF path
  <2>14. e \subseteq Nat => UpdatePseudoLRU_KNH(e, w) \subseteq Nat
    BY <2>1, <2>13
  <2>15. QED
    BY <2>2, <2>9, <2>12, <2>14
<1>4. Get_PseudoLRU_Victim_KNH(e) \in Ways
  <2>1. PICK n \in 0 .. 31 : Get_PseudoLRU_Victim_KNH(e) = n \div Scale
    BY <1>2
  <2>2. n \div Scale \in Ways
    BY <1>1
  <2>3. QED
    BY <2>1, <2>2
<1>5. ASSUME NEW w \in Ways
      PROVE  Get_PseudoLRU_Victim_KNH(UpdatePseudoLRU_KNH(e, w)) # w
  <2> DEFINE f == UpdatePseudoLRU_KNH(e, w)
  <2>1. 0 \in f <=> w * Scale < 16
    BY <1>3
  <2> HIDE DEF f
  <2>2. PICK n \in 0 .. 31 : Get_PseudoLRU_Victim_KNH(f) = n \div Scale /\ (0 \in f <=> n >= 16)
    BY <1>2
  <2>3. n \div Scale # w
    BY <1>1, <2>1, <2>2
  <2>4. QED
    BY <2>2, <2>3 DEF f
<1>6. QED
  BY <1>3, <1>4, <1>5

\* Next_Power_2(assoc) / 2, for the sizes that REPL_PSEUDO_LRU_ALL is built with.
LEMMA OffsetIs ==
  ASSUME assoc \in {2, 4, 8, 10, 12, 14, 16}
  PROVE  Offset = (CASE assoc = 2 -> 1 [] assoc = 4 -> 2 [] assoc = 8 -> 4 [] OTHER -> 8)
<1> DEFINE Fits(h) == h < assoc /\ assoc <= 2 * h
           x == CASE assoc = 2 -> 1 [] assoc = 4 -> 2 [] assoc = 8 -> 4 [] OTHER -> 8
<1>1. \A h \in {1, 2, 4, 8, 16} : Fits(h) <=> h = x
  OBVIOUS
<1>2. x \in {1, 2, 4, 8, 16}
  OBVIOUS
<1> HIDE DEF x
<1>3. (CHOOSE h \in {1, 2, 4, 8, 16} : Fits(h)) = x
  BY <1>1, <1>2
<1>4. QED
  BY <1>3 DEF Offset, x

\* A node of the tree of REPL_PSEUDO_LRU_ALL, with the fields as numbers.
Nodes == [half : Nat, bit : Nat, way : Nat]

\* Child, field by field; below the leaves nothing moves.
LEMMA ChildIs ==
  ASSUME NEW n \in Nodes, NEW right \in BOOLEAN
  PROVE  LET c == Child(n, right)
         IN  /\ c \in Nodes
             /\ n.half = 0 => c = n
             /\ n.half # 0 =>
                  /\ c.half = n.half \div 2
                  /\ c.bit = IF right THEN n.bit + n.half ELSE n.bit + 1
                  /\ c.way = IF right THEN n.way + n.half ELSE n.way
<1>1. n.half \in Nat /\ n.bit \in Nat /\ n.way \in Nat
  BY DEF Nodes
<1>2. CASE n.half = 0
  BY <1>2 DEF Child
<1>3. CASE n.half # 0
  <2> DEFINE c == Child(n, right)
             h == n.half \div 2
             b == IF right THEN n.bit + n.half ELSE n.bit + 1
             y == IF right THEN n.way + n.half ELSE n.way
  <2>1. c = [half |-> h, bit |-> b, way |-> y]
    BY <1>3 DEF Child
  <2>2. h \in Nat /\ b \in Nat /\ y \in Nat
    BY <1>1
  <2> HIDE DEF c, h, b, y
  <2>3. c \in Nodes /\ c.half = h /\ c.bit = b /\ c.way = y
    BY <2>1, <2>2 DEF Nodes
  <2>4. QED
    BY <1>3, <2>3 DEF c, h, b, y
<1>4. QED
  BY <1>2, <1>3

\* Its victim is a way of the set if the masked bits are 0; the root says in which half.
LEMMA AllVictim ==
  ASSUME assoc \in {2, 4, 8, 10, 12, 14, 16}, NEW e, e \cap Masked = {}
  PROVE  /\ Get_PseudoLRU_Victim_way(e) \in Ways
         /\ 0 \in e <=> Get_PseudoLRU_Victim_way(e) >= Offset
<1> DEFINE Down(node) == Child(node, node.bit \in e)
           a == Root
           b == Down(a)
           c == Down(b)
           d == Down(c)
           g == Down(d)
<1>1. Get_PseudoLRU_Victim_way(e) = g.way
  BY DEF Get_PseudoLRU_Victim_way
<1>2. Offset \in Nat
  BY OffsetIs
<1>3. a \in Nodes /\ a.half = Offset /\ a.bit = 0 /\ a.way = 0
  BY <1>2 DEF Root, Nodes
<1>4. \A n \in Nodes :
        /\ Down(n) \in Nodes
        /\ n.half = 0 => Down(n) = n
        /\ n.half # 0 => Down(n).half = n.half \div 2
        /\ n.half # 0 /\ n.bit \in e =>
             Down(n).bit = n.bit + n.half /\ Down(n).way = n.way + n.half
        /\ n.half # 0 /\ n.bit \notin e => Down(n).bit = n.bit + 1 /\ Down(n).way = n.way
  <2> SUFFICES ASSUME NEW n \in Nodes
               PROVE  /\ Down(n) \in Nodes
                      /\ n.half = 0 => Down(n) = n
                      /\ n.half # 0 => Down(n).half = n.half \div 2
                      /\ n.half # 0 /\ n.bit \in e =>
                           Down(n).bit = n.bit + n.half /\ Down(n).way = n.way + n.half
                      /\ n.half # 0 /\ n.bit \notin e =>
                           Down(n).bit = n.bit + 1 /\ Down(n).way = n.way
    OBVIOUS
  <2>1. CASE n.bit \in e
    <3>1. Down(n) = Child(n, TRUE)
      BY <2>1
    <3>2. QED
      BY <2>1, <3>1, ChildIs
  <2>2. CASE n.bit \notin e
    <3>1. Down(n) = Child(n, FALSE)
      BY <2>2 DEF Child
    <3>2. QED
      BY <2>2, <3>1, ChildIs
  <2>3. QED
    BY <2>1, <2>2
<1> HIDE DEF Down, a
<1>5. \A n \in Nodes : n.half \in Nat /\ n.bit \in Nat /\ n.way \in Nat
  BY DEF Nodes
<1>6. b \in Nodes /\ c \in Nodes /\ d \in Nodes /\ g \in Nodes
  BY <1>3, <1>4
<1> DEFINE Step(m, n) ==
             /\ m.half = 0 => n.half = 0 /\ n.bit = m.bit /\ n.way = m.way
             /\ m.half # 0 => n.half = m.half \div 2
             /\ m.half # 0 /\ m.bit \in e => n.bit = m.bit + m.half /\ n.way = m.way + m.half
             /\ m.half # 0 /\ m.bit \notin e => n.bit = m.bit + 1 /\ n.way = m.way
<1>7. Step(a, b) /\ Step(b, c) /\ Step(c, d) /\ Step(d, g)
  BY <1>3, <1>4, <1>6
<1> HIDE DEF b, c, d, g
<1>8. CASE assoc = 2
  <2>1. a.half = 1 /\ Ways = {0, 1}
    BY <1>3, <1>8, OffsetIs DEF Ways
  <2>2. b.half = 0 /\ c.half = 0 /\ d.half = 0 /\ g.half = 0
    BY <1>7, <2>1
  <2>3. g.way = b.way /\ (0 \in e => b.way = 1) /\ (0 \notin e => b.way = 0)
    BY <1>3, <1>7, <2>1, <2>2
  <2>4. QED
    BY <1>1, <1>3, <2>1, <2>3
<1>9. CASE assoc = 4
  <2>1. a.half = 2 /\ Ways = 0 .. 3
    BY <1>3, <1>9, OffsetIs DEF Ways
  <2>2. b.half = 1 /\ c.half = 0 /\ d.half = 0 /\ g.half = 0
    BY <1>7, <2>1
  <2>3. g.way = c.way /\ (0 \in e => b.way = 2) /\ (0 \notin e => b.way = 0)
        /\ b.way <= c.way /\ c.way <= b.way + 1
    BY <1>3, <1>5, <1>6, <1>7, <2>1, <2>2
  <2>4. QED
    BY <1>1, <1>3, <1>5, <1>6, <2>1, <2>3
<1>10. CASE assoc = 8
  <2>1. a.half = 4 /\ Ways = 0 .. 7
    BY <1>3, <1>10, OffsetIs DEF Ways
  <2>2. b.half = 2 /\ c.half = 1 /\ d.half = 0 /\ g.half = 0
    BY <1>7, <2>1
  <2>3. g.way = d.way /\ (0 \in e => b.way = 4) /\ (0 \notin e => b.way = 0)
        /\ b.way <= c.way /\ c.way <= b.way + 2 /\ c.way <= d.way /\ d.way <= c.way + 1
    BY <1>3, <1>5, <1>6, <1>7, <2>1, <2>2
  <2>4. QED
    BY <1>1, <1>3, <1>5, <1>6, <2>1, <2>3
<1>11. CASE assoc \in {10, 12, 14, 16}
  <2>1. a.half = 8 /\ Ways = 0 .. assoc - 1
    BY <1>3, <1>11, OffsetIs DEF Ways
  <2>2. b.half = 4 /\ c.half = 2 /\ d.half = 1 /\ g.half = 0
    BY <1>7, <2>1
  <2>3. /\ 0 \in e => b.way = 8 /\ b.bit = 8
        /\ 0 \notin e => b.way = 0
        /\ b.bit \in e => c.way = b.way + 4 /\ c.bit = b.bit + 4
        /\ b.bit \notin e => c.way = b.way /\ c.bit = b.bit + 1
        /\ c.bit \in e => d.way = c.way + 2
        /\ c.bit \notin e => d.way = c.way
        /\ d.way <= g.way /\ g.way <= d.way + 1
    <3>1. /\ 0 \in e => b.way = 8 /\ b.bit = 8
          /\ 0 \notin e => b.way = 0
      BY <1>3, <1>7, <2>1
    <3>2. /\ b.bit \in e => c.way = b.way + 4 /\ c.bit = b.bit + 4
          /\ b.bit \notin e => c.way = b.way /\ c.bit = b.bit + 1
      BY <1>7, <2>2
    <3>3. /\ c.bit \in e => d.way = c.way + 2
          /\ c.bit \notin e => d.way = c.way
      BY <1>7, <2>2
    <3>4. d.way <= g.way /\ g.way <= d.way + 1
      BY <1>5, <1>6, <1>7, <2>2
    <3>5. QED
      BY <3>1, <3>2, <3>3, <3>4
  <2>4. /\ assoc = 10 => 8 \notin e /\ 9 \notin e
        /\ assoc = 12 => 8 \notin e
        /\ assoc = 14 => 12 \notin e
    BY DEF Masked
  <2>5. g.way \in Nat /\ d.way \in Nat /\ c.way \in Nat /\ b.way \in Nat
    BY <1>5, <1>6
  <2>6. CASE 0 \notin e
    <3>1. g.way <= 7
      BY <2>3, <2>5, <2>6
    <3>2. QED
      BY <1>1, <1>3, <1>11, <2>1, <2>5, <2>6, <3>1
  <2>7. CASE 0 \in e
    <3>1. g.way >= 8 /\ g.way <= assoc - 1
      BY <1>11, <2>3, <2>4, <2>5, <2>7
    <3>2. QED
      BY <1>1, <1>3, <1>11, <2>1, <2>5, <2>7, <3>1
  <2>8. QED
    BY <2>6, <2>7
<1>12. QED
  BY <1>8, <1>9, <1>10, <1>11

\* A use of a way turns the root to the other half.
LEMMA AllUpdate ==
  ASSUME assoc \in {2, 4, 8, 10, 12, 14, 16}, NEW e, NEW w \in Ways
  PROVE  /\ 0 \in Update_PseudoLRU_way(e, w) \ Masked <=> w < Offset
         /\ e \subseteq Nat => Update_PseudoLRU_way(e, w) \subseteq Nat
<1> DEFINE Left(n) == w < n.way + n.half
           Down(n) == Child(n, ~Left(n))
           a == Root
           b == Down(a)
           c == Down(b)
           d == Down(c)
           path == {n \in {a, b, c, d} : n.half > 0}
<1>1. Update_PseudoLRU_way(e, w) =
        {x \in e \cup {n.bit : n \in path} : \A n \in path : n.bit = x => Left(n)}
  BY DEF Update_PseudoLRU_way
<1>2. Offset \in Nat \ {0} /\ w \in Nat
  BY OffsetIs DEF Ways
<1>3. a \in Nodes /\ a.half = Offset /\ a.bit = 0 /\ a.way = 0
  BY <1>2 DEF Root, Nodes
<1>4. \A n \in Nodes : Down(n) \in Nodes /\ (Down(n) = n \/ Down(n).bit > n.bit)
  <2> SUFFICES ASSUME NEW n \in Nodes PROVE Down(n) \in Nodes /\ (Down(n) = n \/ Down(n).bit > n.bit)
    OBVIOUS
  <2>1. n.half \in Nat /\ n.bit \in Nat
    BY DEF Nodes
  <2>2. CASE Left(n)
    <3>1. Down(n) = Child(n, FALSE)
      BY <2>2 DEF Child
    <3> DEFINE m == Child(n, FALSE)
    <3>2. /\ m \in Nodes
          /\ n.half = 0 => m = n
          /\ n.half # 0 => m.bit = IF FALSE THEN n.bit + n.half ELSE n.bit + 1
      BY ChildIs
    <3> HIDE DEF Down, m
    <3>3. m = n \/ m.bit > n.bit
      BY <2>1, <3>2
    <3>4. QED
      BY <3>1, <3>2, <3>3 DEF m
  <2>3. CASE ~Left(n)
    <3>1. Down(n) = Child(n, TRUE)
      BY <2>3 DEF Child
    <3> DEFINE m == Child(n, TRUE)
    <3>2. /\ m \in Nodes
          /\ n.half = 0 => m = n
          /\ n.half # 0 => m.bit = IF TRUE THEN n.bit + n.half ELSE n.bit + 1
      BY ChildIs
    <3> HIDE DEF Down, m
    <3>3. m = n \/ m.bit > n.bit
      BY <2>1, <3>2
    <3>4. QED
      BY <3>1, <3>2, <3>3 DEF m
  <2>4. QED
    BY <2>2, <2>3
<1> HIDE DEF Down, a
<1>5. /\ b \in Nodes /\ c \in Nodes /\ d \in Nodes
      /\ b = a \/ b.bit > 0
      /\ c = b \/ c.bit > b.bit
      /\ d = c \/ d.bit > c.bit
  BY <1>3, <1>4
<1> HIDE DEF b, c, d
<1>6. \A n \in Nodes : n.bit \in Nat
  BY DEF Nodes
<1>7. \A n \in {a, b, c, d} : n = a \/ n.bit # 0
  BY <1>3, <1>5, <1>6
<1>8. a \in path
  BY <1>2, <1>3
<1>9. \A n \in path : n.bit = 0 <=> n = a
  BY <1>3, <1>7
<1>14. \A n \in path : n.bit \in Nat
  BY <1>3, <1>5, <1>6
<1> HIDE DEF path
<1>15. e \subseteq Nat => Update_PseudoLRU_way(e, w) \subseteq Nat
  BY <1>1, <1>14
<1>10. 0 \in Update_PseudoLRU_way(e, w) <=> Left(a)
  BY <1>1, <1>3, <1>8, <1>9
<1>11. Left(a) <=> w < Offset
  BY <1>2, <1>3
<1>12. 0 \notin Masked
  BY DEF Masked
<1>13. QED
  BY <1>10, <1>11, <1>12, <1>15

\* A replacement state with another tree.
WithEntry(s, e) == [s EXCEPT !.entry = e]

\* Nothing else of the state changes with the tree.
LEMMA Retreed ==
  ASSUME NEW s \in States, NEW e \in SUBSET Nat
  PROVE  /\ WithEntry(s, e) \in States /\ WithEntry(s, e).entry = e
         /\ WithEntry(s, e).pending = s.pending /\ WithEntry(s, e).or_mask = s.or_mask
         /\ WithEntry(s, e).and_mask = s.and_mask
<1> DEFINE t == WithEntry(s, e)
<1>1. s = [pos |-> s.pos, rr |-> s.rr, entry |-> s.entry, pending |-> s.pending,
           or_mask |-> s.or_mask, and_mask |-> s.and_mask]
  BY DEF States
<1>2. t = [pos |-> s.pos, rr |-> s.rr, entry |-> e, pending |-> s.pending,
           or_mask |-> s.or_mask, and_mask |-> s.and_mask]
  <2>1. DOMAIN s = {"pos", "rr", "entry", "pending", "or_mask", "and_mask"}
    BY <1>1
  <2>2. t = [f \in DOMAIN s |-> IF f = "entry" THEN e ELSE s[f]]
    BY <2>1 DEF WithEntry
  <2>3. QED
    BY <2>1, <2>2
<1>3. /\ s.pos \in [Ways -> Nat] /\ s.rr \in [Ways -> Nat] /\ s.pending \in SUBSET Nat
      /\ s.or_mask \in SUBSET Nat /\ s.and_mask \in SUBSET Nat
  BY DEF States
<1> HIDE DEF t
<1>4. /\ t \in States /\ t.entry = e /\ t.pending = s.pending
      /\ t.or_mask = s.or_mask /\ t.and_mask = s.and_mask
  BY <1>2, <1>3 DEF States
<1>5. QED
  BY <1>4 DEF t

----------------------------------------------------------------------------
(* The trees and MRU's bits: what they may choose next.                    *)

TreePolicies == Trees \cup {"KNH", "ALL"}

\* where a tree leads
Choice(e) ==
  CASE build.policy \in Trees -> TreeWay(e)
    [] build.policy = "KNH" -> Get_PseudoLRU_Victim_KNH(e)
    [] build.policy = "ALL" -> Get_PseudoLRU_Victim_way(e)

\* the pending ways are those that were asked for, and the masks steer from them
Requests ==
  /\ ~build.fix => asked = {}
  /\ build.fix => /\ r \in States
                  /\ evict = {}
                  /\ asked = r.pending
                  /\ asked \subseteq 0 .. 7
                  /\ Steered(r)

\* without requests there are no masks, and no tree leads to the way used last
TreesSpare ==
  build.policy \in TreePolicies /\ ~build.fix =>
    /\ r \in States
    /\ r.pending = {} /\ r.or_mask = {} /\ r.and_mask = Bits
    /\ build.policy = "ALL" => r.entry \cap Masked = {}
    /\ \A w \in valid : since[w] = {} => Choice(r.entry) # w

\* the way used last has its bit set, and some way has not
BitsSpare ==
  build.policy = "MRU" /\ assoc > 1 =>
    /\ r \in States
    /\ \E w \in Ways : r.pos[w] = 0
    /\ \A w \in valid : since[w] = {} => r.pos[w] # 0

SparingInv ==
  /\ build \in Builds
  /\ valid \subseteq Ways
  /\ Requests
  /\ TreesSpare
  /\ BitsSpare

\* What the builds with a tree look like.
LEMMA TreeBuilds ==
  ASSUME build \in Builds
  PROVE  /\ assoc \in Nat \ {0}
         /\ build.policy \in Trees => assoc = 8 /\ Ways = 0 .. 7
         /\ build.policy = "KNH" => assoc \in {2, 4, 8, 16, 32}
         /\ build.policy = "ALL" => assoc \in {2, 4, 8, 10, 12, 14, 16}
         /\ build.fix => build.policy \in Trees
         /\ build.policy \in TreePolicies => assoc > 1
<1>1. /\ assoc \in Nat \ {0}
      /\ build.policy \in Trees => assoc = 8
      /\ build.policy = "KNH" => assoc \in {2, 4, 8, 16, 32}
      /\ build.policy = "ALL" => assoc \in {2, 4, 8, 10, 12, 14, 16}
      /\ build.fix => build.policy \in Trees
  BY BuildsAssumption DEF assoc
<1>2. QED
  BY <1>1 DEF TreePolicies, Ways

\* A use of way w turns the tree away from it, and leaves it in bounds.
LEMMA TreeUpdate ==
  ASSUME build \in Builds, build.policy \in TreePolicies, ~build.fix,
         NEW s \in States, build.policy = "ALL" => s.entry \cap Masked = {},
         NEW w \in Ways, NEW hit \in BOOLEAN
  PROVE  \E e \in SUBSET Nat :
            /\ UpdateReplacementState(s, w, hit) = WithEntry(s, e)
            /\ build.policy = "ALL" => e \cap Masked = {}
            /\ Choice(e) # w
<1>1. s.entry \in SUBSET Nat /\ assoc > 1 /\ assoc # 1
  <2>1. s.entry \in SUBSET Nat
    BY DEF States
  <2>2. QED
    BY <2>1, TreeBuilds
<1>2. CASE build.policy \in Trees
  <2> DEFINE e == IF build.policy = "HIT_SPECIAL" /\ hit
                  THEN (s.entry \cup HitSets[w]) \ HitClears[w]
                  ELSE (s.entry \cup Sets[w]) \ Clears[w]
  <2>1. w \in 0 .. 7
    BY <1>2, TreeBuilds
  <2>2. Sets[w] \subseteq Nat /\ HitSets[w] \subseteq Nat
    <3>1. w \in {0, 1, 2, 3, 4, 5, 6, 7}
      BY <2>1
    <3>2. QED
      BY <3>1 DEF Sets, HitSets
  <2>3. UpdateReplacementState(s, w, hit) = WithEntry(s, e)
    <3>1. CASE build.policy = "HIT_SPECIAL" /\ hit
      BY <1>1, <3>1 DEF UpdateReplacementState, WithEntry
    <3>2. CASE ~(build.policy = "HIT_SPECIAL" /\ hit)
      <4>1. UpdateReplacementState(s, w, hit) = UpdatePseudoLRU(s, w, ~hit)
        BY <1>1, <1>2, <3>2 DEF UpdateReplacementState, Trees
      <4>2. QED
        BY <3>2, <4>1 DEF UpdatePseudoLRU, WithEntry
    <3>3. QED
      BY <3>1, <3>2
  <2>4. TreeWay(e) # w
    BY <2>1, TreeLeavesUsed
  <2>5. Choice(e) = TreeWay(e)
    <3> HIDE DEF e
    <3> QED
      BY <1>2 DEF Choice, Trees
  <2>6. e \in SUBSET Nat
    BY <1>1, <2>2
  <2>7. build.policy # "ALL"
    BY <1>2 DEF Trees
  <2> HIDE DEF e
  <2>8. QED
    BY <2>3, <2>4, <2>5, <2>6, <2>7
<1>3. CASE build.policy = "KNH"
  <2> DEFINE e == UpdatePseudoLRU_KNH(s.entry, w)
  <2>1. UpdateReplacementState(s, w, hit) = WithEntry(s, e)
    BY <1>1, <1>3 DEF UpdateReplacementState, WithEntry
  <2>2. e \in SUBSET Nat /\ Get_PseudoLRU_Victim_KNH(e) # w
    BY <1>1, <1>3, TreeBuilds, KnhLeavesUsed
  <2>3. Choice(e) = Get_PseudoLRU_Victim_KNH(e)
    BY <1>3 DEF Choice, Trees
  <2> HIDE DEF e
  <2>4. QED
    BY <1>3, <2>1, <2>2, <2>3
<1>4. CASE build.policy = "ALL"
  <2> DEFINE e == Update_PseudoLRU_way(s.entry, w) \ Masked
  <2>1. UpdateReplacementState(s, w, hit) = WithEntry(s, e)
    BY <1>1, <1>4 DEF UpdateReplacementState, WithEntry
  <2>2. e \in SUBSET Nat /\ (0 \in e <=> w < Offset)
    BY <1>1, <1>4, TreeBuilds, AllUpdate
  <2>3. e \cap Masked = {}
    OBVIOUS
  <2>4. Choice(e) = Get_PseudoLRU_Victim_way(e)
    BY <1>4 DEF Choice, Trees
  <2> HIDE DEF e
  <2>5. Get_PseudoLRU_Victim_way(e) \in Ways /\ (0 \in e <=> Get_PseudoLRU_Victim_way(e) >= Offset)
    BY <1>4, <2>3, TreeBuilds, AllVictim
  <2>6. Offset \in Nat /\ w \in Nat
    BY <1>4, TreeBuilds, OffsetIs DEF Ways
  <2>7. Get_PseudoLRU_Victim_way(e) # w
    BY <2>2, <2>5, <2>6
  <2>8. QED
    BY <2>1, <2>2, <2>3, <2>4, <2>7
<1>5. QED
  BY <1>2, <1>3, <1>4 DEF TreePolicies

\* Right after a use of w, only w has nothing used since.
LEMMA OnlyUsedIsLatest ==
  ASSUME SparingInv, NEW w \in Ways, Used(w), build.policy # "LRU", valid' = valid \cup {w}
  PROVE  \A v \in valid' : since'[v] = {} => v = w
<1>1. \A v \in Ways : since'[v] = IF v = w THEN {} ELSE {w}
  BY DEF Used
<1>2. valid' \subseteq Ways
  BY DEF SparingInv
<1>3. QED
  BY <1>1, <1>2

\* A hit, or a fill where nothing is asked for in advance.
LEMMA TreesUse ==
  ASSUME SparingInv, NEW w \in Ways, Use(w), build.policy \in TreePolicies, ~build.fix,
         NEW hit \in BOOLEAN, r' = UpdateReplacementState(r, w, hit)
  PROVE  TreesSpare'
<1>1. /\ r \in States /\ build \in Builds
      /\ r.pending = {} /\ r.or_mask = {} /\ r.and_mask = Bits
      /\ build.policy = "ALL" => r.entry \cap Masked = {}
  BY DEF SparingInv, TreesSpare
<1>2. PICK e \in SUBSET Nat : /\ UpdateReplacementState(r, w, hit) = WithEntry(r, e)
                              /\ build.policy = "ALL" => e \cap Masked = {}
                              /\ Choice(e) # w
  BY <1>1, TreeUpdate
<1>3. /\ r' \in States /\ r'.entry = e
      /\ r'.pending = {} /\ r'.or_mask = {} /\ r'.and_mask = Bits
  BY <1>1, <1>2, Retreed
<1>4. /\ build' = build /\ States' = States /\ Bits' = Bits /\ Masked' = Masked
      /\ Choice(r.entry)' = Choice(r'.entry)
  <2>1. build' = build
    BY DEF Use
  <2>2. assoc' = assoc /\ Ways' = Ways
    BY <2>1 DEF Ways, assoc
  <2>3. States' = States /\ Bits' = Bits /\ Masked' = Masked
    BY <2>2 DEF States, Bits, Masked
  <2>4. Scale' = Scale /\ Offset' = Offset
    BY <2>2 DEF Scale, Offset
  <2>5. Root' = Root
    BY <2>4 DEF Root
  <2>6. /\ Get_PseudoLRU_Victim_KNH(r.entry)' = Get_PseudoLRU_Victim_KNH(r'.entry)
        /\ Get_PseudoLRU_Victim_way(r.entry)' = Get_PseudoLRU_Victim_way(r'.entry)
    <3>1. Get_PseudoLRU_Victim_KNH(r.entry)' = Get_PseudoLRU_Victim_KNH(r'.entry)
      BY <2>4 DEF Get_PseudoLRU_Victim_KNH
    <3>2. Get_PseudoLRU_Victim_way(r.entry)' = Get_PseudoLRU_Victim_way(r'.entry)
      BY <2>5 DEF Get_PseudoLRU_Victim_way
    <3>3. QED
      BY <3>1, <3>2
  <2>7. Choice(r.entry)' = Choice(r'.entry)
    BY <2>1, <2>6 DEF Choice, TreeWay
  <2>8. QED
    BY <2>1, <2>3, <2>7
<1>5. \A v \in valid' : since'[v] = {} => v = w
  <2>1. build.policy # "LRU"
    BY DEF TreePolicies, Trees
  <2>2. QED
    BY <2>1, OnlyUsedIsLatest DEF Use
<1>6. QED
  BY <1>2, <1>3, <1>4, <1>5 DEF TreesSpare

\* The same for MRU.
LEMMA MruUse ==
  ASSUME SparingInv, NEW w \in Ways, Use(w), build.policy = "MRU",
         NEW hit \in BOOLEAN, r' = UpdateReplacementState(r, w, hit)
  PROVE  BitsSpare'
<1>1. build \in Builds /\ build' = build /\ States' = States /\ assoc' = assoc /\ Ways' = Ways
  BY DEF SparingInv, Use, States, Ways, assoc
<1>2. CASE assoc > 1
  <2> DEFINE old == r.pos
             new == UpdateMRU(r.pos, w)
  <2>1. /\ r \in States /\ old \in [Ways -> Nat]
        /\ \E u \in Ways : old[u] = 0
    BY <1>2 DEF SparingInv, BitsSpare, States
  <2>2. PICK x \in Ways : x # w
    <3>1. assoc \in Nat
      BY <1>1, TreeBuilds
    <3>2. 0 \in Ways /\ 1 \in Ways
      BY <1>2, <3>1 DEF Ways
    <3>3. QED
      BY <3>2
  <2>3. /\ new \in [Ways -> Nat] /\ new[w] # 0
        /\ \E u \in Ways : new[u] = 0
    <3>1. CASE old[w] # 0
      BY <2>1, <3>1 DEF UpdateMRU
    <3>2. CASE old[w] = 0 /\ \A u \in Ways \ {w} : old[u] # 0
      <4>1. new = [v \in Ways |-> IF v = w THEN 1 ELSE 0]
        BY <3>2 DEF UpdateMRU
      <4>2. QED
        BY <2>2, <4>1
    <3>3. CASE old[w] = 0 /\ ~\A u \in Ways \ {w} : old[u] # 0
      <4>1. new = [v \in Ways |-> IF v = w THEN 1 ELSE old[v]]
        BY <3>3 DEF UpdateMRU
      <4>2. QED
        BY <2>1, <3>3, <4>1
    <3>4. QED
      BY <3>1, <3>2, <3>3
  <2>4. r' \in States /\ r'.pos = new
    <3>1. assoc # 1
      BY <1>2
    <3>2. r' = [r EXCEPT !.pos = new]
      BY <1>1, <3>1, UpdateUnderMRU
    <3> HIDE DEF new, old
    <3>3. QED
      BY <2>1, <2>3, <3>2 DEF States
  <2>5. \A v \in valid' : since'[v] = {} => v = w
    BY OnlyUsedIsLatest DEF Use
  <2> HIDE DEF new, old
  <2>6. QED
    BY <1>1, <2>3, <2>4, <2>5 DEF BitsSpare
<1>3. CASE ~(assoc > 1)
  BY <1>1, <1>3 DEF BitsSpare
<1>4. QED
  BY <1>2, <1>3

\* A tree with other bits is steered as before.
LEMMA EntryIsSteered ==
  ASSUME NEW s \in States, NEW e \in SUBSET Nat, Steered(s)
  PROVE  Steered(WithEntry(s, e))
BY Retreed DEF Steered

\* A use of way w left to t what s must keep to be steered.
Handled(s, t, w, hit) ==
  /\ t \in States
  /\ Steered(t)
  /\ t.pending = IF hit THEN s.pending ELSE s.pending \ {w}

\* What a use of a way does to the tree of a set with pending ways.
LEMMA PendingUpdate ==
  ASSUME build \in Builds, build.fix, NEW s \in States, NEW w \in Ways, NEW hit \in BOOLEAN,
         Steered(s), ~hit => w \in s.pending
  PROVE  Handled(s, UpdateReplacementState(s, w, hit), w, hit)
<1>1. assoc > 1 /\ assoc # 1 /\ build.policy \in Trees /\ w \in 0 .. 7 /\ s.entry \in SUBSET Nat
  <2>1. s.entry \in SUBSET Nat
    BY DEF States
  <2>2. QED
    BY <2>1, TreeBuilds
<1>2. Sets[w] \subseteq Nat /\ HitSets[w] \subseteq Nat
  <2>1. w \in {0, 1, 2, 3, 4, 5, 6, 7}
    BY <1>1
  <2>2. QED
    BY <2>1 DEF Sets, HitSets
<1> DEFINE e == (s.entry \cup Sets[w]) \ Clears[w]
           h == (s.entry \cup HitSets[w]) \ HitClears[w]
<1>3. e \in SUBSET Nat /\ h \in SUBSET Nat
  BY <1>1, <1>2
<1>4. CASE hit /\ build.policy = "HIT_SPECIAL"
  <2>1. UpdateReplacementState(s, w, hit) = WithEntry(s, h)
    BY <1>1, <1>4 DEF UpdateReplacementState, WithEntry
  <2> HIDE DEF h
  <2>2. /\ WithEntry(s, h) \in States /\ Steered(WithEntry(s, h))
        /\ WithEntry(s, h).pending = s.pending
    BY <1>3, Retreed, EntryIsSteered
  <2>3. Handled(s, WithEntry(s, h), w, hit)
    BY <1>4, <2>2 DEF Handled
  <2>4. QED
    BY <2>1, <2>3
<1>5. CASE hit /\ build.policy # "HIT_SPECIAL"
  <2>1. UpdateReplacementState(s, w, hit) = UpdatePseudoLRU(s, w, FALSE)
    BY <1>1, <1>5 DEF UpdateReplacementState, Trees
  <2>2. UpdateReplacementState(s, w, hit) = WithEntry(s, e)
    BY <2>1 DEF UpdatePseudoLRU, WithEntry
  <2> HIDE DEF e
  <2>3. /\ WithEntry(s, e) \in States /\ Steered(WithEntry(s, e))
        /\ WithEntry(s, e).pending = s.pending
    BY <1>3, Retreed, EntryIsSteered
  <2>4. Handled(s, WithEntry(s, e), w, hit)
    BY <1>5, <2>3 DEF Handled
  <2>5. QED
    BY <2>2, <2>4
<1>6. CASE ~hit
  <2>1. UpdateReplacementState(s, w, hit) = UpdatePseudoLRU(s, w, TRUE)
    BY <1>1, <1>6 DEF UpdateReplacementState, Trees
  <2>2. UpdatePseudoLRU(s, w, TRUE) = ClearPseudoLRUPedingWay(WithEntry(s, e), w)
    BY DEF UpdatePseudoLRU, WithEntry
  <2> HIDE DEF e
  <2>3. /\ WithEntry(s, e) \in States /\ Steered(WithEntry(s, e))
        /\ WithEntry(s, e).pending = s.pending
    BY <1>3, Retreed, EntryIsSteered
  <2> DEFINE u == WithEntry(s, e)
             t == ClearPseudoLRUPedingWay(u, w)
  <2> HIDE DEF u
  <2>4. t \in States /\ t.pending = u.pending \ {w} /\ Steered(t)
    BY <1>1, <1>6, <2>3, ClearSteers DEF u
  <2> HIDE DEF t
  <2>5. Handled(s, t, w, hit)
    BY <1>6, <2>3, <2>4 DEF Handled, u
  <2>6. QED
    BY <2>1, <2>2, <2>5 DEF t, u
<1>7. QED
  BY <1>4, <1>5, <1>6

\* With requests, what GetVictimInSet returns is a way that is not pending.
LEMMA VictimIsFree ==
  ASSUME SparingInv, build.fix
  PROVE  /\ Invalid = {} /\ VictimsInSet = Get_PseudoLRU_Victim(r)
         /\ VictimsInSet \subseteq Ways \ asked
         /\ asked # Ways => VictimsInSet # {}
<1>1. /\ r \in States /\ evict = {} /\ asked = r.pending /\ asked \subseteq 0 .. 7
      /\ Steered(r)
  BY DEF SparingInv, Requests
<1>2. build.policy \in Trees /\ Ways = 0 .. 7 /\ assoc > 1 /\ assoc # 1
  BY TreeBuilds DEF SparingInv
<1>3. Invalid = {}
  BY <1>1 DEF Invalid
<1>4. VictimsInSet = Get_PseudoLRU_Victim(r)
  <2>1. Victims(r) = Get_PseudoLRU_Victim(r)
    BY <1>2 DEF Victims, Trees
  <2>2. QED
    BY <1>3, <2>1 DEF VictimsInSet
<1>5. CASE r.pending = Ways
  BY <1>1, <1>3, <1>4, <1>5 DEF Get_PseudoLRU_Victim
<1>6. CASE r.pending # Ways
  <2> DEFINE x == TreeWay((r.entry \cup r.or_mask) \cap r.and_mask)
  <2>1. x \in (0 .. 7) \ r.pending
    BY <1>1, <1>2, <1>6, SteeredAvoids
  <2>2. Get_PseudoLRU_Victim(r) = {x}
    BY <1>6 DEF Get_PseudoLRU_Victim
  <2> HIDE DEF x
  <2>3. QED
    BY <1>1, <1>2, <1>3, <1>4, <2>1, <2>2
<1>7. QED
  BY <1>5, <1>6

----------------------------------------------------------------------------
(* One lemma per action.                                                   *)

\* A hit or a fill in a build that asks for nothing in advance.
LEMMA SparingUse ==
  ASSUME SparingInv, NEW w \in Ways, Use(w), ~build.fix, evict' = evict, NEW hit \in BOOLEAN,
         build.policy \in TreePolicies \cup {"MRU"} => r' = UpdateReplacementState(r, w, hit)
  PROVE  SparingInv'
<1>1. build' = build /\ Ways' = Ways /\ assoc' = assoc /\ valid' = valid \cup {w} /\ asked' = asked
  BY DEF Use, Ways, assoc
<1>2. build' \in Builds' /\ valid' \subseteq Ways' /\ Requests'
  BY <1>1 DEF SparingInv, Requests
<1>3. TreesSpare'
  <2>1. CASE build.policy \in TreePolicies
    BY <2>1, TreesUse
  <2>2. CASE build.policy \notin TreePolicies
    BY <1>1, <2>2 DEF TreesSpare, TreePolicies, Trees
  <2>3. QED
    BY <2>1, <2>2
<1>4. BitsSpare'
  <2>1. CASE build.policy = "MRU"
    BY <2>1, MruUse
  <2>2. CASE build.policy # "MRU"
    BY <1>1, <2>2 DEF BitsSpare
  <2>3. QED
    BY <2>1, <2>2
<1>5. QED
  BY <1>2, <1>3, <1>4 DEF SparingInv

\* The parts that a build with requests does not have.
LEMMA OnlyRequests ==
  ASSUME SparingInv, build.fix, build' = build, valid' \subseteq Ways,
         r' \in States, evict' = {}, asked' = r'.pending, asked' \subseteq 0 .. 7, Steered(r')
  PROVE  SparingInv'
<1>1. Ways' = Ways /\ States' = States /\ build \in Builds
  BY DEF Ways, States, assoc, SparingInv
<1>2. Steered(r)' = Steered(r')
  BY DEF Steered, Bits, OnLeft, OnRight
<1>3. Requests'
  BY <1>1, <1>2 DEF Requests
<1>4. TreesSpare' /\ BitsSpare'
  <2>1. build.policy # "MRU"
    BY <1>1, TreeBuilds DEF Trees
  <2>2. QED
    BY <2>1 DEF TreesSpare, BitsSpare
<1>5. QED
  BY <1>1, <1>3, <1>4 DEF SparingInv

\* LookupCache on a line that is there.
LEMMA SparingHit ==
  ASSUME SparingInv, NEW w \in Ways, Hit(w)
  PROVE  SparingInv'
<1>1. Use(w) /\ evict' = evict /\ r' = UpdateReplacementState(r, w, TRUE)
  BY DEF Hit, LookupHit, Use
<1>2. CASE ~build.fix
  BY <1>1, <1>2, SparingUse
<1>3. CASE build.fix
  <2>1. /\ r \in States /\ evict = {} /\ asked = r.pending /\ asked \subseteq 0 .. 7
        /\ Steered(r) /\ build \in Builds /\ valid \subseteq Ways
    BY <1>3 DEF SparingInv, Requests
  <2>2. Handled(r, r', w, TRUE)
    BY <1>1, <1>3, <2>1, PendingUpdate
  <2>3. QED
    BY <1>1, <1>3, <2>1, <2>2, OnlyRequests DEF Handled, Use
<1>4. QED
  BY <1>2, <1>3

\* LookupAndFillCache on one that is not.
LEMMA SparingFill ==
  ASSUME SparingInv, NEW w \in Ways, Fill(w)
  PROVE  SparingInv'
<1>1. Use(w) /\ ~build.fix /\ evict' = evict /\ r' = UpdateReplacementState(AfterVictim(w), w, FALSE)
  BY DEF Fill, Use
<1>2. build.policy \in TreePolicies \cup {"MRU"} => AfterVictim(w) = r
  BY <1>1 DEF AfterVictim, Chosen, TreePolicies, Trees
<1>3. QED
  BY <1>1, <1>2, SparingUse

\* A miss asks for a victim: it was not pending, and the masks now steer away from it.
LEMMA SparingFindVictim ==
  ASSUME SparingInv, NEW w \in Ways, FindVictim(w)
  PROVE  SparingInv'
<1>1. build.fix /\ w \in VictimsInSet /\ r' = AfterVictim(w) /\ asked' = asked \cup {w}
      /\ build' = build /\ valid' = valid /\ evict' = evict
  BY DEF FindVictim
<1>2. /\ r \in States /\ evict = {} /\ asked = r.pending /\ asked \subseteq 0 .. 7
      /\ Steered(r) /\ build \in Builds /\ valid \subseteq Ways
  BY <1>1 DEF SparingInv, Requests
<1>3. build.policy \in Trees /\ w \in 0 .. 7
  BY <1>1, <1>2, TreeBuilds
<1>4. Invalid = {} /\ w \notin r.pending
  BY <1>1, <1>2, VictimIsFree
<1>5. r' = SetPseudoLRUPedingWay(r, w)
  <2>1. r' = Chosen(r, w)
    BY <1>1, <1>4 DEF AfterVictim
  <2>2. build.policy # "QUAD_AGE_LRU" /\ build.policy # "RRIP"
    BY <1>3 DEF Trees
  <2>3. Chosen(r, w) = SetPseudoLRUPedingWay(r, w)
    BY <1>1, <1>3, <2>2, Zenon DEF Chosen
  <2>4. QED
    BY <2>1, <2>3
<1>6. r' \in States /\ r'.pending = r.pending \cup {w} /\ Steered(r')
  BY <1>2, <1>3, <1>4, <1>5, SetSteers
<1>7. QED
  BY <1>1, <1>2, <1>3, <1>6, OnlyRequests

\* Its line arrives: the tree is turned, and the masks steer to the way again.
LEMMA SparingFillCache ==
  ASSUME SparingInv, NEW w \in Ways, FillCache(w)
  PROVE  SparingInv'
<1>1. /\ w \in asked /\ asked' = asked \ {w} /\ valid' = valid \cup {w} /\ evict' = evict \ {w}
      /\ r' = UpdateReplacementState(r, w, FALSE) /\ build' = build
  BY DEF FillCache
<1>2. build.fix
  BY <1>1 DEF SparingInv, Requests
<1>3. /\ r \in States /\ evict = {} /\ asked = r.pending /\ asked \subseteq 0 .. 7
      /\ Steered(r) /\ build \in Builds /\ valid \subseteq Ways
  BY <1>2 DEF SparingInv, Requests
<1>4. Handled(r, r', w, FALSE)
  BY <1>1, <1>2, <1>3, PendingUpdate
<1>5. QED
  BY <1>1, <1>2, <1>3, <1>4, OnlyRequests DEF Handled

\* Its line is not replaced: the masks steer to the way again.
LEMMA SparingClear ==
  ASSUME SparingInv, NEW w \in Ways, ClearLineReplacementMask(w)
  PROVE  SparingInv'
<1>1. /\ w \in asked /\ asked' = asked \ {w} /\ evict' = evict \ {w}
      /\ r' = ClearPseudoLRUPedingWay(r, w) /\ build' = build /\ valid' = valid
  BY DEF ClearLineReplacementMask
<1>2. build.fix
  BY <1>1 DEF SparingInv, Requests
<1>3. /\ r \in States /\ evict = {} /\ asked = r.pending /\ asked \subseteq 0 .. 7
      /\ Steered(r) /\ build \in Builds /\ valid \subseteq Ways
  BY <1>2 DEF SparingInv, Requests
<1>4. r' \in States /\ r'.pending = r.pending \ {w} /\ Steered(r')
  BY <1>1, <1>3, ClearSteers
<1>5. QED
  BY <1>1, <1>2, <1>3, <1>4, OnlyRequests

\* No way is pending and no mask forces a bit when the set is initialised.
LEMMA SparingInit ==
  ASSUME Init
  PROVE  SparingInv
<1>1. /\ build \in Builds /\ valid = {} /\ asked = {} /\ evict = build.garbage
      /\ r = InitReplacementState(build)
  BY DEF Init
<1>2. assoc \in Nat \ {0} /\ (build.fix => evict = {})
  BY <1>1, BuildsAssumption DEF assoc
<1>3. r \in States
  <2>1. r = [pos |-> [w \in Ways |-> IF build.policy = "LRU" THEN w ELSE 0],
             rr |-> [w \in Ways |-> 7], entry |-> {}, pending |-> {}, or_mask |-> {},
             and_mask |-> Bits]
    BY <1>1 DEF InitReplacementState, Ways, assoc
  <2>2. Ways \subseteq Nat /\ Bits \subseteq Nat
    BY <1>2 DEF Ways, Bits
  <2>3. QED
    BY <2>1, <2>2 DEF States
<1>4. r.entry = {} /\ r.pending = {} /\ r.or_mask = {} /\ r.and_mask = Bits
  BY <1>1 DEF InitReplacementState
<1>5. Requests
  <2>1. Steered(r)
    BY <1>4, SteeredIs DEF Fork
  <2>2. QED
    BY <1>1, <1>2, <1>3, <1>4, <2>1 DEF Requests
<1>6. TreesSpare
  BY <1>1, <1>3, <1>4 DEF TreesSpare
<1>7. BitsSpare
  <2> SUFFICES ASSUME build.policy = "MRU" PROVE BitsSpare
    BY DEF BitsSpare
  <2>1. 0 \in Ways /\ r.pos = [w \in Ways |-> 0]
    BY <1>1, <1>2 DEF InitReplacementState, Ways, assoc
  <2>2. QED
    BY <1>1, <1>3, <2>1 DEF BitsSpare
<1>8. QED
  BY <1>1, <1>5, <1>6, <1>7 DEF SparingInv

\* The masks, the trees and MRU's bits are as SparingInv says, in every build.
THEOREM SparingInvariance == Spec => []SparingInv
<1>1. Init => SparingInv
  BY SparingInit
<1>2. SparingInv /\ [Next]_vars => SparingInv'
  <2> SUFFICES ASSUME SparingInv, [Next]_vars PROVE SparingInv'
    OBVIOUS
  <2>1. CASE Next
    <3>1. PICK w \in Ways : Hit(w) \/ Fill(w) \/ FindVictim(w) \/ FillCache(w)
                               \/ ClearLineReplacementMask(w)
      BY <2>1 DEF Next
    <3>2. QED
      BY <3>1, SparingHit, SparingFill, SparingFindVictim, SparingFillCache, SparingClear
  <2>2. CASE UNCHANGED vars
    <3>1. /\ build' = build /\ valid' = valid /\ evict' = evict /\ r' = r /\ asked' = asked
          /\ since' = since
      BY <2>2 DEF vars
    <3>2. assoc' = assoc /\ Ways' = Ways /\ States' = States
      BY <3>1 DEF Ways, assoc, States
    <3>3. Requests'
      BY <3>1, <3>2 DEF SparingInv, Requests, Steered, Bits, OnLeft, OnRight
    <3>4. TreesSpare'
      <4>1. Bits' = Bits /\ Masked' = Masked /\ Scale' = Scale /\ Offset' = Offset
        BY <3>2 DEF Bits, Masked, Scale, Offset
      <4>2. Root' = Root
        BY <4>1 DEF Root
      <4>3. Get_PseudoLRU_Victim_KNH(r.entry)' = Get_PseudoLRU_Victim_KNH(r.entry)
        BY <3>1, <4>1 DEF Get_PseudoLRU_Victim_KNH
      <4>4. Get_PseudoLRU_Victim_way(r.entry)' = Get_PseudoLRU_Victim_way(r.entry)
        BY <3>1, <4>2 DEF Get_PseudoLRU_Victim_way
      <4>5. Choice(r.entry)' = Choice(r.entry)
        BY <3>1, <4>3, <4>4 DEF Choice, TreeWay
      <4>6. QED
        BY <3>1, <3>2, <4>1, <4>5 DEF SparingInv, TreesSpare
    <3>5. BitsSpare'
      BY <3>1, <3>2 DEF SparingInv, BitsSpare
    <3>6. QED
      BY <3>1, <3>2, <3>3, <3>4, <3>5 DEF SparingInv
  <2>3. QED
    BY <2>1, <2>2
<1>3. QED
  BY <1>1, <1>2, PTL DEF Spec

\* With ACCEL_L2_EVICT_ON_MISS_FIX, a way whose line is being replaced is not chosen
\* again, and a way is found as long as one is left, in whatever order replacements end.
THEOREM PendingWaysAreSafe == Spec => []PendingIsSafe
<1>1. SparingInv => PendingIsSafe
  <2> SUFFICES ASSUME SparingInv, build.fix PROVE PendingIsSafe
    BY DEF PendingIsSafe
  <2>1. asked = r.pending
    BY DEF SparingInv, Requests
  <2>2. QED
    BY <2>1, VictimIsFree DEF PendingIsSafe
<1>2. QED
  BY <1>1, SparingInvariance, PTL

\* The line used last is not the next victim, under LRU and MRU for every number of
\* ways and under every tree.
THEOREM LatestUseIsSafe == Spec => []LatestIsSafe
<1>1. IInv /\ SparingInv => LatestIsSafe
  <2> SUFFICES ASSUME IInv, SparingInv,
                      build.policy \notin {"RANDOM", "QUAD_AGE_LRU", "RRIP"}, assoc > 1, ~build.fix,
                      NEW w \in VictimsInSet
               PROVE  w \in Ways /\ (w \in valid => since[w] # {})
    BY DEF LatestIsSafe
  <2>1. assoc \in Nat \ {0} /\ assoc # 1 /\ build.policy \in Policies
    BY TreeBuilds, BuildsAssumption DEF SparingInv
  <2>2. Ways \subseteq Nat /\ 0 \in Ways /\ assoc - 1 \in Ways /\ assoc - 1 # 0
    BY <2>1 DEF Ways
  <2>3. CASE Invalid # {}
    <3>1. Invalid \subseteq Ways \ valid
      BY DEF Invalid
    <3>2. w = First(Invalid) /\ First(Invalid) \in Invalid
      BY <2>2, <2>3, <3>1, FirstIsMember DEF VictimsInSet
    <3>3. QED
      BY <3>1, <3>2
  <2>4. CASE Invalid = {} /\ build.policy = "LRU"
    <3> DEFINE L == {v \in Ways : r.pos[v] = assoc - 1}
    <3>1. w \in FirstOr0(L)
      <4>1. Victims(r) = Get_LRU_Victim(r)
        BY <2>1, <2>4 DEF Victims, Trees
      <4>2. VictimsInSet = Victims(r)
        BY <2>4 DEF VictimsInSet
      <4>3. QED
        BY <4>1, <4>2 DEF Get_LRU_Victim
    <3>2. /\ Permutation(r.pos) /\ valid \subseteq Ways
          /\ \A v \in valid, u \in Ways : v \in since[u] <=> r.pos[v] < r.pos[u]
          /\ \A v \in valid, u \in Ways \ valid : r.pos[v] < r.pos[u]
      BY <2>4 DEF IInv, StackIsOrder
    <3>3. L # {}
      BY <2>2, <3>2 DEF Permutation
    <3>4. w \in L
      BY <2>2, <3>1, <3>3, FirstIsMember DEF FirstOr0
    <3>5. PICK v \in Ways : r.pos[v] = 0
      BY <2>2, <3>2 DEF Permutation
    <3>6. w \in Ways /\ r.pos[w] = assoc - 1
      BY <3>4
    <3>7. r.pos[v] < r.pos[w]
      BY <2>1, <2>2, <3>5, <3>6
    <3>8. ASSUME w \in valid PROVE since[w] # {}
      <4>1. v \in valid
        <5> SUFFICES ASSUME v \notin valid PROVE FALSE
          OBVIOUS
        <5>1. r.pos[w] < r.pos[v]
          BY <3>2, <3>8
        <5>2. r.pos[w] \in Nat /\ r.pos[v] \in Nat
          BY <2>1, <3>5, <3>6
        <5>3. QED
          BY <3>7, <5>1, <5>2
      <4>2. v \in since[w]
        BY <3>2, <3>6, <3>7, <4>1
      <4>3. QED
        BY <4>2
    <3>9. QED
      BY <3>6, <3>8
  <2>5. CASE Invalid = {} /\ build.policy = "MRU"
    <3> DEFINE L == {v \in Ways : r.pos[v] = 0}
    <3>1. w = First(L)
      BY <2>1, <2>5 DEF VictimsInSet, Victims, Get_MRU_Victim, Trees
    <3>2. L # {}
      BY <2>5 DEF SparingInv, BitsSpare
    <3>3. w \in L
      BY <2>2, <3>1, <3>2, FirstIsMember
    <3>4. QED
      BY <2>5, <3>3 DEF SparingInv, BitsSpare
  <2>6. CASE Invalid = {} /\ build.policy \in TreePolicies
    <3>1. /\ r.pending = {} /\ r.or_mask = {} /\ r.and_mask = Bits
          /\ build.policy = "ALL" => r.entry \cap Masked = {}
          /\ \A v \in valid : since[v] = {} => Choice(r.entry) # v
      BY <2>6 DEF SparingInv, TreesSpare
    <3>2. w = Choice(r.entry)
      <4>1. w \in Victims(r)
        BY <2>6 DEF VictimsInSet
      <4>2. CASE build.policy \in Trees
        <5>1. Victims(r) = Get_PseudoLRU_Victim(r)
          BY <2>1, <4>2 DEF Victims, Trees
        <5>2. Get_PseudoLRU_Victim(r) = {TreeWay((r.entry \cup r.or_mask) \cap r.and_mask)}
          BY <2>2, <3>1 DEF Get_PseudoLRU_Victim
        <5>3. TreeWay((r.entry \cup {}) \cap Bits) = TreeWay(r.entry)
          BY TreeWayBits
        <5>4. Choice(r.entry) = TreeWay(r.entry)
          BY <4>2 DEF Choice, Trees
        <5>5. QED
          BY <3>1, <4>1, <5>1, <5>2, <5>3, <5>4
      <4>3. CASE build.policy = "KNH"
        BY <2>1, <4>1, <4>3 DEF Victims, Choice, Trees
      <4>4. CASE build.policy = "ALL"
        BY <2>1, <4>1, <4>4 DEF Victims, Choice, Trees
      <4>5. QED
        BY <2>6, <4>2, <4>3, <4>4 DEF TreePolicies
    <3>3. w \in Ways
      <4>1. CASE build.policy \in Trees
        <5>1. Choice(r.entry) = TreeWay(r.entry)
          BY <4>1 DEF Choice, Trees
        <5>2. TreeWay(r.entry) \in {0, 1, 2, 3, 4, 5, 6, 7}
          BY TreeWayIs
        <5>3. QED
          BY <3>2, <4>1, <5>1, <5>2, TreeBuilds DEF SparingInv
      <4>2. CASE build.policy = "KNH"
        <5>1. Choice(r.entry) = Get_PseudoLRU_Victim_KNH(r.entry)
          BY <4>2 DEF Choice, Trees
        <5>2. QED
          BY <3>2, <4>2, <5>1, TreeBuilds, KnhLeavesUsed DEF SparingInv
      <4>3. CASE build.policy = "ALL"
        <5>1. Choice(r.entry) = Get_PseudoLRU_Victim_way(r.entry)
          BY <4>3 DEF Choice, Trees
        <5>2. QED
          BY <3>1, <3>2, <4>3, <5>1, TreeBuilds, AllVictim DEF SparingInv
      <4>4. QED
        BY <2>6, <4>1, <4>2, <4>3 DEF TreePolicies
    <3>4. QED
      BY <3>1, <3>2, <3>3
  <2>7. QED
    BY <2>1, <2>3, <2>4, <2>5, <2>6 DEF Policies, TreePolicies, Trees
<1>2. QED
  BY <1>1, Invariance, SparingInvariance, PTL
=============================================================================
