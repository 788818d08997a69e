------------------------------- MODULE Cache -------------------------------
(***************************************************************************)
(* One set of the L2 cache (simple_cache.cpp) with its replacement state   *)
(* (replacement_state.cpp).  Tags are abstracted: a lookup finds its line  *)
(* in a valid way or in none, and what a set does depends on nothing else  *)
(* of the address.  The program builds SIMPLE_CACHE with eight ways and    *)
(* REPL_LRU and only loads from it; the other policies are modelled as     *)
(* their class offers them.                                                *)
(***************************************************************************)
EXTENDS Integers

CONSTANT Builds

\* policy: replPolicy.  assoc: the number of ways.  fix:
\* ACCEL_L2_EVICT_ON_MISS_FIX.  garbage: the ways whose evict_state, which
\* InitCache leaves uninitialised, does not happen to hold 0, the value of all
\* three members of EvictState.
Policies == {"LRU", "RANDOM", "MRU", "KNH", "PSEUDO_LRU", "HIT_SPECIAL", "ALL",
             "QUAD_AGE_LRU", "RRIP"}
Trees == {"PSEUDO_LRU", "HIT_SPECIAL"}

ASSUME BuildsAssumption ==
  \A b \in Builds :
    /\ b.policy \in Policies
    /\ b.assoc \in Nat \ {0}
    /\ b.policy \in Trees => b.assoc = 8
    /\ b.policy = "KNH" => b.assoc \in {2, 4, 8, 16, 32}
    /\ b.policy = "ALL" => b.assoc \in {2, 4, 8, 10, 12, 14, 16}
    /\ b.policy = "QUAD_AGE_LRU" => b.garbage = 0 .. b.assoc - 1
    /\ b.fix => b.policy \in Trees /\ b.garbage = {}

VARIABLES
  build,
  valid,     \* the ways that hold a line
  evict,     \* the ways whose evict_state is not 0
  r,         \* LINE_REPLACEMENT_STATE of the set, see InitReplacementState
  asked,     \* ways FindVictim returned whose FillCache is to come
  since      \* of each way, the ways used after its last use (for policies
             \* other than REPL_LRU, the one used last)

vars == <<build, valid, evict, r, asked, since>>

assoc == build.assoc
Ways == 0 .. assoc - 1
Bits == 0 .. 6

----------------------------------------------------------------------------
(* Pseudo-LRU trees.  LRUstackposition is the set of its bits that are 1.  *)

\* Next_Power_2(assoc) / 2
Offset == CHOOSE h \in {1, 2, 4, 8, 16} : h < assoc /\ assoc <= 2 * h

\* the bits an access to a way sets, and those it clears
Sets == [w \in 0 .. 7 |-> CASE w = 0 -> {0, 1, 2} [] w = 1 -> {0, 1} [] w = 2 -> {0, 3}
                            [] w = 3 -> {0} [] w = 4 -> {4, 5} [] w = 5 -> {4}
                            [] w = 6 -> {6} [] w = 7 -> {}]
Clears == [w \in 0 .. 7 |-> CASE w = 0 -> {} [] w = 1 -> {2} [] w = 2 -> {1}
                              [] w = 3 -> {1, 3} [] w = 4 -> {0} [] w = 5 -> {0, 5}
                              [] w = 6 -> {0, 4} [] w = 7 -> {0, 4, 6}]
\* and those a hit sets and clears in REPL_PSEUDO_LRU_HIT_SPECIAL
HitSets == [w \in 0 .. 7 |-> CASE w = 0 -> {0} [] w = 1 -> {1} [] w = 2 -> {3}
                               [] w = 4 -> {4} [] w = 6 -> {6} [] OTHER -> {}]
HitClears == [w \in 0 .. 7 |-> CASE w = 3 -> {1} [] w = 5 -> {5} [] w = 7 -> {0} [] OTHER -> {}]

\* the way that seven bits lead to, a node's left side for 0 and its right side for 1
TreeWay(entry) ==
  CASE {0, 1, 2} \cap entry = {} -> 0     [] {0, 1, 2} \cap entry = {2} -> 1
    [] {0, 1, 3} \cap entry = {1} -> 2    [] {0, 1, 3} \cap entry = {1, 3} -> 3
    [] {0, 4, 5} \cap entry = {0} -> 4    [] {0, 4, 5} \cap entry = {0, 5} -> 5
    [] {0, 4, 6} \cap entry = {0, 4} -> 6 [] {0, 4, 6} \cap entry = {0, 4, 6} -> 7

\* A node: its bit, its first way, and how many ways are on its left side (none
\* below the leaves).  The left subtree's bits follow its node, then the right one's.
Root == [half |-> Offset, bit |-> 0, way |-> 0]
Child(node, right) ==
  IF node.half = 0 THEN node
  ELSE [half |-> node.half \div 2,
        bit |-> IF right THEN node.bit + node.half ELSE node.bit + 1,
        way |-> IF right THEN node.way + node.half ELSE node.way]

\* four levels: there are at most 16 ways
Get_PseudoLRU_Victim_way(entry) ==
  LET Down(node) == Child(node, node.bit \in entry)
  IN Down(Down(Down(Down(Root)))).way

Update_PseudoLRU_way(entry, w) ==
  LET Left(node) == w < node.way + node.half
      Down(node) == Child(node, ~Left(node))
      path == {n \in {Root, Down(Root), Down(Down(Root)), Down(Down(Down(Root)))} : n.half > 0}
  IN {b \in entry \cup {n.bit : n \in path} : \A n \in path : n.bit = b => Left(n)}

\* pLRU_mask_and: bits kept at 0, since one of their subtrees has no ways
Masked == CASE assoc = 10 -> {8, 9} [] assoc = 12 -> {8} [] assoc = 14 -> {12} [] OTHER -> {}

\* 1 << num_shifts
Scale == CASE assoc = 2 -> 16 [] assoc = 4 -> 8 [] assoc = 8 -> 4 [] assoc = 16 -> 2
           [] OTHER -> 1

\* breadth first, over five levels whatever the associativity: node n has the
\* children 1 + 2 * n and 2 + 2 * n, the ways follow the 31 bits
Get_PseudoLRU_Victim_KNH(entry) ==
  LET Down(node) == 1 + 2 * node + (IF node \in entry THEN 1 ELSE 0)
  IN (Down(Down(Down(Down(Down(0))))) - 31) \div Scale

UpdatePseudoLRU_KNH(entry, w) ==
  LET leaf == 31 + w * Scale
      Up(node) == (node - 1) \div 2
      path == {leaf, Up(leaf), Up(Up(leaf)), Up(Up(Up(leaf))), Up(Up(Up(Up(leaf))))}
  IN {b \in entry \cup {Up(n) : n \in path} : \A n \in path : Up(n) = b => n % 2 = 1}

----------------------------------------------------------------------------
(* The masks that keep a way whose line is being replaced from being       *)
(* chosen again: a bit is forced to 0, forced to 1, or left to the tree.   *)

Free(s, bits) == [s EXCEPT !.or_mask = @ \ bits, !.and_mask = @ \cup bits]
Steer(s, bit, one) ==
  IF one THEN [s EXCEPT !.or_mask = @ \cup {bit}, !.and_mask = @ \cup {bit}]
         ELSE [s EXCEPT !.or_mask = @ \ {bit}, !.and_mask = @ \ {bit}]

Half(w) == IF w < 4 THEN 0 .. 3 ELSE 4 .. 7
Pair(w) == {2 * (w \div 2), 2 * (w \div 2) + 1}
Across(w) == IF w % 4 < 2 THEN w + 2 ELSE w - 2
PairBit(w) == IF w < 4 THEN 1 ELSE 4
LeafBit(w) == CASE w < 2 -> 2 [] w \in 2 .. 3 -> 3 [] w \in 4 .. 5 -> 5 [] OTHER -> 6

\* mutant: a pair that is being replaced leaves its tree bit alone
UpdatepLRUMasksNoPair(s, w) ==
  CASE Half(w) \subseteq s.pending ->
         Free(Steer(s, 0, w < 4), {PairBit(w), LeafBit(w), LeafBit(Across(w))})
    [] ~(Half(w) \subseteq s.pending) /\ Pair(w) \subseteq s.pending -> Free(s, {LeafBit(w)})
    [] OTHER -> Steer(s, LeafBit(w), w % 2 = 0)

\* away from the half, the pair or the way that has no line left to replace
UpdatepLRUMasks(s, w) ==
  CASE Half(w) \subseteq s.pending ->
         Free(Steer(s, 0, w < 4), {PairBit(w), LeafBit(w), LeafBit(Across(w))})
    [] ~(Half(w) \subseteq s.pending) /\ Pair(w) \subseteq s.pending ->
         Free(Steer(s, PairBit(w), w % 4 < 2), {LeafBit(w)})
    [] OTHER -> Steer(s, LeafBit(w), w % 2 = 0)

\* towards the way again where what is beside it is being replaced
ClearpLRUMasks(s, w) ==
  LET root == IF (0 .. 7) \ Half(w) \subseteq s.pending THEN Steer(s, 0, w >= 4) ELSE Free(s, {0})
      pair == IF Half(w) \ Pair(w) \subseteq s.pending
              THEN Steer(root, PairBit(w), w % 4 >= 2) ELSE Free(root, {PairBit(w)})
  IN IF Pair(w) \ {w} \subseteq s.pending
     THEN Steer(pair, LeafBit(w), w % 2 = 1) ELSE Free(pair, {LeafBit(w)})

SetPseudoLRUPedingWay(s, w) == UpdatepLRUMasks([s EXCEPT !.pending = @ \cup {w}], w)
ClearPseudoLRUPedingWay(s, w) == ClearpLRUMasks([s EXCEPT !.pending = @ \ {w}], w)

----------------------------------------------------------------------------
(* Choosing a victim: the ways the policy may return in replacement state  *)
(* s, and what that leaves.                                                *)

Oldest(s) == CHOOSE v \in 0 .. 7 : /\ \A w \in Ways : s.rr[w] <= v
                                   /\ \E w \in Ways : s.rr[w] = v
First(W) == CHOOSE w \in W : \A v \in W : w <= v

\* the ways that each policy may evict; a search that finds none falls to way 0
FirstOr0(W) == {IF W = {} THEN 0 ELSE First(W)}
Get_LRU_Victim(s) == FirstOr0({w \in Ways : s.pos[w] = assoc - 1})
Get_MRU_Victim(s) == {First({w \in Ways : s.pos[w] = 0})}
Get_QuadLRU_Victim(s) == FirstOr0({w \in Ways : s.pos[w] = 0})
Get_RRIP_Victim(s) == {First({w \in Ways : s.rr[w] = Oldest(s)})}
Get_Random_Victim == Ways
Get_PseudoLRU_Victim(s) ==
  IF s.pending = Ways THEN {}
  ELSE {TreeWay((s.entry \cup s.or_mask) \cap s.and_mask)}

Victims(s) ==
  IF assoc = 1 THEN {0}
  ELSE CASE build.policy = "LRU" -> Get_LRU_Victim(s)
         [] build.policy = "RANDOM" -> Get_Random_Victim
         [] build.policy = "MRU" -> Get_MRU_Victim(s)
         [] build.policy = "KNH" -> {Get_PseudoLRU_Victim_KNH(s.entry)}
         [] build.policy \in Trees -> Get_PseudoLRU_Victim(s)
         [] build.policy = "ALL" -> {Get_PseudoLRU_Victim_way(s.entry)}
         [] build.policy = "QUAD_AGE_LRU" -> Get_QuadLRU_Victim(s)
         [] build.policy = "RRIP" -> Get_RRIP_Victim(s)

\* RRIP ages every way until one is at 7, whose bit 2 it flips
Chosen(s, w) ==
  CASE build.policy \in Trees /\ build.fix -> SetPseudoLRUPedingWay(s, w)
    [] build.policy = "QUAD_AGE_LRU" /\ s.pos[w] # 0 -> [s EXCEPT !.pos = [v \in Ways |-> 0]]
    [] build.policy = "RRIP" ->
         [s EXCEPT !.rr = [v \in Ways |-> IF v = w THEN 3 ELSE @[v] + 7 - Oldest(s)]]
    [] OTHER -> s

\* mutant: lines older than the one used are pushed down as well
UpdateLRUAll(pos, w) == [v \in Ways |-> IF v = w THEN 0 ELSE (pos[v] + 1) % assoc]
UpdateLRU(pos, w) ==
  [v \in Ways |-> IF v = w THEN 0 ELSE IF pos[v] < pos[w] THEN pos[v] + 1 ELSE pos[v]]

UpdateMRU(pos, w) ==
  IF pos[w] # 0 THEN pos
  ELSE [v \in Ways |-> IF v = w THEN 1
                       ELSE IF \A u \in Ways \ {w} : pos[u] # 0 THEN 0 ELSE pos[v]]

UpdateQuadLRU(pos, w) ==
  LET used == [pos EXCEPT ![w] = 1]
  IN IF \E v \in Ways : used[v] = 0 THEN used ELSE [v \in Ways |-> 0]

UpdatePseudoLRU(s, w, fill) ==
  LET touched == [s EXCEPT !.entry = (@ \cup Sets[w]) \ Clears[w]]
  IN IF build.fix /\ fill THEN ClearPseudoLRUPedingWay(touched, w) ELSE touched

UpdateReplacementState(s, w, hit) ==
  CASE assoc = 1 \/ build.policy = "RANDOM" -> s
    [] assoc > 1 /\ build.policy = "LRU" -> [s EXCEPT !.pos = UpdateLRU(@, w)]
    [] assoc > 1 /\ build.policy = "MRU" -> [s EXCEPT !.pos = UpdateMRU(@, w)]
    [] assoc > 1 /\ build.policy = "KNH" -> [s EXCEPT !.entry = UpdatePseudoLRU_KNH(@, w)]
    [] assoc > 1 /\ build.policy = "HIT_SPECIAL" /\ hit ->
         [s EXCEPT !.entry = (@ \cup HitSets[w]) \ HitClears[w]]
    [] assoc > 1 /\ (build.policy = "PSEUDO_LRU" \/ (build.policy = "HIT_SPECIAL" /\ ~hit)) ->
         UpdatePseudoLRU(s, w, ~hit)
    [] assoc > 1 /\ build.policy = "ALL" ->
         [s EXCEPT !.entry = Update_PseudoLRU_way(@, w) \ Masked]
    [] assoc > 1 /\ build.policy = "QUAD_AGE_LRU" -> [s EXCEPT !.pos = UpdateQuadLRU(@, w)]
    [] assoc > 1 /\ build.policy = "RRIP" -> [s EXCEPT !.rr[w] = 0]

----------------------------------------------------------------------------
(* The cache.                                                              *)

\* mutant: every way starts at the top of the LRU stack
InitReplacementStateZero(b) ==
  [pos |-> [w \in 0 .. b.assoc - 1 |-> 0], rr |-> [w \in 0 .. b.assoc - 1 |-> 7],
   entry |-> {}, pending |-> {}, or_mask |-> {}, and_mask |-> Bits]
InitReplacementState(b) ==
  [pos |-> [w \in 0 .. b.assoc - 1 |-> IF b.policy = "LRU" THEN w ELSE 0],
   rr |-> [w \in 0 .. b.assoc - 1 |-> 7],
   entry |-> {}, pending |-> {}, or_mask |-> {}, and_mask |-> Bits]

Init ==
  /\ build \in Builds
  /\ valid = {}
  /\ evict = build.garbage
  /\ r = InitReplacementState(build)
  /\ asked = {}
  /\ since = [w \in 0 .. build.assoc - 1 |-> {}]

Used(w) ==
  since' = [v \in Ways |-> CASE v = w -> {}
                             [] v # w /\ build.policy = "LRU" -> since[v] \cup {w}
                             [] v # w /\ build.policy # "LRU" -> {w}]

\* mutant: hits do not touch the replacement state
LookupHitUnrecorded(w) == UNCHANGED r
LookupHit(w) == r' = UpdateReplacementState(r, w, TRUE)

\* LookupCache and LookupAndFillCache on a line that is there: a line stays in
\* its way until FillCache puts another one there
Hit(w) ==
  /\ w \in valid
  /\ LookupHit(w)
  /\ Used(w)
  /\ UNCHANGED <<build, valid, evict, asked>>

\* the ways GetVictimInSet may return
Invalid == {w \in Ways \ valid : w \in evict}
VictimsInSet == IF Invalid # {} THEN {First(Invalid)} ELSE Victims(r)
AfterVictim(w) == IF Invalid # {} THEN r ELSE Chosen(r, w)

\* LookupAndFillCache on a line that is not
Fill(w) ==
  /\ ~build.fix
  /\ w \in VictimsInSet
  /\ valid' = valid \cup {w}
  /\ r' = UpdateReplacementState(AfterVictim(w), w, FALSE)
  /\ Used(w)
  /\ UNCHANGED <<build, evict, asked>>

\* with ACCEL_L2_EVICT_ON_MISS_FIX a miss asks for a victim and fills it when
\* its line arrives
FindVictim(w) ==
  /\ build.fix
  /\ w \in VictimsInSet
  /\ asked' = asked \cup {w}
  /\ r' = AfterVictim(w)
  /\ UNCHANGED <<build, valid, evict, since>>

FillCache(w) ==
  /\ w \in asked
  /\ asked' = asked \ {w}
  /\ valid' = valid \cup {w}
  /\ evict' = evict \ {w}
  /\ r' = UpdateReplacementState(r, w, FALSE)
  /\ Used(w)
  /\ UNCHANGED build

\* the line is not replaced after all
ClearLineReplacementMask(w) ==
  /\ w \in asked
  /\ asked' = asked \ {w}
  /\ evict' = evict \ {w}
  /\ r' = ClearPseudoLRUPedingWay(r, w)
  /\ UNCHANGED <<build, valid, since>>

Next ==
  \/ \E w \in Ways : Hit(w) \/ FillCache(w) \/ ClearLineReplacementMask(w)
  \/ \E w \in Ways \cap VictimsInSet : Fill(w) \/ FindVictim(w)

Spec == Init /\ [][Next]_vars

----------------------------------------------------------------------------

\* The LRU stack is the order of the ways' last uses, the ways never used
\* below them in the order they are filled: a line is replaced only when
\* assoc other lines of its set were used after it.
LruIsExact ==
  build.policy = "LRU" =>
    /\ {r.pos[w] : w \in Ways} = Ways
    /\ \A v \in valid, w \in Ways : v \in since[w] <=> r.pos[v] < r.pos[w]
    /\ \A v, w \in Ways \ valid : v < w <=> r.pos[v] < r.pos[w]

\* A line is replaced only in a set without free ways.  GetVictimInSet means to
\* look for free ways first, but its test of evict_state, all of whose values are
\* 0, fails on every way that memory happened to give as 0; the policies that
\* rank a way never used below the others do it by themselves.
FreeWaysFirst ==
  build.policy \in {"LRU", "MRU", "RRIP"} /\ valid # Ways => VictimsInSet \cap valid = {}

\* The line used last is never the next victim, in every policy that records
\* uses except those that reset all the ways at once (QUAD_AGE_LRU, RRIP).
LatestIsSafe ==
  /\ build.policy \notin {"RANDOM", "QUAD_AGE_LRU", "RRIP"}
  /\ assoc > 1
  /\ ~build.fix
  => \A w \in VictimsInSet : w \in Ways /\ (w \in valid => since[w] # {})

\* A way whose line is being replaced is not chosen again, and while some way
\* is not being replaced there is one to choose: the masks steer the tree away
\* from the pending ways and back, in whatever order they end.
PendingIsSafe ==
  build.fix =>
    LET victims == VictimsInSet
    IN  /\ asked = r.pending
        /\ victims \cap asked = {}
        /\ asked # Ways => victims # {}
=============================================================================
