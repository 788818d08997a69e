------------------------------ MODULE MCCache ------------------------------
(***************************************************************************)
(* One set under every replacement policy.                                 *)
(***************************************************************************)
EXTENDS Cache

Plain(policy, n) == [policy |-> policy, assoc |-> n, fix |-> FALSE, garbage |-> {}]

MCBuilds ==
  {Plain("LRU", n) : n \in {1, 2, 6}}
    \cup {[Plain("LRU", 4) EXCEPT !.garbage = g] : g \in SUBSET (0 .. 3)}
    \cup {Plain("MRU", n) : n \in {2, 8}}
    \cup {Plain("RANDOM", 4), Plain("RRIP", 4)}
    \cup {Plain("KNH", n) : n \in {2, 4, 8}}
    \cup {Plain("ALL", n) : n \in {2, 4, 8, 10, 12}}
    \cup {Plain(p, 8) : p \in {"PSEUDO_LRU", "HIT_SPECIAL"}}
    \cup {[Plain("QUAD_AGE_LRU", 4) EXCEPT !.garbage = 0 .. 3]}
    \cup {[Plain("PSEUDO_LRU", 8) EXCEPT !.fix = TRUE]}
=============================================================================
