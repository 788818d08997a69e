----------------------------- MODULE Relaxation -----------------------------
(***************************************************************************)
(* What the asynchronous engine promises, with no pipeline in it: vertex   *)
(* values only improve, each improvement is one that some edge justifies,  *)
(* and the engine stops, for good, when no edge can improve a value.       *)
(***************************************************************************)
EXTENDS Integers

CONSTANTS
  Vertices,
  Source,
  MaxDist      \* the value of a vertex that has not been reached

VARIABLES
  arcs,        \* triples <<source, destination, weight>>, which never change
  value,
  stopped

Init ==
  /\ arcs \subseteq Vertices \X Vertices \X Nat
  /\ value = [v \in Vertices |-> IF v = Source THEN 0 ELSE MaxDist]
  /\ stopped = FALSE

\* No arc can improve a value.
Fixpoint == \A a \in arcs : value[a[2]] <= value[a[1]] + a[3]

\* A value may come from an arc's source as it was some time ago.
Improve(v, d) ==
  /\ ~stopped
  /\ d < value[v]
  /\ \E a \in arcs : a[2] = v /\ value[a[1]] + a[3] <= d
  /\ value' = [value EXCEPT ![v] = d]
  /\ UNCHANGED <<arcs, stopped>>

Stop ==
  /\ ~stopped
  /\ Fixpoint
  /\ stopped' = TRUE
  /\ UNCHANGED <<arcs, value>>

Next == Stop \/ \E v \in Vertices, d \in 0 .. MaxDist : Improve(v, d)

Safety == Init /\ [][Next]_<<arcs, value, stopped>>
Spec == Safety /\ WF_<<arcs, value, stopped>>(Next)
=============================================================================
