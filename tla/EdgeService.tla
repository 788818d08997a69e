---------------------------- MODULE EdgeService ----------------------------
(***************************************************************************)
(* What the task queue of a core promises to the rest of the machine, with *)
(* no queues in it: when a vertex improves, every one of its edges owes    *)
(* the new value, and every owed edge is eventually issued.                *)
(***************************************************************************)
CONSTANTS
  Vertices,
  EdgeSet      \* pairs <<vertex, edge>>

VARIABLE owed  \* the edges that have not carried the latest value

Init == owed = {}

\* Vertex v improves.
Improve(v) == owed' = owed \cup {x \in EdgeSet : x[1] = v}

\* A burst of edges is issued with the current values.
IssueBurst(X) == owed' = owed \ X

IssueEdge(x) ==
  /\ x \in owed
  /\ \E X \in SUBSET EdgeSet : x \in X /\ IssueBurst(X)

Next ==
  \/ \E v \in Vertices : Improve(v)
  \/ \E X \in SUBSET EdgeSet : IssueBurst(X)

Safety == Init /\ [][Next]_owed

Spec == Safety /\ \A x \in EdgeSet : WF_owed(IssueEdge(x))
=============================================================================
