---------------------------- MODULE MCTaskQueue ----------------------------
(***************************************************************************)
(* Small instances of TaskQueue: vertex n has n - 1 outgoing edges, so one *)
(* vertex is a sink and one is issued in up to two parts.                  *)
(***************************************************************************)
EXTENDS TaskQueue

CONSTANT NumVertices

MCVertices == 1 .. NumVertices
MCDegree == [v \in MCVertices |-> (v - 1) % 3]
=============================================================================
