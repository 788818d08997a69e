--------------------------- MODULE MCAsyncEngine ---------------------------
(***************************************************************************)
(* Small graphs on two cores for AsyncEngine.                              *)
(***************************************************************************)
EXTENDS AsyncEngine

CONSTANT NumVertices

MCVertices == 1 .. NumVertices
To(v, w) == [dst |-> v, wgt |-> w]

\* Direct edges are worse than the paths along 2 and 3, which close a cycle.
Cycle == <<<<To(3, 3), To(2, 1), To(4, 4)>>, <<To(3, 1)>>, <<To(2, 1), To(4, 1)>>, <<>>, <<>>>>

\* Unit weights: 2 is reached along two paths of different lengths, and its
\* neighbours are on the other core.
Funnel == <<<<To(2, 1), To(3, 1)>>, <<To(4, 1), To(4, 1), To(4, 1)>>, <<To(2, 1), To(5, 1)>>,
            <<>>, <<>>>>

Build(out, onCoreOne, fifo, multicast) ==
  [out |-> out, owner |-> [v \in MCVertices |-> IF v \in onCoreOne THEN 1 ELSE 0],
   fifo |-> fifo, multicast |-> multicast]

\* In the first build the source's owner is not core 0.
MCBuilds == {Build(Cycle, {1, 3, 4}, FALSE, FALSE), Build(Funnel, {2}, TRUE, TRUE)}
=============================================================================
