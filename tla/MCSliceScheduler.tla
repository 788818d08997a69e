-------------------------- MODULE MCSliceScheduler --------------------------
(***************************************************************************)
(* Small graphs, cut into two slices, for SliceScheduler.                  *)
(***************************************************************************)
EXTENDS SliceScheduler

CONSTANT Graph

To(v, w) == [dst |-> v, wgt |-> w]

\* Slice 0 is {0, .., 4}, slice 1 is {5, .., 8}.  The source feeds four vertices
\* of its slice, which fill the task queue and spill; paths cross the cut both
\* ways, and 3 and 5 improve more than once.
Weave == <<<<To(1, 1), To(2, 2), To(3, 6), To(4, 7)>>, <<To(5, 3)>>,
           <<To(5, 1), To(3, 2)>>, <<To(6, 1)>>, <<>>,
           <<To(3, 0), To(6, 5)>>, <<To(4, 0)>>, <<>>, <<>>>>

\* One edge, to the other slice, and one back.
Hop == <<<<To(2, 1)>>, <<>>, <<To(1, 1)>>, <<>>>>

MCOut ==
  LET g == CASE Graph = "weave" -> Weave
             [] Graph = "hop" -> Hop
  IN [v \in Vertices |-> g[v + 1]]
MCOwner == [v \in Vertices |-> v % NumCores]

AsyncCut == [exec |-> "async", hrst |-> TRUE, abcd |-> FALSE]
Async == [AsyncCut EXCEPT !.hrst = FALSE]
AsyncByGradient == [Async EXCEPT !.abcd = TRUE]
Sync == [Async EXCEPT !.exec = "sync"]
Blocked == [Async EXCEPT !.exec = "blocked"]

PassingBuilds == {AsyncCut, Async, Blocked}
SyncBuilds == {Sync}
GradientBuilds == {AsyncByGradient}
=============================================================================
