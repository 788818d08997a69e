------------------------- MODULE MCCompletionBuffer -------------------------
(***************************************************************************)
(* Small instances of CompletionBuffer: a ring that wraps after a few      *)
(* entries, queues of one entry, and fewer lines than entries, so that     *)
(* reads of the same line meet.                                            *)
(***************************************************************************)
EXTENDS CompletionBuffer, TLC

CONSTANTS c1, c2, e1, e2, v1, l1, l2

MCCores == {c1, c2}
MCEdges == {e1, e2}
MCVertexLines == {v1}
MCEdgeLines == {l1, l2}

OnlyDummy == {Dummy}
Uninitialised == {Stray}

\* One core at work.
Alone(sync, allEdges, edgeCache, fresh) ==
  [sync |-> sync, allEdges |-> allEdges, edgeCache |-> edgeCache, fresh |-> fresh,
   edgesOf |-> [c \in MCCores |-> IF c = c1 THEN MCEdges ELSE {}], longTasks |-> TRUE]
\* Two cores that read the same lines, for vertices of one edge each.
Shared(edgeCache) ==
  [sync |-> FALSE, allEdges |-> FALSE, edgeCache |-> edgeCache, fresh |-> OnlyDummy,
   edgesOf |-> [c \in MCCores |-> IF c = c1 THEN {e1} ELSE {e2}], longTasks |-> FALSE]

\* All builds but the synchronous ones with the L2.
Sound ==
  {Alone(FALSE, allEdges, edgeCache, Uninitialised) : allEdges \in BOOLEAN, edgeCache \in BOOLEAN}
    \cup {Alone(TRUE, allEdges, FALSE, OnlyDummy) : allEdges \in BOOLEAN}
    \cup {Shared(FALSE)}

\* The builds that disagree with the sources.
SyncUninitialised == {Alone(TRUE, FALSE, FALSE, Uninitialised)}
SyncCached == {Alone(TRUE, FALSE, TRUE, OnlyDummy)}
=============================================================================
