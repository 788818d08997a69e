--------------------------- MODULE MCDistribution ---------------------------
(* Instances of Distribution: three vertices on two cores of one group.     *)
EXTENDS Distribution

MCOwner == [v \in Vertices |-> IF v = 3 THEN 1 ELSE 0]

Base == [alg |-> "min", WORK_STEALING |-> TRUE, PRAC |-> TRUE,
         DYN_LOAD_BAL |-> FALSE, ENTRY_ABORT |-> TRUE]
Direct == [Base EXCEPT !.PRAC = FALSE]
Sharing == [Base EXCEPT !.DYN_LOAD_BAL = TRUE]
Central == [Direct EXCEPT !.WORK_STEALING = FALSE, !.ENTRY_ABORT = FALSE]
CentralAny == [Central EXCEPT !.PRAC = TRUE]
CentralSharing == [Central EXCEPT !.DYN_LOAD_BAL = TRUE]
PageRank == [Base EXCEPT !.alg = "pr", !.ENTRY_ABORT = FALSE]
PageRankSharing == [PageRank EXCEPT !.DYN_LOAD_BAL = TRUE]
MCBuilds == {Direct, Sharing, Central, CentralAny, CentralSharing, PageRank,
             PageRankSharing}
MCPageRankDefault == {[Base EXCEPT !.alg = "pr"]}

=============================================================================
