----------------------------- MODULE MCPreparation -----------------------------
(* Instances of Preparation: eight vertices on a mesh of four cores.          *)
EXTENDS Preparation

E(u, v, w) == [src |-> u, dst |-> v, wgt |-> w]

\* The files are the subsequences of one file: a shortcut that a longer path
\* beats, searches that meet vertices out of order, edges within slices and
\* between them, and vertices without edges before, between and after those
\* with some.
Whole == << E(0, 2, 5), E(0, 4, 1), E(1, 6, 1), E(1, 7, 2), E(4, 1, 2), E(4, 2, 1),
            E(5, 2, 9), E(6, 3, 1), E(7, 5, 3), E(7, 6, 1) >>
Pick(S) == SelectSeq([i \in DOMAIN Whole |-> [i |-> i, e |-> Whole[i]]],
                     LAMBDA x : x.i \in S)
MCFiles == {[j \in DOMAIN Pick(S) |-> Pick(S)[j].e] :
            S \in {T \in SUBSET DOMAIN Whole : Cardinality(T) >= 4}}

Parity == [v \in Vertices |-> v % 2]
Corners == [v \in Vertices |-> IF v \in {0, 3, 5, 6} THEN 1 ELSE 0]
MCMetis == {Parity, Corners}

Base == [exec |-> "async_slicing", slices |-> 2, metis |-> FALSE, part |-> "linear",
         noload |-> FALSE, blocked |-> FALSE, hilbert |-> FALSE]
Whole1 == [Base EXCEPT !.exec = "async", !.slices = 1]
Renamed == [Base EXCEPT !.metis = TRUE, !.part = "modulo"]
Searched == [Base EXCEPT !.metis = TRUE, !.part = "bdfs"]
Loaded == [Base EXCEPT !.part = "bdfs", !.hilbert = TRUE]
Clusters == [Base EXCEPT !.part = "bdfs", !.noload = TRUE, !.blocked = TRUE,
             !.hilbert = TRUE]
Strides == [Clusters EXCEPT !.hilbert = FALSE]
Crowded == [Strides EXCEPT !.blocked = FALSE]
Sync == [Base EXCEPT !.exec = "sync_slicing", !.part = "balanced"]
Scattered == [Base EXCEPT !.part = "balanced", !.blocked = TRUE]
SyncWhole == [Sync EXCEPT !.slices = 1]
MCBuilds == {Base, Whole1, Renamed, Searched, Loaded, Clusters, Strides, Crowded,
             Scattered, Sync, SyncWhole}

=============================================================================
