----------------------------- MODULE MCNetwork -----------------------------
(***************************************************************************)
(* Meshes of two and of four rows for Network.                             *)
(***************************************************************************)
EXTENDS Network

Lists(cores, n) == UNION {[1 .. k -> cores] : k \in 1 .. n}

Scalar2 == [rows |-> 2, multicast |-> FALSE, delay |-> Immediate, junk |-> 0, packets |-> 2,
            froms |-> 0 .. 3, lists |-> Lists(0 .. 3, 1), reads |-> (0 .. 3) \X {3}]
Multicast2 == [Scalar2 EXCEPT !.multicast = TRUE, !.lists = Lists(0 .. 3, 2), !.reads = {}]
Delayed2 == [Multicast2 EXCEPT !.delay = 1, !.lists = Lists(0 .. 3, 1)]
Scalar4 == [Scalar2 EXCEPT !.rows = 4, !.packets = 1, !.froms = 0 .. 15,
                           !.lists = Lists(0 .. 15, 1), !.reads = {}]
Multicast4 == [Scalar4 EXCEPT !.multicast = TRUE, !.froms = {3, 12}, !.lists = Lists(0 .. 15, 2)]
Junk2 == [Multicast2 EXCEPT !.packets = 1, !.lists = Lists(0 .. 3, 3), !.junk = 1]

MCBuilds == {Scalar2, Multicast2, Delayed2, Scalar4, Multicast4, Junk2}
=============================================================================
