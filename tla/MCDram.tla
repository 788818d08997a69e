------------------------------- MODULE MCDram -------------------------------
(***************************************************************************)
(* Two ranks of two banks, with the timing parameters scaled down, and     *)
(* bursts of up to four transactions.                                      *)
(***************************************************************************)
EXTENDS Dram

Scaled == [CL |-> 2, burst |-> 2, tRAS |-> 5, tRCD |-> 3, tRRD |-> 1, tRC |-> 7, tRP |-> 2,
           tCCD |-> 2, tRTP |-> 3, tWTR |-> 1, tWR |-> 2, tRTRS |-> 1, tRFC |-> 5, tFAW |-> 5,
           tCKE |-> 2, tXP |-> 2, tCMD |-> 1, refresh |-> 56]

\* a read or a write of column c of row w in bank b of rank r, by scheme 7
R(r, b, w, c) == [addr |-> ((w * 4 + c) * 2 + r) * 2 + b, write |-> FALSE]
W(r, b, w, c) == [R(r, b, w, c) EXCEPT !.write = TRUE]

Bursts == {
  <<R(0, 0, 0, 0), R(0, 0, 0, 1), R(0, 0, 0, 2), W(0, 0, 0, 3)>>,   \* one row
  <<R(0, 0, 0, 0), W(0, 0, 1, 0), R(0, 0, 0, 1), R(0, 0, 1, 1)>>,   \* two rows of a bank
  <<W(0, 0, 0, 0), R(0, 1, 0, 0), W(0, 1, 0, 1), R(0, 0, 0, 1)>>,   \* two banks
  <<R(0, 0, 0, 0), R(1, 0, 0, 0), W(0, 0, 0, 1), R(1, 0, 0, 1)>>,   \* two ranks
  <<W(1, 0, 0, 0), R(0, 1, 0, 0), R(1, 1, 0, 0), W(0, 0, 1, 0)>>}   \* all the banks

Sgu == [open |-> TRUE, perBank |-> TRUE, rankFirst |-> TRUE, lowPower |-> TRUE,
        t |-> Scaled, ranks |-> 2, banks |-> 2, rows |-> 2, cols |-> 4, scheme |-> 7,
        work |-> Bursts, limit |-> 60]

AlwaysOn == [Sgu EXCEPT !.lowPower = FALSE]
BankFirst == [Sgu EXCEPT !.rankFirst = FALSE, !.scheme = 2]
ClosePage == [Sgu EXCEPT !.open = FALSE, !.scheme = 4]
PerRank == [Sgu EXCEPT !.perBank = FALSE]
ClosePagePerRank == [PerRank EXCEPT !.open = FALSE]

MCBuilds == {Sgu, AlwaysOn, BankFirst, ClosePage, PerRank, ClosePagePerRank}
=============================================================================
