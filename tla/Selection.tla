------------------------------ MODULE Selection ------------------------------
(***************************************************************************)
(* Loops that walk over a list once and keep some of its entries.          *)
(***************************************************************************)
EXTENDS Integers, Sequences

\* The entries of s at the positions in I, in their order: what is left of a
\* list<task_entry> or vector<int> after the loop over it.
Selected(s, I) ==
  LET after[n \in 0 .. Len(s)] ==
        IF n = 0 THEN <<>>
        ELSE IF n \in I THEN Append(after[n - 1], s[n]) ELSE after[n - 1]
  IN after[Len(s)]
=============================================================================
