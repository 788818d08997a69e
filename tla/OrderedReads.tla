---------------------------- MODULE OrderedReads ----------------------------
(***************************************************************************)
(* What the completion buffers promise: every core gets its edges back     *)
(* once each and in the order it asked for them, whatever the order in     *)
(* which memory answers.                                                   *)
(***************************************************************************)
EXTENDS Sequences

CONSTANTS
  Cores,
  Edges,
  Nothing      \* no edge came back yet

VARIABLES
  asked,       \* the edges each core asked for and has not got
  got          \* the last edge each core got

Init ==
  /\ asked = [c \in Cores |-> <<>>]
  /\ got = [c \in Cores |-> Nothing]

Ask(c, e) ==
  /\ asked' = [asked EXCEPT ![c] = Append(@, e)]
  /\ UNCHANGED got

Get(c) ==
  /\ asked[c] # <<>>
  /\ asked' = [asked EXCEPT ![c] = Tail(@)]
  /\ got' = [got EXCEPT ![c] = Head(asked[c])]

Next == \E c \in Cores : Get(c) \/ \E e \in Edges : Ask(c, e)

Safety == Init /\ [][Next]_<<asked, got>>

Spec ==
  /\ Safety
  /\ \A c \in Cores : WF_<<asked, got>>(Get(c))
=============================================================================
