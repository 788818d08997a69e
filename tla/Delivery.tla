------------------------------ MODULE Delivery ------------------------------
(***************************************************************************)
(* What the mesh promises the pipelines: every message a core hands over   *)
(* is handed on at its destination once, after any delay and in any order. *)
(***************************************************************************)
EXTENDS Bags

VARIABLES
  travelling,      \* messages handed over and not handed on
  arrived          \* a bag: how often each message was handed on

Init == travelling = {} /\ arrived = EmptyBag

\* Some new messages are handed over.
Send ==
  /\ travelling \subseteq travelling'
  /\ travelling' \cap BagToSet(arrived) = {}
  /\ UNCHANGED arrived

\* Some messages are handed on.
Arrive ==
  /\ travelling' \subseteq travelling
  /\ arrived' = arrived (+) SetToBag(travelling \ travelling')

Spec == Init /\ [][Send \/ Arrive]_<<travelling, arrived>>
=============================================================================
