----------------------------- MODULE MCPayment -----------------------------
(* Instances of Payment for TLC: small sets, one wallet owner per instance. *)
(* The requests that can be in flight are interchangeable.                  *)
EXTENDS Payment, TLC

CONSTANTS p1, p2, u1, g1, g2

OneOwner == [p \in Payments |-> u1]
SameRequests == Permutations(Requests)
=============================================================================
