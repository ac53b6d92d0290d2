------------------------------ MODULE MCCoupons ------------------------------
(* A small instance of Coupons: the payments of one user.  The requests    *)
(* that can be in flight are interchangeable.                              *)
EXTENDS Coupons, TLC

CONSTANTS p1, p2, u1, g1, g2

OneOwner == [p \in Payments |-> u1]
SameRequests == Permutations(Requests)
=============================================================================
