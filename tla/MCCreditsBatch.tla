--------------------------- MODULE MCCreditsBatch ---------------------------
(* Small instances of CreditsBatch. *)
EXTENDS CreditsBatch, TLC

CONSTANTS j1, j2, j3, u1, u2, w1, w2, e1, e2, d1, d2

SameUser == [j \in Jobs |-> u1]
OwnUser == [j \in Jobs |-> IF j = j1 THEN u1 ELSE u2]

BatchSymmetry == Permutations(Envelopes) \cup Permutations(Deliveries)
=============================================================================
