----------------------------- MODULE MCSession -----------------------------
(* Session for TLC: requests and passwords that can be exchanged. *)
EXTENDS Session, TLC

CONSTANTS r1, r2, r3, w1, w2

SessionSymmetry == Permutations(Requests) \cup Permutations(Passwords)
=============================================================================
