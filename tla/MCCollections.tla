---------------------------- MODULE MCCollections ----------------------------
(* A small instance of Collections, for all the kinds. *)
EXTENDS Collections, TLC

CONSTANTS d1, d2, v1, v2, r1, r2, r3

CollectionsSymmetry ==
  Permutations(Docs) \cup Permutations(Values) \cup Permutations(Requests)
=============================================================================
