------------------------------ MODULE MCWallet ------------------------------
(* Small instances of Wallet. *)
EXTENDS Wallet, TLC

CONSTANTS r1, r2, r3, r4

(* A package is worth two of what most calls move, and a charge enough to  *)
(* overdraw a wallet by more than that.                                    *)
SmallCredits == [c \in CallNames |-> IF c \in Assigns \cup {"settle"} THEN 2
                                     ELSE IF c = "charge" THEN 5 ELSE 1]

RequestSymmetry == Permutations(Requests)
=============================================================================
