----------------------------- MODULE Settlement -----------------------------
(***************************************************************************)
(* What the settlement of payments promises to a user's wallet: a payment  *)
(* adds its credits at most once, a refund takes them back at most once,   *)
(* and nothing else a payment does moves the balance.                      *)
(***************************************************************************)
EXTENDS Integers

CONSTANTS Payments, Users, Owner, PackageCredits

VARIABLES
  credited,   \* payments whose credits were added
  returned,   \* payments whose credits were taken back
  balance     \* wallet balances

Init ==
  /\ credited = {}
  /\ returned = {}
  /\ balance = [u \in Users |-> 0]

Credit(p) ==
  /\ p \notin credited
  /\ credited' = credited \cup {p}
  /\ balance' = [balance EXCEPT ![Owner[p]] = @ + PackageCredits]
  /\ UNCHANGED returned

Return(p) ==
  /\ p \notin returned
  /\ returned' = returned \cup {p}
  /\ balance' = [balance EXCEPT ![Owner[p]] = @ - PackageCredits]
  /\ UNCHANGED credited

Next == \E p \in Payments : Credit(p) \/ Return(p)

Spec == Init /\ [][Next]_<<credited, returned, balance>>
=============================================================================
