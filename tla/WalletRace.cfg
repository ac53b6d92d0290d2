SPECIFICATION Spec
CONSTANTS
  r1 = r1
  r2 = r2
  r3 = r3
  r4 = r4
  Requests = {r1, r2, r3}
  Calls = {"giveInitialCredits", "giveBonusCredits", "assignPackage", "giveInitialPackage", "increase", "decrease", "creditsProcessStart", "charge", "settle", "refund", "updateUserWallet", "deleteUserWallet", "deleteUserWalletPermanent", "restoreUserWallet", "deletePackageTransaction", "restorePackageTransaction", "getUserWallet"}
  Credits <- SmallCredits
  Concurrent = 3
  MaxFaults = 1
SYMMETRY RequestSymmetry
INVARIANTS
  LedgerMatches
  GrantsOnce
  CacheFresh
CHECK_DEADLOCK FALSE
