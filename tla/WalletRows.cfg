SPECIFICATION FairSpec
CONSTANTS
  r1 = r1
  r2 = r2
  r3 = r3
  r4 = r4
  Requests = {r1, r2, r3}
  Calls = {"assignPackage", "deletePackageTransaction", "restorePackageTransaction", "charge", "settle", "refund", "deleteUserWallet", "deleteUserWalletPermanent", "restoreUserWallet", "deletePackageTransactionPermanent", "restorePackageTransactions"}
  Credits <- SmallCredits
  Concurrent = 2
  MaxFaults = 1
INVARIANTS
  TakenBackOnce
PROPERTIES
  OverdueExpire
CHECK_DEADLOCK FALSE
