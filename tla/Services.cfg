SPECIFICATION ServicesSpec
CONSTANTS
  a1 = a1
  a2 = a2
  r1 = r1
  r2 = r2
  r3 = r3
  Usages = {a1, a2}
  Packages = {"basic", "pro"}
  Features <- TwoKinds
  Minimums = {0, 2}
  Costs = {2}
  PackageCredits = 2
  MaxEvents = 1
  Docs = {a1, a2}
  Uploaders = {r1, r2, r3}
  MaxFaults = 1
SYMMETRY ServicesSymmetry
INVARIANTS
  AnswersHeld
  MissingOnlyAfterRace
  LeftoverHasReason
PROPERTIES
  ChargesCovered
CHECK_DEADLOCK FALSE
