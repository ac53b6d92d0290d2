SPECIFICATION Spec
CONSTANTS
  p1 = p1
  p2 = p2
  i1 = i1
  i2 = i2
  f1 = f1
  f2 = f2
  r1 = r1
  r2 = r2
  r3 = r3
  Packages = {p1, p2}
  Intervals = {i1, i2}
  Features = {f1, f2}
  Requests = {r1, r2, r3}
  Asks <- AllAsks
  Overlapping <- ShortAsks
  Concurrent = 2
  Stock = {p1}
  Nobody = Nobody
SYMMETRY CatalogSymmetry
INVARIANTS
  TypeOK
  OneInitial
  SaleMatchesUpdate
  SaleMatchesOffer
  StaleOnlyAfterRejection
  DeletionCascades
CHECK_DEADLOCK FALSE
