SPECIFICATION Spec
CONSTANTS
  d1 = d1
  d2 = d2
  v1 = v1
  v2 = v2
  r1 = r1
  r2 = r2
  r3 = r3
  Kinds <- AllKinds
  Docs = {d1, d2}
  Values = {v1, v2}
  NoValue = NoValue
  Requests = {r1, r2}
  Overlapping <- CallNames
  Concurrent = 2
SYMMETRY CollectionsSymmetry
INVARIANTS
  TypeOK
  SharedOnlyByRaceOrRestore
  OneInitialSetting
  VersionsRecorded
  StaleOnlyIfSuspect
PROPERTIES
  ReportsAreTrue
CHECK_DEADLOCK FALSE
