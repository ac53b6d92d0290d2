SPECIFICATION FairSpec
CONSTANTS
  j1 = j1
  j2 = j2
  j3 = j3
  u1 = u1
  u2 = u2
  w1 = w1
  w2 = w2
  e1 = e1
  e2 = e2
  d1 = d1
  d2 = d2
  QueueJobs = {j1, j2}
  HttpJobs = {j3}
  Users = {u1}
  UserOf <- SameUser
  Workers = {w1, w2}
  Envelopes = {e1, e2}
  Deliveries = {d1, d2}
  MAX_BATCH_SIZE = 2
  Removable = {j2}
  Failures = {"nack"}
  MaxFaults = 2
PROPERTIES
  EveryQueuedUsageCharged
CHECK_DEADLOCK FALSE
