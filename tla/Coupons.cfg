SPECIFICATION CouponSpec
CONSTANTS
  Payments = {p1, p2}
  Users = {u1}
  Owner <- OneOwner
  Discounted = {p1, p2}
  UsageLimit = 1
  Requests = {g1, g2}
  Crons = {c1}
  Sources = {"webhook", "details"}
  AdminTargets = {"success", "failed"}
  PackageCredits = 2
  MaxAttempts = 2
  Firings = 0
  IdsCast = TRUE
  MaxFaults = 1
  MaxUsage = 2
  p1 = p1
  p2 = p2
  u1 = u1
  g1 = g1
  g2 = g2
INVARIANTS
  OverusedOnlyByOverlap
  CountedOncePerRun
  OneActiveSubscription
CHECK_DEADLOCK FALSE
SYMMETRY SameRequests
