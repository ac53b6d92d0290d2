SPECIFICATION Spec
CONSTANTS
  Payments = {p1}
  Users = {u1}
  Owner <- OneOwner
  Discounted = {}
  Requests = {g1, g2}
  Crons = {c1}
  Sources = {"webhook", "redirect", "verify", "reconcile", "admin", "refund"}
  AdminTargets = {"success", "failed"}
  PackageCredits = 2
  MaxAttempts = 3
  Firings = 1
  IdsCast = TRUE
  MaxFaults = 1
  MaxUsage = 2
  p1 = p1
  p2 = p2
  u1 = u1
  g1 = g1
  g2 = g2
INVARIANTS
  CreditedAtMostOnce
  ProcessedIffCredited
PROPERTIES
  SettlesLedger
  CreditsWhileSettled
  IllegalOnlyIfStale
SYMMETRY SameRequests
