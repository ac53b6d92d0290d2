SPECIFICATION FairSpec
CONSTANTS
  Payments = {p1}
  Users = {u1}
  Owner <- OneOwner
  Discounted = {}
  Requests = {g1}
  Crons = {c1}
  Sources = {"webhook", "reconcile", "redirect", "verify", "refund"}
  AdminTargets = {"success", "failed"}
  PackageCredits = 2
  MaxAttempts = 3
  Firings = 3
  IdsCast = TRUE
  MaxFaults = 2
  MaxUsage = 2
  p1 = p1
  p2 = p2
  u1 = u1
  g1 = g1
  g2 = g2
PROPERTIES
  SettledIsProcessed
  PaidIsCredited
CHECK_DEADLOCK FALSE
