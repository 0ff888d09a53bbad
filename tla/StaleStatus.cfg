\* A manual promotion, then a Reconcile from a lagging cache.
SPECIFICATION Spec
CONSTANTS
  a = a
  b = b
  c = c
  NoSite = NoSite
  Sites <- MCSites
  Declared = a
  Replicas <- MCReplicas
  Policy = "MostAdvancedLSN"
  Threshold = 2
  Rejoin = "AutoReplica"
  Endpoints = {a, b, c}
  Repointable = {a, b, c}
  InitModes = {"Manual"}
  StaleReads = TRUE
  SlowFences = TRUE
  Recoveries = TRUE
  MidwayEdits = TRUE
  Outages = {"unready"}
  Chores = {"annotate"}
  Faults = {}
  MaxOutages = 1
  MaxFaults = 0
  MaxChores = 1
INVARIANTS AcceptedIsPrimary
