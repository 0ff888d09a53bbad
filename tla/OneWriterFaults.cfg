\* One call fails or loses its reply during an automatic failover.
SPECIFICATION Spec
CONSTANTS
  a = a
  b = b
  c = c
  NoSite = NoSite
  Sites <- MCSites
  Declared = a
  Replicas <- MCReplicas
  Policy = "MostAdvancedLSN"
  Threshold = 2
  Rejoin = "Manual"
  Endpoints = {a, b, c}
  Repointable = {a, b, c}
  InitModes = {"Automatic"}
  StaleReads = FALSE
  SlowFences = TRUE
  Recoveries = TRUE
  MidwayEdits = TRUE
  Outages = {"unready"}
  Chores = {}
  Faults = {"call"}
  MaxOutages = 1
  MaxFaults = 1
  MaxChores = 0
INVARIANTS OneWriter
