\* Two requests and two outages; CNPG is slow to stop a fenced site.
SPECIFICATION Spec
CONSTANTS
  a = a
  b = b
  c = c
  NoSite = NoSite
  Sites <- MCSites
  Declared = a
  Replicas <- MCReplicas
  Policy = "MostAdvancedLSN"
  Threshold = 2
  Rejoin = "AutoReplica"
  Endpoints = {a, b, c}
  Repointable = {a, b, c}
  InitModes = {"Manual"}
  StaleReads = FALSE
  SlowFences = TRUE
  Recoveries = FALSE
  MidwayEdits = FALSE
  Outages = {"unready", "delete"}
  Chores = {"annotate"}
  Faults = {}
  MaxOutages = 2
  MaxFaults = 0
  MaxChores = 2
PROPERTIES TokenPasses
