\* Chains of failovers, requested and automatic; old primaries are rebuilt and put back into service.
SPECIFICATION Spec
CONSTANTS
  a = a
  b = b
  c = c
  NoSite = NoSite
  Sites <- MCSites
  Declared = a
  Replicas <- MCReplicas
  Policy = "MostAdvancedLSN"
  Threshold = 2
  Rejoin = "AutoReplica"
  Endpoints = {a, b, c}
  Repointable = {a, b, c}
  InitModes = {"Manual", "Automatic"}
  StaleReads = FALSE
  SlowFences = FALSE
  Recoveries = TRUE
  MidwayEdits = FALSE
  Outages = {"unready", "delete"}
  Chores = {"annotate", "rejoin"}
  Faults = {}
  MaxOutages = 3
  MaxFaults = 0
  MaxChores = 3
INVARIANTS OneWriter TrafficFollows ThresholdRespected 
PROPERTIES TokenPasses
