\* An automatic failover, then the old primary is rebuilt.
SPECIFICATION FairSpec
CONSTANTS
  a = a
  b = b
  c = c
  NoSite = NoSite
  Sites <- MCSites
  Declared = a
  Replicas <- MCReplicas
  Policy = "MostAdvancedLSN"
  Threshold = 2
  Rejoin = "AutoReplica"
  Endpoints = {a, b, c}
  Repointable = {a, b, c}
  InitModes = {"Automatic"}
  StaleReads = FALSE
  SlowFences = TRUE
  Recoveries = TRUE
  MidwayEdits = TRUE
  Outages = {"unready"}
  Chores = {}
  Faults = {}
  MaxOutages = 1
  MaxFaults = 0
  MaxChores = 0
PROPERTIES RejoinedReplicaServes
