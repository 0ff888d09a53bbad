\* Any single outage, failed call and human action, read through a lagging cache.
SPECIFICATION Spec
CONSTANTS
  a = a
  b = b
  c = c
  NoSite = NoSite
  Sites <- MCSites
  Declared = a
  Replicas <- MCReplicas
  Policy = "MostAdvancedLSN"
  Threshold = 2
  Rejoin = "Manual"
  Endpoints = {a, b, c}
  Repointable = {a, b, c}
  InitModes = {"Automatic"}
  StaleReads = TRUE
  SlowFences = TRUE
  Recoveries = TRUE
  MidwayEdits = TRUE
  Outages = {"unready", "unreach", "delete"}
  Chores = {"unfence", "restore", "annotate", "mode", "recreate", "convert"}
  Faults = {"call"}
  MaxOutages = 1
  MaxFaults = 1
  MaxChores = 1
INVARIANTS TypeOK FencedBeforePromote
PROPERTIES ManualRejoinKeepsData HandOver
