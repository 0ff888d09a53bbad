\* Liveness in both modes, with an outage, a failed call or a crash, requests and mode switches.
SPECIFICATION FairSpec
CONSTANTS
  a = a
  b = b
  c = c
  NoSite = NoSite
  Sites <- MCSites
  Declared = a
  Replicas <- MCReplicas
  Policy = "Ordered"
  Threshold = 2
  Rejoin = "AutoReplica"
  Endpoints = {a, b, c}
  Repointable = {a, b, c}
  InitModes = {"Manual"}
  StaleReads = FALSE
  SlowFences = TRUE
  Recoveries = TRUE
  MidwayEdits = TRUE
  Outages = {"unready", "delete"}
  Chores = {"annotate", "mode"}
  Faults = {"call", "crash"}
  MaxOutages = 1
  MaxFaults = 1
  MaxChores = 2
INVARIANTS AcceptedIsPrimary SourcesReachPrimary
PROPERTIES FailoverHappens ReplicasFollow RequestSettled
