\* All observations of three replicas, under both policies.
SPECIFICATION Spec
CONSTANTS
  a = a
  b = b
  c = c
  d = d
  NoSite = NoSite
  Sites <- MCSites
  Declared = a
  Replicas <- MCReplicas
  MaxLSN = 2
  MaxTimeline = 1
INVARIANTS TargetIsBest ScanMeetsChoice
CHECK_DEADLOCK FALSE
