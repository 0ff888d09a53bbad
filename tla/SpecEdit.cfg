\* The list of replicas is edited between its observation and the choice of a target.
SPECIFICATION Spec
CONSTANTS
  b = b
  c = c
  None = None
  Names <- MCNames
  MaxReplicas = 2
  MaxEdits = 1
INVARIANT TargetWasHealthy
