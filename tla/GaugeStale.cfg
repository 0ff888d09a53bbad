\* As Report: the series of a site that was removed from the spec still count.
SPECIFICATION Spec
CONSTANTS
  a = a
  b = b
  NoSite = NoSite
  Sites <- MCSites
  Declared = a
  Replicas <- MCReplicas
  Word = 2
  Unknown = Unknown
  MaxFaults = 1
INVARIANT AlertIgnoresRemovedSites
