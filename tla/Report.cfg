\* Two sites, all observations with WAL positions of two bits, one edit of the site list or failed update.
SPECIFICATION Spec
CONSTANTS
  a = a
  b = b
  NoSite = NoSite
  Sites <- MCSites
  Declared = a
  Replicas <- MCReplicas
  Word = 2
  Unknown = Unknown
  MaxFaults = 1
INVARIANTS LagIsDistance OneSeriesPerSite AlertCountsPrimaries StatusTellsSites
