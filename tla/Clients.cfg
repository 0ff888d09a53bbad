\* Two concurrent reconciles, three references into two Secrets, two edits and one failed read.
SPECIFICATION FairSpec
CONSTANTS
  t1 = t1
  t2 = t2
  NoClient = NoClient
  Refs <- MCRefs
  Callers <- MCCallers
  MaxEdits = 2
  MaxFaults = 1
INVARIANTS TypeOK OwnKubeconfig ReadIsUsed
PROPERTIES RotationPickedUp
