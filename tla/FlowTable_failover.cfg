SPECIFICATION Spec
CONSTANTS
  n1 = n1
  n2 = n2
  n3 = n3
  r1 = r1
  r2 = r2
  NoNode = NoNode
  Nodes <- TwoNodes
  Rules <- OneRule
  BackupCount = 1
  Operations <- Edits
  TornCopies = FALSE
  MaxInfos = 2
  MaxOps = 2
  MaxRounds = 1
  MaxFaults = 0
INVARIANTS DigestIdentifiesContent BackedUpIsThere
CHECK_DEADLOCK FALSE
SYMMETRY Symmetry
PROPERTY EveryChangeIsNewer
