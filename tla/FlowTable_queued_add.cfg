SPECIFICATION Spec
CONSTANTS
  n1 = n1
  n2 = n2
  n3 = n3
  r1 = r1
  r2 = r2
  NoNode = NoNode
  Nodes <- TwoNodes
  Rules <- TwoRules
  BackupCount = 1
  Operations <- Adds
  TornCopies = FALSE
  MaxInfos = 2
  MaxOps = 2
  MaxRounds = 0
  MaxFaults = 0
PROPERTY QueuedAddIsThere
CHECK_DEADLOCK FALSE
SYMMETRY Symmetry
