SPECIFICATION Spec
CONSTANTS
  n1 = n1
  n2 = n2
  n3 = n3
  r1 = r1
  r2 = r2
  NoNode = NoNode
  Nodes <- ThreeNodes
  Rules <- OneRule
  BackupCount = 1
  Operations <- Purges
  TornCopies = TRUE
  MaxInfos = 2
  MaxOps = 2
  MaxRounds = 0
  MaxFaults = 1
INVARIANTS TypeOK ClockCoversBuckets
CHECK_DEADLOCK FALSE
SYMMETRY Symmetry
