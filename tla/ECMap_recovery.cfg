SPECIFICATION FairSpec
CONSTANTS
  n1 = n1
  n2 = n2
  k1 = k1
  v1 = v1
  NoValue = NoValue
  Nodes <- TwoNodes
  Keys <- OneKey
  Values <- OneValue
  TombstonesDisabled = FALSE
  Persistent = TRUE
  Faults <- AllFaults
  MaxTs = 1
  MaxTime = 1
  MaxFaults = 3
  MaxUpdates = 1
  MaxExchanges = 1
PROPERTY Converges
CHECK_DEADLOCK FALSE
