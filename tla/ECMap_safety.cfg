SPECIFICATION Spec
CONSTANTS
  n1 = n1
  n2 = n2
  k1 = k1
  v1 = v1
  NoValue = NoValue
  Nodes <- TwoNodes
  Keys <- OneKey
  Values <- OneValue
  TombstonesDisabled = FALSE
  Persistent = FALSE
  Faults <- NoFaults
  MaxTs = 2
  MaxTime = 2
  MaxFaults = 0
  MaxUpdates = 1
  MaxExchanges = 1
INVARIANTS TypeOK Agreement
PROPERTY NeverOlder
CHECK_DEADLOCK FALSE
SYMMETRY Symmetry
