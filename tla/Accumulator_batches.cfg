SPECIFICATION FairSpec
CONSTANTS
  i1 = i1
  i2 = i2
  i3 = i3
  Timer = Timer
  NoTask = NoTask
  Items <- ThreeItems
  Early <- OnlyNow
  MaxItems = 2
  MaxStalls = 1
INVARIANT TypeOK
PROPERTIES Batches ProcessedIfPunctual
CHECK_DEADLOCK FALSE
