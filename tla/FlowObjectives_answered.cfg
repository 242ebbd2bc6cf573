SPECIFICATION FairSpec
CONSTANTS
  f1 = f1
  f2 = f2
  n1 = n1
  n2 = n2
  sel = sel
  next = next
  g = g
  NoNext = NoNext
  NoObjective = NoObjective
  Objectives <- Four
  Keys <- BothKeys
  NextIds <- OneGroup
  KeyOf <- MCKeyOf
  NextOf <- MCNextOf
  OpOf <- MCOpOf
INVARIANTS TypeOK NoLostNotification HeadInProgress OneAtATime
PROPERTY Answered
ACTION_CONSTRAINT ThreeOfThem
CHECK_DEADLOCK FALSE
