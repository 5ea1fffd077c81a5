SPECIFICATION FairWakeSpec
CONSTANTS
  v1 = v1
  v2 = v2
  i1 = i1
  i2 = i2
  i3 = i3
  NoInfo = NoInfo
  Senders <- MCTwo
  Infos <- MCInfos
  MaxCalls = 4
INVARIANTS
  LockHasOwner
  InfosAccounted
PROPERTIES
  SleepsAgain
CHECK_DEADLOCK FALSE
