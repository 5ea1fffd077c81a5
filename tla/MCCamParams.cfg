SPECIFICATION Spec
CONSTANTS
  Edits <- MCEdits
  MaxZoom = 5
  MayFail <- MCMayFail
  Infos <- MCInfos
  MaxCalls = 2
  MaxPictures = 2
INVARIANTS
  EffectNeedsAutoBalance
  DriverHasStored
  StampedAsTaken
CHECK_DEADLOCK FALSE
