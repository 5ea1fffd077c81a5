SPECIFICATION FairSpec
CONSTANTS
  c1 = c1
  c2 = c2
  Callers <- MCCallers
  Calls <- MCCalls
  MsgGroups <- MCGroups
  CallbackLocks = FALSE
  InitMsgs <- MCInit
  MaxCalls <- MCMax
INVARIANTS
  HeapsInUse
  FocusOnPreview
PROPERTIES
  NoPreviewInSnapshot
  OneThreadOfAKind
  CallsReturn
CHECK_DEADLOCK FALSE
