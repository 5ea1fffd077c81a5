SPECIFICATION FairSpec
CONSTANTS
  b1 = b1
  b2 = b2
  b3 = b3
  NoBuffer = NoBuffer
  Buffers <- MCThree
  Habits <- MCHabits
  Spurious = FALSE
  MaxQueue = 2
INVARIANTS
  QueueAgreed
  CurrentIsLocked
  ClientPaced
PROPERTIES
  PostReturns
  PostsShown
\* The client may stop posting.
CHECK_DEADLOCK FALSE
