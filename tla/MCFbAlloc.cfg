SPECIFICATION AllocSpec
CONSTANTS
  t1 = t1
  t2 = t2
  NoThread = NoThread
  Threads <- MCOne
  MaxBuffers = 4
  MaxHandles = 5
INVARIANTS
  SlotsAgree
