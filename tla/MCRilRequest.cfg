SPECIFICATION FairSpec
CONSTANTS
  r1 = r1
  r2 = r2
  v1 = v1
  disp = disp
  NoThread = NoThread
  Dispatch <- MCDispatch
  Vendors <- MCVendors
  MaxClients = 2
  Requests <- MCRequests
INVARIANTS
  CancelledInTime
  ServesOrListens
  AssertsHold
  NotInterleaved
PROPERTIES
  SendReturns
\* The loop ends when select fails, and no thread need send.
CHECK_DEADLOCK FALSE
