SPECIFICATION Spec
CONSTANTS
  r1 = r1
  r2 = r2
  v1 = v1
  disp = disp
  NoThread = NoThread
  Dispatch <- MCDispatch
  Vendors <- MCVendors
  MaxClients = 2
  Requests <- MCOneRequest
INVARIANTS
  ListensAgain
CHECK_DEADLOCK FALSE
