SPECIFICATION FairSpec
CONSTANTS
  t1 = t1
  t2 = t2
  v1 = v1
  None = None
  Timers <- MCTimers
  Vendors <- MCVendors
  Delays <- MCDelays
  Wakeup = 1
  Listen = 2
  Debug = 3
  CommandFds <- MCCommandFds
  MAX_FD_EVENTS = 4
  MaxTime = 2
INVARIANTS
  SelectCovers
PROPERTIES
  FiredInOrder
  TimerFires
\* The loop may wait for ever when no timer is armed and no client calls.
CHECK_DEADLOCK FALSE
