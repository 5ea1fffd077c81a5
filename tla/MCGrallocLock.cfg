SPECIFICATION FairSpec
CONSTANTS
  t1 = t1
  t2 = t2
  t3 = t3
  NoThread = NoThread
  Threads <- MCThreads
INVARIANTS
  WriterAlone
  LockWordAgrees
  MappedForUsers
  FlushedBeforeRelease
PROPERTIES
  LockSpec
  LockAnswered
CHECK_DEADLOCK FALSE
