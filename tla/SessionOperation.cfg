\* One session (the coordinator keeps a record per session), two waits.
SPECIFICATION FairSpec
CONSTANTS
  Session = {s1}
  Op = {o1, o2, o3}
  Waiter = {w1, w2}
  Stamp = {t1}
  None = None
  MaxRevision = 5
CHECK_DEADLOCK FALSE
INVARIANTS
  OneCallbackPerSession
  LeaseTellsTheTruth
  WaitCoversAllOlderWork
PROPERTIES
  StampAdmitsUndisturbed
  ImplementsLock
  NobodyWaitsForever
