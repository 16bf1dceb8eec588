\* Two calls fail and the application ends twice, never where that loses files.
CONSTANTS
  Account = {a1, a2, a3, a4}
  Initial = {a1, a2}
  Directory = {d1, d2}
  Nowhere = Nowhere
  MaxFaults = 2
  MaxCrashes = 2
  MarkerlessStops = FALSE
  RetriedRollback = FALSE
  MayLogOut = TRUE
SPECIFICATION FairAuthSpec
INVARIANTS ReadableIsOwned 
PROPERTIES FilesStandWhileRunning OperationsEnd
