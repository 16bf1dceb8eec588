SPECIFICATION Spec
CONSTANTS
  Session = {s1, s2}
  Switch = {i1, i2}
  Runtime = {claude, codex}
  Profile = {p1, p2}
  None = None
  MaxPty = 2
SYMMETRY Symmetry
CHECK_DEADLOCK FALSE
INVARIANTS
  TransactionIsAlone
PROPERTIES
  QuietCommit
  LaunchUsesPersistedProfile
