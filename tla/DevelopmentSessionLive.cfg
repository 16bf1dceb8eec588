SPECIFICATION FairSpec
CONSTANTS
  Session = {s1, s2}
  Switch = {i1}
  Runtime = {claude, codex}
  Profile = {p1}
  None = None
  MaxPty = 2
CHECK_DEADLOCK FALSE
PROPERTIES
  EverythingSettles
