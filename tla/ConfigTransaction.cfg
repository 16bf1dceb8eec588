\* Transactions of one scope, which the coordinator runs one by one, and a
\* save that goes past them.
SPECIFICATION Spec
CONSTANTS
  Tx = {t1, t2}
  Scope = {c1}
  Outside = {x1}
  Original = Original
  None = None
SYMMETRY Symmetry
CHECK_DEADLOCK FALSE

  
PROPERTIES
  ImplementsAtomicProfile
