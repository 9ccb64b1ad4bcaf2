SPECIFICATION Spec
CONSTANTS
  Thread = {t1, t2}
  Address = {a1, a2}
  MaxIdentity = 4
  MaxGeneration = 2
SYMMETRY Symmetry
INVARIANTS
  HandleNamesItsOwner
CHECK_DEADLOCK FALSE
