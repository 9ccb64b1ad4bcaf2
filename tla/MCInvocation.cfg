SPECIFICATION Spec
CONSTANTS
  Thread = {t1, t2, t3}
  Context = {c1, c2}
  MaxIdentity = 4
  MaxDepth = 2
SYMMETRY Symmetry
INVARIANTS
  AuthorityIsTheCallbacks
CHECK_DEADLOCK FALSE
