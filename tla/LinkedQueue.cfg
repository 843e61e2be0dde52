SPECIFICATION Spec
CONSTANTS
  Thread = {t1, t2, t3}
  Node = {n1, n2, n3}
  Value = {v1}
  NULL = NULL
  NoValue = NoValue
  Junk = {0, 2}
SYMMETRY Symmetry
INVARIANTS TypeOK QueueInv LockedAccessesAlive NoLeak
PROPERTIES ImplementsFifo
CHECK_DEADLOCK FALSE
