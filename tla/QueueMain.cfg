SPECIFICATION MainSpec
CONSTANTS
  N = 2
  Items = 2
  Thread <- MCThread
  Value <- MCValue
  Node = {n1, n2, n3, n4, n5}
  NULL = NULL
  NoValue = NoValue
  Junk = {0, 2}
INVARIANTS PrintedInOrder AllPrintedAtFree
PROPERTIES MainEnds
CHECK_DEADLOCK FALSE
