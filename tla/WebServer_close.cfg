SPECIFICATION ServerSpec
CONSTANTS
  Thread = {main, w1, w2}
  Main = main
  Node = {n1, n2, n3}
  Value = {f1}
  NULL = NULL
  NoValue = NoValue
  Junk = {0, 2}
  MaxConn = 1
INVARIANTS CloseSucceeds
CHECK_DEADLOCK FALSE
