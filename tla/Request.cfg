SPECIFICATION ClientSpec
CONSTANTS
  Worker = {w1, w2}
  Conn = {c1, c2}
  Client = {c1}
  Kind <- Kinds
  Asks <- Requests
  Text <- Texts
  Pid = {p1, p2}
  Fd = {4, 5, 6}
  NULL = NULL
  FILE = FILE
  Junk = {4}
INVARIANTS ChildPerWaiter OneAnswer PrintsAnswer
PROPERTIES ClientEnds
CHECK_DEADLOCK FALSE
