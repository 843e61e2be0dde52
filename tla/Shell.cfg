SPECIFICATION Spec
CONSTANTS
  Script <- Inputs
  BufLines = 5
  Pid = {p1, p2, p3}
  MaxErrs = 30
  Directory <- Directories
  Programs <- Installed
  Width <- Widths
  Code <- Codes
INVARIANTS NoChildLeft AsOneByOne RunsAsWritten
PROPERTIES OnceInOrder Exits
CHECK_DEADLOCK FALSE
