SPECIFICATION Spec
CONSTANTS
  Script <- ThreeMissing
  BufLines = 4
  Pid = {p1}
  MaxErrs = 2
  Directory <- Directories
  Programs <- Installed
  Width <- Widths
  Code <- Codes
PROPERTIES Exits
CHECK_DEADLOCK FALSE
