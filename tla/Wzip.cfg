SPECIFICATION ZipSpec
CONSTANTS
  Byte = {a, b, ff}
  FF = ff
  Input <- UpToTwoFiles
INVARIANTS NothingLost RunsWhole
CHECK_DEADLOCK FALSE
