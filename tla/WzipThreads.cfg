SPECIFICATION Spec
CONSTANTS
  Letter = {a, b}
  Nul = nul
  Argument <- OneOrTwoFiles
  Limit = 3
  Page = 4
  Beyond <- NextPage
INVARIANTS ChunksInOrder WrittenInOrder SmallFilesWhole
PROPERTIES Ends
CHECK_DEADLOCK FALSE
