SPECIFICATION CutSpec
CONSTANTS
  Disks = {"hd0", "fd0"}
  NENT = 10
  NBLK = 4
  ENTRYREFS = 4
  WORD = 128
  Clean <- SameName
  Cuttable = TRUE
  Reboot = FALSE
  Sparse = FALSE
  Vals = {"x", "y"}
  Universe <- TreePaths
  WriteCalls <- CutWrites
  MkdirPaths <- TreeDirs
  DeletePaths <- TreeDeletes
  CopyPairs = {}
  MovePairs <- CutMoves
  SystemDisk = "hd0"
  FormatDisks = {"fd0"}
PROPERTIES
  OthersUntouched
  MoveNeverLoses
  DeletesWhole
CHECK_DEADLOCK FALSE
