SPECIFICATION Spec
CONSTANTS
  Disks = {"hd0"}
  NENT = 8
  NBLK = 5
  ENTRYREFS = 4
  WORD = 128
  Clean <- SameName
  Cuttable = FALSE
  Reboot = FALSE
  Sparse = FALSE
  Vals = {"x", "y"}
  Universe <- FullPaths
  WriteCalls <- FullWrites
  MkdirPaths <- FullDirs
  DeletePaths <- FullDeletes
  CopyPairs = {}
  MovePairs = {}
  SystemDisk = "hd0"
  FormatDisks = {}
PROPERTIES
  OthersUntouched
