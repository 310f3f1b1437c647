SPECIFICATION Spec
CONSTANTS
  Disks = {"hd0"}
  NENT = 9
  NBLK = 2
  ENTRYREFS = 4
  WORD = 128
  Clean <- SameName
  Cuttable = FALSE
  Reboot = FALSE
  Sparse = FALSE
  Vals = {"x", "y"}
  Universe <- SmallPaths
  WriteCalls <- SmallWrites
  MkdirPaths <- SmallDirs
  DeletePaths <- SmallPaths
  CopyPairs = {}
  MovePairs <- SmallMoves
  SystemDisk = "hd0"
  FormatDisks = {}
INVARIANTS
  ChainsSound
  DirectoriesConsistent
  NoOrphans
