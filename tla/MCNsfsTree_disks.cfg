SPECIFICATION MCSpec
CONSTANTS
  Disks = {"hd0", "fd0"}
  NENT = 10
  NBLK = 6
  ENTRYREFS = 4
  WORD = 128
  Clean <- SameName
  Cuttable = FALSE
  Reboot = FALSE
  Sparse = FALSE
  Vals = {"x", "y"}
  Universe <- TreePaths
  WriteCalls <- TreeWrites
  MkdirPaths <- TreeDirs
  DeletePaths <- TreeDeletes
  CopyPairs <- TreeCopies
  MovePairs <- TreeMoves
  SystemDisk = "hd0"
  FormatDisks = {"fd0"}
INVARIANTS
  DirectoriesConsistent
  NoOrphans
PROPERTIES
  ImplementsTree
