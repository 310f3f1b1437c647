SPECIFICATION Spec
CONSTANTS
  Disks = {"hd0"}
  NENT = 7
  NBLK = 5
  ENTRYREFS = 4
  WORD = 128
  Clean <- SameName
  Cuttable = FALSE
  Reboot = FALSE
  Sparse = FALSE
  Vals = {"x", "y"}
  Universe <- FilePaths
  WriteCalls <- FileWrites
  MkdirPaths = {}
  DeletePaths <- FilePaths
  CopyPairs <- FilePairs
  MovePairs <- FilePairs
  SystemDisk = "hd0"
  FormatDisks = {}
INVARIANTS
  TypeOK
  ChainsSound
  NamesUnique
  BlocksOwned
  Bootable
PROPERTIES
  OthersUntouched
