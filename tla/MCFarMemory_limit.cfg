SPECIFICATION Spec
CONSTANTS
  LMEM_START = 4
  LMEM_LIMIT = 20
  LMEM_BLOCK_SIZE = 2
  LMEM_MAX_BLOCK = 4
  ULONG = 64
  Sizes = {0, 1, 4, 5, 17}
  Pointers = {0, 4, 6, 8, 10, 12, 14, 16, 18}
  AddrCap = 28
INVARIANTS
  InRegion
