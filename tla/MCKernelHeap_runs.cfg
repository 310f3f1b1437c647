SPECIFICATION Spec
CONSTANTS
  HEAP_MAX_BLOCK = 6
  HEAP_BLOCK_SIZE = 8
  HEAPADDR = 1
  Sizes = {0, 1, 8, 9, 24, 49}
  Pointers = {0, 1, 2, 3, 4, 5, 6}
INVARIANTS
  TypeOK
  RunsWhole
PROPERTIES
  ImplementsAllocator
