SPECIFICATION Spec
CONSTANTS
  Threads = {t1, t2}
  Sizes = {0, 2, 4, 9, 16, 20, 21, 33}
  TINY_THRESHOLD = 4
  LARGE_THRESHOLD = 16
  MAX_SIZE = 32
  SIZE_SPACE = 64
  PAGE = 8
  LINE = 2
  HEADER = 4
  TINY_STEP = 2
  TINY_CLASSES = 1
  SIZE_CLASSES = 4
  MAX_POOLS = 2
  WORDS = 4
  BITS = 2
  MaxBlocks = 2
  NULL = NULL
INVARIANTS
  OnlyLargeServed
  MemoryAccounted
CHECK_DEADLOCK FALSE
