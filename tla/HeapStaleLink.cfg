\* The same heap, asked whether its free list is what its code says it is.
SPECIFICATION Spec
CONSTANTS
  HEAP_SIZE = 11
  HEADER = 1
  SMALLEST_PAYLOAD = 1
  Sizes = {1, 3}
  Pids = {1, 2}
INVARIANT FreeListSound
CHECK_DEADLOCK FALSE
