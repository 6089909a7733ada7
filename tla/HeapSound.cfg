\* Two processes allocating, freeing and exiting in any order.
SPECIFICATION Spec
CONSTANTS
  HEAP_SIZE = 11
  HEADER = 1
  SMALLEST_PAYLOAD = 1
  Sizes = {1, 3}
  Pids = {1, 2}
INVARIANTS
  Tiling
  CallersServed
  FreesWhatIsHeld
  ExitReclaims
CHECK_DEADLOCK FALSE
