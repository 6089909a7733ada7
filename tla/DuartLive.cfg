\* Both ports in use, characters lost and damaged; port A is read, its FIFO served in time.
SPECIFICATION FairSpec
CONSTANTS
  Char = {c1}
  NUL = NUL
  Bad = Bad
  RX_BUFFER_SIZE = 4
  HIGH_WATER_MARK = 2
  LOW_WATER_MARK = 1
  FIFO_DEPTH = 2
  SLACK = 1
  Talkers = {0, 1}
  Readers = {0}
  Timely = {0}
INVARIANTS
  RingConsistent
  FlowControl
  RoomForAll
PROPERTIES
  Refines
  RtsReopens
  GetcharReturns
