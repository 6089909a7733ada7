\* A program that reads the second port, with nothing happening on the first.
SPECIFICATION FairSpec
CONSTANTS
  Char = {c1}
  NUL = NUL
  Bad = Bad
  RX_BUFFER_SIZE = 5
  HIGH_WATER_MARK = 3
  LOW_WATER_MARK = 1
  FIFO_DEPTH = 2
  SLACK = 1
  Talkers = {1}
  Readers = {1}
  Timely = {1}
PROPERTIES
  GetcharReturns
CHECK_DEADLOCK FALSE
