\* Three-bit bytes, a clock of three registers, a display, every call that meets a boundary.
SPECIFICATION FairSpec
CONSTANTS
  W = 3
  NREG = 3
  Address <- MCAddress
  InitialByte <- MCInitial
  Calls <- MCCalls
  None = None
  Pending = Pending
INVARIANTS
  NeverDrivesHigh
PROPERTIES
  Framed
  Refines
  CallReturns
