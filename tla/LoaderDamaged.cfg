\* A load of one of three files, two of its lines damaged by a character altered or lost.
SPECIFICATION FairSpec
CONSTANTS
  BASE = 10
  SECONDS = 2
  TPS = 1
  MaxTicks = 4
  MaxDamage = 2
  MaxLoads = 1
  Files <- MCFiles
  Altered <- MCAltered
INVARIANTS
  Contained
  LoadedWhole
PROPERTIES
  StoresTheFile
  GoesWhereTold
  LoadReturns
\* A remote that stops sending leaves the load waiting.
CHECK_DEADLOCK FALSE
