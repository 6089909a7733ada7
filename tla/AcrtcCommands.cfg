SPECIFICATION FairSpec
CONSTANTS
  POLL_LIMIT = 2
  FIFO_WORDS = 2
  Addresses <- MCAddresses
  MEM_WIDTH = 2
  Calls <- MCCalls
  RETRIES = 1
  NoCall = NoCall
INVARIANTS
  NeverSlips
PROPERTIES
  Refines
  CallReturns
