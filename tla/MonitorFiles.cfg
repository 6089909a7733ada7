\* Programs one after another, over a table of three descriptors.
SPECIFICATION Spec
CONSTANTS
  MAX_FILES = 3
  STREAM_TABLE_SIZE = 2
  OPEN_DIR_MAX = 1
  Codes = {0, 1, 2}
  NoCode = NoCode
  MaxWords = 2
INVARIANTS
  Accounted
  ArgsPassed
PROPERTIES
  ExitComesHome
