\* A file read from its start to behind its end, in reads of one byte and of three.
SPECIFICATION Spec
CONSTANTS
  Block <- MCBlock
  Inode <- MCInode
  Name <- MCName
  Junk = Junk
  NoInode = 0
  EXT2_ROOT_INO = 2
  SNGL_IND = 1
  PER_BLOCK = 2
  BLOCK_SIZE = 2
  i_block <- MC_i_block
  i_size <- MC_i_size
  inode_table <- MC_inode_table
  entries <- MC_entries
  indexes <- MC_indexes
  MAX_FILES = 1
  Device = {TRUE}
  Lengths = {1, 3}
  Targets = {}
  Seekers = {}
  SEEK_SET = 1
  SEEK_CUR = 2
  SEEK_END = 3
INVARIANT
  StopsAtEnd
CHECK_DEADLOCK FALSE
