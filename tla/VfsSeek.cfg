\* A file opened, sought in and read.
SPECIFICATION Spec
CONSTANTS
  Block <- MCBlock
  Inode <- MCInode
  Name <- MCName
  Junk = Junk
  NoInode = 0
  EXT2_ROOT_INO = 2
  SNGL_IND = 1
  PER_BLOCK = 2
  BLOCK_SIZE = 2
  i_block <- MC_i_block
  i_size <- MC_i_size
  inode_table <- MC_inode_table
  entries <- MC_entries
  indexes <- MC_indexes
  MAX_FILES = 1
  Device = {TRUE}
  Lengths = {1, 3}
  Targets = {0, 3}
  Seekers = {0}
  SEEK_SET = 1
  SEEK_CUR = 2
  SEEK_END = 3
INVARIANT
  SeeksLand
CHECK_DEADLOCK FALSE
