\* Two descriptors opened, read, sought in and closed, with reads that fail.
SPECIFICATION Spec
CONSTANTS
  Block <- MCBlock
  Inode <- MCInode
  Name <- MCName
  Junk = Junk
  NoInode = 0
  EXT2_ROOT_INO = 2
  SNGL_IND = 1
  PER_BLOCK = 2
  BLOCK_SIZE = 2
  i_block <- MC_i_block
  i_size <- MC_i_size
  inode_table <- MC_inode_table
  entries <- MC_entries
  indexes <- MC_indexes
  MAX_FILES = 2
  Device = {TRUE, FALSE}
  Lengths = {1, 3}
  Targets = {0}
  Seekers = {1}
  SEEK_SET = 1
  SEEK_CUR = 2
  SEEK_END = 3
INVARIANTS
  MountBufferSound
  OpensWhatIsNamed
  DeliversFile
  NothingCutOff
CHECK_DEADLOCK FALSE
