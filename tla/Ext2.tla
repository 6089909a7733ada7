-------------------------------- MODULE Ext2 --------------------------------
(***************************************************************************)
(* The ext2 reader (ext2fs/): one mounted filesystem, the block buffer of  *)
(* its mount point and the block follower that walks the blocks of a file. *)
(* State is passed in and handed back; Vfs keeps it.                       *)
(*                                                                         *)
(* The device is a constant: the monitor mounts read-only.  A block is its *)
(* number and its contents are known by it; what is in a buffer is the     *)
(* number of the block it was read from, or Junk when a read into it       *)
(* failed part of the way.  ok tells whether the device can read.          *)
(***************************************************************************)
EXTENDS Integers

CONSTANTS
  Block,        \* block numbers, 0 (the superblock's) included
  Junk,         \* not a block: what a failed read leaves behind
  Name,         \* names programs open
  Inode,        \* inode numbers in use
  EXT2_ROOT_INO,
  NoInode,      \* not an inode: an entry for no file, a follower never set up
  SNGL_IND,     \* EXT2_SNGL_IND: index of the single indirect block's number
  PER_BLOCK,    \* indexes_per_block
  BLOCK_SIZE,   \* BLOCK_DEVICE_BLOCK_SIZE
  i_block,      \* the block numbers in an inode
  i_size,
  inode_table,  \* the block that holds an inode
  entries,      \* a directory block's names and their inodes
  indexes       \* a block read as a table of block numbers

DBL_IND == SNGL_IND + 1
NoBlock == 0    \* the number that stands for a hole

ASSUME DiskAssumption ==
  /\ SNGL_IND \in Nat \ {0} /\ PER_BLOCK \in Nat \ {0} /\ BLOCK_SIZE \in Nat \ {0}
  /\ Name # {} /\ Block \subseteq Nat /\ NoBlock \in Block /\ Junk \notin Block
  /\ EXT2_ROOT_INO \in Inode /\ NoInode \notin Inode
  /\ i_block \in [Inode \cup {NoInode} -> [0 .. SNGL_IND -> Block]]
  /\ i_size \in [Inode \cup {NoInode} -> Nat] /\ i_size[NoInode] = 0
  /\ inode_table \in [Inode -> Block]
  /\ indexes \in [Block -> [0 .. PER_BLOCK - 1 -> Block]]
  /\ DOMAIN entries \subseteq Block
  /\ \A b \in DOMAIN entries : entries[b] \in [Name -> Inode \cup {NoInode}]

(***************************************************************************)
(* The mount point's buffer: the number it is filed under, whether that is *)
(* valid, and the block its bytes came from.                               *)
(***************************************************************************)
Mount == [num : Block, valid : BOOLEAN, holds : Block \cup {Junk}]

Loaded(b) == [num |-> b, valid |-> TRUE, holds |-> b]
SpoiltUnnoticed(m) == [m EXCEPT !.holds = Junk]
Spoilt(m) == [m EXCEPT !.valid = FALSE, !.holds = Junk]

ReadFsBlockByNumber(m, b, force_read, ok) ==
  IF ~force_read /\ m.num = b
  THEN [mp |-> m, ok |-> TRUE]
  ELSE [mp |-> IF ok THEN Loaded(b) ELSE Spoilt(m), ok |-> ok]

\* ext2_read_fs_block: the buffer afterwards, and whether the caller has the block.
ReadFsBlock(m, b, force_read, ok) ==
  IF ~force_read /\ m.num = b /\ m.valid
  THEN [mp |-> m, ok |-> TRUE]
  ELSE [mp |-> IF ok THEN Loaded(b) ELSE Spoilt(m), ok |-> ok]

(***************************************************************************)
(* The block follower: an inode, the next index in its table, and the next *)
(* index in the single indirect block.                                     *)
(***************************************************************************)
Follower == [inode : Inode \cup {NoInode}, direct : 0 .. DBL_IND, single : 0 .. PER_BLOCK - 1]

StartOf(inode) == [inode |-> inode, direct |-> 0, single |-> 0]

\* ext2_init_block_follower, the inode once read.
SetUpAgain(bf, inode) == [bf EXCEPT !.inode = inode]
SetUp(bf, inode) == StartOf(inode)

TableOverrun(single) == single > PER_BLOCK
TableDone(single) == single >= PER_BLOCK

NextDirect(bf) == [bf EXCEPT !.direct = @ + 1]
NextIndex(bf) ==
  IF TableDone(bf.single + 1) THEN [bf EXCEPT !.direct = @ + 1, !.single = 0]
                              ELSE [bf EXCEPT !.single = @ + 1]

\* ext2_get_next_block_num.  A table that cannot be read and everything behind
\* the single indirect block come back as holes, and the follower stays put.
NextBlock(bf, m, ok) ==
  LET table == ReadFsBlock(m, i_block[bf.inode][SNGL_IND], TRUE, ok)
      Result(block, after, mp, read) == [block |-> block, bf |-> after, mp |-> mp, ok |-> read]
  IN CASE bf.direct < SNGL_IND ->
            Result(i_block[bf.inode][bf.direct], NextDirect(bf), m, TRUE)
       [] bf.direct = SNGL_IND /\ table.ok ->
            Result(indexes[table.mp.holds][bf.single], NextIndex(bf), table.mp, TRUE)
       [] bf.direct = SNGL_IND /\ ~table.ok -> Result(NoBlock, bf, table.mp, FALSE)
       [] OTHER -> Result(NoBlock, bf, m, TRUE)

\* The follower k blocks into a file whose tables can be read, and the number
\* NextBlock handed out for block k.
At(inode, k) ==
  [inode  |-> inode,
   direct |-> IF k < SNGL_IND THEN k
              ELSE IF k < SNGL_IND + PER_BLOCK THEN SNGL_IND ELSE DBL_IND,
   single |-> IF k < SNGL_IND \/ k >= SNGL_IND + PER_BLOCK THEN 0 ELSE k - SNGL_IND]

HandedOut(inode, k) ==
  IF k < SNGL_IND THEN i_block[inode][k]
  ELSE IF k < SNGL_IND + PER_BLOCK THEN indexes[i_block[inode][SNGL_IND]][k - SNGL_IND]
  ELSE NoBlock

\* ext2_get_inode once its block is in the buffer: the inode the bytes there decode to.
Decoded(inode, m) == IF m.holds = inode_table[inode] THEN {inode} ELSE Inode

\* What comparing the name with the entries in the buffer comes to.  The bytes of
\* anything but a directory block are compared all the same: they may match,
\* not match, or hold an entry of length 0, which is compared for ever.
Compared(name, m) ==
  IF m.holds \in DOMAIN entries
  THEN IF entries[m.holds][name] # NoInode
       THEN [matches |-> {entries[m.holds][name]}, ends |-> {TRUE}]
       ELSE [matches |-> {NoInode}, ends |-> {TRUE}]
  ELSE [matches |-> Inode \cup {NoInode}, ends |-> BOOLEAN]
=============================================================================
