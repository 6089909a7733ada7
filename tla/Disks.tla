-------------------------------- MODULE Disks --------------------------------
(***************************************************************************)
(* What bd_init and vfs_init make of the hardware: the block devices that  *)
(* answer, the ext2 filesystems mounted on them, and where the inodes of   *)
(* a mounted one are read.                                                 *)
(*                                                                         *)
(* The hardware is a record: the ROM disk and the cards 0 and 1.  A medium *)
(* is present or not and has the numbers in its superblock; its blocks in  *)
(* `bad' cannot be read, and `noticed' tells whether the error comes up    *)
(* just between the wait for the card and the look at its status.          *)
(***************************************************************************)
EXTENDS Integers, Sequences
LOCAL INSTANCE FiniteSets
LOCAL INSTANCE SequencesExt

CONSTANTS
  MAX_MOUNTS,
  BLOCK_SIZE,    \* BLOCK_DEVICE_BLOCK_SIZE
  Tries          \* how far find_start_of_disk looks

Cards == {0, 1}
NoTable == -1    \* no block: what other bytes than a descriptor's say

(***************************************************************************)
(* The drivers.                                                            *)
(***************************************************************************)
rom_dev_init(hw) == hw.rom.present /\ hw.rom.offset < Tries
cf_drive_ready(hw, card) == hw.cards[card].present
cf_dev_init(hw) == Cardinality({card \in Cards : cf_drive_ready(hw, card)})

num_sub_devices(hw, dev) == IF dev = "rom" THEN 1 ELSE cf_dev_init(hw)
active(hw, dev) == IF dev = "rom" THEN rom_dev_init(hw) ELSE cf_dev_init(hw) > 0

\* The medium that is read for a sub-device.
Medium(hw, dev, subdev) == IF dev = "rom" THEN hw.rom ELSE hw.cards[subdev % 2]

rom_dev_read_block(medium, block) == IF block >= medium.num_blocks THEN "NOT_OK" ELSE "OK"

\* _cf_wait_busy waits for the end of the error bit, and CF_WAIT_FOR_DATA for data
\* only: an absent card, or an error seen too early or too late, is waited for for ever.
cf_read(medium, block) ==
  CASE ~medium.present -> "hangs"
    [] medium.present /\ block \in medium.bad -> IF medium.noticed THEN "NOT_OK" ELSE "hangs"
    [] OTHER -> "OK"

bd_read(hw, dev, block, subdev) ==
  IF ~active(hw, dev) \/ subdev >= num_sub_devices(hw, dev) THEN "NOT_OK"
  ELSE IF dev = "rom" THEN rom_dev_read_block(Medium(hw, dev, subdev), block)
  ELSE cf_read(Medium(hw, dev, subdev), block)

(***************************************************************************)
(* The layout of an ext2 filesystem: where copies of the superblock are,   *)
(* and the descriptors behind them, and each group's table of inodes.      *)
(***************************************************************************)
HasCopy(sb, group) == group \in {0, 1, 3, 5, 7, 9, 25, 27, 49, 81} \/ ~sb.sparse
InodeTable(sb, group) ==
  group * sb.s_blocks_per_group + (IF HasCopy(sb, group) THEN 2 ELSE 0) + 2
\* The first descriptor in a block, group 0's if there is one.
FirstDescriptor(sb, block) ==
  IF block % sb.s_blocks_per_group = 1 /\ HasCopy(sb, block \div sb.s_blocks_per_group)
  THEN InodeTable(sb, 0) ELSE NoTable

(***************************************************************************)
(* ext2.c.                                                                 *)
(***************************************************************************)
is_power_of(num, power) == \E k \in 1 .. num \div 2 : power ^ k = num
ext2_has_superblockOf3And7(group) == group < 2 \/ is_power_of(group, 3) \/ is_power_of(group, 7)
ext2_has_superblock(group) ==
  group < 2 \/ is_power_of(group, 3) \/ is_power_of(group, 5) \/ is_power_of(group, 7)

GroupsRoundedDown(count, per_group) == count \div per_group
Groups(count, per_group) ==
  count \div per_group + (IF (count \div per_group) * per_group < count THEN 1 ELSE 0)

bgdt_block(sb, i) == i * sb.s_blocks_per_group + (IF ext2_has_superblock(i) THEN 1 ELSE 0)

Failed(outcome) == [outcome |-> outcome, bgdt |-> <<>>]

\* The descriptors are read one by one, each from the first block of its group or
\* the block behind the superblock's copy.
DescriptorsRead(hw, dev, subdev, sb, groups) ==
  LET reads == [i \in 0 .. groups - 1 |-> bd_read(hw, dev, bgdt_block(sb, i), subdev)]
      failed == {i \in DOMAIN reads : reads[i] # "OK"}
  IN IF failed # {} THEN Failed(reads[CHOOSE i \in failed : \A j \in failed : i <= j])
     ELSE [outcome |-> "OK",
           bgdt |-> [i \in 1 .. groups |-> FirstDescriptor(sb, bgdt_block(sb, i - 1))]]

ext2_mount(hw, dev, subdev) ==
  LET sb == Medium(hw, dev, subdev).sb
      read == bd_read(hw, dev, 0, subdev)
      bg1 == Groups(sb.s_blocks_count, sb.s_blocks_per_group)
      bg2 == Groups(sb.s_inodes_count, sb.s_inodes_per_group)
  IN IF read # "OK" THEN Failed(read)
     ELSE IF ~sb.magic \/ bg1 # bg2 \/ 1024 * 2 ^ sb.s_log_block_size # BLOCK_SIZE
     THEN Failed("NOT_OK")
     ELSE IF hw.memory < bg1 THEN Failed("NOT_OK")
     ELSE DescriptorsRead(hw, dev, subdev, sb, bg1)

\* The block an inode is read from; inode 0 and those behind the last are only
\* reported.
ext2_get_inode(sb, bgdt, inode_num) ==
  LET group == (inode_num - 1) \div sb.s_inodes_per_group
      index == (inode_num - 1) % sb.s_inodes_per_group
  IN IF group >= Len(bgdt) THEN NoTable
     ELSE (index * sb.s_inode_size) \div BLOCK_SIZE + group * sb.s_blocks_per_group + bgdt[group + 1]

(***************************************************************************)
(* filesystems.c.  A device that hangs is the last thing the monitor does. *)
(***************************************************************************)
attempt_to_mount(hw, state, dev, subdev) ==
  IF state.hung \/ Len(state.mounts) >= MAX_MOUNTS THEN state
  ELSE LET try == ext2_mount(hw, dev, subdev)
       IN CASE try.outcome = "OK" ->
                 [state EXCEPT !.mounts = Append(@, [dev |-> dev, subdev |-> subdev, bgdt |-> try.bgdt])]
            [] try.outcome = "NOT_OK" -> state
            [] try.outcome = "hangs" -> [state EXCEPT !.hung = TRUE]

SubDevices(hw, dev) ==
  IF active(hw, dev) THEN [i \in 1 .. num_sub_devices(hw, dev) |-> <<dev, i - 1>>] ELSE <<>>
bd_init(hw) == SubDevices(hw, "rom") \o SubDevices(hw, "cf")

\* The mount points, and whether the current directory is /rom0.
vfs_init(hw) ==
  LET state == FoldLeft(LAMBDA s, d : attempt_to_mount(hw, s, d[1], d[2]),
                        [hung |-> FALSE, mounts |-> <<>>], bd_init(hw))
  IN [hung |-> state.hung, mounts |-> state.mounts,
      cwd |-> ~state.hung /\ \E i \in DOMAIN state.mounts : state.mounts[i].dev = "rom"]

(***************************************************************************)
(* disk.c: the partitions of the cards whose tables are read, one card     *)
(* after another.  A table has four entries; one without sectors is none.  *)
(***************************************************************************)
MAX_PARTITIONS == 4
NoPartitions == [res |-> 0, partitions |-> <<>>]

\* A table that is full refuses the rest of the card's, and keeps what it has.
Entered(dk_info, entry) ==
  IF dk_info.res # 0 \/ entry.num_sectors = 0 THEN dk_info
  ELSE IF Len(dk_info.partitions) >= MAX_PARTITIONS THEN [dk_info EXCEPT !.res = -1]
  ELSE [dk_info EXCEPT !.partitions = Append(@, entry)]
read_partition_table(dk_info, card) ==
  IF ~card.readable \/ ~card.signed THEN [dk_info EXCEPT !.res = -1]
  ELSE FoldLeft(Entered, [dk_info EXCEPT !.res = 0], card.table)

\* The sector of card 0 that is read, whosever the partition is.
partition_read(dk_info, part_num, sector) ==
  IF part_num >= Len(dk_info.partitions) THEN -1
  ELSE LET part == dk_info.partitions[part_num + 1]
       IN  IF sector >= part.num_sectors THEN -1 ELSE part.start_sector + sector

\* What is known after every table that is read.
tables_read(cards) ==
  FoldLeft(LAMBDA infos, card : Append(infos, read_partition_table(Last(infos), card)), <<NoPartitions>>, cards)
=============================================================================
