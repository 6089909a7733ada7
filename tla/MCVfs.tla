------------------------------- MODULE MCVfs --------------------------------
(***************************************************************************)
(* A small disk for Vfs.  Inode 2 is the root directory, two blocks, the   *)
(* second behind its single indirect block; it may be opened like a file,  *)
(* as ".".  Inode 11 is a file of three bytes that starts with a hole and  *)
(* ends in the middle of a block found the same way.  Block 0 holds the    *)
(* superblock: read as a table of block numbers it names a block in use.   *)
(***************************************************************************)
EXTENDS Vfs, Sequences, TLC

MCInode  == {2, 11}
MCBlock  == 0 .. 6
MCName   == {".", "f", "missing"}
FromZero(seq) == [k \in 0 .. Len(seq) - 1 |-> seq[k + 1]]

MC_i_block == (2 :> FromZero(<<3, 4>>)) @@ (11 :> FromZero(<<0, 5>>)) @@ (0 :> FromZero(<<0, 0>>))
MC_i_size  == (2 :> 4) @@ (11 :> 3) @@ (0 :> 0)
MC_inode_table == (2 :> 1) @@ (11 :> 1)
MC_entries == (3 :> ("." :> 2 @@ "f" :> 0 @@ "missing" :> 0)) @@
              (6 :> ("." :> 0 @@ "f" :> 11 @@ "missing" :> 0))
MC_indexes == [b \in MCBlock |-> FromZero(CASE b = 4 -> <<6, 0>> [] b = 5 -> <<2, 0>>
                                            [] b = 0 -> <<0, 2>> [] OTHER -> <<0, 0>>)]
=============================================================================
