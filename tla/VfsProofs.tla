------------------------------ MODULE VfsProofs -----------------------------
(***************************************************************************)
(* Proofs about Vfs, for every disk, every number of descriptors and every *)
(* way the device may fail.                                                *)
(***************************************************************************)
EXTENDS Vfs, TLAPS

\* While a search is on, its descriptor is a descriptor, and what was found is an inode.
SearchTyped ==
  search.pc # "idle" => search.fd \in Fds /\ (search.pc = "inode" => search.found \in Inode)

\* A search that met no unreadable block has looked through the first k blocks of
\* the root, in none of which the name was, or has found the inode of that name.
LookedThrough(k) ==
  /\ search.bf = At(EXT2_ROOT_INO, k)
  /\ \A j \in 0 .. k - 1 :
       HandedOut(EXT2_ROOT_INO, j) # NoBlock /\ ~Lists(HandedOut(EXT2_ROOT_INO, j), search.name)

SearchRight ==
  search.clean =>
    /\ search.pc = "dir" => \E k \in 0 .. SNGL_IND + PER_BLOCK : LookedThrough(k)
    /\ search.pc = "inode" => search.found = Named(search.name)

\* The descriptor of a file read from its start: inside the file, either its
\* buffer is used up and the follower is at the block wanted next, or the buffer
\* is that block, index is at the byte wanted next and the follower is one on.
BufferUsedUp(f, inode, p) == f.index = f.count /\ p.byte = 0 /\ f.bf = At(inode, p.blk)
BufferAtPlace(f, inode, p) ==
  /\ f.count = BLOCK_SIZE /\ f.index = p.byte
  /\ f.buffer = FileBlock(inode, p.blk) /\ f.bf = At(inode, p.blk + 1)

InStep(f, u) ==
  /\ u.right
  /\ f.ateof => ~InFile(u.want, u.place)
  /\ ~f.ateof /\ InFile(u.want, u.place) =>
       BufferUsedUp(f, u.want, u.place) \/ BufferAtPlace(f, u.want, u.place)

Agree(f, u) ==
  u.clean => f.bf.inode = u.want /\ f.size = i_size[u.want] /\ (~u.sought => InStep(f, u))
FilesAgree == \A fd \in Fds : Agree(file[fd], user[fd])

IInv == TypeOK /\ MountBufferSound /\ SearchTyped /\ SearchRight /\ FilesAgree

-----------------------------------------------------------------------------
(* Arithmetic.                                                             *)

LEMMA DivMod == \A a \in Nat, b \in Nat \ {0} : a \div b \in Nat /\ a % b \in 0 .. b - 1
  OBVIOUS

LEMMA Product == \A a, b, c \in Nat : a >= b => a * c >= b * c
  OBVIOUS

(***************************************************************************)
(* The block buffer and the block follower.                                *)
(***************************************************************************)
Sound(m) == m.valid => m.holds = m.num

\* Whatever happens to a read, the buffer stays what its number and flag say, and
\* a block reported read is in it.
LEMMA ReadFsBlockSound ==
  ASSUME NEW m \in Mount, Sound(m), NEW b \in Block, NEW force \in BOOLEAN, NEW ok \in BOOLEAN
  PROVE  LET r == ReadFsBlock(m, b, force, ok)
         IN /\ r.mp \in Mount /\ r.ok \in BOOLEAN /\ Sound(r.mp)
            /\ r.ok => r.mp.holds = b
  BY DiskAssumption DEF ReadFsBlock, Mount, Sound, Loaded, Spoilt

LEMMA FollowerTypes ==
  /\ SNGL_IND \in Nat /\ PER_BLOCK \in Nat /\ SNGL_IND >= 1 /\ PER_BLOCK >= 1
  /\ \A inode \in Inode \cup {NoInode} : StartOf(inode) \in Follower
  /\ \A inode \in Inode \cup {NoInode} : \A k \in Nat : At(inode, k) \in Follower
  /\ \A inode \in Inode \cup {NoInode} : \A k \in Nat : HandedOut(inode, k) \in Block
<1>1. SNGL_IND \in Nat /\ PER_BLOCK \in Nat /\ SNGL_IND >= 1 /\ PER_BLOCK >= 1
  BY DiskAssumption
<1>2. \A inode \in Inode \cup {NoInode} : StartOf(inode) \in Follower
  BY <1>1 DEF StartOf, Follower, DBL_IND
<1>3. \A inode \in Inode \cup {NoInode} : \A k \in Nat : At(inode, k) \in Follower
  BY <1>1 DEF At, Follower, DBL_IND
<1>4. \A inode \in Inode \cup {NoInode} : \A k \in Nat : HandedOut(inode, k) \in Block
  <2> TAKE inode \in Inode \cup {NoInode}
  <2> TAKE k \in Nat
  <2>1. i_block[inode] \in [0 .. SNGL_IND -> Block] BY DiskAssumption
  <2>2. i_block[inode][SNGL_IND] \in Block BY <1>1, <2>1
  <2>3. indexes[i_block[inode][SNGL_IND]] \in [0 .. PER_BLOCK - 1 -> Block]
    BY <2>2, DiskAssumption
  <2>4. CASE k < SNGL_IND BY <1>1, <2>1, <2>4 DEF HandedOut
  <2>5. CASE ~(k < SNGL_IND) /\ k < SNGL_IND + PER_BLOCK
    <3>1. k - SNGL_IND \in 0 .. PER_BLOCK - 1 BY <1>1, <2>5
    <3> QED BY <3>1, <2>3, <2>5 DEF HandedOut
  <2>6. CASE ~(k < SNGL_IND) /\ ~(k < SNGL_IND + PER_BLOCK)
    BY <2>6, DiskAssumption DEF HandedOut
  <2> QED BY <2>4, <2>5, <2>6
<1> QED BY <1>1, <1>2, <1>3, <1>4

\* The four ways of ext2_get_next_block_num.
LEMMA NextFromInode ==
  ASSUME NEW bf \in Follower, NEW m, NEW ok, bf.direct < SNGL_IND
  PROVE  NextBlock(bf, m, ok) = [block |-> i_block[bf.inode][bf.direct], bf |-> NextDirect(bf),
                                 mp |-> m, ok |-> TRUE]
<1>1. bf.direct \in Int /\ SNGL_IND \in Int BY FollowerTypes DEF Follower, DBL_IND
<1>2. ~(bf.direct = SNGL_IND) BY <1>1
<1> QED BY <1>2 DEF NextBlock

LEMMA NextFromTable ==
  ASSUME NEW bf \in Follower, NEW m, NEW ok, NEW table,
         table = ReadFsBlock(m, i_block[bf.inode][SNGL_IND], TRUE, ok),
         bf.direct = SNGL_IND, table.ok
  PROVE  NextBlock(bf, m, ok) = [block |-> indexes[table.mp.holds][bf.single], bf |-> NextIndex(bf),
                                 mp |-> table.mp, ok |-> TRUE]
<1>1. ~(bf.direct < SNGL_IND) BY FollowerTypes
<1> QED BY <1>1 DEF NextBlock

LEMMA NextUnreadable ==
  ASSUME NEW bf \in Follower, NEW m, NEW ok, NEW table,
         table = ReadFsBlock(m, i_block[bf.inode][SNGL_IND], TRUE, ok),
         bf.direct = SNGL_IND, ~table.ok
  PROVE  NextBlock(bf, m, ok) = [block |-> NoBlock, bf |-> bf, mp |-> table.mp, ok |-> FALSE]
<1>1. ~(bf.direct < SNGL_IND) BY FollowerTypes
<1> QED BY <1>1 DEF NextBlock

LEMMA NextBehindTable ==
  ASSUME NEW bf \in Follower, NEW m, NEW ok, bf.direct > SNGL_IND
  PROVE  NextBlock(bf, m, ok) = [block |-> NoBlock, bf |-> bf, mp |-> m, ok |-> TRUE]
<1>1. bf.direct \in Int /\ SNGL_IND \in Int BY FollowerTypes DEF Follower, DBL_IND
<1>2. ~(bf.direct < SNGL_IND) /\ ~(bf.direct = SNGL_IND) BY <1>1
<1> QED BY <1>2 DEF NextBlock

\* Where the follower goes, in a record's own words.
LEMMA NextSteps ==
  ASSUME NEW bf \in Follower
  PROVE  /\ NextDirect(bf) = [inode |-> bf.inode, direct |-> bf.direct + 1, single |-> bf.single]
         /\ bf.single + 1 >= PER_BLOCK =>
              NextIndex(bf) = [inode |-> bf.inode, direct |-> bf.direct + 1, single |-> 0]
         /\ ~(bf.single + 1 >= PER_BLOCK) =>
              NextIndex(bf) = [inode |-> bf.inode, direct |-> bf.direct, single |-> bf.single + 1]
<1>1. bf = [inode |-> bf.inode, direct |-> bf.direct, single |-> bf.single] BY DEF Follower
<1>2. NextDirect(bf) = [inode |-> bf.inode, direct |-> bf.direct + 1, single |-> bf.single]
  BY <1>1 DEF NextDirect
<1>3. bf.single + 1 >= PER_BLOCK =>
        NextIndex(bf) = [inode |-> bf.inode, direct |-> bf.direct + 1, single |-> 0]
  BY <1>1 DEF NextIndex, TableDone
<1>4. ~(bf.single + 1 >= PER_BLOCK) =>
        NextIndex(bf) = [inode |-> bf.inode, direct |-> bf.direct, single |-> bf.single + 1]
  BY <1>1 DEF NextIndex, TableDone
<1> QED BY <1>2, <1>3, <1>4

LEMMA NextBlockSound ==
  ASSUME NEW bf \in Follower, NEW m \in Mount, Sound(m), NEW ok \in BOOLEAN
  PROVE  LET r == NextBlock(bf, m, ok)
         IN /\ r.block \in Block /\ r.bf \in Follower /\ r.bf.inode = bf.inode
            /\ r.mp \in Mount /\ Sound(r.mp) /\ r.ok \in BOOLEAN
<1> DEFINE ptr == i_block[bf.inode][SNGL_IND]
           table == ReadFsBlock(m, ptr, TRUE, ok)
<1>1. /\ bf.inode \in Inode \cup {NoInode} /\ bf.direct \in 0 .. DBL_IND
      /\ bf.single \in 0 .. PER_BLOCK - 1 /\ bf.direct \in Int /\ bf.single \in Int
  BY FollowerTypes DEF Follower, DBL_IND
<1>2. i_block[bf.inode] \in [0 .. SNGL_IND -> Block] BY <1>1, DiskAssumption
<1>3. ptr \in Block BY <1>2, FollowerTypes
<1>4. table.mp \in Mount /\ table.ok \in BOOLEAN /\ Sound(table.mp) /\ (table.ok => table.mp.holds = ptr)
  BY <1>3, ReadFsBlockSound
<1>5. CASE bf.direct < SNGL_IND
  <2>1. bf.direct \in 0 .. SNGL_IND /\ bf.direct + 1 \in 0 .. DBL_IND
    BY <1>1, <1>5, FollowerTypes DEF DBL_IND
  <2>2. i_block[bf.inode][bf.direct] \in Block BY <2>1, <1>2
  <2>3. NextDirect(bf) \in Follower /\ NextDirect(bf).inode = bf.inode
    BY <1>1, <1>5, <2>1, NextSteps DEF Follower
  <2>4. NextBlock(bf, m, ok) = [block |-> i_block[bf.inode][bf.direct], bf |-> NextDirect(bf),
                                mp |-> m, ok |-> TRUE]
    BY <1>5, NextFromInode
  <2> QED BY <2>2, <2>3, <2>4
<1>6. CASE bf.direct = SNGL_IND /\ table.ok
  <2>1. indexes[table.mp.holds][bf.single] \in Block
    <3>1. indexes[ptr] \in [0 .. PER_BLOCK - 1 -> Block] BY <1>3, DiskAssumption
    <3> QED BY <3>1, <1>1, <1>4, <1>6
  <2>2. NextIndex(bf) \in Follower /\ NextIndex(bf).inode = bf.inode
    <3>1. CASE bf.single + 1 >= PER_BLOCK
      <4>1. bf.direct + 1 \in 0 .. DBL_IND /\ 0 \in 0 .. PER_BLOCK - 1
        BY <1>1, <1>6, FollowerTypes DEF DBL_IND
      <4> QED BY <1>1, <3>1, <4>1, NextSteps DEF Follower
    <3>2. CASE ~(bf.single + 1 >= PER_BLOCK)
      <4>1. bf.single + 1 \in 0 .. PER_BLOCK - 1 BY <1>1, <3>2, FollowerTypes
      <4> QED BY <1>1, <3>2, <4>1, NextSteps DEF Follower
    <3> QED BY <3>1, <3>2
  <2>3. NextBlock(bf, m, ok) = [block |-> indexes[table.mp.holds][bf.single], bf |-> NextIndex(bf),
                                mp |-> table.mp, ok |-> TRUE]
    <3>1. PICK t : t = table OBVIOUS
    <3> QED BY <1>6, <3>1, NextFromTable
  <2> HIDE DEF table
  <2> QED BY <1>4, <2>1, <2>2, <2>3
<1>7. CASE bf.direct = SNGL_IND /\ ~table.ok
  <2>1. NextBlock(bf, m, ok) = [block |-> NoBlock, bf |-> bf, mp |-> table.mp, ok |-> FALSE]
    <3>1. PICK t : t = table OBVIOUS
    <3> QED BY <1>7, <3>1, NextUnreadable
  <2> HIDE DEF table
  <2> QED BY <1>4, <2>1, DiskAssumption
<1>8. CASE bf.direct > SNGL_IND
  <2>1. NextBlock(bf, m, ok) = [block |-> NoBlock, bf |-> bf, mp |-> m, ok |-> TRUE]
    BY <1>8, NextBehindTable
  <2> QED BY <2>1, DiskAssumption
<1>9. bf.direct < SNGL_IND \/ bf.direct = SNGL_IND \/ bf.direct > SNGL_IND
  BY <1>1, FollowerTypes
<1> QED BY <1>5, <1>6, <1>7, <1>8, <1>9

\* One step on from block k is block k + 1, unless a table could not be read.
LEMMA NextBlockInOrder ==
  ASSUME NEW inode \in Inode \cup {NoInode}, NEW k \in 0 .. SNGL_IND + PER_BLOCK,
         NEW m \in Mount, Sound(m), NEW ok \in BOOLEAN,
         NextBlock(At(inode, k), m, ok).ok
  PROVE  LET r == NextBlock(At(inode, k), m, ok)
         IN /\ r.block = HandedOut(inode, k)
            /\ k < SNGL_IND + PER_BLOCK => r.bf = At(inode, k + 1)
<1>0. k \in Int /\ k >= 0 /\ SNGL_IND \in Int /\ PER_BLOCK \in Int /\ PER_BLOCK >= 1 BY FollowerTypes
<1> DEFINE ptr == i_block[inode][SNGL_IND]
<1>1. ptr \in Block BY DiskAssumption, FollowerTypes
<1>3. PICK bf \in Follower : bf = At(inode, k) BY <1>0, FollowerTypes
<1>r. PICK r : r = NextBlock(bf, m, ok) OBVIOUS
<1>t. PICK table : table = ReadFsBlock(m, ptr, TRUE, ok) OBVIOUS
<1>2. table.ok => table.mp.holds = ptr BY <1>1, <1>t, ReadFsBlockSound
<1>s. SUFFICES r.block = HandedOut(inode, k) /\ (k < SNGL_IND + PER_BLOCK => r.bf = At(inode, k + 1))
  BY <1>3, <1>r
<1>o. r.ok BY <1>3, <1>r
<1>4. CASE k < SNGL_IND
  <2>1. bf.inode = inode /\ bf.direct = k /\ bf.single = 0 BY <1>3, <1>4 DEF At
  <2>2. NextDirect(bf) = [inode |-> inode, direct |-> k + 1, single |-> 0]
    BY <1>3, <1>4, <2>1, NextSteps
  <2>3. At(inode, k + 1) = [inode |-> inode, direct |-> k + 1, single |-> 0]
    BY <1>0, <1>4 DEF At
  <2>4. HandedOut(inode, k) = i_block[inode][k] BY <1>4 DEF HandedOut
  <2>5. r = [block |-> i_block[inode][k], bf |-> NextDirect(bf), mp |-> m, ok |-> TRUE]
    BY <1>4, <1>r, <2>1, NextFromInode
  <2> QED BY <2>2, <2>3, <2>4, <2>5
<1>5. CASE ~(k < SNGL_IND) /\ k < SNGL_IND + PER_BLOCK
  <2>1. bf.inode = inode /\ bf.direct = SNGL_IND /\ bf.single = k - SNGL_IND
    BY <1>0, <1>3, <1>5 DEF At
  <2>2. table.ok
    <3>1. SUFFICES ASSUME ~table.ok PROVE FALSE OBVIOUS
    <3>2. table = ReadFsBlock(m, i_block[bf.inode][SNGL_IND], TRUE, ok) BY <1>t, <2>1
    <3>3. r = [block |-> NoBlock, bf |-> bf, mp |-> table.mp, ok |-> FALSE]
      BY <1>r, <2>1, <3>1, <3>2, NextUnreadable
    <3> QED BY <1>o, <3>3
  <2>3. r = [block |-> indexes[ptr][k - SNGL_IND], bf |-> NextIndex(bf),
         mp |-> table.mp, ok |-> TRUE]
    <3>1. table = ReadFsBlock(m, i_block[bf.inode][SNGL_IND], TRUE, ok) BY <1>t, <2>1
    <3>2. bf.direct = SNGL_IND BY <2>1
    <3>3. NextBlock(bf, m, ok) = [block |-> indexes[table.mp.holds][bf.single], bf |-> NextIndex(bf),
                                  mp |-> table.mp, ok |-> TRUE]
      BY <2>2, <3>1, <3>2, NextFromTable
    <3> QED BY <1>2, <1>r, <2>1, <2>2, <3>3
  <2>4. HandedOut(inode, k) = indexes[ptr][k - SNGL_IND] BY <1>5 DEF HandedOut
  <2>5. NextIndex(bf) = At(inode, k + 1)
    <3>1. CASE k - SNGL_IND + 1 >= PER_BLOCK
      <4>1. NextIndex(bf) = [inode |-> inode, direct |-> SNGL_IND + 1, single |-> 0]
        BY <1>3, <2>1, <3>1, NextSteps
      <4>2. ~(k + 1 < SNGL_IND) /\ k + 1 >= SNGL_IND + PER_BLOCK /\ ~(k + 1 < SNGL_IND + PER_BLOCK)
        BY <1>0, <1>5, <3>1
      <4> QED BY <4>1, <4>2 DEF At, DBL_IND
    <3>2. CASE ~(k - SNGL_IND + 1 >= PER_BLOCK)
      <4>1. NextIndex(bf) = [inode |-> inode, direct |-> SNGL_IND, single |-> k - SNGL_IND + 1]
        BY <1>3, <2>1, <3>2, NextSteps
      <4>2. ~(k + 1 < SNGL_IND) /\ ~(k + 1 >= SNGL_IND + PER_BLOCK) /\ k + 1 < SNGL_IND + PER_BLOCK
            /\ k - SNGL_IND + 1 = k + 1 - SNGL_IND
        BY <1>0, <1>5, <3>2
      <4>3. At(inode, k + 1) = [inode |-> inode, direct |-> SNGL_IND, single |-> k + 1 - SNGL_IND]
        BY <1>0, <1>5, <4>2 DEF At
      <4> QED BY <4>1, <4>2, <4>3
    <3> QED BY <3>1, <3>2
  <2> QED BY <2>3, <2>4, <2>5
<1>6. CASE k = SNGL_IND + PER_BLOCK
  <2>1. bf.direct = SNGL_IND + 1 /\ SNGL_IND + 1 > SNGL_IND BY <1>0, <1>3, <1>6 DEF At, DBL_IND
  <2>2. HandedOut(inode, k) = NoBlock BY <1>0, <1>6 DEF HandedOut
  <2>3. r = [block |-> NoBlock, bf |-> bf, mp |-> m, ok |-> TRUE]
    BY <1>r, <2>1, NextBehindTable
  <2>4. ~(k < SNGL_IND + PER_BLOCK) BY <1>0, <1>6
  <2> QED BY <2>2, <2>3, <2>4
<1> QED BY <1>0, <1>4, <1>5, <1>6

(***************************************************************************)
(* Places in a file.                                                       *)
(***************************************************************************)
LEMMA OffsetAfter ==
  ASSUME NEW p \in Place, NEW j \in 0 .. BLOCK_SIZE
  PROVE  /\ After(p, j) \in Place
         /\ OffsetOf(p) \in Nat
         /\ OffsetOf(After(p, j)) = OffsetOf(p) + j
<1>1. /\ p.blk \in Nat /\ p.byte \in 0 .. BLOCK_SIZE - 1 /\ BLOCK_SIZE \in Nat /\ j \in Nat
      /\ p = [blk |-> p.blk, byte |-> p.byte]
  BY DiskAssumption DEF Place
<1>2. \A a, b \in Nat : a * b \in Nat /\ (a + 1) * b = a * b + b OBVIOUS
<1>3. p.blk * BLOCK_SIZE \in Nat /\ (p.blk + 1) * BLOCK_SIZE = p.blk * BLOCK_SIZE + BLOCK_SIZE
  BY <1>1, <1>2
<1>4. CASE p.byte + j < BLOCK_SIZE
  <2>1. After(p, j) = [blk |-> p.blk, byte |-> p.byte + j] BY <1>1, <1>4 DEF After
  <2>2. p.byte + j \in 0 .. BLOCK_SIZE - 1 BY <1>1, <1>4
  <2>3. After(p, j).blk = p.blk /\ After(p, j).byte = p.byte + j /\ After(p, j) \in Place
    BY <1>1, <2>1, <2>2 DEF Place
  <2> QED BY <1>1, <1>3, <2>3 DEF OffsetOf
<1>5. CASE ~(p.byte + j < BLOCK_SIZE)
  <2>1. After(p, j) = [blk |-> p.blk + 1, byte |-> p.byte + j - BLOCK_SIZE] BY <1>5 DEF After
  <2>2. p.byte + j - BLOCK_SIZE \in 0 .. BLOCK_SIZE - 1 /\ p.blk + 1 \in Nat BY <1>1, <1>5
  <2>3. After(p, j).blk = p.blk + 1 /\ After(p, j).byte = p.byte + j - BLOCK_SIZE /\ After(p, j) \in Place
    BY <2>1, <2>2 DEF Place
  <2> QED BY <1>1, <1>3, <2>3 DEF OffsetOf
<1> QED BY <1>4, <1>5

LEMMA PlaceOfTyped == \A offset \in Nat : PlaceOf(offset) \in Place
  BY DiskAssumption, DivMod DEF PlaceOf, Place

LEMMA Start == PlaceOf(0) = [blk |-> 0, byte |-> 0]
<1>1. \A b \in Nat \ {0} : 0 \div b = 0 /\ 0 % b = 0 OBVIOUS
<1> QED BY <1>1, DiskAssumption DEF PlaceOf

\* Inside a file, what the follower hands out is what ext2 says is there.
LEMMA FollowersBlock ==
  ASSUME NEW inode \in Inode \cup {NoInode}, NEW p \in Place, InFile(inode, p)
  PROVE  p.blk \in 0 .. SNGL_IND + PER_BLOCK - 1 /\ FileBlock(inode, p.blk) = HandedOut(inode, p.blk)
<1>1. p.blk \in Nat /\ p.byte \in 0 .. BLOCK_SIZE - 1 /\ BLOCK_SIZE \in Nat /\ SNGL_IND \in Nat
      /\ PER_BLOCK \in Nat /\ SNGL_IND + PER_BLOCK \in Nat
  BY DiskAssumption DEF Place
<1>2. i_size[inode] \in Nat BY DiskAssumption
<1>3. p.blk * BLOCK_SIZE \in Nat
  <2>1. \A a, b \in Nat : a * b \in Nat OBVIOUS
  <2> QED BY <1>1, <2>1
<1>4. p.blk * BLOCK_SIZE < i_size[inode]
  <2>1. p.blk * BLOCK_SIZE + p.byte < i_size[inode] BY DEF InFile, OffsetOf
  <2>2. \A x, y, z \in Nat : x + y < z => x < z OBVIOUS
  <2> QED BY <1>1, <1>2, <1>3, <2>1, <2>2
<1>5. inode \in Inode
  <2>1. i_size[inode] # 0 BY <1>2, <1>3, <1>4
  <2> QED BY <2>1, DiskAssumption
<1>6. \A b \in Nat : i_size[inode] <= b * BLOCK_SIZE => p.blk < b
  <2> TAKE b \in Nat
  <2>1. p.blk >= b => p.blk * BLOCK_SIZE >= b * BLOCK_SIZE BY <1>1, Product
  <2>2. \A x, y, z \in Nat : x < y /\ y <= z => ~(x >= z) OBVIOUS
  <2>3. b * BLOCK_SIZE \in Nat
    <3>1. \A x, y \in Nat : x * y \in Nat OBVIOUS
    <3> QED BY <1>1, <3>1
  <2>4. i_size[inode] <= b * BLOCK_SIZE => ~(p.blk * BLOCK_SIZE >= b * BLOCK_SIZE)
    BY <1>2, <1>3, <1>4, <2>2, <2>3
  <2>5. \A x, y \in Nat : ~(x >= y) => x < y OBVIOUS
  <2> QED BY <1>1, <2>1, <2>4, <2>5
<1>7. CASE p.blk < SNGL_IND
  BY <1>1, <1>7 DEF FileBlock, HandedOut
<1>8. CASE ~(p.blk < SNGL_IND)
  <2>1. ~(i_size[inode] <= SNGL_IND * BLOCK_SIZE) BY <1>1, <1>6, <1>8
  <2>2. i_size[inode] <= (SNGL_IND + PER_BLOCK) * BLOCK_SIZE /\ i_block[inode][SNGL_IND] # NoBlock
    BY <1>5, <2>1, SizesAssumption
  <2>3. p.blk < SNGL_IND + PER_BLOCK BY <1>1, <1>6, <2>2
  <2>4. HandedOut(inode, p.blk) = indexes[i_block[inode][SNGL_IND]][p.blk - SNGL_IND]
    BY <1>8, <2>3 DEF HandedOut
  <2>5. FileBlock(inode, p.blk) = indexes[i_block[inode][SNGL_IND]][p.blk - SNGL_IND]
    BY <1>8, <2>2 DEF FileBlock
  <2> QED BY <1>1, <2>3, <2>4, <2>5
<1> QED BY <1>7, <1>8

(***************************************************************************)
(* One descriptor at a time.                                               *)
(***************************************************************************)
FilesTyped == file \in [Fds -> File] /\ user \in [Fds -> User]

\* A step that leaves one descriptor and its user in agreement and the others
\* alone leaves all in agreement.
LEMMA SlotStep ==
  ASSUME FilesTyped, FilesAgree, NEW fd \in Fds, NEW f \in File, NEW u \in User, Agree(f, u),
         file' = [file EXCEPT ![fd] = f], user' = [user EXCEPT ![fd] = u]
  PROVE  FilesTyped' /\ FilesAgree'
<1>1. FilesTyped' BY DEF FilesTyped
<1>2. ASSUME NEW g \in Fds PROVE Agree(file'[g], user'[g])
  <2>1. CASE g = fd BY <2>1 DEF FilesTyped
  <2>2. CASE g # fd
    <3>1. file'[g] = file[g] /\ user'[g] = user[g] BY <2>2 DEF FilesTyped
    <3> QED BY <3>1 DEF FilesAgree
  <2> QED BY <2>1, <2>2
<1> QED BY <1>1, <1>2 DEF FilesAgree

LEMMA NoOneAgrees == NoOne \in User /\ \A f : Agree(f, NoOne)
<1>1. PlaceOf(0) \in Place BY PlaceOfTyped
<1> QED BY <1>1 DEF NoOne, User, Agree

LEMMA FollowerTyped == \A inode \in Inode : StartOf(inode) = At(inode, 0) /\ At(inode, 0).inode = inode
<1>1. 0 < SNGL_IND BY FollowerTypes
<1> QED BY <1>1 DEF StartOf, At

LEMMA IdleTyped ==
  Idle \in [pc : {"idle", "root", "dir", "inode", "hung"}, fd : Nat, name : Name,
            bf : Follower, found : Inode \cup {NoInode}, clean : BOOLEAN]
<1>1. (CHOOSE n \in Name : TRUE) \in Name BY DiskAssumption
<1>2. StartOf(EXT2_ROOT_INO) \in Follower BY FollowerTypes, DiskAssumption
<1> QED BY <1>1, <1>2 DEF Idle

\* A descriptor is handed out to someone who knows nothing of it, or with the
\* file of the name, just set up.
LEMMA HandOutStep ==
  ASSUME FilesTyped, FilesAgree, NEW fd \in Fds, NEW f \in File, NEW name \in Name,
         NEW clean \in BOOLEAN,
         clean /\ Named(name) # NoInode =>
           /\ Named(name) \in Inode
           /\ f.bf = StartOf(Named(name)) /\ f.size = i_size[Named(name)],
         HandOut(fd, f, name, clean)
  PROVE  FilesTyped' /\ FilesAgree' /\ search' = Idle
<1> DEFINE g == FreshSlot(f)
           u == IF clean /\ Named(name) # NoInode THEN Newcomer(Named(name)) ELSE NoOne
<1>1. /\ g \in File /\ g.bf = f.bf /\ g.size = f.size /\ g.index = 0 /\ g.count = 0 /\ g.ateof = FALSE
  <2>1. 0 \in 0 .. BLOCK_SIZE /\ 0 \in {0, BLOCK_SIZE} /\ 0 \in Nat BY DiskAssumption
  <2> QED BY <2>1 DEF FreshSlot, File
<1>2. u \in User /\ Agree(g, u)
  <2>1. CASE clean /\ Named(name) # NoInode
    <3>1. PICK inode \in Inode : inode = Named(name) BY <2>1
    <3>2. u = Newcomer(inode) BY <2>1, <3>1
    <3>3. /\ u.want = inode /\ u.place = PlaceOf(0) /\ u.right = TRUE /\ u \in User
      BY <3>2, NoOneAgrees DEF Newcomer, NoOne, User
    <3>4. u.place.blk = 0 /\ u.place.byte = 0 BY <3>3, Start
    <3>5. g.bf = At(inode, 0) /\ g.bf.inode = inode /\ g.size = i_size[inode]
      BY <1>1, <2>1, <3>1, FollowerTyped
    <3>6. BufferUsedUp(g, u.want, u.place) BY <1>1, <3>3, <3>4, <3>5 DEF BufferUsedUp
    <3> HIDE DEF g, u
    <3> QED BY <1>1, <3>3, <3>5, <3>6 DEF Agree, InStep
  <2>2. CASE ~(clean /\ Named(name) # NoInode) BY <2>2, NoOneAgrees
  <2> QED BY <2>1, <2>2
<1>3. file' = [file EXCEPT ![fd] = g] /\ user' = [user EXCEPT ![fd] = u] /\ search' = Idle
  BY DEF HandOut
<1> HIDE DEF g, u
<1> QED BY <1>1, <1>2, <1>3, SlotStep

\* What is delivered from a buffer that is at the right place is what is there,
\* and leaves the descriptor at the place behind it.
LEMMA CopySteps ==
  ASSUME NEW f \in File, NEW n \in Nat \ {0}, ~f.ateof, ~Exhausted(f), NEW p \in Place,
         NEW want \in Inode \cup {NoInode}, f.size = i_size[want],
         InFile(want, p) => BufferAtPlace(f, want, p)
  PROVE  LET num_bytes == Copied(f, n) - Extra(f, n)
             g == AfterCopy(f, n)
             q == Onwards(want, p, num_bytes)
         IN /\ Matches(want, p, f.buffer, f.index, num_bytes)
            /\ q \in Place
            /\ g.ateof => ~InFile(want, q)
            /\ ~g.ateof /\ InFile(want, q) => BufferUsedUp(g, want, q) \/ BufferAtPlace(g, want, q)
<1> DEFINE num == Copied(f, n) - Extra(f, n)
           g == AfterCopy(f, n)
           q == Onwards(want, p, num)
<1>1. PICK c \in Nat : c = Copied(f, n) /\ c \in 1 .. f.count - f.index /\ f.index \in Nat /\ f.count \in Nat
                       /\ f.count <= BLOCK_SIZE /\ BLOCK_SIZE \in Nat
  <2>1. f.index \in Nat /\ f.count \in Nat /\ f.count <= BLOCK_SIZE /\ BLOCK_SIZE \in Nat
    BY DiskAssumption DEF File
  <2>2. f.count - f.index \in Nat \ {0} BY <2>1 DEF Exhausted
  <2>3. Copied(f, n) \in 1 .. f.count - f.index
    <3>1. CASE n > f.count - f.index BY <2>2, <3>1 DEF Copied
    <3>2. CASE ~(n > f.count - f.index) BY <2>2, <3>2 DEF Copied
    <3> QED BY <3>1, <3>2
  <2> QED BY <2>1, <2>2, <2>3
<1>2. f.size \in Nat BY DEF File
<1>3. num \in 0 .. BLOCK_SIZE /\ num <= c /\ (c > f.size => num = f.size) /\ (~(c > f.size) => num = c)
  BY <1>1, <1>2 DEF Extra
<1>4. g.ateof <=> c > f.size
  <2>1. g.ateof = (f.ateof \/ Copied(f, n) > f.size) BY DEF AfterCopy, File
  <2> QED BY <1>1, <2>1
<1>5. g.index = f.index + c /\ g.count = f.count /\ g.bf = f.bf /\ g.buffer = f.buffer
  BY <1>1 DEF AfterCopy, File
<1>6. OffsetOf(p) \in Nat /\ p.byte \in 0 .. BLOCK_SIZE - 1 /\ p.blk \in Nat
  BY <1>1, OffsetAfter DEF Place
<1>7. Matches(want, p, f.buffer, f.index, num)
  <2>1. SUFFICES ASSUME NEW j \in 0 .. num - 1, InFile(want, After(p, j))
                 PROVE  f.buffer = FileBlock(want, After(p, j).blk) /\ f.index + j = After(p, j).byte
    BY DEF Matches
  <2>2. j \in 0 .. BLOCK_SIZE /\ j < c BY <1>1, <1>3
  <2>3. OffsetOf(After(p, j)) = OffsetOf(p) + j BY <2>2, OffsetAfter
  <2>4. InFile(want, p) BY <1>2, <1>6, <2>1, <2>2, <2>3 DEF InFile
  <2>5. f.count = BLOCK_SIZE /\ f.index = p.byte /\ f.buffer = FileBlock(want, p.blk)
    BY <2>4 DEF BufferAtPlace
  <2>6. p.byte + j < BLOCK_SIZE BY <1>1, <2>2, <2>5
  <2>7. After(p, j).blk = p.blk /\ After(p, j).byte = p.byte + j BY <2>6 DEF After, Place
  <2> QED BY <2>5, <2>7
<1>8. q \in Place /\ (OffsetOf(p) > i_size[want] => q = p)
      /\ (~(OffsetOf(p) > i_size[want]) => q = After(p, num) /\ OffsetOf(q) = OffsetOf(p) + num)
  <2>1. After(p, num) \in Place /\ OffsetOf(After(p, num)) = OffsetOf(p) + num BY <1>3, OffsetAfter
  <2> HIDE DEF num
  <2> QED BY <2>1 DEF Onwards
<1>9. g.ateof => ~InFile(want, q)
  <2>1. SUFFICES ASSUME g.ateof PROVE ~InFile(want, q) OBVIOUS
  <2>2. num = f.size BY <1>3, <1>4, <2>1
  <2>3. \A x, y \in Nat : x > y => ~(x < y) OBVIOUS
  <2>4. \A x, y \in Nat : ~(x + y < y) OBVIOUS
  <2>5. CASE OffsetOf(p) > i_size[want] BY <1>2, <1>6, <1>8, <2>3, <2>5 DEF InFile
  <2>6. CASE ~(OffsetOf(p) > i_size[want])
    <3>1. OffsetOf(q) = OffsetOf(p) + i_size[want] BY <1>8, <2>2, <2>6
    <3>2. i_size[want] \in Nat BY <1>2
    <3> HIDE DEF q
    <3> QED BY <1>6, <2>4, <3>1, <3>2 DEF InFile
  <2> QED BY <2>5, <2>6
<1>10. ASSUME ~g.ateof, InFile(want, q) PROVE BufferUsedUp(g, want, q) \/ BufferAtPlace(g, want, q)
  <2>1. num = c /\ q = After(p, c) /\ OffsetOf(q) = OffsetOf(p) + c /\ InFile(want, p)
    BY <1>2, <1>3, <1>4, <1>6, <1>8, <1>10 DEF InFile
  <2>2. f.count = BLOCK_SIZE /\ f.index = p.byte /\ f.buffer = FileBlock(want, p.blk) /\ f.bf = At(want, p.blk + 1)
    BY <2>1 DEF BufferAtPlace
  <2>3. CASE p.byte + c < BLOCK_SIZE
    <3>1. q.blk = p.blk /\ q.byte = p.byte + c BY <2>1, <2>3 DEF After, Place
    <3> QED BY <1>5, <2>2, <3>1 DEF BufferAtPlace
  <2>4. CASE ~(p.byte + c < BLOCK_SIZE)
    <3>1. p.byte + c = BLOCK_SIZE BY <1>1, <1>6, <2>2, <2>4
    <3>2. q = [blk |-> p.blk + 1, byte |-> p.byte + c - BLOCK_SIZE] BY <2>1, <2>4 DEF After
    <3>3. q.blk = p.blk + 1 /\ q.byte = 0 BY <1>1, <1>6, <3>1, <3>2
    <3> QED BY <1>5, <2>2, <3>1, <3>3 DEF BufferUsedUp
  <2> QED BY <2>3, <2>4
<1> QED BY <1>7, <1>8, <1>9, <1>10

(***************************************************************************)
(* The actions.                                                            *)
(***************************************************************************)
SearchType == [pc : {"idle", "root", "dir", "inode", "hung"}, fd : Nat, name : Name,
               bf : Follower, found : Inode \cup {NoInode}, clean : BOOLEAN]

\* IInv in the pieces the actions leave alone or change.
LEMMA Pieces ==
  IInv <=> /\ FilesTyped /\ FilesAgree
           /\ mp \in Mount /\ Sound(mp)
           /\ search \in SearchType /\ SearchTyped /\ SearchRight
  BY DEF IInv, TypeOK, MountBufferSound, Sound, FilesTyped, SearchType

LEMMA PiecesNext ==
  IInv' <=> /\ FilesTyped' /\ FilesAgree'
            /\ mp' \in Mount /\ Sound(mp')
            /\ search' \in SearchType /\ SearchTyped' /\ SearchRight'
  BY DEF IInv, TypeOK, MountBufferSound, Sound, FilesTyped, SearchType

LEMMA UnchangedFiles ==
  ASSUME FilesTyped, FilesAgree, UNCHANGED <<file, user>>
  PROVE  FilesTyped' /\ FilesAgree'
  BY DEF FilesTyped, FilesAgree

LEMMA UnchangedSearch ==
  ASSUME search \in SearchType, SearchTyped, SearchRight, UNCHANGED search
  PROVE  search' \in SearchType /\ SearchTyped' /\ SearchRight'
  BY DEF SearchTyped, SearchRight, LookedThrough

LEMMA IdleSearch ==
  ASSUME search' = Idle
  PROVE  search' \in SearchType /\ SearchTyped' /\ SearchRight'
<1>1. search'.pc = "idle" BY DEF Idle
<1> QED BY <1>1, IdleTyped DEF SearchTyped, SearchRight, SearchType

LEMMA InitIInv == Init => IInv
<1> SUFFICES ASSUME Init PROVE IInv OBVIOUS
<1>1. FilesTyped
  <2>1. StartOf(NoInode) \in Follower /\ 0 \in 0 .. BLOCK_SIZE /\ NoBlock \in Block
    BY FollowerTypes, DiskAssumption
  <2>2. NoOne \in User BY NoOneAgrees
  <2>3. [open |-> FALSE, bf |-> StartOf(NoInode), size |-> 0, buffer |-> NoBlock, index |-> 0,
         count |-> 0, position |-> 0, ateof |-> FALSE] \in File
    BY <2>1 DEF File
  <2> QED BY <2>2, <2>3 DEF Init, FilesTyped
<1>2. FilesAgree BY NoOneAgrees DEF Init, FilesAgree
<1>3. mp \in Mount /\ Sound(mp) BY DiskAssumption DEF Init, Loaded, Mount, Sound
<1>4. search = Idle BY DEF Init
<1>5. search \in SearchType /\ SearchTyped /\ SearchRight
  <2>1. search.pc = "idle" BY <1>4 DEF Idle
  <2> QED BY <1>4, <2>1, IdleTyped DEF SearchTyped, SearchRight, SearchType
<1> QED BY <1>1, <1>2, <1>3, <1>5, Pieces

LEMMA OpenForWritingStep ==
  ASSUME IInv, NEW name \in Name, OpenForWriting(name) PROVE IInv'
<1>1. PICK fd \in Fds : HandOut(fd, file[fd], name, FALSE) BY DEF OpenForWriting, FirstFree
<1>2. file[fd] \in File BY Pieces DEF FilesTyped
<1>3. FilesTyped' /\ FilesAgree' /\ search' = Idle BY <1>1, <1>2, Pieces, HandOutStep
<1>4. mp' = mp BY DEF OpenForWriting
<1> QED BY <1>3, <1>4, IdleSearch, Pieces, PiecesNext

LEMMA OpenStep ==
  ASSUME IInv, NEW name \in Name, Open(name) PROVE IInv'
<1>1. PICK fd \in Fds : search' = [Idle EXCEPT !.pc = "root", !.name = name, !.fd = fd]
  BY DEF Open, FirstFree
<1>2. fd \in Nat BY CallsAssumption DEF Fds
<1>3. search' \in SearchType /\ search'.pc = "root" /\ search'.fd = fd
  BY <1>1, <1>2, IdleTyped DEF SearchType
<1>4. SearchTyped' /\ SearchRight' BY <1>3 DEF SearchTyped, SearchRight
<1>5. UNCHANGED <<file, mp, user>> BY DEF Open
<1> QED BY <1>3, <1>4, <1>5, UnchangedFiles, Pieces, PiecesNext

\* A failed open is handed out like any other.
LEMMA OpenFailsStep ==
  ASSUME IInv, search.pc # "idle", NEW clean \in BOOLEAN, OpenFails(clean),
         clean => Named(search.name) = NoInode
  PROVE  FilesTyped' /\ FilesAgree' /\ search' = Idle
<1>1. search.fd \in Fds /\ search.name \in Name BY Pieces DEF SearchTyped, SearchType
<1>2. file[search.fd] \in File BY <1>1, Pieces DEF FilesTyped
<1>3. HandOut(search.fd, file[search.fd], search.name, clean) BY DEF OpenFails
<1> QED BY <1>1, <1>2, <1>3, Pieces, HandOutStep

LEMMA SearchRootStep ==
  ASSUME IInv, NEW ok \in BOOLEAN, SearchRoot(ok) PROVE IInv'
<1> DEFINE read == ReadFsBlock(mp, inode_table[EXT2_ROOT_INO], FALSE, ok)
<1>1. inode_table[EXT2_ROOT_INO] \in Block BY DiskAssumption
<1>2. read.mp \in Mount /\ Sound(read.mp) /\ (read.ok => read.mp.holds = inode_table[EXT2_ROOT_INO])
  BY <1>1, Pieces, ReadFsBlockSound
<1>3. mp' = read.mp /\ search.pc = "root" BY DEF SearchRoot
<1>4. CASE ~read.ok /\ OpenFails(FALSE)
  <2>1. FilesTyped' /\ FilesAgree' /\ search' = Idle BY <1>3, <1>4, OpenFailsStep
  <2> QED BY <1>2, <1>3, <2>1, IdleSearch, PiecesNext
<1>5. CASE read.ok /\ ~(~read.ok /\ OpenFails(FALSE))
  <2>1. /\ UNCHANGED <<file, user>>
        /\ \E dir \in Decoded(EXT2_ROOT_INO, read.mp) :
             search' = [search EXCEPT !.pc = "dir", !.bf = StartOf(dir)]
    BY <1>5 DEF SearchRoot
  <2>2. search' = [search EXCEPT !.pc = "dir", !.bf = StartOf(EXT2_ROOT_INO)]
    BY <1>2, <1>5, <2>1 DEF Decoded
  <2>3. /\ search' \in SearchType /\ search'.pc = "dir" /\ search'.fd = search.fd
        /\ search'.bf = StartOf(EXT2_ROOT_INO)
    BY <2>2, Pieces, FollowerTypes, DiskAssumption DEF SearchType
  <2>4. SearchTyped' BY <1>3, <2>3, Pieces DEF SearchTyped
  <2>5. SearchRight'
    <3>1. search'.bf = At(EXT2_ROOT_INO, 0) BY <2>3, FollowerTyped, DiskAssumption
    <3>2. 0 \in 0 .. SNGL_IND + PER_BLOCK /\ 0 .. 0 - 1 = {} BY FollowerTypes
    <3>3. LookedThrough(0)' BY <3>1, <3>2 DEF LookedThrough
    <3> QED BY <2>3, <3>2, <3>3 DEF SearchRight
  <2> QED BY <1>2, <1>3, <2>1, <2>3, <2>4, <2>5, UnchangedFiles, Pieces, PiecesNext
<1> QED BY <1>4, <1>5 DEF SearchRoot

\* The blocks of the root directory are looked through before its first hole.
LEMMA WithinTheRoot ==
  ASSUME NEW n \in 0 .. SNGL_IND + PER_BLOCK, NEW k \in 0 .. SNGL_IND + PER_BLOCK,
         DOMAIN entries = {HandedOut(EXT2_ROOT_INO, j) : j \in 0 .. n - 1},
         HandedOut(EXT2_ROOT_INO, n) = NoBlock, NoBlock \notin DOMAIN entries, LookedThrough(k)
  PROVE  /\ HandedOut(EXT2_ROOT_INO, k) = NoBlock => k = n
         /\ HandedOut(EXT2_ROOT_INO, k) # NoBlock =>
              k \in 0 .. n - 1 /\ HandedOut(EXT2_ROOT_INO, k) \in DOMAIN entries
<1>1. n \in Nat /\ k \in Nat BY FollowerTypes
<1>2. k <= n
  <2>1. SUFFICES ASSUME k > n PROVE FALSE BY <1>1
  <2>2. n \in 0 .. k - 1 BY <1>1, <2>1
  <2> QED BY <2>2 DEF LookedThrough
<1>3. k < n => HandedOut(EXT2_ROOT_INO, k) \in DOMAIN entries
  <2>1. SUFFICES ASSUME k < n PROVE HandedOut(EXT2_ROOT_INO, k) \in DOMAIN entries OBVIOUS
  <2>2. k \in 0 .. n - 1 BY <1>1, <2>1
  <2> QED BY <2>2
<1>4. k = n \/ k < n BY <1>1, <1>2
<1>5. k < n => k \in 0 .. n - 1 BY <1>1
<1> QED BY <1>3, <1>4, <1>5

\* A name is in one block at most, so one that is found is the one meant.
LEMMA NamedUnique ==
  ASSUME NEW b \in DOMAIN entries, NEW name \in Name, entries[b][name] # NoInode
  PROVE  Named(name) = entries[b][name]
<1>1. b \in Block /\ Lists(b, name) BY DiskAssumption DEF Lists
<1> DEFINE c == CHOOSE c \in Block : Lists(c, name)
<1>2. c \in Block /\ Lists(c, name) BY <1>1
<1>3. Named(name) = entries[c][name] BY <1>1 DEF Named
<1> HIDE DEF c
<1>4. c = b BY <1>2, RootAssumption DEF Lists
<1> QED BY <1>3, <1>4

LEMMA NamedTyped ==
  ASSUME NEW name \in Name PROVE Named(name) \in Inode \cup {NoInode}
<1>1. CASE \E b \in Block : Lists(b, name)
  <2>1. PICK b \in Block : Lists(b, name) BY <1>1
  <2>2. b \in DOMAIN entries /\ entries[b][name] # NoInode BY <2>1 DEF Lists
  <2>3. entries[b][name] \in Inode \cup {NoInode} BY <2>2, DiskAssumption
  <2> QED BY <2>2, <2>3, NamedUnique
<1>2. CASE ~ \E b \in Block : Lists(b, name) BY <1>2 DEF Named
<1> QED BY <1>1, <1>2

LEMMA SearchBlockStep ==
  ASSUME IInv, NEW okTable \in BOOLEAN, NEW ok \in BOOLEAN, SearchBlock(okTable, ok) PROVE IInv'
<1>1. /\ search.pc = "dir" /\ search.bf \in Follower /\ search.name \in Name /\ search.clean \in BOOLEAN
      /\ search.found \in Inode \cup {NoInode} /\ search.fd \in Fds
  BY Pieces DEF SearchBlock, SearchType, SearchTyped
<1> DEFINE next == NextBlock(search.bf, mp, okTable)
           read == ReadFsBlock(next.mp, next.block, FALSE, ok)
           Ends == next.block = NoBlock /\ mp' = next.mp /\ OpenFails(search.clean /\ next.ok)
           Goes(found, ends) ==
             search' = [search EXCEPT !.pc = IF ~ends THEN "hung"
                                             ELSE IF found = NoInode THEN "dir" ELSE "inode",
                                      !.bf = next.bf, !.found = found,
                                      !.clean = (search.clean /\ next.ok) /\ read.ok]
           GoesOn == /\ next.block # NoBlock /\ mp' = read.mp /\ UNCHANGED <<file, user>>
                     /\ \E found \in Compared(search.name, read.mp).matches,
                           ends \in Compared(search.name, read.mp).ends : Goes(found, ends)
<1>0. Ends \/ GoesOn BY DEF SearchBlock
<1>2. next = NextBlock(search.bf, mp, okTable) OBVIOUS
<1>4. read = ReadFsBlock(next.mp, next.block, FALSE, ok) OBVIOUS
<1> HIDE DEF next, read
<1>3. /\ next.block \in Block /\ next.bf \in Follower /\ next.ok \in BOOLEAN
      /\ next.mp \in Mount /\ Sound(next.mp)
  BY <1>1, <1>2, Pieces, NextBlockSound
<1>5. read.mp \in Mount /\ Sound(read.mp) /\ (read.ok => read.mp.holds = next.block) /\ read.ok \in BOOLEAN
  BY <1>3, <1>4, ReadFsBlockSound
<1>6. PICK n \in 0 .. SNGL_IND + PER_BLOCK :
        /\ DOMAIN entries = {HandedOut(EXT2_ROOT_INO, j) : j \in 0 .. n - 1}
        /\ HandedOut(EXT2_ROOT_INO, n) = NoBlock /\ NoBlock \notin DOMAIN entries
  BY RootAssumption
<1>7. ASSUME search.clean, next.ok
      PROVE  \E k \in 0 .. SNGL_IND + PER_BLOCK :
               /\ LookedThrough(k) /\ next.block = HandedOut(EXT2_ROOT_INO, k)
               /\ k < SNGL_IND + PER_BLOCK => next.bf = At(EXT2_ROOT_INO, k + 1)
  <2>1. PICK k \in 0 .. SNGL_IND + PER_BLOCK : LookedThrough(k)
    BY <1>1, <1>7, Pieces DEF SearchRight
  <2>2. next = NextBlock(At(EXT2_ROOT_INO, k), mp, okTable) BY <1>2, <2>1 DEF LookedThrough
  <2> QED BY <1>7, <2>1, <2>2, Pieces, DiskAssumption, NextBlockInOrder
<1>8. CASE Ends
  <2>1. search.clean /\ next.ok => Named(search.name) = NoInode
    <3>1. SUFFICES ASSUME search.clean, next.ok, NEW b \in Block, Lists(b, search.name) PROVE FALSE
      BY DEF Named
    <3>2. PICK k \in 0 .. SNGL_IND + PER_BLOCK : LookedThrough(k) /\ next.block = HandedOut(EXT2_ROOT_INO, k)
      BY <1>7, <3>1
    <3>3. k = n BY <1>6, <1>8, <3>2, WithinTheRoot
    <3>4. PICK j \in 0 .. n - 1 : b = HandedOut(EXT2_ROOT_INO, j) BY <1>6, <3>1 DEF Lists
    <3> QED BY <3>1, <3>2, <3>3, <3>4 DEF LookedThrough
  <2>2. PICK clean \in BOOLEAN : clean <=> (search.clean /\ next.ok) OBVIOUS
  <2>3. clean = (search.clean /\ next.ok) BY <2>2
  <2>4. OpenFails(clean) BY <1>8, <2>3
  <2>5. FilesTyped' /\ FilesAgree' /\ search' = Idle BY <1>1, <2>1, <2>2, <2>4, OpenFailsStep
  <2> QED BY <1>3, <1>8, <2>5, IdleSearch, PiecesNext
<1>9. CASE GoesOn
  <2>1. PICK found \in Compared(search.name, read.mp).matches, ends \in Compared(search.name, read.mp).ends :
          Goes(found, ends)
    BY <1>9
  <2>2. found \in Inode \cup {NoInode}
    <3>1. CASE read.mp.holds \in DOMAIN entries
      <4>1. entries[read.mp.holds][search.name] \in Inode \cup {NoInode} BY <1>1, <3>1, DiskAssumption
      <4> QED BY <2>1, <3>1, <4>1 DEF Compared
    <3>2. CASE read.mp.holds \notin DOMAIN entries BY <2>1, <3>2 DEF Compared
    <3> QED BY <3>1, <3>2
  <2>3. PICK pc \in {"hung", "dir", "inode"} :
          pc = IF ~ends THEN "hung" ELSE IF found = NoInode THEN "dir" ELSE "inode"
    OBVIOUS
  <2>4. PICK clean \in BOOLEAN : clean = ((search.clean /\ next.ok) /\ read.ok) OBVIOUS
  <2>5. search' = [search EXCEPT !.pc = pc, !.bf = next.bf, !.found = found, !.clean = clean]
    BY <2>1, <2>3, <2>4
  <2>6. /\ search' \in SearchType /\ search'.pc = pc /\ search'.bf = next.bf /\ search'.found = found
        /\ search'.clean = clean /\ search'.fd = search.fd /\ search'.name = search.name
    BY <1>3, <2>2, <2>5, Pieces DEF SearchType
  <2>7. SearchTyped' BY <1>1, <2>2, <2>3, <2>6 DEF SearchTyped
  <2>8. SearchRight'
    <3>1. SUFFICES ASSUME clean
                   PROVE  /\ pc = "dir" => \E k \in 0 .. SNGL_IND + PER_BLOCK : LookedThrough(k)'
                          /\ pc = "inode" => found = Named(search.name)
      BY <2>6 DEF SearchRight
    <3>2. search.clean /\ next.ok /\ read.ok BY <2>4, <3>1
    <3>3. PICK k \in 0 .. SNGL_IND + PER_BLOCK :
               /\ LookedThrough(k) /\ next.block = HandedOut(EXT2_ROOT_INO, k)
               /\ k < SNGL_IND + PER_BLOCK => next.bf = At(EXT2_ROOT_INO, k + 1)
      BY <1>7, <3>2
    <3>4. k \in 0 .. n - 1 /\ next.block \in DOMAIN entries BY <1>6, <1>9, <3>3, WithinTheRoot
    <3>5. read.mp.holds = next.block BY <1>5, <3>2
    <3>6. ends = TRUE BY <2>1, <3>4, <3>5 DEF Compared
    <3>7. found = entries[next.block][search.name] BY <2>1, <3>4, <3>5 DEF Compared
    <3>8. CASE found # NoInode
      <4>1. Named(search.name) = found BY <1>1, <3>4, <3>7, <3>8, NamedUnique
      <4>2. pc # "dir" BY <2>3, <3>6, <3>8
      <4> QED BY <4>1, <4>2
    <3>9. CASE found = NoInode
      <4>1. pc = "dir" BY <2>3, <3>6, <3>9
      <4>2. k + 1 \in 0 .. SNGL_IND + PER_BLOCK /\ k < SNGL_IND + PER_BLOCK BY <3>4, FollowerTypes
      <4>3. \A j \in 0 .. k : j \in 0 .. k - 1 \/ j = k BY <3>4
      <4>4. k + 1 - 1 = k BY <3>4
      <4>5. ~Lists(HandedOut(EXT2_ROOT_INO, k), search.name) BY <3>3, <3>7, <3>9 DEF Lists
      <4>6. ASSUME NEW j \in 0 .. k
            PROVE  HandedOut(EXT2_ROOT_INO, j) # NoBlock /\ ~Lists(HandedOut(EXT2_ROOT_INO, j), search.name)
        <5>1. CASE j = k BY <1>9, <3>3, <4>5, <5>1
        <5>2. CASE j \in 0 .. k - 1 BY <3>3, <5>2 DEF LookedThrough
        <5> QED BY <4>3, <5>1, <5>2
      <4>7. search'.bf = At(EXT2_ROOT_INO, k + 1) BY <2>6, <3>3, <4>2
      <4>8. LookedThrough(k + 1)' BY <2>6, <4>4, <4>6, <4>7 DEF LookedThrough
      <4> QED BY <4>1, <4>2, <4>8
    <3> QED BY <3>8, <3>9
  <2> QED BY <1>5, <1>9, <2>6, <2>7, <2>8, UnchangedFiles, Pieces, PiecesNext
<1> QED BY <1>0, <1>8, <1>9

LEMMA OpenFoundStep ==
  ASSUME IInv, NEW ok \in BOOLEAN, OpenFound(ok) PROVE IInv'
<1>1. search.pc = "inode" /\ search.found \in Inode /\ search.fd \in Fds /\ search.name \in Name
      /\ search.clean \in BOOLEAN
  BY Pieces DEF OpenFound, SearchTyped, SearchType
<1>2. PICK read : read = ReadFsBlock(mp, inode_table[search.found], FALSE, ok) OBVIOUS
<1>3. inode_table[search.found] \in Block BY <1>1, DiskAssumption
<1>4. read.mp \in Mount /\ Sound(read.mp) /\ (read.ok => read.mp.holds = inode_table[search.found])
  BY <1>2, <1>3, Pieces, ReadFsBlockSound
<1>5. mp' = read.mp BY <1>2 DEF OpenFound
<1>6. CASE ~read.ok /\ OpenFails(FALSE)
  <2>1. FilesTyped' /\ FilesAgree' /\ search' = Idle BY <1>1, <1>6, OpenFailsStep
  <2> QED BY <1>4, <1>5, <2>1, IdleSearch, PiecesNext
<1>7. CASE read.ok /\ \E inode \in Decoded(search.found, read.mp) :
                   HandOut(search.fd, [file[search.fd] EXCEPT !.bf = SetUp(@, inode),
                                                              !.size = i_size[inode]],
                           search.name, search.clean)
  <2> DEFINE f == [file[search.fd] EXCEPT !.bf = StartOf(search.found), !.size = i_size[search.found]]
  <2>1. HandOut(search.fd, f, search.name, search.clean)
    BY <1>4, <1>7 DEF Decoded, SetUp
  <2>2. f \in File /\ f.bf = StartOf(search.found) /\ f.size = i_size[search.found]
    <3>1. file[search.fd] \in File BY <1>1, Pieces DEF FilesTyped
    <3>2. StartOf(search.found) \in Follower /\ i_size[search.found] \in Nat
      BY <1>1, FollowerTypes, DiskAssumption
    <3> QED BY <3>1, <3>2 DEF File
  <2>3. search.clean => search.found = Named(search.name) BY <1>1, Pieces DEF SearchRight
  <2> HIDE DEF f
  <2>4. FilesTyped' /\ FilesAgree' /\ search' = Idle
    BY <1>1, <2>1, <2>2, <2>3, Pieces, HandOutStep
  <2> QED BY <1>4, <1>5, <2>4, IdleSearch, PiecesNext
<1> QED BY <1>2, <1>6, <1>7 DEF OpenFound

LEMMA OnwardsTyped ==
  ASSUME NEW inode, NEW p \in Place, NEW n \in 0 .. BLOCK_SIZE PROVE Onwards(inode, p, n) \in Place
  BY OffsetAfter DEF Onwards

LEMMA CopyTyped ==
  ASSUME NEW f \in File, NEW n \in Nat \ {0}, ~Exhausted(f)
  PROVE  /\ Copied(f, n) - Extra(f, n) \in 0 .. BLOCK_SIZE
         /\ AfterCopy(f, n) \in File /\ AfterCopy(f, n).bf = f.bf /\ AfterCopy(f, n).size = f.size
<1>1. f.index \in Nat /\ f.count \in Nat /\ f.count <= BLOCK_SIZE /\ BLOCK_SIZE \in Nat /\ f.size \in Nat
  BY DiskAssumption DEF File
<1>2. f.count - f.index \in Nat \ {0} BY <1>1 DEF Exhausted
<1>3. PICK c \in 1 .. f.count - f.index : c = Copied(f, n)
  <2>1. CASE n > f.count - f.index BY <1>2, <2>1 DEF Copied
  <2>2. CASE ~(n > f.count - f.index) BY <1>2, <2>2 DEF Copied
  <2> QED BY <2>1, <2>2
<1>4. PICK e \in 0 .. c : e = Extra(f, n) BY <1>1, <1>3 DEF Extra
<1>5. c - e \in 0 .. BLOCK_SIZE /\ f.index + c \in 0 .. BLOCK_SIZE BY <1>1, <1>3, <1>4
<1>6. AfterCopy(f, n) = [f EXCEPT !.index = f.index + c, !.position = c - e, !.ateof = f.ateof \/ c > f.size]
  BY <1>3, <1>4 DEF AfterCopy, File
<1>7. PICK b \in BOOLEAN : b = (f.ateof \/ c > f.size) OBVIOUS
<1>8. AfterCopy(f, n) = [f EXCEPT !.index = f.index + c, !.position = c - e, !.ateof = b] BY <1>6, <1>7
<1>9. PICK i \in 0 .. BLOCK_SIZE, pos \in Nat : i = f.index + c /\ pos = c - e BY <1>1, <1>3, <1>4, <1>5
<1>10. AfterCopy(f, n) = [f EXCEPT !.index = i, !.position = pos, !.ateof = b] BY <1>8, <1>9
<1>11. AfterCopy(f, n) \in File /\ AfterCopy(f, n).bf = f.bf /\ AfterCopy(f, n).size = f.size
  BY <1>10 DEF File
<1> QED BY <1>3, <1>4, <1>5, <1>11

\* Copying from a buffer that has something, and is at the right place if the
\* descriptor is followed.
LEMMA DeliverStep ==
  ASSUME FilesTyped, FilesAgree, NEW fd \in Fds, NEW f \in File, NEW n \in Nat \ {0}, NEW clean \in BOOLEAN,
         ~f.ateof, ~Exhausted(f), f.bf.inode = file[fd].bf.inode, f.size = file[fd].size,
         user[fd].clean /\ clean /\ ~user[fd].sought /\ InFile(user[fd].want, user[fd].place) =>
           BufferAtPlace(f, user[fd].want, user[fd].place),
         Deliver(fd, f, n, clean)
  PROVE  FilesTyped' /\ FilesAgree'
<1> DEFINE num == Copied(f, n) - Extra(f, n)
           g == AfterCopy(f, n)
           right == Matches(user[fd].want, user[fd].place, f.buffer, f.index, num)
           u == [user[fd] EXCEPT !.right = @ /\ right, !.place = Onwards(user[fd].want, @, num)]
           v == IF user[fd].clean /\ clean /\ ~(user[fd].sought /\ right) THEN u ELSE NoOne
<1>1. user[fd] \in User BY DEF FilesTyped
<1>2. file' = [file EXCEPT ![fd] = g] /\ user' = [user EXCEPT ![fd] = v] BY DEF Deliver, FilesTyped
<1>3. g \in File /\ g.bf = f.bf /\ g.size = f.size BY CopyTyped
<1>4. v \in User /\ Agree(g, v)
  <2>1. CASE user[fd].clean /\ clean /\ ~(user[fd].sought /\ right)
    <3>1. v = u BY <2>1
    <3>2. Onwards(user[fd].want, user[fd].place, num) \in Place
      BY <1>1, CopyTyped, OnwardsTyped DEF User
    <3>3. u \in User /\ u.want = user[fd].want /\ u.sought = user[fd].sought /\ u.clean
          /\ u.place = Onwards(user[fd].want, user[fd].place, num) /\ (u.right <=> user[fd].right /\ right)
      BY <1>1, <2>1, <3>2 DEF User
    <3>4. f.bf.inode = u.want /\ f.size = i_size[u.want] BY <2>1, <3>3 DEF FilesAgree, Agree
    <3>5. ASSUME ~u.sought PROVE InStep(g, u)
      <4>1. ~user[fd].sought /\ user[fd].right BY <2>1, <3>3, <3>5 DEF FilesAgree, Agree, InStep
      <4>2. /\ right
            /\ g.ateof => ~InFile(u.want, u.place)
            /\ ~g.ateof /\ InFile(u.want, u.place) =>
                 BufferUsedUp(g, u.want, u.place) \/ BufferAtPlace(g, u.want, u.place)
        <5>1. user[fd].want \in Inode \cup {NoInode} /\ user[fd].place \in Place BY <1>1 DEF User
        <5>2. f.size = i_size[user[fd].want] BY <3>3, <3>4
        <5>3. InFile(user[fd].want, user[fd].place) => BufferAtPlace(f, user[fd].want, user[fd].place)
          BY <2>1, <4>1
        <5> HIDE DEF u, v
        <5> QED BY <3>3, <5>1, <5>2, <5>3, CopySteps
      <4> QED BY <3>3, <4>1, <4>2 DEF InStep
    <3> HIDE DEF u, v, g
    <3> QED BY <1>3, <3>1, <3>3, <3>4, <3>5 DEF Agree
  <2>2. CASE ~(user[fd].clean /\ clean /\ ~(user[fd].sought /\ right)) BY <2>2, NoOneAgrees
  <2> QED BY <2>1, <2>2
<1> HIDE DEF g, v
<1> QED BY <1>2, <1>3, <1>4, SlotStep

LEMMA ReadBufferedStep ==
  ASSUME IInv, NEW fd \in Fds, NEW n \in Lengths, ReadBuffered(fd, n) PROVE IInv'
<1>1. file[fd] \in File /\ n \in Nat \ {0} BY Pieces, CallsAssumption DEF FilesTyped
<1>2. ~file[fd].ateof /\ ~Exhausted(file[fd]) /\ Deliver(fd, file[fd], n, TRUE) BY DEF ReadBuffered
<1>3. ASSUME user[fd].clean, ~user[fd].sought, InFile(user[fd].want, user[fd].place)
      PROVE  BufferAtPlace(file[fd], user[fd].want, user[fd].place)
  <2>1. InStep(file[fd], user[fd]) BY <1>3, Pieces DEF FilesAgree, Agree
  <2>2. ~BufferUsedUp(file[fd], user[fd].want, user[fd].place)
    <3>1. file[fd].count \in Int BY <1>1, DiskAssumption DEF File
    <3> QED BY <1>2, <3>1 DEF Exhausted, BufferUsedUp
  <2> QED BY <1>2, <1>3, <2>1, <2>2 DEF InStep
<1>4. FilesTyped' /\ FilesAgree' BY <1>1, <1>2, <1>3, Pieces, DeliverStep
<1>5. UNCHANGED <<mp, search>> BY DEF ReadBuffered
<1> QED BY <1>4, <1>5, UnchangedSearch, Pieces, PiecesNext

LEMMA ReadNextStep ==
  ASSUME IInv, NEW fd \in Fds, NEW n \in Lengths, NEW okTable \in BOOLEAN, NEW ok \in BOOLEAN,
         ReadNext(fd, n, okTable, ok)
  PROVE  IInv'
<1> DEFINE next == NextBlock(file[fd].bf, mp, okTable)
           Fails == /\ next.block # NoBlock /\ ~ok
                    /\ file' = [file EXCEPT ![fd].bf = next.bf, ![fd].buffer = Junk]
                    /\ user' = [user EXCEPT ![fd] = NoOne]
           f == Fill(file[fd], next)
<1>1. file[fd] \in File /\ user[fd] \in User /\ n \in Nat \ {0} BY Pieces, CallsAssumption DEF FilesTyped
<1>2. /\ ~file[fd].ateof /\ Exhausted(file[fd]) /\ mp' = next.mp /\ search' = search
      /\ Deliver(fd, f, n, next.ok) \/ Fails
  BY DEF ReadNext
<1>3. next = NextBlock(file[fd].bf, mp, okTable) OBVIOUS
<1>4. f = Fill(file[fd], next) OBVIOUS
<1> HIDE DEF next, f
<1>5. /\ next.block \in Block /\ next.bf \in Follower /\ next.bf.inode = file[fd].bf.inode
      /\ next.mp \in Mount /\ Sound(next.mp) /\ next.ok \in BOOLEAN
  <2>1. file[fd].bf \in Follower BY <1>1 DEF File
  <2>2. mp \in Mount /\ Sound(mp) BY Pieces
  <2>3. LET r == NextBlock(file[fd].bf, mp, okTable)
        IN /\ r.block \in Block /\ r.bf \in Follower /\ r.bf.inode = file[fd].bf.inode
           /\ r.mp \in Mount /\ Sound(r.mp) /\ r.ok \in BOOLEAN
    BY <2>1, <2>2, NextBlockSound
  <2> QED BY <1>3, <2>3
<1>6. CASE Deliver(fd, f, n, next.ok)
  <2>1. BLOCK_SIZE \in Nat \ {0} BY DiskAssumption
  <2>2. /\ f \in File /\ f.bf = next.bf /\ f.buffer = next.block /\ f.index = 0 /\ f.count = BLOCK_SIZE
        /\ f.size = file[fd].size /\ ~f.ateof
    <3>1. PICK b \in BOOLEAN : b = (file[fd].ateof \/ BLOCK_SIZE = 0) OBVIOUS
    <3>2. ~b BY <1>2, <2>1, <3>1
    <3>3. f = [file[fd] EXCEPT !.bf = next.bf, !.buffer = next.block, !.index = 0, !.count = BLOCK_SIZE,
                               !.ateof = b]
      BY <1>1, <1>4, <3>1 DEF Fill, BytesRead, File
    <3>4. 0 \in 0 .. BLOCK_SIZE BY <2>1
    <3> QED BY <1>1, <1>5, <3>2, <3>3, <3>4 DEF File
  <2>3. ~Exhausted(f) BY <2>1, <2>2 DEF Exhausted
  <2>4. ASSUME user[fd].clean, next.ok, ~user[fd].sought, InFile(user[fd].want, user[fd].place)
        PROVE  BufferAtPlace(f, user[fd].want, user[fd].place)
    <3>1. user[fd].want \in Inode \cup {NoInode} /\ user[fd].place \in Place /\ user[fd].place.blk \in Nat
          /\ user[fd].place.byte \in 0 .. BLOCK_SIZE - 1
      BY <1>1 DEF User, Place
    <3>2. InStep(file[fd], user[fd]) BY <2>4, Pieces DEF FilesAgree, Agree
    <3>3. ~BufferAtPlace(file[fd], user[fd].want, user[fd].place)
      BY <1>2, <2>1, <3>1 DEF Exhausted, BufferAtPlace
    <3>4. BufferUsedUp(file[fd], user[fd].want, user[fd].place) BY <1>2, <2>4, <3>2, <3>3 DEF InStep
    <3>5. PICK k \in 0 .. SNGL_IND + PER_BLOCK - 1 :
            k = user[fd].place.blk /\ FileBlock(user[fd].want, k) = HandedOut(user[fd].want, k)
      BY <2>4, <3>1, FollowersBlock
    <3>6. k \in 0 .. SNGL_IND + PER_BLOCK /\ k < SNGL_IND + PER_BLOCK BY FollowerTypes
    <3>7. next = NextBlock(At(user[fd].want, k), mp, okTable) BY <1>3, <3>4, <3>5 DEF BufferUsedUp
    <3>8. next.block = HandedOut(user[fd].want, k) /\ next.bf = At(user[fd].want, k + 1)
      BY <2>4, <3>1, <3>6, <3>7, Pieces, NextBlockInOrder
    <3> QED BY <2>2, <3>4, <3>5, <3>8 DEF BufferAtPlace, BufferUsedUp
  <2>5. FilesTyped' /\ FilesAgree' BY <1>1, <1>5, <1>6, <2>2, <2>3, <2>4, Pieces, DeliverStep
  <2> QED BY <1>2, <1>5, <2>5, UnchangedSearch, Pieces, PiecesNext
<1>7. CASE Fails
  <2> DEFINE g == [file[fd] EXCEPT !.bf = next.bf, !.buffer = Junk]
  <2>1. g \in File BY <1>1, <1>5 DEF File
  <2>2. file' = [file EXCEPT ![fd] = g] BY <1>7, Pieces DEF FilesTyped
  <2> HIDE DEF g
  <2>3. FilesTyped' /\ FilesAgree' BY <1>7, <2>1, <2>2, NoOneAgrees, Pieces, SlotStep
  <2> QED BY <1>2, <1>5, <2>3, UnchangedSearch, Pieces, PiecesNext
<1> QED BY <1>2, <1>6, <1>7

LEMMA FollowedTyped ==
  ASSUME NEW inode \in Inode, NEW steps \in Nat, NEW m \in Mount, Sound(m), NEW ok \in BOOLEAN
  PROVE  LET end == Followed(inode, steps, m, ok)
         IN /\ end.bf \in Follower /\ end.bf.inode = inode /\ end.block \in Block /\ end.ok \in BOOLEAN
            /\ end.mp \in Mount /\ Sound(end.mp)
<1> DEFINE table == ReadFsBlock(m, i_block[inode][SNGL_IND], TRUE, ok)
<1>1. SNGL_IND \in Nat /\ i_block[inode][SNGL_IND] \in Block
  <2>1. i_block[inode] \in [0 .. SNGL_IND -> Block] BY DiskAssumption
  <2> QED BY <2>1, FollowerTypes
<1>2. table.mp \in Mount /\ Sound(table.mp) BY <1>1, ReadFsBlockSound
<1>3. /\ At(inode, steps) \in Follower /\ At(inode, SNGL_IND) \in Follower
      /\ At(inode, steps).inode = inode /\ At(inode, SNGL_IND).inode = inode
  <2>1. \A k : At(inode, k).inode = inode BY DEF At
  <2> QED BY <1>1, <2>1, FollowerTypes
<1>4. PICK block \in Block : block = IF steps = 0 THEN NoBlock ELSE HandedOut(inode, steps - 1)
  <2>1. CASE steps = 0 BY <2>1, DiskAssumption
  <2>2. CASE steps # 0
    <3>1. steps - 1 \in Nat BY <2>2
    <3> QED BY <2>2, <3>1, FollowerTypes
  <2> QED BY <2>1, <2>2
<1>5. PICK after \in Mount : after = (IF steps <= SNGL_IND THEN m ELSE table.mp) /\ Sound(after)
  BY <1>2
<1>6. CASE steps <= SNGL_IND \/ table.ok
  <2>1. Followed(inode, steps, m, ok) = [bf |-> At(inode, steps), ok |-> TRUE, block |-> block, mp |-> after]
    BY <1>4, <1>5, <1>6 DEF Followed
  <2> HIDE DEF table
  <2> QED BY <1>3, <1>4, <1>5, <2>1
<1>7. CASE ~(steps <= SNGL_IND \/ table.ok)
  <2>1. Followed(inode, steps, m, ok) = [bf |-> At(inode, SNGL_IND), ok |-> FALSE, block |-> NoBlock, mp |-> table.mp]
    BY <1>7 DEF Followed
  <2> HIDE DEF table
  <2> QED BY <1>2, <1>3, <2>1, DiskAssumption
<1> QED BY <1>6, <1>7

\* A seek leaves the descriptor on its file, and its user no longer followed.
LEMMA SoughtStep ==
  ASSUME FilesTyped, FilesAgree, NEW fd \in Fds, NEW f \in File, NEW target \in Nat, NEW clean \in BOOLEAN,
         f.bf.inode = file[fd].bf.inode, f.size = file[fd].size, Sought(fd, f, target, clean)
  PROVE  FilesTyped' /\ FilesAgree'
<1> DEFINE v == IF user[fd].clean /\ clean /\ f.position = target
                THEN [user[fd] EXCEPT !.sought = TRUE, !.place = PlaceOf(target)] ELSE NoOne
<1>1. user[fd] \in User /\ PlaceOf(target) \in Place BY PlaceOfTyped DEF FilesTyped
<1>2. file' = [file EXCEPT ![fd] = f] /\ user' = [user EXCEPT ![fd] = v] BY DEF Sought, FilesTyped
<1>3. v \in User /\ Agree(f, v)
  <2>1. CASE user[fd].clean /\ clean /\ f.position = target
    <3>1. v = [user[fd] EXCEPT !.sought = TRUE, !.place = PlaceOf(target)] BY <2>1
    <3>2. v \in User /\ v.want = user[fd].want /\ v.sought BY <1>1, <3>1 DEF User
    <3>3. f.bf.inode = user[fd].want /\ f.size = i_size[user[fd].want]
      BY <2>1 DEF FilesAgree, Agree
    <3> HIDE DEF v
    <3> QED BY <3>2, <3>3 DEF Agree
  <2>2. CASE ~(user[fd].clean /\ clean /\ f.position = target) BY <2>2, NoOneAgrees
  <2> QED BY <2>1, <2>2
<1> HIDE DEF v
<1> QED BY <1>2, <1>3, SlotStep

LEMMA SeekNearStep ==
  ASSUME IInv, NEW fd \in Fds, NEW target \in Nat, SeekNear(fd, target) PROVE IInv'
<1>1. file[fd] \in File BY Pieces DEF FilesTyped
<1>2. UNCHANGED <<mp, search>> BY DEF SeekNear
<1>3. CASE Sought(fd, file[fd], target, TRUE)
  <2>1. FilesTyped' /\ FilesAgree' BY <1>1, <1>3, Pieces, SoughtStep
  <2> QED BY <1>2, <2>1, UnchangedSearch, Pieces, PiecesNext
<1>4. CASE InCurrentBlock(file[fd], target) /\ Sought(fd, Within(file[fd], target), target, TRUE)
  <2>1. file[fd].position \in Nat /\ file[fd].index \in Nat /\ BLOCK_SIZE \in Nat BY <1>1, DiskAssumption DEF File
  <2>2. PICK i \in 0 .. BLOCK_SIZE : i = file[fd].index + target - file[fd].position
    BY <1>4, <2>1 DEF InCurrentBlock
  <2>3. Within(file[fd], target) = [file[fd] EXCEPT !.position = target, !.index = i]
    BY <2>2 DEF Within
  <2>4. /\ Within(file[fd], target) \in File /\ Within(file[fd], target).bf = file[fd].bf
        /\ Within(file[fd], target).size = file[fd].size
    BY <1>1, <2>3 DEF File
  <2>5. FilesTyped' /\ FilesAgree' BY <1>4, <2>4, Pieces, SoughtStep
  <2> QED BY <1>2, <2>5, UnchangedSearch, Pieces, PiecesNext
<1> QED BY <1>3, <1>4 DEF SeekNear

LEMMA SeekFarStep ==
  ASSUME IInv, NEW fd \in Fds, NEW target \in Nat, NEW okTable \in BOOLEAN, NEW ok \in BOOLEAN,
         file[fd].bf.inode \in Inode, SeekFar(fd, target, okTable, ok)
  PROVE  IInv'
<1> DEFINE f == file[fd]
           end == Followed(f.bf.inode, target \div BLOCK_SIZE, mp, okTable)
           read == end.block = NoBlock \/ ok
           g == SeekTo(f, target, end, read)
<1>1. f \in File BY Pieces DEF FilesTyped
<1>2. mp' = end.mp /\ search' = search /\ Sought(fd, g, target, end.ok /\ read) BY DEF SeekFar
<1>3. BLOCK_SIZE \in Nat \ {0} /\ f.size \in Nat BY <1>1, DiskAssumption DEF File
<1>4. target \div BLOCK_SIZE \in Nat BY <1>3, DivMod
<1>5. /\ end.bf \in Follower /\ end.bf.inode = f.bf.inode /\ end.block \in Block /\ end.ok \in BOOLEAN
      /\ end.mp \in Mount /\ Sound(end.mp)
  <2>1. PICK steps \in Nat : steps = target \div BLOCK_SIZE BY <1>4
  <2>2. PICK inode \in Inode : inode = f.bf.inode OBVIOUS
  <2>3. end = Followed(inode, steps, mp, okTable) BY <2>1, <2>2
  <2>4. LET e == Followed(inode, steps, mp, okTable)
        IN /\ e.bf \in Follower /\ e.bf.inode = inode /\ e.block \in Block /\ e.ok \in BOOLEAN
           /\ e.mp \in Mount /\ Sound(e.mp)
    BY Pieces, FollowedTyped
  <2> HIDE DEF end
  <2> QED BY <2>2, <2>3, <2>4
<1> HIDE DEF end
<1>7. g \in File /\ g.bf = end.bf /\ g.size = f.size
  <2>1. CASE read
    <3>1. PICK pos \in Nat : pos = IF target > f.size THEN f.size ELSE target BY <1>3
    <3>2. pos % BLOCK_SIZE \in 0 .. BLOCK_SIZE - 1 BY <1>3, DivMod
    <3>3. PICK i \in 0 .. BLOCK_SIZE : i = pos % BLOCK_SIZE BY <1>3, <3>2
    <3>4. g = [f EXCEPT !.bf = end.bf, !.buffer = end.block, !.count = BLOCK_SIZE, !.index = i, !.position = pos]
      BY <2>1, <3>1, <3>3 DEF SeekTo
    <3> HIDE DEF f, g
    <3> QED BY <1>1, <1>5, <3>4 DEF File
  <2>2. CASE ~read
    <3>1. \A a, b \in Nat : a * b \in Nat OBVIOUS
    <3>2. PICK pos \in Nat : pos = (target \div BLOCK_SIZE) * BLOCK_SIZE BY <1>3, <1>4, <3>1
    <3>3. g = [f EXCEPT !.bf = end.bf, !.buffer = Junk, !.position = pos] BY <2>2, <3>2 DEF SeekTo
    <3> HIDE DEF f, g
    <3> QED BY <1>1, <1>5, <3>3 DEF File
  <2> QED BY <2>1, <2>2
<1>8. PICK clean \in BOOLEAN : clean = (end.ok /\ read) OBVIOUS
<1> HIDE DEF g
<1>9. FilesTyped' /\ FilesAgree' BY <1>2, <1>5, <1>7, <1>8, Pieces, SoughtStep
<1> QED BY <1>2, <1>5, <1>9, UnchangedSearch, Pieces, PiecesNext

\* The offsets that are seeked to are numbers.
LEMMA AbsoluteTyped ==
  ASSUME NEW f \in File, NEW offset \in Targets, NEW whence \in {SEEK_SET, SEEK_CUR, SEEK_END}
  PROVE  Absolute(f, offset, whence) \in Int
<1>1. offset \in Int /\ f.position \in Int /\ f.size \in Int BY CallsAssumption DEF File
<1>2. CASE whence = SEEK_SET
  <2>1. whence # SEEK_CUR /\ whence # SEEK_END BY <1>2, CallsAssumption
  <2> QED BY <1>1, <1>2, <2>1 DEF Absolute
<1>3. CASE whence = SEEK_CUR
  <2>1. whence # SEEK_SET /\ whence # SEEK_END BY <1>3, CallsAssumption
  <2> QED BY <1>1, <1>3, <2>1 DEF Absolute
<1>4. CASE whence = SEEK_END
  <2>1. whence # SEEK_SET /\ whence # SEEK_CUR BY <1>4, CallsAssumption
  <2> QED BY <1>1, <1>4, <2>1 DEF Absolute
<1> QED BY <1>2, <1>3, <1>4

LEMMA bios_seekStep ==
  ASSUME IInv, NEW fd \in Fds, bios_seek(fd) PROVE IInv'
<1>1. PICK offset \in Targets, whence \in {SEEK_SET, SEEK_CUR, SEEK_END} :
        LET target == Absolute(file[fd], offset, whence)
        IN /\ target >= 0 /\ file[fd].bf.inode # NoInode
           /\ \/ SeekNear(fd, target)
              \/ \E okTable, ok \in Device : SeekFar(fd, target, okTable, ok)
  BY DEF bios_seek
<1>2. file[fd] \in File BY Pieces DEF FilesTyped
<1>3. PICK target \in Int : target = Absolute(file[fd], offset, whence) BY <1>2, AbsoluteTyped
<1>4. target \in Nat /\ file[fd].bf.inode \in Inode BY <1>1, <1>2, <1>3 DEF File, Follower
<1>5. CASE SeekNear(fd, target) BY <1>4, <1>5, SeekNearStep
<1>6. CASE \E okTable, ok \in Device : SeekFar(fd, target, okTable, ok)
  <2>1. PICK okTable \in Device, ok \in Device : SeekFar(fd, target, okTable, ok) BY <1>6
  <2>2. okTable \in BOOLEAN /\ ok \in BOOLEAN BY CallsAssumption
  <2> QED BY <1>4, <2>1, <2>2, SeekFarStep
<1> QED BY <1>1, <1>3, <1>5, <1>6

LEMMA bios_closeStep ==
  ASSUME IInv, NEW fd \in Fds, bios_close(fd) PROVE IInv'
<1> DEFINE g == [file[fd] EXCEPT !.open = FALSE, !.index = 0, !.count = 0, !.position = 0]
<1>1. file[fd] \in File BY Pieces DEF FilesTyped
<1>2. g \in File
  <2>1. 0 \in 0 .. BLOCK_SIZE /\ 0 \in Nat BY DiskAssumption
  <2> QED BY <1>1, <2>1 DEF File
<1>3. file' = [file EXCEPT ![fd] = g] BY Pieces DEF bios_close, FilesTyped
<1>4. user' = [user EXCEPT ![fd] = NoOne] /\ UNCHANGED <<mp, search>> BY DEF bios_close
<1> HIDE DEF g
<1>5. FilesTyped' /\ FilesAgree' BY <1>2, <1>3, <1>4, NoOneAgrees, Pieces, SlotStep
<1> QED BY <1>4, <1>5, UnchangedSearch, Pieces, PiecesNext

LEMMA bios_openStep ==
  ASSUME IInv, bios_open PROVE IInv'
<1>1. ASSUME NEW name \in Name, OpenForWriting(name) \/ Open(name) PROVE IInv'
  BY <1>1, OpenForWritingStep, OpenStep
<1>2. ASSUME NEW ok \in Device, SearchRoot(ok) \/ OpenFound(ok) PROVE IInv'
  <2>1. ok \in BOOLEAN BY CallsAssumption
  <2> QED BY <1>2, <2>1, SearchRootStep, OpenFoundStep
<1>3. ASSUME NEW okTable \in Device, NEW ok \in Device, SearchBlock(okTable, ok) PROVE IInv'
  <2>1. okTable \in BOOLEAN /\ ok \in BOOLEAN BY CallsAssumption
  <2> QED BY <1>3, <2>1, SearchBlockStep
<1> QED BY <1>1, <1>2, <1>3 DEF bios_open

LEMMA bios_readStep ==
  ASSUME IInv, NEW fd \in Fds, bios_read(fd) PROVE IInv'
<1>1. ASSUME NEW n \in Lengths, ReadBuffered(fd, n) PROVE IInv' BY <1>1, ReadBufferedStep
<1>2. ASSUME NEW n \in Lengths, NEW okTable \in Device, NEW ok \in Device, ReadNext(fd, n, okTable, ok)
      PROVE  IInv'
  <2>1. okTable \in BOOLEAN /\ ok \in BOOLEAN BY CallsAssumption
  <2> QED BY <1>2, <2>1, ReadNextStep
<1> QED BY <1>1, <1>2 DEF bios_read

LEMMA Stutter == IInv /\ UNCHANGED vars => IInv'
<1> SUFFICES ASSUME IInv, UNCHANGED vars PROVE IInv' OBVIOUS
<1>1. UNCHANGED <<file, user>> /\ UNCHANGED search /\ UNCHANGED mp BY DEF vars
<1> QED BY <1>1, UnchangedFiles, UnchangedSearch, Pieces, PiecesNext

LEMMA NextStep == IInv /\ [Next]_vars => IInv'
<1> SUFFICES ASSUME IInv, [Next]_vars PROVE IInv' OBVIOUS
<1>1. CASE bios_open BY <1>1, bios_openStep
<1>2. ASSUME NEW fd \in Fds, bios_read(fd) \/ bios_seek(fd) \/ bios_close(fd) PROVE IInv'
  BY <1>2, bios_readStep, bios_seekStep, bios_closeStep
<1>3. CASE UNCHANGED vars BY <1>3, Stutter
<1> QED BY <1>1, <1>2, <1>3 DEF Next

-----------------------------------------------------------------------------
(***************************************************************************)
(* What holds in every reachable state of open, read, seek and close.      *)
(***************************************************************************)
\* The invariant: what each descriptor holds agrees with what its user asked for.
THEOREM Invariance == Spec => []IInv
<1> QED BY InitIInv, NextStep, PTL DEF Spec

\* Buffer indices, positions and followers (filesystems.h, ext2.h) stay in range.
THEOREM TypeCorrect == Spec => []TypeOK
<1>1. IInv => TypeOK BY DEF IInv
<1> QED BY <1>1, Invariance, PTL

\* ext2_read_fs_block's number and flag are right about its buffer, whatever failed.
THEOREM BufferCorrect == Spec => []MountBufferSound
<1>1. IInv => MountBufferSound BY DEF IInv
<1> QED BY <1>1, Invariance, PTL

\* bios_open without a failed read leaves the descriptor on the named file.
THEOREM OpenCorrect == Spec => []OpensWhatIsNamed
<1>1. IInv => OpensWhatIsNamed BY DEF IInv, FilesAgree, Agree, OpensWhatIsNamed
<1> QED BY <1>1, Invariance, PTL

\* bios_read delivers the file's bytes in order, however calls are cut and mixed.
THEOREM ReadsDeliverTheFile == Spec => []DeliversFile
<1>1. IInv => DeliversFile BY DEF IInv, FilesAgree, Agree, InStep, DeliversFile
<1> QED BY <1>1, Invariance, PTL

\* bios_read reports the end of a file only to those who have had all of it.
THEOREM EndIsTheEnd == Spec => []NothingCutOff
<1>1. IInv => NothingCutOff BY DEF IInv, FilesAgree, Agree, InStep, NothingCutOff
<1> QED BY <1>1, Invariance, PTL
=============================================================================
