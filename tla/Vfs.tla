-------------------------------- MODULE Vfs ---------------------------------
(***************************************************************************)
(* The descriptor table (filesystems.c) over one mounted ext2 filesystem:  *)
(* open, read, seek and close.  The monitor runs one program at a time and *)
(* no interrupt touches files, so the calls do not interleave; what makes  *)
(* them hard is the state they leave each other: descriptors are reused,   *)
(* all share the mount point's block buffer, and any read of the device    *)
(* may fail.  open takes a step per block it needs, the other calls one.   *)
(*                                                                         *)
(* Names are entries of the root directory: bios_open splits off the       *)
(* directory part of a path and does not use it.  Callers use descriptors  *)
(* open gave them.                                                         *)
(***************************************************************************)
EXTENDS Ext2

CONSTANTS
  MAX_FILES,    \* descriptors
  Device,       \* outcomes of a read of the device: {TRUE}, or BOOLEAN if it may fail
  Lengths,      \* num_bytes of the reads programs issue
  Targets,      \* offsets they seek by
  Seekers,      \* descriptors whose users seek
  SEEK_SET, SEEK_CUR, SEEK_END

ASSUME CallsAssumption ==
  /\ MAX_FILES \in Nat /\ Device \subseteq BOOLEAN /\ Lengths \subseteq Nat \ {0}
  /\ Targets \subseteq Int /\ Seekers \subseteq Nat
  /\ SEEK_SET # SEEK_CUR /\ SEEK_SET # SEEK_END /\ SEEK_CUR # SEEK_END

Fds == 0 .. MAX_FILES - 1

VARIABLES
  file,     \* vfs_files
  mp,       \* the mount point's block buffer
  search,   \* the open in progress: what ext2_open and e2_search hold
  user      \* per descriptor, what its user knows: see User

vars == <<file, mp, search, user>>

File == [open : BOOLEAN, bf : Follower, size : Nat, buffer : Block \cup {Junk},
         index : 0 .. BLOCK_SIZE, count : {0, BLOCK_SIZE}, position : Nat, ateof : BOOLEAN]

(***************************************************************************)
(* A file as its user sees it: bytes, byte p.byte of block p.blk at place  *)
(* p.  want is the inode of the name the user gave to open; clean, that no *)
(* read of the device failed on the way and the name exists; sought, that  *)
(* the user has seeked; place, where the next byte is expected from; right *)
(* that every byte of the file delivered so far was the one expected.      *)
(* Nothing more is kept of a user who is not clean, or whose first read    *)
(* after a seek was right.                                                 *)
(***************************************************************************)
Place == [blk : Nat, byte : 0 .. BLOCK_SIZE - 1]
User  == [want : Inode \cup {NoInode}, clean : BOOLEAN, sought : BOOLEAN, place : Place,
          right : BOOLEAN]

PlaceOf(offset) == [blk |-> offset \div BLOCK_SIZE, byte |-> offset % BLOCK_SIZE]
OffsetOf(p) == p.blk * BLOCK_SIZE + p.byte
InFile(inode, p) == OffsetOf(p) < i_size[inode]

\* j bytes on, j at most a block.
After(p, j) == IF p.byte + j < BLOCK_SIZE THEN [p EXCEPT !.byte = @ + j]
               ELSE [blk |-> p.blk + 1, byte |-> p.byte + j - BLOCK_SIZE]

\* Behind the end of the file all places are one.
Onwards(inode, p, n) == IF OffsetOf(p) > i_size[inode] THEN p ELSE After(p, n)

\* What ext2 says is in block k of a file.
FileBlock(inode, k) ==
  CASE k < SNGL_IND -> i_block[inode][k]
    [] k >= SNGL_IND /\ i_block[inode][SNGL_IND] = NoBlock -> NoBlock
    [] OTHER -> indexes[i_block[inode][SNGL_IND]][k - SNGL_IND]

\* The n bytes of a block from index on are the file's at place p, as far as it goes.
Matches(inode, p, block, index, n) ==
  \A j \in 0 .. n - 1 :
    LET q == After(p, j)
    IN InFile(inode, q) => block = FileBlock(inode, q.blk) /\ index + j = q.byte

\* The files the reader is written for: they end in the single indirect block,
\* and have one if they reach that far.
ASSUME SizesAssumption ==
  \A inode \in Inode :
    \/ i_size[inode] <= SNGL_IND * BLOCK_SIZE
    \/ /\ i_size[inode] <= (SNGL_IND + PER_BLOCK) * BLOCK_SIZE
       /\ i_block[inode][SNGL_IND] # NoBlock

\* The root directory: entries are its blocks, all before its first hole, and
\* no name is in two of them.
ASSUME RootAssumption ==
  \E n \in 0 .. SNGL_IND + PER_BLOCK :
    /\ DOMAIN entries = {HandedOut(EXT2_ROOT_INO, k) : k \in 0 .. n - 1}
    /\ HandedOut(EXT2_ROOT_INO, n) = NoBlock /\ NoBlock \notin DOMAIN entries
    /\ \A b, c \in DOMAIN entries : \A name \in Name :
         entries[b][name] # NoInode /\ entries[c][name] # NoInode => b = c

Lists(b, name) == b \in DOMAIN entries /\ entries[b][name] # NoInode
Named(name) ==
  IF \E b \in Block : Lists(b, name)
  THEN entries[CHOOSE b \in Block : Lists(b, name)][name]
  ELSE NoInode

NoOne == [want |-> NoInode, clean |-> FALSE, sought |-> FALSE, place |-> PlaceOf(0),
          right |-> TRUE]
Newcomer(inode) == [NoOne EXCEPT !.want = inode, !.clean = TRUE]
Idle     == [pc |-> "idle", fd |-> 0, name |-> CHOOSE n \in Name : TRUE,
            bf |-> StartOf(EXT2_ROOT_INO), found |-> NoInode, clean |-> TRUE]

\* vfs_init: no file open, one filesystem mounted, and the current directory set
\* to its root, whose inode is the last block read.
Init ==
  /\ file = [fd \in Fds |-> [open |-> FALSE, bf |-> StartOf(NoInode), size |-> 0,
                             buffer |-> NoBlock, index |-> 0, count |-> 0,
                             position |-> 0, ateof |-> FALSE]]
  /\ mp = Loaded(inode_table[EXT2_ROOT_INO])
  /\ search = Idle
  /\ user = [fd \in Fds |-> NoOne]

(***************************************************************************)
(* bios_open takes the first free slot, if any.  Whatever the filesystem's open    *)
(* answers, the descriptor is handed out: after a failure with the block   *)
(* follower and the size of whoever had the slot before.                   *)
(***************************************************************************)
FirstFree == {fd \in Fds : ~file[fd].open /\ \A g \in 0 .. fd - 1 : file[g].open}
FreshSlot(f) == [f EXCEPT !.open = TRUE, !.index = 0, !.count = 0,
                          !.position = 0, !.ateof = FALSE]

HandOut(fd, f, name, clean) ==
  /\ file' = [file EXCEPT ![fd] = FreshSlot(f)]
  /\ user' = [user EXCEPT ![fd] = IF clean /\ Named(name) # NoInode
                                  THEN Newcomer(Named(name)) ELSE NoOne]
  /\ search' = Idle

\* ext2_open writes no files: it refuses the flags that ask for it.
OpenForWriting(name) ==
  /\ search.pc = "idle"
  /\ \E fd \in FirstFree : HandOut(fd, file[fd], name, FALSE)
  /\ UNCHANGED mp

Open(name) ==
  /\ search.pc = "idle"
  /\ \E fd \in FirstFree : search' = [Idle EXCEPT !.pc = "root", !.name = name, !.fd = fd]
  /\ UNCHANGED <<file, mp, user>>

OpenFails(clean) == HandOut(search.fd, file[search.fd], search.name, clean)

\* e2_search: the root's inode, read twice, the second time from the buffer.
SearchRoot(ok) ==
  /\ search.pc = "root"
  /\ LET read == ReadFsBlock(mp, inode_table[EXT2_ROOT_INO], FALSE, ok)
     IN /\ mp' = read.mp
        /\ \/ /\ read.ok
              /\ \E dir \in Decoded(EXT2_ROOT_INO, read.mp) :
                   search' = [search EXCEPT !.pc = "dir", !.bf = StartOf(dir)]
              /\ UNCHANGED <<file, user>>
           \/ ~read.ok /\ OpenFails(FALSE)

\* e2_search: the next block of the directory, or its end.  Whether the block
\* could be read is not looked at.
SearchBlock(okTable, ok) ==
  /\ search.pc = "dir"
  /\ LET next == NextBlock(search.bf, mp, okTable)
         read == ReadFsBlock(next.mp, next.block, FALSE, ok)
         clean == search.clean /\ next.ok
     IN \/ /\ next.block = NoBlock
           /\ mp' = next.mp
           /\ OpenFails(clean)
        \/ /\ next.block # NoBlock
           /\ mp' = read.mp
           /\ \E found \in Compared(search.name, read.mp).matches,
                 ends \in Compared(search.name, read.mp).ends :
                search' = [search EXCEPT !.pc = IF ~ends THEN "hung"
                                                ELSE IF found = NoInode THEN "dir" ELSE "inode",
                                         !.bf = next.bf, !.found = found,
                                         !.clean = clean /\ read.ok]
           /\ UNCHANGED <<file, user>>

\* ext2_open: the inode found, read twice, the second time from the buffer.
OpenFound(ok) ==
  /\ search.pc = "inode"
  /\ LET read == ReadFsBlock(mp, inode_table[search.found], FALSE, ok)
     IN /\ mp' = read.mp
        /\ \/ /\ read.ok
              /\ \E inode \in Decoded(search.found, read.mp) :
                   HandOut(search.fd, [file[search.fd] EXCEPT !.bf = SetUp(@, inode),
                                                              !.size = i_size[inode]],
                           search.name, search.clean)
           \/ ~read.ok /\ OpenFails(FALSE)

bios_open ==
  \/ \E name \in Name : OpenForWriting(name) \/ Open(name)
  \/ \E ok \in Device : SearchRoot(ok) \/ OpenFound(ok)
  \/ \E okTable, ok \in Device : SearchBlock(okTable, ok)

InUse(fd) == search.pc = "idle" /\ file[fd].open

(***************************************************************************)
(* bios_read delivers what is left in the descriptor's buffer, after       *)
(* filling it from the next block if nothing is.                           *)
(***************************************************************************)
Exhausted(f) == f.count - f.index <= 0

\* What ext2_read says it read: a whole block, of a hole too.
HoleIsEnd(block) == IF block = NoBlock THEN 0 ELSE BLOCK_SIZE
BytesRead(block) == BLOCK_SIZE

Fill(f, next) ==
  [f EXCEPT !.bf = next.bf, !.buffer = next.block, !.index = 0,
            !.count = BytesRead(next.block), !.ateof = @ \/ BytesRead(next.block) = 0]

\* The copy to the user's buffer.  position is the number of bytes copied.
Copied(f, n) == LET available == f.count - f.index IN IF n > available THEN available ELSE n
Extra(f, n)  == IF Copied(f, n) > f.size THEN Copied(f, n) - f.size ELSE 0

AfterCopy(f, n) ==
  [f EXCEPT !.index = @ + Copied(f, n), !.position = Copied(f, n) - Extra(f, n),
            !.ateof = @ \/ Copied(f, n) > f.size]

Deliver(fd, f, n, clean) ==
  LET num_bytes == Copied(f, n) - Extra(f, n)
      u == user[fd]
      right == Matches(u.want, u.place, f.buffer, f.index, num_bytes)
  IN /\ file' = [file EXCEPT ![fd] = AfterCopy(f, n)]
     /\ user' = [user EXCEPT ![fd] =
                   IF u.clean /\ clean /\ ~(u.sought /\ right)
                   THEN [u EXCEPT !.right = @ /\ right, !.place = Onwards(u.want, @, num_bytes)]
                   ELSE NoOne]

ReadBuffered(fd, n) ==
  /\ InUse(fd) /\ ~file[fd].ateof /\ ~Exhausted(file[fd])
  /\ Deliver(fd, file[fd], n, TRUE)
  /\ UNCHANGED <<mp, search>>

\* ext2_read.  The follower has moved on when the block turns out unreadable.
ReadNext(fd, n, okTable, ok) ==
  /\ InUse(fd) /\ ~file[fd].ateof /\ Exhausted(file[fd])
  /\ LET next == NextBlock(file[fd].bf, mp, okTable)
     IN /\ mp' = next.mp
        /\ \/ /\ next.block = NoBlock \/ ok
              /\ Deliver(fd, Fill(file[fd], next), n, next.ok)
           \/ /\ next.block # NoBlock /\ ~ok
              /\ file' = [file EXCEPT ![fd].bf = next.bf, ![fd].buffer = Junk]
              /\ user' = [user EXCEPT ![fd] = NoOne]
  /\ UNCHANGED search

\* At the end of the file bios_read returns 0 and changes nothing.
bios_read(fd) ==
  \E n \in Lengths :
    ReadBuffered(fd, n) \/ \E okTable, ok \in Device : ReadNext(fd, n, okTable, ok)

(***************************************************************************)
(* bios_seek: ext2_seek, which moves inside the current block if the       *)
(* target is there, and otherwise starts over and follows the file up to   *)
(* it (seek_to).  If a table cannot be read, none can for that call.       *)
(***************************************************************************)
Absolute(f, offset, whence) ==
  CASE whence = SEEK_SET -> offset
    [] whence = SEEK_CUR -> f.position + offset
    [] whence = SEEK_END -> f.size + offset

InCurrentBlock(f, target) ==
  target >= f.position - f.index /\ target < f.position - f.index + BLOCK_SIZE

Within(f, target) ==
  [f EXCEPT !.position = target, !.index = @ + target - f.position]

\* The follower after steps blocks, the last block number it handed out, and
\* the mount point's buffer.
Followed(inode, steps, m, okTable) ==
  LET table == ReadFsBlock(m, i_block[inode][SNGL_IND], TRUE, okTable)
  IN IF steps <= SNGL_IND \/ table.ok
     THEN [bf |-> At(inode, steps), ok |-> TRUE,
           block |-> IF steps = 0 THEN NoBlock ELSE HandedOut(inode, steps - 1),
           mp |-> IF steps <= SNGL_IND THEN m ELSE table.mp]
     ELSE [bf |-> At(inode, SNGL_IND), ok |-> FALSE, block |-> NoBlock, mp |-> table.mp]

SeekTo(f, target, end, read) ==
  LET past == target > f.size IN
  IF read
  THEN [f EXCEPT !.bf = end.bf, !.buffer = end.block, !.count = BLOCK_SIZE,
                 !.index = (IF past THEN f.size ELSE target) % BLOCK_SIZE,
                 !.position = IF past THEN f.size ELSE target]
  ELSE [f EXCEPT !.bf = end.bf, !.buffer = Junk,
                 !.position = (target \div BLOCK_SIZE) * BLOCK_SIZE]

Sought(fd, f, target, clean) ==
  /\ file' = [file EXCEPT ![fd] = f]
  /\ user' = [user EXCEPT ![fd] = IF @.clean /\ clean /\ f.position = target
                                  THEN [@ EXCEPT !.sought = TRUE, !.place = PlaceOf(target)]
                                  ELSE NoOne]

SeekNear(fd, target) ==
  /\ InUse(fd)
  /\ \/ target = file[fd].position /\ Sought(fd, file[fd], target, TRUE)
     \/ /\ target # file[fd].position /\ InCurrentBlock(file[fd], target)
        /\ Sought(fd, Within(file[fd], target), target, TRUE)
  /\ UNCHANGED <<mp, search>>

SeekFar(fd, target, okTable, ok) ==
  /\ InUse(fd) /\ target # file[fd].position /\ ~InCurrentBlock(file[fd], target)
  /\ LET f == file[fd]
         end == Followed(f.bf.inode, target \div BLOCK_SIZE, mp, okTable)
         read == end.block = NoBlock \/ ok
     IN /\ mp' = end.mp
        /\ Sought(fd, SeekTo(f, target, end, read), target, end.ok /\ read)
  /\ UNCHANGED search

\* Callers seek to places at or behind the start, of files that were opened.
bios_seek(fd) ==
  \E offset \in Targets, whence \in {SEEK_SET, SEEK_CUR, SEEK_END} :
    LET target == Absolute(file[fd], offset, whence)
    IN /\ fd \in Seekers /\ target >= 0 /\ file[fd].bf.inode # NoInode
       /\ \/ SeekNear(fd, target)
          \/ \E okTable, ok \in Device : SeekFar(fd, target, okTable, ok)

\* bios_close keeps the block follower, the size and the end-of-file flag.
bios_close(fd) ==
  /\ InUse(fd)
  /\ file' = [file EXCEPT ![fd].open = FALSE, ![fd].index = 0, ![fd].count = 0,
                          ![fd].position = 0]
  /\ user' = [user EXCEPT ![fd] = NoOne]
  /\ UNCHANGED <<mp, search>>

Next == bios_open \/ \E fd \in Fds : bios_read(fd) \/ bios_seek(fd) \/ bios_close(fd)

Spec == Init /\ [][Next]_vars

-----------------------------------------------------------------------------
TypeOK ==
  /\ file \in [Fds -> File]
  /\ mp \in Mount
  /\ search \in [pc : {"idle", "root", "dir", "inode", "hung"}, fd : Nat, name : Name,
                 bf : Follower, found : Inode \cup {NoInode}, clean : BOOLEAN]
  /\ user \in [Fds -> User]

\* The buffer of the mount point is what its number and its flag say it is
\* (e2blocks.c:45-61), whatever reads failed and whoever used it last.
MountBufferSound == mp.valid => mp.holds = mp.num

\* A descriptor handed out without a read failing, for a name that exists, is
\* on the file of that name and knows its size, whoever had the slot before
\* and whatever the other descriptors read meanwhile.
OpensWhatIsNamed ==
  \A fd \in Fds : user[fd].clean =>
    file[fd].bf.inode = user[fd].want /\ file[fd].size = i_size[user[fd].want]

\* Reading a file from its start gives the file's bytes, in order, none missing
\* and none twice, however the reads are cut up, across holes and the single
\* indirect block, with other descriptors read in between and slots reused.
DeliversFile == \A fd \in Fds : user[fd].clean /\ ~user[fd].sought => user[fd].right

\* A user who is told the file has ended has had all of it (filesystems.c:424,
\* 449 and 477).
NothingCutOff ==
  \A fd \in Fds : user[fd].clean /\ ~user[fd].sought /\ file[fd].ateof =>
    ~InFile(user[fd].want, user[fd].place)

\* "Have we read past the end of file?" (filesystems.c:476): what is delivered
\* is the file's.
StopsAtEnd ==
  \A fd \in Fds : user[fd].clean /\ ~user[fd].sought =>
    OffsetOf(user[fd].place) <= i_size[user[fd].want]

\* What is read after a seek that answered with the place asked for is what is
\* there: elf.c:323 of the tests takes that answer for success and reads on.
SeeksLand == \A fd \in Fds : user[fd].clean => user[fd].right
=============================================================================
