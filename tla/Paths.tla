-------------------------------- MODULE Paths --------------------------------
(***************************************************************************)
(* From the path a program writes to the name that is looked up on a mount *)
(* point: realpath.c, libgen/, and find_mount, bios_open and bios_chdir of *)
(* filesystems.c.  A path is a sequence of characters.                     *)
(***************************************************************************)
EXTENDS Integers, Sequences, FiniteSets
LOCAL INSTANCE SequencesExt

CONSTANTS
  PATH_MAX,        \* longest resolved path and one
  MAX_DIR_DEPTH,   \* slashes realpath has room for
  Mounts           \* the mount points in their order, each a device and a sub-device

Text(mp) == mp.dev \o mp.subdev    \* attempt_to_mount's name for it
NoMount == [dev |-> <<>>, subdev |-> <<>>]

\* What memory that is not the function's decides.
Undefined == <<"undefined">>

----------------------------------------------------------------------------
(* realpath.c *)

find_slashes(path) ==
  LET slashes == SelectSeq([k \in 1 .. Len(path) |-> k], LAMBDA k : path[k] = "/")
  IN IF Len(slashes) >= MAX_DIR_DEPTH THEN <<>> ELSE slashes

remove_bytes(str, start, len) ==
  IF start - 1 + len > Len(str) THEN str
  ELSE SubSeq(str, 1, start - 1) \o SubSeq(str, start + len, Len(str))

\* k slashes from the j-th on go with n bytes; those behind them move up.
DroppedInPlace(slashes, j, k, n) ==
  SubSeq(slashes, 1, j - 1) \o SubSeq(slashes, j + k, Len(slashes))
Dropped(slashes, j, k, n) ==
  SubSeq(slashes, 1, j - 1)
    \o [x \in 1 .. Len(slashes) - (j + k - 1) |-> slashes[j + k - 1 + x] - n]

RECURSIVE Collapsed(_, _, _)
Collapsed(path, slashes, i) ==
  IF i >= Len(slashes) THEN path
  ELSE LET between == SubSeq(path, slashes[i] + 1, slashes[i + 1] - 1)
       IN CASE between = <<>> ->
                 Collapsed(remove_bytes(path, slashes[i + 1], 1), Dropped(slashes, i + 1, 1, 1), i)
            [] between = <<".">> ->
                 Collapsed(remove_bytes(path, slashes[i] + 1, 2), Dropped(slashes, i + 1, 1, 2), i)
            [] between = <<".", ".">> /\ i = 1 -> Undefined
            [] between = <<".", ".">> /\ i > 1 ->
                 LET n == slashes[i + 1] - slashes[i - 1]
                 IN Collapsed(remove_bytes(path, slashes[i - 1] + 1, n),
                              Dropped(slashes, i - 1, 2, n), i)
            [] OTHER -> Collapsed(path, slashes, i + 1)

WithoutTrailing(path) ==
  IF path # <<>> /\ path[Len(path)] = "/" THEN SubSeq(path, 1, Len(path) - 1) ELSE path

bios_getcwd(cwd) ==
  IF cwd = NoMount THEN <<"/", "l", "i", "m", "b", "o">>
  ELSE <<"/">> \o Text(cwd) \o <<"/">>

\* The absolute path, [ok |-> FALSE] if it is too long.
realpath(cwd, path) ==
  LET tmp_path == IF path # <<>> /\ path[1] = "/" THEN path
                  ELSE bios_getcwd(cwd) \o <<"/">> \o path
      resolved == WithoutTrailing(Collapsed(tmp_path, find_slashes(tmp_path), 1))
  IN IF Len(resolved) >= PATH_MAX THEN [ok |-> FALSE, path |-> <<>>]
     ELSE [ok |-> TRUE, path |-> resolved]

----------------------------------------------------------------------------
(* libgen/ *)

Slashes(path) == {k \in 1 .. Len(path) : path[k] = "/"}
Latest(S) == CHOOSE x \in S : \A y \in S : y <= x
Following(path, k) == SubSeq(path, k + 1, Len(path))

\* A trailing slash is cut off first; if it was the only one, strrchr returns NULL.
basename(path) ==
  CASE path = <<>> -> <<".">>
    [] path # <<>> /\ Slashes(path) = {} -> path
    [] path = <<"/">> -> path
    [] OTHER -> LET cut == WithoutTrailing(path)
                IN IF Slashes(cut) = {} THEN Undefined ELSE Following(cut, Latest(Slashes(cut)))

dirname(path) ==
  LET inner == {k \in Slashes(path) : k < Len(path)}
  IN CASE path = <<>> -> <<".">>
       [] path = <<"/">> -> path
       [] inner = {} /\ path \notin {<<>>, <<"/">>} -> <<".">>
       [] inner # {} -> IF Latest(inner) = 1 THEN <<"/">> ELSE SubSeq(path, 1, Latest(inner) - 1)

----------------------------------------------------------------------------
(* filesystems.c *)

tolower(c) == IF c = "M" THEN "m" ELSE c    \* the one capital the paths have

\* strncasecmp over the length of the mount point's name
Matched(path, mp) ==
  /\ Len(path) > Len(Text(mp))
  /\ \A k \in 1 .. Len(Text(mp)) : tolower(path[k + 1]) = Text(mp)[k]

find_mount(cwd, path) ==
  IF path = <<>> \/ path[1] # "/" THEN cwd
  ELSE LET fits == {i \in DOMAIN Mounts : Matched(path, Mounts[i])}
       IN IF fits = {} THEN NoMount ELSE Mounts[CHOOSE i \in fits : \A j \in fits : i <= j]

\* What is looked up where: the file's name in the root directory of the mount
\* point; the directories on the way to it are not looked at.
Refused == [mp |-> NoMount, name |-> <<>>]
bios_open(cwd, path) ==
  LET mp == find_mount(cwd, path)
  IN IF mp = NoMount THEN Refused
     ELSE [mp |-> mp,
           name |-> IF Len(path) <= Len(Text(mp)) THEN Undefined
                    ELSE basename(SubSeq(path, Len(Text(mp)) + 2, Len(path)))]

open(cwd, pathname) ==
  LET real == realpath(cwd, pathname)
  IN IF ~real.ok THEN Refused
     ELSE IF real.path = Undefined THEN [mp |-> NoMount, name |-> Undefined]
     ELSE bios_open(cwd, real.path)

\* The directory a chdir leaves the program in.  Of a path longer than its mount
\* point the part in front of the first slash is empty, and is asked for the type
\* that only a search would have set; and no search sets the path of the directory.
Unknown == [dev |-> Undefined, subdev |-> <<>>]
bios_chdir(cwd, path) ==
  LET mp == find_mount(cwd, path)
      len == Len(mp.dev) + 2
  IN CASE mp = NoMount -> cwd
       [] mp # NoMount /\ Len(path) = len -> mp
       [] OTHER -> Unknown

chdir(cwd, path) ==
  LET real == realpath(cwd, path)
  IN IF ~real.ok THEN cwd
     ELSE IF real.path = Undefined THEN Unknown
     ELSE bios_chdir(cwd, real.path)

------------------------------------------------------------------------------
(* What a path names: its parts walked one by one from where the program   *)
(* is, and the paths that realpath and find_mount get wrong.               *)

RECURSIVE Parts(_)
Parts(path) ==
  IF Slashes(path) = {} THEN <<path>>
  ELSE LET k == CHOOSE x \in Slashes(path) : \A y \in Slashes(path) : x <= y
       IN <<SubSeq(path, 1, k - 1)>> \o Parts(Following(path, k))

Up == <<".", ".">>
Hop(from, part) ==
  CASE part \in {<<>>, <<".">>} -> from
    [] part = Up -> IF from = <<>> THEN from ELSE Front(from)
    [] OTHER -> Append(from, part)
Start(cwd, path) ==
  IF path # <<>> /\ path[1] = "/" THEN <<>>
  ELSE IF cwd = NoMount THEN <<<<"l", "i", "m", "b", "o">>>> ELSE <<Text(cwd)>>
Walked(cwd, path, n) == FoldLeft(Hop, Start(cwd, path), SubSeq(Parts(path), 1, n))
Named(cwd, path) == Walked(cwd, path, Len(Parts(path)))

\* The mount points that go by this name, in capitals or not.
Called(name) == {mp \in Range(Mounts) : [k \in DOMAIN name |-> tolower(name[k])] = Text(mp)}

\* What realpath leaves or gets wrong: a . or .. at the end, a .. at the root, the
\* part behind a .. unless it is a name, and paths with too many slashes.
Unresolved(cwd, path) ==
  LET parts == Parts(path)
  IN \/ parts[Len(parts)] \in {<<".">>, Up}
     \/ \E k \in 1 .. Len(parts) - 1 :
          /\ parts[k] = Up
          /\ \/ parts[k + 1] \in {<<".">>, Up}
             \/ parts[k + 1] = <<>> /\ k + 1 < Len(parts)
             \/ Walked(cwd, path, k - 1) = <<>>
     \/ Cardinality(Slashes(path)) + (IF path = <<>> \/ path[1] # "/" THEN 3 ELSE 0) >= MAX_DIR_DEPTH

\* A name that goes on behind a mount point's is taken for something on it.
Begun(name) ==
  \E mp \in Range(Mounts) : Len(name) > Len(Text(mp)) /\ Matched(<<"/">> \o name, mp)
Resolvable(cwd, path) ==
  /\ ~Unresolved(cwd, path)
  /\ Named(cwd, path) # <<>> /\ ~Begun(Named(cwd, path)[1])
==============================================================================
