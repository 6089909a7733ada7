------------------------------ MODULE Monitor -------------------------------
(***************************************************************************)
(* What outlives a program and what does not.  The monitor starts one      *)
(* program at a time (go_cmd.c), which runs on the monitor's stack, enters *)
(* it through trap 0 and comes back by exit, which longjmps into the go    *)
(* command.  The descriptor table is the monitor's; streams and open       *)
(* directories are tables of the C library, of which the monitor and the   *)
(* program have a copy each, the program's in memory crt0 clears.          *)
(*                                                                         *)
(* Programs close descriptors they hold or have closed before; what the    *)
(* filesystem does with a path is Vfs's subject: here a path has a mount   *)
(* point or has not.                                                       *)
(***************************************************************************)
EXTENDS Naturals, Sequences, FiniteSets

CONSTANTS
  MAX_FILES, STREAM_TABLE_SIZE, OPEN_DIR_MAX,
  Codes,        \* the codes programs call exit with
  NoCode,       \* none yet
  MaxWords      \* bound: words behind go

ASSUME MonitorAssumption ==
  /\ MAX_FILES \in Nat /\ STREAM_TABLE_SIZE \in Nat /\ OPEN_DIR_MAX \in Nat
  /\ Codes \subseteq Nat /\ NoCode \notin Nat /\ MaxWords \in Nat

Fds == 0 .. MAX_FILES - 1
None == MAX_FILES

Library == {"monitor", "program"}
Stream  == 0 .. STREAM_TABLE_SIZE - 1
Dir     == 0 .. OPEN_DIR_MAX - 1

\* What a word of the command line is to go: an expression, --, or neither.
Word == {"address", "--", "other"}
Line == UNION {[1 .. n -> Word] : n \in 0 .. MaxWords}

VARIABLES
  where,        \* who has the processor: "prompt", "cat", "program", "exiting", "halted", "reset"
  open,         \* the descriptors whose vfs_files[fd].open is YES
  streams,      \* _stream_table, per library: the descriptor of an open stream, or None
  dirs,         \* dirs of opendir.c, likewise
  fds,          \* the descriptors the program's own calls of open gave it
  left,         \* descriptors programs held when they ended
  line,         \* the words behind the last go
  args,         \* argc and the arguments the program was started with
  typed,        \* whether go_address is an address typed at the prompt
  asked,        \* the code the last program called exit with
  shown         \* the code the monitor printed for it

vars == <<where, open, streams, dirs, fds, left, line, args, typed, asked, shown>>
files == <<open, streams, dirs, fds, left>>
run   == <<line, args, typed, asked, shown>>

Empty(size) == [i \in 0 .. size - 1 |-> None]

\* Reset: mon_crt0 relocates the data and clears the BSS.
Init ==
  /\ where = "prompt"
  /\ open = {} /\ fds = {} /\ left = {}
  /\ streams = [l \in Library |-> Empty(STREAM_TABLE_SIZE)]
  /\ dirs = [l \in Library |-> Empty(OPEN_DIR_MAX)]
  /\ line = <<>> /\ args = [argc |-> 0, argv |-> <<>>] /\ typed = FALSE
  /\ asked = NoCode /\ shown = NoCode

(***************************************************************************)
(* Descriptors, streams and directories.                                   *)
(***************************************************************************)
Least(S) == {x \in S : \A y \in S : x <= y}
FirstFree(table) == Least({i \in DOMAIN table : table[i] = None})

\* The descriptor bios_open hands out: none if all are taken or the path has no
\* mount point.  That the filesystem could not open the file is not looked at.
bios_openPastEnd(mounted) == IF mounted THEN Least((0 .. MAX_FILES) \ open) ELSE {}
bios_open(mounted) == IF mounted THEN Least(Fds \ open) ELSE {}

Put(table, slots, taken) ==
  [i \in DOMAIN table |-> IF i \in slots /\ taken # {} THEN CHOOSE fd \in taken : TRUE
                          ELSE table[i]]

\* fopen: the slot first, then the descriptor.
TakenUnlooked(slots, mounted) == bios_open(mounted)
Taken(slots, mounted) == IF slots = {} THEN {} ELSE bios_open(mounted)

fopen(l, mode, mounted) ==
  LET slots == IF mode THEN FirstFree(streams[l]) ELSE {}
      taken == IF mode THEN Taken(slots, mounted) ELSE {}
  IN  /\ open' = open \cup taken
      /\ streams' = [streams EXCEPT ![l] = Put(@, slots, taken)]

opendir(l, mounted) ==
  LET slots == FirstFree(dirs[l])
      taken == Taken(slots, mounted)
  IN  /\ open' = open \cup taken
      /\ dirs' = [dirs EXCEPT ![l] = Put(@, slots, taken)]

\* Of a stream that is not open fclose closes nothing.
fclose(l, s) ==
  /\ open' = open \ {streams[l][s]}
  /\ streams' = [streams EXCEPT ![l][s] = None]

(***************************************************************************)
(* Commands of the monitor that use files: cat, and dir, whose closedir    *)
(* closes nothing.                                                         *)
(***************************************************************************)
Cat(mounted) ==
  /\ where = "prompt"
  /\ fopen("monitor", TRUE, mounted)
  /\ where' = IF open' = open THEN "prompt" ELSE "cat"
  /\ UNCHANGED <<dirs, fds, left, run>>

\* cat has read the file to its end.
CatDone ==
  /\ where = "cat"
  /\ \E s \in Stream : streams["monitor"][s] # None /\ fclose("monitor", s)
  /\ where' = "prompt"
  /\ UNCHANGED <<dirs, fds, left, run>>

DirCommand(mounted) ==
  /\ where = "prompt"
  /\ opendir("monitor", mounted)
  /\ UNCHANGED <<where, streams, fds, left, run>>

(***************************************************************************)
(* go.  Without words argv[1] is whatever the stack holds: a pointer to    *)
(* --, to something else, or to nothing the bus answers for.               *)
(***************************************************************************)
Handed(argc, argv) == [argc |-> argc, argv |-> argv]

WithoutFirstUncounted(words) == Handed(Len(words) + 1, Tail(words))
WithoutFirst(words) == Handed(Len(words), Tail(words))

\* What handle_go_command passes on, given the word argv[1] points at.
handle_go_command(words, first) ==
  CASE words = <<>> -> Handed(IF first = "--" THEN 0 ELSE 1, <<>>)
    [] words # <<>> /\ first = "--" -> WithoutFirst(words)
    [] words = <<"address">> -> WithoutFirst(words)
    [] OTHER -> Handed(Len(words) + 1, words)

\* crt0 clears the program's BSS: its streams and directories are closed, as the
\* first opendir makes sure again.
Cleared(table, size) == [table EXCEPT !["program"] = Empty(size)]
Launch ==
  /\ where' = "program"
  /\ streams' = Cleared(streams, STREAM_TABLE_SIZE)
  /\ dirs' = Cleared(dirs, OPEN_DIR_MAX)
  /\ fds' = {}
  /\ asked' = NoCode /\ shown' = NoCode

Go(words, first) ==
  /\ where = "prompt"
  /\ words # <<>> => first = words[1]
  /\ line' = words
  /\ args' = handle_go_command(words, first)
  /\ typed' = (typed \/ words = <<"address">>)
  /\ Launch
  /\ UNCHANGED <<open, left>>

\* load sets the address the file names.
Load ==
  /\ where = "prompt" /\ typed
  /\ typed' = FALSE
  /\ UNCHANGED <<where, files, line, args, asked, shown>>

(***************************************************************************)
(* The program's calls.                                                    *)
(***************************************************************************)
Open(mounted) ==
  /\ where = "program"
  /\ open' = open \cup bios_open(mounted)
  /\ fds' = fds \cup bios_open(mounted)
  /\ UNCHANGED <<where, streams, dirs, left, run>>

Close(fd) ==
  /\ where = "program" /\ fd \in fds
  /\ open' = open \ {fd}
  /\ fds' = fds \ {fd}
  /\ UNCHANGED <<where, streams, dirs, left, run>>

Fopen(mode, mounted) ==
  /\ where = "program"
  /\ fopen("program", mode, mounted)
  /\ UNCHANGED <<where, dirs, fds, left, run>>

Fclose(s) ==
  /\ where = "program"
  /\ fclose("program", s)
  /\ UNCHANGED <<where, dirs, fds, left, run>>

Opendir(mounted) ==
  /\ where = "program"
  /\ opendir("program", mounted)
  /\ UNCHANGED <<where, streams, fds, left, run>>

\* main returns, into an exit that finds argc where its argument should be, or
\* the program calls exit.
Exit(code) ==
  /\ where = "program"
  /\ code \in Codes \cup {args.argc}
  /\ where' = "exiting"
  /\ asked' = code
  /\ UNCHANGED <<files, line, args, typed, shown>>

Held(l) == (({streams[l][s] : s \in Stream} \cup {dirs[l][d] : d \in Dir}) \ {None})
           \cup (IF l = "program" THEN fds ELSE {})

\* longjmp(go_env, val): setjmp returns 1 if val is 0.
longjmpPlain(val) == val
longjmp(val) == IF val = 0 THEN 1 ELSE val

\* bios_exit frees the program's heap (Heap) and no files; do_the_business gets a
\* result of setjmp, and starts the program if that is 0.
bios_exit ==
  /\ where = "exiting"
  /\ left' = left \cup Held("program")
  /\ IF longjmp(asked) = 0 THEN Launch
     ELSE /\ where' = "prompt"
          /\ shown' = longjmp(asked) - 1
          /\ UNCHANGED <<streams, dirs, fds, asked>>
  /\ UNCHANGED <<open, line, args, typed>>

(***************************************************************************)
(* Faults: an exception of the program, a go that follows a stray pointer, *)
(* or a close of a descriptor that is closed, which looks for the driver   *)
(* through a null mount point, stop the machine until it is reset.         *)
(***************************************************************************)
catch_exception ==
  /\ where = "program" \/ where = "prompt"
  /\ where' = "halted"
  /\ UNCHANGED <<files, run>>

Reset ==
  /\ where # "reset"
  /\ where' = "reset"
  /\ UNCHANGED <<files, run>>

Boot ==
  /\ where = "reset"
  /\ where' = "prompt"
  /\ open' = {} /\ fds' = {} /\ left' = {}
  /\ streams' = [l \in Library |-> Empty(STREAM_TABLE_SIZE)]
  /\ dirs' = [l \in Library |-> Empty(OPEN_DIR_MAX)]
  /\ line' = <<>> /\ args' = Handed(0, <<>>) /\ typed' = FALSE
  /\ asked' = NoCode /\ shown' = NoCode

Command ==
  \/ \E mounted \in BOOLEAN : Cat(mounted) \/ DirCommand(mounted)
  \/ CatDone \/ Load
  \/ \E words \in Line, first \in Word : Go(words, first)

Program ==
  \/ \E mounted \in BOOLEAN : Open(mounted) \/ Opendir(mounted)
  \/ \E mode, mounted \in BOOLEAN : Fopen(mode, mounted)
  \/ \E fd \in Fds : Close(fd)
  \/ \E s \in Stream : Fclose(s)
  \/ \E code \in Codes \cup {args.argc} : Exit(code)

Next == Command \/ Program \/ bios_exit \/ catch_exception \/ Reset \/ Boot

Spec == Init /\ [][Next]_vars

(***************************************************************************)
(* Properties                                                              *)
(***************************************************************************)
\* The types, and the bounds of the tables.
TypeOK ==
  /\ where \in {"prompt", "cat", "program", "exiting", "halted", "reset"}
  /\ open \subseteq Fds /\ fds \subseteq Fds /\ left \subseteq Fds
  /\ streams \in [Library -> [Stream -> Fds \cup {None}]]
  /\ dirs \in [Library -> [Dir -> Fds \cup {None}]]
  /\ line \in Line
  /\ args \in [argc : 0 .. MaxWords + 1, argv : Line]
  /\ typed \in BOOLEAN
  /\ asked \in Nat \cup {NoCode} /\ shown \in Nat \cup {NoCode}

\* The uses of a descriptor: streams, directories and variables that hold it.
Live(l) == l = "program" => where \in {"program", "exiting"}
Uses(fd) ==
  {u \in {"stream"} \X Library \X Stream : Live(u[2]) /\ streams[u[2]][u[3]] = fd}
  \cup {u \in {"dir"} \X Library \X Dir : Live(u[2]) /\ dirs[u[2]][u[3]] = fd}
  \cup {u \in {<<"fds", "program", fd>>} : Live("program") /\ fd \in fds}
  \cup {u \in {<<"left", "program", fd>>} : fd \in left}

\* Every open descriptor is accounted for, and once: it is in a stream or a
\* directory of the monitor, held by the running program, or was left by one that
\* ended; and what is held is open (fopen.c, opendir.c, bios_open).  No failed call
\* keeps a descriptor, none is closed under a stream, and no program finds its
\* predecessor's streams open.
Accounted ==
  where \notin {"halted", "reset"} =>
    \A fd \in Fds : /\ fd \in open <=> Uses(fd) # {}
                    /\ \A u, v \in Uses(fd) : u = v

\* A program that exits is over: the go that started it returns, whatever the
\* code, 0 included, and prints a code that only 0 and 1 share (setjmp.asm,
\* do_the_business).
ExitComesHome ==
  [][where = "exiting" /\ where' # "reset" =>
       /\ where' = "prompt"
       /\ asked = shown' + 1 \/ (asked = 0 /\ shown' = 0)]_vars

\* Of the words behind go the program gets those that are meant for it: behind
\* -- all, and an address alone none; argc counts them and the program's name
\* (handle_go_command).  An address with words behind it is left out.
ArgsPassed ==
  where = "program" /\ line # <<>> /\ ~(line[1] = "address" /\ Len(line) > 1) =>
    /\ args.argv = IF line[1] \in {"--", "address"} THEN SubSeq(line, 2, Len(line)) ELSE line
    /\ args.argc = Len(args.argv) + 1
=============================================================================
