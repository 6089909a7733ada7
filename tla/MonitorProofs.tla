--------------------------- MODULE MonitorProofs ----------------------------
(***************************************************************************)
(* What holds of Monitor for every size of its tables, every set of exit   *)
(* codes and command lines of any length: the types, that exit comes home, *)
(* that arguments arrive, and that every descriptor is accounted for.      *)
(*                                                                         *)
(* The last is not inductive as Monitor states it, in terms of sets of     *)
(* tuples: EachUsedOnce says the same of streams, directories, variables   *)
(* and the descriptors left behind, kind by kind.                          *)
(***************************************************************************)
EXTENDS Monitor, SequenceTheorems, TLAPS

-----------------------------------------------------------------------------
(* Streams and slots.                                                      *)

\* Of a set of numbers at most one is the least.
LEMMA LeastIsOne ==
  ASSUME NEW T, T \subseteq Nat
  PROVE  /\ Least(T) \subseteq T
         /\ Least(T) = {} \/ \E x \in T : Least(T) = {x}
<1>1. Least(T) \subseteq T
  BY DEF Least
<1>2. \A x, y \in Least(T) : x = y
  BY DEF Least
<1>3. CASE Least(T) # {}
  <2>1. PICK x \in Least(T) : TRUE
    BY <1>3
  <2>2. Least(T) = {x}
    BY <2>1, <1>2
  <2> QED BY <2>1, <2>2, <1>1
<1> QED BY <1>1, <1>3

\* bios_open hands out one descriptor that is not in use, or none.
LEMMA OpenIsFresh ==
  ASSUME MAX_FILES \in Nat, NEW mounted \in BOOLEAN
  PROVE  bios_open(mounted) = {} \/ \E f \in Fds \ open : bios_open(mounted) = {f}
<1>1. Fds \ open \subseteq Nat
  BY DEF Fds
<1>2. Least(Fds \ open) = {} \/ \E f \in Fds \ open : Least(Fds \ open) = {f}
  BY <1>1, LeastIsOne
<1> QED BY <1>2 DEF bios_open

\* What fopen and opendir do to their table: nothing, if there is no slot or no
\* descriptor, or a free slot gets the descriptor that has just been taken.
LEMMA TableEffect ==
  ASSUME MAX_FILES \in Nat, NEW mounted \in BOOLEAN, NEW n \in Nat,
         NEW table \in [0 .. n - 1 -> Fds \cup {None}]
  PROVE  LET slots == FirstFree(table)
             taken == Taken(slots, mounted)
         IN  \/ taken = {} /\ Put(table, slots, taken) = table
             \/ \E i \in 0 .. n - 1, f \in Fds \ open :
                  /\ table[i] = None /\ taken = {f}
                  /\ Put(table, slots, taken) = [table EXCEPT ![i] = f]
<1> DEFINE free == {i \in DOMAIN table : table[i] = None}
           slots == FirstFree(table)
           taken == Taken(slots, mounted)
<1>1. free \subseteq Nat /\ slots = Least(free)
  BY DEF FirstFree
<1>2. slots = {} \/ \E i \in free : slots = {i}
  BY <1>1, LeastIsOne
<1>3. CASE taken = {}
  BY <1>3 DEF Put
<1>4. CASE taken # {}
  <2>1. slots # {} /\ taken = bios_open(mounted)
    BY <1>4 DEF Taken
  <2>2. PICK f \in Fds \ open : taken = {f}
    BY <2>1, <1>4, OpenIsFresh
  <2>3. PICK i \in free : slots = {i}
    BY <2>1, <1>2
  <2>4. (CHOOSE fd \in taken : TRUE) = f
    BY <2>2
  <2> HIDE DEF slots, taken
  <2>5. Put(table, slots, taken) = [table EXCEPT ![i] = f]
    BY <2>2, <2>3, <2>4 DEF Put
  <2> QED BY <2>2, <2>3, <2>5 DEF slots, taken
<1> QED BY <1>3, <1>4

-----------------------------------------------------------------------------
(* Command lines.                                                          *)

LEMMA LinesAre ==
  ASSUME MaxWords \in Nat, NEW words
  PROVE  words \in Line <=> words \in Seq(Word) /\ Len(words) <= MaxWords
<1>1. ASSUME words \in Line PROVE words \in Seq(Word) /\ Len(words) <= MaxWords
  <2>1. PICK n \in 0 .. MaxWords : words \in [1 .. n -> Word]
    BY <1>1 DEF Line
  <2>2. words \in Seq(Word) /\ Len(words) = n
    BY <2>1
  <2> QED BY <2>1, <2>2
<1>2. ASSUME words \in Seq(Word), Len(words) <= MaxWords PROVE words \in Line
  <2>1. Len(words) \in 0 .. MaxWords /\ words \in [1 .. Len(words) -> Word]
    BY <1>2
  <2> QED BY <2>1 DEF Line
<1> QED BY <1>1, <1>2

LEMMA TailIs ==
  ASSUME NEW words \in Seq(Word), words # <<>>
  PROVE  /\ Tail(words) \in Seq(Word) /\ Len(words) \in Nat \ {0}
         /\ Len(Tail(words)) = Len(words) - 1
         /\ Tail(words) = SubSeq(words, 2, Len(words))
<1>1. Len(words) \in Nat \ {0}
  OBVIOUS
<1>2. Tail(words) \in Seq(Word) /\ Len(Tail(words)) = Len(words) - 1
  OBVIOUS
<1>3. Tail(words) = SubSeq(words, 2, Len(words))
  BY <1>1, <1>2
<1> QED BY <1>1, <1>2, <1>3

\* What go hands on is an argument list.
LEMMA GoTyped ==
  ASSUME MaxWords \in Nat, NEW words \in Line, NEW first \in Word
  PROVE  handle_go_command(words, first) \in [argc : 0 .. MaxWords + 1, argv : Line]
<1>1. words \in Seq(Word) /\ Len(words) <= MaxWords /\ Len(words) \in Nat
  BY LinesAre
<1>2. <<>> \in Line
  <2>1. <<>> \in [1 .. 0 -> Word] /\ 0 \in 0 .. MaxWords
    OBVIOUS
  <2> QED BY <2>1 DEF Line
<1>3. CASE words = <<>>
  BY <1>3, <1>2 DEF handle_go_command, Handed
<1>4. CASE words # <<>>
  <2>1. Tail(words) \in Line
    <3>1. Tail(words) \in Seq(Word) /\ Len(Tail(words)) <= MaxWords
      BY <1>1, <1>4, TailIs
    <3> DEFINE t == Tail(words)
    <3>2. t \in Line <=> t \in Seq(Word) /\ Len(t) <= MaxWords
      <4> HIDE DEF t
      <4> QED BY LinesAre
    <3> QED BY <3>1, <3>2
  <2>2. WithoutFirst(words) \in [argc : 0 .. MaxWords + 1, argv : Line]
    BY <1>1, <2>1 DEF WithoutFirst, Handed
  <2>3. Handed(Len(words) + 1, words) \in [argc : 0 .. MaxWords + 1, argv : Line]
    BY <1>1 DEF Handed
  <2> QED BY <1>4, <2>2, <2>3 DEF handle_go_command
<1> QED BY <1>3, <1>4

-----------------------------------------------------------------------------
(* The types.                                                              *)

\* A program that is exiting has called exit with a number.
ExitingAsked == where = "exiting" => asked \in Nat

FileTypes ==
  /\ open \subseteq Fds /\ fds \subseteq Fds /\ left \subseteq Fds
  /\ streams \in [Library -> [Stream -> Fds \cup {None}]]
  /\ dirs \in [Library -> [Dir -> Fds \cup {None}]]

RunTypes ==
  /\ where \in {"prompt", "cat", "program", "exiting", "halted", "reset"}
  /\ line \in Line
  /\ args \in [argc : 0 .. MaxWords + 1, argv : Line]
  /\ typed \in BOOLEAN
  /\ asked \in Nat \cup {NoCode} /\ shown \in Nat \cup {NoCode}
  /\ ExitingAsked

LEMMA EmptyTyped ==
  ASSUME MonitorAssumption
  PROVE  /\ Empty(STREAM_TABLE_SIZE) \in [Stream -> Fds \cup {None}]
         /\ Empty(OPEN_DIR_MAX) \in [Dir -> Fds \cup {None}]
BY DEF Empty, Stream, Dir

\* fopen keeps its table a table and takes what was free.
LEMMA FopenEffect ==
  ASSUME MonitorAssumption, FileTypes, NEW l \in Library, NEW mode \in BOOLEAN,
         NEW mounted \in BOOLEAN, fopen(l, mode, mounted)
  PROVE  \/ open' = open /\ streams' = streams
         \/ \E s \in Stream, f \in Fds \ open :
              /\ streams[l][s] = None /\ open' = open \cup {f}
              /\ streams' = [streams EXCEPT ![l] = [streams[l] EXCEPT ![s] = f]]
<1> DEFINE table == streams[l]
           slots == FirstFree(table)
           taken == Taken(slots, mounted)
<1>1. table \in [0 .. STREAM_TABLE_SIZE - 1 -> Fds \cup {None}]
  BY DEF FileTypes, Stream
<1>2. STREAM_TABLE_SIZE \in Nat /\ MAX_FILES \in Nat
  BY DEF MonitorAssumption
<1>3. \/ taken = {} /\ Put(table, slots, taken) = table
      \/ \E i \in 0 .. STREAM_TABLE_SIZE - 1, f \in Fds \ open :
           /\ table[i] = None /\ taken = {f}
           /\ Put(table, slots, taken) = [table EXCEPT ![i] = f]
  <2> HIDE DEF table
  <2> QED BY <1>1, <1>2, TableEffect
<1>4. CASE mode
  <2>1. open' = open \cup taken /\ streams' = [streams EXCEPT ![l] = Put(table, slots, taken)]
    BY <1>4 DEF fopen
  <2>2. CASE taken = {} /\ Put(table, slots, taken) = table
    <3>1. [streams EXCEPT ![l] = table] = streams
      BY DEF FileTypes
    <3> HIDE DEF taken, slots, table
    <3> QED BY <2>1, <2>2, <3>1
  <2>3. CASE \E i \in 0 .. STREAM_TABLE_SIZE - 1, f \in Fds \ open :
               /\ table[i] = None /\ taken = {f}
               /\ Put(table, slots, taken) = [table EXCEPT ![i] = f]
    <3>1. PICK i \in Stream, f \in Fds \ open :
            table[i] = None /\ taken = {f} /\ Put(table, slots, taken) = [table EXCEPT ![i] = f]
      BY <2>3 DEF Stream
    <3>2. open' = open \cup {f} /\ streams' = [streams EXCEPT ![l] = [table EXCEPT ![i] = f]]
      <4> HIDE DEF taken, slots, table
      <4> QED BY <2>1, <3>1
    <3> QED BY <3>1, <3>2
  <2> QED BY <1>3, <2>2, <2>3
<1>5. CASE ~mode
  <2>1. open' = open \cup {} /\ streams' = [streams EXCEPT ![l] = Put(streams[l], {}, {})]
    BY <1>5 DEF fopen
  <2>2. Put(streams[l], {}, {}) = streams[l]
    BY DEF Put, FileTypes
  <2>3. [streams EXCEPT ![l] = streams[l]] = streams
    BY DEF FileTypes
  <2> QED BY <2>1, <2>2, <2>3
<1> QED BY <1>4, <1>5

LEMMA OpendirEffect ==
  ASSUME MonitorAssumption, FileTypes, NEW l \in Library, NEW mounted \in BOOLEAN,
         opendir(l, mounted)
  PROVE  \/ open' = open /\ dirs' = dirs
         \/ \E d \in Dir, f \in Fds \ open :
              /\ dirs[l][d] = None /\ open' = open \cup {f}
              /\ dirs' = [dirs EXCEPT ![l] = [dirs[l] EXCEPT ![d] = f]]
<1> DEFINE table == dirs[l]
           slots == FirstFree(table)
           taken == Taken(slots, mounted)
<1>1. table \in [0 .. OPEN_DIR_MAX - 1 -> Fds \cup {None}]
  BY DEF FileTypes, Dir
<1>2. OPEN_DIR_MAX \in Nat /\ MAX_FILES \in Nat
  BY DEF MonitorAssumption
<1>3. \/ taken = {} /\ Put(table, slots, taken) = table
      \/ \E i \in 0 .. OPEN_DIR_MAX - 1, f \in Fds \ open :
           /\ table[i] = None /\ taken = {f}
           /\ Put(table, slots, taken) = [table EXCEPT ![i] = f]
  <2> HIDE DEF table
  <2> QED BY <1>1, <1>2, TableEffect
<1>4. open' = open \cup taken /\ dirs' = [dirs EXCEPT ![l] = Put(table, slots, taken)]
  BY DEF opendir
<1>5. CASE taken = {} /\ Put(table, slots, taken) = table
  <2>1. [dirs EXCEPT ![l] = table] = dirs
    BY DEF FileTypes
  <2> HIDE DEF taken, slots, table
  <2> QED BY <1>4, <1>5, <2>1
<1>6. CASE \E i \in 0 .. OPEN_DIR_MAX - 1, f \in Fds \ open :
             /\ table[i] = None /\ taken = {f}
             /\ Put(table, slots, taken) = [table EXCEPT ![i] = f]
  <2>1. PICK i \in Dir, f \in Fds \ open :
          table[i] = None /\ taken = {f} /\ Put(table, slots, taken) = [table EXCEPT ![i] = f]
    BY <1>6 DEF Dir
  <2>2. open' = open \cup {f} /\ dirs' = [dirs EXCEPT ![l] = [table EXCEPT ![i] = f]]
    <3> HIDE DEF taken, slots, table
    <3> QED BY <1>4, <2>1
  <2> QED BY <2>1, <2>2
<1> QED BY <1>3, <1>5, <1>6

LEMMA InitTyped ==
  ASSUME MonitorAssumption, Init
  PROVE  FileTypes /\ RunTypes
<1>1. <<>> \in Line
  <2>1. <<>> \in [1 .. 0 -> Word] /\ 0 \in 0 .. MaxWords
    BY DEF MonitorAssumption
  <2> QED BY <2>1 DEF Line
<1>2. FileTypes
  BY EmptyTyped DEF Init, FileTypes
<1>3. [argc |-> 0, argv |-> <<>>] \in [argc : 0 .. MaxWords + 1, argv : Line]
  BY <1>1 DEF MonitorAssumption
<1>4. RunTypes
  BY <1>1, <1>3 DEF Init, RunTypes, ExitingAsked
<1> QED BY <1>2, <1>4

LEMMA FilesStayTyped ==
  ASSUME MonitorAssumption, FileTypes, [Next]_vars
  PROVE  FileTypes'
<1> USE DEF FileTypes, files, vars
<1>1. ASSUME NEW mounted \in BOOLEAN, Cat(mounted) PROVE FileTypes'
  <2>1. fopen("monitor", TRUE, mounted) /\ "monitor" \in Library /\ TRUE \in BOOLEAN
    BY <1>1 DEF Cat, Library
  <2>2. \/ open' = open /\ streams' = streams
        \/ \E s \in Stream, f \in Fds \ open :
             /\ streams["monitor"][s] = None /\ open' = open \cup {f}
             /\ streams' = [streams EXCEPT !["monitor"] = [streams["monitor"] EXCEPT ![s] = f]]
    BY <2>1, FopenEffect, MonitorAssumption
  <2> QED BY <1>1, <2>1, <2>2 DEF Cat
<1>2. ASSUME NEW mounted \in BOOLEAN, DirCommand(mounted) PROVE FileTypes'
  BY <1>2, OpendirEffect DEF DirCommand, Library
<1>3. CASE CatDone
  <2>1. PICK s \in Stream : fclose("monitor", s)
    BY <1>3 DEF CatDone
  <2> QED BY <1>3, <2>1 DEF CatDone, fclose
<1>4. CASE Load
  BY <1>4 DEF Load
<1>5. ASSUME NEW words \in Line, NEW first \in Word, Go(words, first) PROVE FileTypes'
  BY <1>5, EmptyTyped DEF Go, Launch, Cleared
<1>6. ASSUME NEW mounted \in BOOLEAN, Open(mounted) PROVE FileTypes'
  BY <1>6, OpenIsFresh DEF Open, MonitorAssumption
<1>7. ASSUME NEW mounted \in BOOLEAN, Opendir(mounted) PROVE FileTypes'
  BY <1>7, OpendirEffect DEF Opendir, Library
<1>8. ASSUME NEW mode \in BOOLEAN, NEW mounted \in BOOLEAN, Fopen(mode, mounted) PROVE FileTypes'
  BY <1>8, FopenEffect DEF Fopen, Library
<1>9. ASSUME NEW fd \in Fds, Close(fd) PROVE FileTypes'
  BY <1>9 DEF Close
<1>10. ASSUME NEW s \in Stream, Fclose(s) PROVE FileTypes'
  BY <1>10 DEF Fclose, fclose
<1>11. ASSUME NEW code \in Codes \cup {args.argc}, Exit(code) PROVE FileTypes'
  BY <1>11 DEF Exit
<1>12. CASE bios_exit
  <2>1. Held("program") \subseteq Fds
    BY DEF Held, Library
  <2>2. open' = open /\ left' \subseteq Fds
    BY <1>12, <2>1 DEF bios_exit
  <2>3. CASE longjmp(asked) = 0
    BY <1>12, <2>2, <2>3, EmptyTyped DEF bios_exit, Launch, Cleared
  <2>4. CASE longjmp(asked) # 0
    BY <1>12, <2>2, <2>4 DEF bios_exit
  <2> QED BY <2>3, <2>4
<1>13. CASE catch_exception \/ Reset
  BY <1>13 DEF catch_exception, Reset
<1>14. CASE Boot
  BY <1>14, EmptyTyped DEF Boot
<1>15. CASE UNCHANGED vars
  BY <1>15
<1> QED BY <1>1, <1>2, <1>3, <1>4, <1>5, <1>6, <1>7, <1>8, <1>9, <1>10, <1>11, <1>12, <1>13,
           <1>14, <1>15 DEF Next, Command, Program

LEMMA RunStaysTyped ==
  ASSUME MonitorAssumption, RunTypes, [Next]_vars
  PROVE  RunTypes'
<1> USE DEF RunTypes, ExitingAsked, run, vars
<1>1. ASSUME NEW mounted \in BOOLEAN, Cat(mounted) \/ DirCommand(mounted) PROVE RunTypes'
  BY <1>1 DEF Cat, DirCommand
<1>2. CASE CatDone \/ Load
  BY <1>2 DEF CatDone, Load
<1>3. ASSUME NEW words \in Line, NEW first \in Word, Go(words, first) PROVE RunTypes'
  <2>1. handle_go_command(words, first) \in [argc : 0 .. MaxWords + 1, argv : Line]
    BY GoTyped DEF MonitorAssumption
  <2>2. typed' \in BOOLEAN
    BY <1>3 DEF Go
  <2> QED BY <1>3, <2>1, <2>2 DEF Go, Launch
<1>4. ASSUME NEW mounted \in BOOLEAN, Open(mounted) \/ Opendir(mounted) PROVE RunTypes'
  BY <1>4 DEF Open, Opendir
<1>5. ASSUME NEW mode \in BOOLEAN, NEW mounted \in BOOLEAN, Fopen(mode, mounted) PROVE RunTypes'
  BY <1>5 DEF Fopen
<1>6. ASSUME NEW fd \in Fds, Close(fd) PROVE RunTypes'
  BY <1>6 DEF Close
<1>7. ASSUME NEW s \in Stream, Fclose(s) PROVE RunTypes'
  BY <1>7 DEF Fclose
<1>8. ASSUME NEW code \in Codes \cup {args.argc}, Exit(code) PROVE RunTypes'
  <2>1. args.argc \in Nat /\ code \in Nat
    BY DEF MonitorAssumption
  <2> QED BY <1>8, <2>1 DEF Exit
<1>9. CASE bios_exit
  <2>1. asked \in Nat /\ longjmp(asked) \in Nat \ {0}
    BY <1>9 DEF bios_exit, longjmp
  <2>2. where' = "prompt" /\ shown' = longjmp(asked) - 1 /\ UNCHANGED <<line, args, typed, asked>>
    BY <1>9, <2>1 DEF bios_exit
  <2> QED BY <2>1, <2>2
<1>10. CASE catch_exception \/ Reset
  BY <1>10 DEF catch_exception, Reset
<1>11. CASE Boot
  <2>1. <<>> \in [1 .. 0 -> Word] /\ 0 \in 0 .. MaxWords
    BY DEF MonitorAssumption
  <2>2. <<>> \in Line
    BY <2>1 DEF Line
  <2>3. [argc |-> 0, argv |-> <<>>] \in [argc : 0 .. MaxWords + 1, argv : Line]
    BY <2>2 DEF MonitorAssumption
  <2> QED BY <1>11, <2>2, <2>3 DEF Boot, Handed
<1>12. CASE UNCHANGED vars
  BY <1>12
<1> QED BY <1>1, <1>2, <1>3, <1>4, <1>5, <1>6, <1>7, <1>8, <1>9, <1>10, <1>11, <1>12
        DEF Next, Command, Program

\* The types of Monitor, and with them the bounds of its tables.
THEOREM TypeCorrect == Spec => []TypeOK
<1>1. Init => FileTypes /\ RunTypes
  BY InitTyped, MonitorAssumption
<1>2. FileTypes /\ RunTypes /\ [Next]_vars => (FileTypes /\ RunTypes)'
  BY FilesStayTyped, RunStaysTyped, MonitorAssumption
<1>3. FileTypes /\ RunTypes => TypeOK
  BY DEF FileTypes, RunTypes, TypeOK
<1> QED BY <1>1, <1>2, <1>3, PTL DEF Spec

-----------------------------------------------------------------------------
(* Coming home, and the arguments.                                         *)

\* Exit returns to the prompt with the code, 0 included, as longjmp delivers no 0.
THEOREM ExitsComeHome == Spec => ExitComesHome
<1> DEFINE Home == /\ where' = "prompt"
                   /\ asked = shown' + 1 \/ (asked = 0 /\ shown' = 0)
<1>1. ASSUME RunTypes, Next, where = "exiting", where' # "reset" PROVE Home
  <2>1. bios_exit
    BY <1>1 DEF Next, Command, Program, Cat, DirCommand, CatDone, Load, Go, Open, Opendir, Fopen,
                Close, Fclose, Exit, catch_exception, Reset, Boot
  <2>2. asked \in Nat
    BY <1>1 DEF RunTypes, ExitingAsked
  <2>3. CASE asked = 0
    BY <2>1, <2>3 DEF bios_exit, longjmp
  <2>4. CASE asked # 0
    BY <2>1, <2>2, <2>4 DEF bios_exit, longjmp
  <2> QED BY <2>3, <2>4
<1>2. RunTypes /\ [Next]_vars => [where = "exiting" /\ where' # "reset" => Home]_vars
  BY <1>1
<1>3. Init => FileTypes /\ RunTypes
  BY InitTyped, MonitorAssumption
<1>4. RunTypes /\ [Next]_vars => RunTypes'
  BY RunStaysTyped, MonitorAssumption
<1> QED BY <1>2, <1>3, <1>4, PTL DEF Spec, ExitComesHome

LEMMA GoPasses ==
  ASSUME MaxWords \in Nat, NEW words \in Line, words # <<>>,
         ~(words[1] = "address" /\ Len(words) > 1)
  PROVE  LET got == handle_go_command(words, words[1])
         IN  /\ got.argv = IF words[1] \in {"--", "address"} THEN SubSeq(words, 2, Len(words))
                           ELSE words
             /\ got.argc = Len(got.argv) + 1
<1>1. words \in Seq(Word) /\ Len(words) \in Nat \ {0}
  BY LinesAre
<1>2. /\ Tail(words) = SubSeq(words, 2, Len(words))
      /\ Len(Tail(words)) = Len(words) - 1
  BY <1>1, TailIs
<1>3. CASE words[1] = "--"
  BY <1>1, <1>2, <1>3 DEF handle_go_command, WithoutFirst, Handed
<1>4. CASE words[1] = "address"
  <2>1. words = <<"address">>
    <3> DEFINE one == <<"address">>
    <3> DEFINE len == Len(words)
    <3>0. len \in Nat \ {0} /\ ~(len > 1)
      BY <1>1, <1>4
    <3>1. len = 1
      <4> HIDE DEF len
      <4> QED BY <3>0
    <3>2. one \in Seq(Word) /\ Len(one) = 1
      BY DEF Word
    <3>3. \A i \in 1 .. Len(words) : words[i] = one[i]
      BY <3>1, <1>4
    <3> HIDE DEF one
    <3>4. words = one
      BY <1>1, <3>1, <3>2, <3>3, SeqEqual
    <3> QED BY <3>4 DEF one
  <2>2. handle_go_command(words, words[1]) = WithoutFirst(words)
    BY <1>4, <2>1 DEF handle_go_command
  <2> QED BY <1>1, <1>2, <1>4, <2>2 DEF WithoutFirst, Handed
<1>5. CASE words[1] \notin {"--", "address"}
  <2>1. words # <<"address">>
    BY <1>5
  <2>2. handle_go_command(words, words[1]) = Handed(Len(words) + 1, words)
    BY <1>5, <2>1 DEF handle_go_command
  <2> QED BY <1>5, <2>2 DEF Handed
<1> QED BY <1>3, <1>4, <1>5

\* A program starts with the words that are meant for it.
THEOREM ArgumentsArrive == Spec => []ArgsPassed
<1>1. Init => ArgsPassed /\ FileTypes /\ RunTypes
  BY InitTyped, MonitorAssumption DEF Init, ArgsPassed
<1>2. FileTypes /\ RunTypes /\ [Next]_vars => (FileTypes /\ RunTypes)'
  BY FilesStayTyped, RunStaysTyped, MonitorAssumption
<1>3. ASSUME RunTypes, ArgsPassed, [Next]_vars PROVE ArgsPassed'
  <2>1. ASSUME NEW words \in Line, NEW first \in Word, Go(words, first) PROVE ArgsPassed'
    <3>1. SUFFICES ASSUME words # <<>>, ~(words[1] = "address" /\ Len(words) > 1)
                   PROVE  ArgsPassed'
      BY <2>1 DEF Go, ArgsPassed
    <3>2. line' = words /\ args' = handle_go_command(words, words[1])
      BY <2>1, <3>1 DEF Go
    <3> QED BY <3>1, <3>2, GoPasses, MonitorAssumption DEF ArgsPassed
  <2>2. CASE bios_exit
    <3>1. longjmp(asked) # 0
      BY <1>3, <2>2 DEF bios_exit, longjmp, RunTypes, ExitingAsked
    <3> QED BY <2>2, <3>1 DEF bios_exit, ArgsPassed
  <2>3. CASE where' = "program" => UNCHANGED <<where, line, args>>
    BY <1>3, <2>3 DEF ArgsPassed
  <2>4. where' = "program" => UNCHANGED <<where, line, args>>
          \/ bios_exit \/ \E words \in Line, first \in Word : Go(words, first)
    BY <1>3 DEF Next, vars, run, files, Command, Program, Cat, DirCommand, CatDone, Load, Open,
                Opendir, Fopen, Close, Fclose, Exit, catch_exception, Reset, Boot
  <2> QED BY <2>1, <2>2, <2>3, <2>4
<1> QED BY <1>1, <1>2, <1>3, PTL DEF Spec

-----------------------------------------------------------------------------
(* Descriptors.                                                            *)

InStream(l, s, fd) == Live(l) /\ streams[l][s] = fd
InDir(l, d, fd) == Live(l) /\ dirs[l][d] = fd
ByProgram(fd) == Live("program") /\ fd \in fds

Used(fd) ==
  \/ \E l \in Library, s \in Stream : InStream(l, s, fd)
  \/ \E l \in Library, d \in Dir : InDir(l, d, fd)
  \/ ByProgram(fd)
  \/ fd \in left

UsedOnce(fd) ==
  /\ fd \in open <=> Used(fd)
  /\ \A l, m \in Library, s, t \in Stream : InStream(l, s, fd) /\ InStream(m, t, fd) => l = m /\ s = t
  /\ \A l, m \in Library, d, e \in Dir : InDir(l, d, fd) /\ InDir(m, e, fd) => l = m /\ d = e
  /\ \A l, m \in Library, s \in Stream, d \in Dir : ~(InStream(l, s, fd) /\ InDir(m, d, fd))
  /\ \A l \in Library, s \in Stream : InStream(l, s, fd) => ~ByProgram(fd) /\ fd \notin left
  /\ \A l \in Library, d \in Dir : InDir(l, d, fd) => ~ByProgram(fd) /\ fd \notin left
  /\ ~(ByProgram(fd) /\ fd \in left)

Running == where \notin {"halted", "reset"}
EachUsedOnce == Running => \A fd \in Fds : UsedOnce(fd)

\* That is what Accounted says.
LEMMA UsedOnceIsAccounted ==
  ASSUME EachUsedOnce
  PROVE  Accounted
<1>1. ASSUME NEW fd \in Fds, Running
      PROVE  /\ fd \in open <=> Uses(fd) # {}
             /\ \A u, v \in Uses(fd) : u = v
  <2>1. UsedOnce(fd)
    BY <1>1 DEF EachUsedOnce
  <2>2. \A u : u \in Uses(fd) <=>
          \/ \E l \in Library, s \in Stream : u = <<"stream", l, s>> /\ InStream(l, s, fd)
          \/ \E l \in Library, d \in Dir : u = <<"dir", l, d>> /\ InDir(l, d, fd)
          \/ u = <<"fds", "program", fd>> /\ ByProgram(fd)
          \/ u = <<"left", "program", fd>> /\ fd \in left
    BY DEF Uses, InStream, InDir, ByProgram
  <2>3. Uses(fd) # {} <=> Used(fd)
    BY <2>2 DEF Used
  <2>4. \A u, v \in Uses(fd) : u = v
    <3> TAKE u, v \in Uses(fd)
    <3>1. CASE \E l \in Library, s \in Stream : u = <<"stream", l, s>> /\ InStream(l, s, fd)
      BY <2>1, <2>2, <3>1 DEF UsedOnce
    <3>2. CASE \E l \in Library, d \in Dir : u = <<"dir", l, d>> /\ InDir(l, d, fd)
      BY <2>1, <2>2, <3>2 DEF UsedOnce
    <3>3. CASE u = <<"fds", "program", fd>> /\ ByProgram(fd)
      BY <2>1, <2>2, <3>3 DEF UsedOnce
    <3>4. CASE u = <<"left", "program", fd>> /\ fd \in left
      BY <2>1, <2>2, <3>4 DEF UsedOnce
    <3> QED BY <2>2, <3>1, <3>2, <3>3, <3>4
  <2> QED BY <2>1, <2>3, <2>4 DEF UsedOnce
<1> QED BY <1>1 DEF Accounted, Running

SameLife == Running /\ \A l \in Library : Live(l)' <=> Live(l)

LEMMA NothingMoves ==
  ASSUME EachUsedOnce, Running' => SameLife, UNCHANGED files
  PROVE  EachUsedOnce'
BY DEF EachUsedOnce, UsedOnce, Used, InStream, InDir, ByProgram, SameLife, files, Library

\* A stream gets a descriptor that was not in use.
LEMMA StreamTakes ==
  ASSUME FileTypes, EachUsedOnce, SameLife,
         NEW l \in Library, NEW s \in Stream, NEW f \in Fds \ open, Live(l),
         streams[l][s] = None, open' = open \cup {f},
         streams' = [streams EXCEPT ![l] = [streams[l] EXCEPT ![s] = f]],
         UNCHANGED <<dirs, fds, left>>
  PROVE  EachUsedOnce'
<1>1. ASSUME NEW fd \in Fds PROVE UsedOnce(fd)'
  <2>1. UsedOnce(fd)
    BY DEF EachUsedOnce, SameLife
  <2>2. \A m \in Library, t \in Stream :
          InStream(m, t, fd)' <=> IF m = l /\ t = s THEN fd = f ELSE InStream(m, t, fd)
    BY DEF InStream, SameLife, FileTypes
  <2>3. /\ \A m \in Library, d \in Dir : InDir(m, d, fd)' <=> InDir(m, d, fd)
        /\ ByProgram(fd)' <=> ByProgram(fd)
        /\ fd \in left' <=> fd \in left
    BY DEF InDir, ByProgram, SameLife, Library
  <2>4. ~InStream(l, s, fd)
    BY DEF InStream, None, Fds, FileTypes
  <2>5. CASE fd = f
    <3>1. ~Used(fd) /\ fd \in open'
      BY <2>1, <2>5 DEF UsedOnce
    <3> QED BY <2>2, <2>3, <2>5, <3>1 DEF Used, UsedOnce
  <2>6. CASE fd # f
    <3>1. \A m \in Library, t \in Stream : InStream(m, t, fd)' <=> InStream(m, t, fd)
      BY <2>2, <2>4, <2>6
    <3>2. fd \in open' <=> fd \in open
      BY <2>6
    <3> QED BY <2>1, <2>3, <3>1, <3>2 DEF Used, UsedOnce
  <2> QED BY <2>5, <2>6
<1> QED BY <1>1 DEF EachUsedOnce

\* Likewise an open directory.
LEMMA DirTakes ==
  ASSUME FileTypes, EachUsedOnce, SameLife,
         NEW l \in Library, NEW s \in Dir, NEW f \in Fds \ open, Live(l),
         dirs[l][s] = None, open' = open \cup {f},
         dirs' = [dirs EXCEPT ![l] = [dirs[l] EXCEPT ![s] = f]],
         UNCHANGED <<streams, fds, left>>
  PROVE  EachUsedOnce'
<1>1. ASSUME NEW fd \in Fds PROVE UsedOnce(fd)'
  <2>1. UsedOnce(fd)
    BY DEF EachUsedOnce, SameLife
  <2>2. \A m \in Library, t \in Dir :
          InDir(m, t, fd)' <=> IF m = l /\ t = s THEN fd = f ELSE InDir(m, t, fd)
    BY DEF InDir, SameLife, FileTypes
  <2>3. /\ \A m \in Library, d \in Stream : InStream(m, d, fd)' <=> InStream(m, d, fd)
        /\ ByProgram(fd)' <=> ByProgram(fd)
        /\ fd \in left' <=> fd \in left
    BY DEF InStream, ByProgram, SameLife, Library
  <2>4. ~InDir(l, s, fd)
    BY DEF InDir, None, Fds, FileTypes
  <2>5. CASE fd = f
    <3>1. ~Used(fd) /\ fd \in open'
      BY <2>1, <2>5 DEF UsedOnce
    <3> QED BY <2>2, <2>3, <2>5, <3>1 DEF Used, UsedOnce
  <2>6. CASE fd # f
    <3>1. \A m \in Library, t \in Dir : InDir(m, t, fd)' <=> InDir(m, t, fd)
      BY <2>2, <2>4, <2>6
    <3>2. fd \in open' <=> fd \in open
      BY <2>6
    <3> QED BY <2>1, <2>3, <3>1, <3>2 DEF Used, UsedOnce
  <2> QED BY <2>5, <2>6
<1> QED BY <1>1 DEF EachUsedOnce

\* fclose: the stream's descriptor, which nothing else uses, is closed.
LEMMA StreamReleases ==
  ASSUME FileTypes, EachUsedOnce, SameLife,
         NEW l \in Library, NEW s \in Stream, Live(l),
         fclose(l, s), UNCHANGED <<dirs, fds, left>>
  PROVE  EachUsedOnce'
<1>1. ASSUME NEW fd \in Fds PROVE UsedOnce(fd)'
  <2>1. UsedOnce(fd)
    BY DEF EachUsedOnce, SameLife
  <2>2. \A m \in Library, t \in Stream :
          InStream(m, t, fd)' <=> InStream(m, t, fd) /\ ~(m = l /\ t = s)
    BY DEF InStream, SameLife, FileTypes, fclose, None, Fds
  <2>3. /\ \A m \in Library, d \in Dir : InDir(m, d, fd)' <=> InDir(m, d, fd)
        /\ ByProgram(fd)' <=> ByProgram(fd)
        /\ fd \in left' <=> fd \in left
    BY DEF InDir, ByProgram, SameLife, Library
  <2>4. fd \in open' <=> fd \in open /\ ~InStream(l, s, fd)
    BY DEF InStream, fclose
  <2>5. CASE InStream(l, s, fd)
    BY <2>1, <2>2, <2>3, <2>4, <2>5 DEF Used, UsedOnce
  <2>6. CASE ~InStream(l, s, fd)
    <3>1. \A m \in Library, t \in Stream : InStream(m, t, fd)' <=> InStream(m, t, fd)
      BY <2>2, <2>6
    <3> QED BY <2>1, <2>3, <2>4, <2>6, <3>1 DEF Used, UsedOnce
  <2> QED BY <2>5, <2>6
<1> QED BY <1>1 DEF EachUsedOnce

\* A new program has nothing open; what the last one left is left.
LEMMA LaunchStartsClean ==
  ASSUME MonitorAssumption, FileTypes, EachUsedOnce, where = "prompt", Launch,
         UNCHANGED <<open, left>>
  PROVE  EachUsedOnce'
<1>1. ASSUME NEW fd \in Fds PROVE UsedOnce(fd)'
  <2>1. UsedOnce(fd)
    BY DEF EachUsedOnce, Running
  <2>2. fd # None
    BY DEF Fds, None, MonitorAssumption
  <2>3. \A m \in Library, t \in Stream : InStream(m, t, fd)' <=> InStream(m, t, fd)
    BY <2>2 DEF InStream, Launch, Cleared, Empty, Live, FileTypes, Library, Stream
  <2>4. \A m \in Library, t \in Dir : InDir(m, t, fd)' <=> InDir(m, t, fd)
    BY <2>2 DEF InDir, Launch, Cleared, Empty, Live, FileTypes, Library, Dir
  <2>5. ~ByProgram(fd) /\ ~ByProgram(fd)'
    BY DEF ByProgram, Live, Launch
  <2> QED BY <2>1, <2>3, <2>4, <2>5 DEF Used, UsedOnce
<1> QED BY <1>1 DEF EachUsedOnce

\* A program that ends leaves behind what it held.
LEMMA ExitLeaves ==
  ASSUME FileTypes, EachUsedOnce, where = "exiting", where' = "prompt",
         left' = left \cup Held("program"), UNCHANGED <<open, streams, dirs, fds>>
  PROVE  EachUsedOnce'
<1>1. ASSUME NEW fd \in Fds PROVE UsedOnce(fd)'
  <2>1. UsedOnce(fd)
    BY DEF EachUsedOnce, Running
  <2>2. \A m \in Library, t \in Stream :
          InStream(m, t, fd)' <=> InStream(m, t, fd) /\ m = "monitor"
    BY DEF InStream, Live, Library
  <2>3. \A m \in Library, t \in Dir : InDir(m, t, fd)' <=> InDir(m, t, fd) /\ m = "monitor"
    BY DEF InDir, Live, Library
  <2>4. ~ByProgram(fd)'
    BY DEF ByProgram, Live
  <2>5. fd \in left' <=> \/ fd \in left
                         \/ \E t \in Stream : InStream("program", t, fd)
                         \/ \E t \in Dir : InDir("program", t, fd)
                         \/ ByProgram(fd)
    BY DEF Held, InStream, InDir, ByProgram, Live, None, Fds
  <2>6. "program" \in Library /\ "monitor" \in Library
        /\ \A m \in Library : m # "monitor" => m = "program"
    BY DEF Library
  <2>7. fd \in open' <=> Used(fd)'
    BY <2>1, <2>2, <2>3, <2>4, <2>5, <2>6 DEF Used, UsedOnce
  <2> QED BY <2>1, <2>2, <2>3, <2>4, <2>5, <2>6, <2>7 DEF UsedOnce
<1> QED BY <1>1 DEF EachUsedOnce

LEMMA AccountsKept ==
  ASSUME MonitorAssumption, FileTypes, RunTypes, EachUsedOnce, [Next]_vars
  PROVE  EachUsedOnce'
<1> USE DEF run, files
<1> DEFINE SameWhere == where \notin {"halted", "reset"} /\ where' = where
<1>1. ASSUME SameWhere \/ (where = "program" /\ where' = "exiting")
             \/ {where, where'} \subseteq {"prompt", "cat"}
      PROVE  SameLife
  BY <1>1 DEF SameLife, Running, Live
<1>2. ASSUME NEW mounted \in BOOLEAN, Cat(mounted) PROVE EachUsedOnce'
  <2>1. fopen("monitor", TRUE, mounted) /\ "monitor" \in Library /\ TRUE \in BOOLEAN
    BY <1>2 DEF Cat, Library
  <2>2. SameLife /\ Live("monitor") /\ UNCHANGED <<dirs, fds, left>>
    BY <1>2, <1>1 DEF Cat, Live
  <2>3. CASE open' = open /\ streams' = streams
    BY <2>2, <2>3, NothingMoves
  <2>4. ASSUME NEW s \in Stream, NEW f \in Fds \ open,
               streams["monitor"][s] = None, open' = open \cup {f},
               streams' = [streams EXCEPT !["monitor"] = [streams["monitor"] EXCEPT ![s] = f]]
        PROVE  EachUsedOnce'
    BY <2>1, <2>2, <2>4, StreamTakes
  <2> QED BY <2>1, <2>3, <2>4, FopenEffect
<1>3. ASSUME NEW mounted \in BOOLEAN, NEW l \in Library, opendir(l, mounted),
             SameWhere, Live(l), UNCHANGED <<streams, fds, left>>
      PROVE  EachUsedOnce'
  <2>1. SameLife
    BY <1>3, <1>1
  <2>2. CASE open' = open /\ dirs' = dirs
    BY <1>3, <2>1, <2>2, NothingMoves
  <2>3. ASSUME NEW d \in Dir, NEW f \in Fds \ open,
               dirs[l][d] = None, open' = open \cup {f},
               dirs' = [dirs EXCEPT ![l] = [dirs[l] EXCEPT ![d] = f]]
        PROVE  EachUsedOnce'
    BY <1>3, <2>1, <2>3, DirTakes
  <2> QED BY <1>3, <2>2, <2>3, OpendirEffect
<1>4. ASSUME NEW mounted \in BOOLEAN, DirCommand(mounted) PROVE EachUsedOnce'
  BY <1>4, <1>3 DEF DirCommand, Live, Library
<1>5. CASE CatDone
  <2>1. PICK s \in Stream : fclose("monitor", s)
    BY <1>5 DEF CatDone
  <2>2. SameLife /\ Live("monitor") /\ UNCHANGED <<dirs, fds, left>>
    BY <1>5, <1>1 DEF CatDone, Live
  <2> QED BY <2>1, <2>2, StreamReleases DEF Library
<1>6. CASE Load
  <2>1. SameLife
    BY <1>6, <1>1 DEF Load
  <2> QED BY <1>6, <2>1, NothingMoves DEF Load
<1>7. ASSUME NEW words \in Line, NEW first \in Word, Go(words, first) PROVE EachUsedOnce'
  BY <1>7, LaunchStartsClean DEF Go
<1>8. ASSUME NEW mounted \in BOOLEAN, Open(mounted) PROVE EachUsedOnce'
  <2>1. SameLife /\ Live("program")
    BY <1>8, <1>1 DEF Open, Live
  <2>2. CASE bios_open(mounted) = {}
    <3>1. UNCHANGED files
      BY <1>8, <2>2 DEF Open
    <3> QED BY <2>1, <3>1, NothingMoves
  <2>3. ASSUME NEW f \in Fds \ open, bios_open(mounted) = {f} PROVE EachUsedOnce'
    <3>1. open' = open \cup {f} /\ fds' = fds \cup {f} /\ UNCHANGED <<streams, dirs, left>>
      BY <1>8, <2>3 DEF Open
    <3>2. ASSUME NEW fd \in Fds PROVE UsedOnce(fd)'
      <4>1. UsedOnce(fd)
        BY <2>1 DEF EachUsedOnce, SameLife
      <4>2. /\ \A m \in Library, t \in Stream : InStream(m, t, fd)' <=> InStream(m, t, fd)
            /\ \A m \in Library, d \in Dir : InDir(m, d, fd)' <=> InDir(m, d, fd)
            /\ fd \in left' <=> fd \in left
            /\ ByProgram(fd)' <=> ByProgram(fd) \/ fd = f
        BY <2>1, <3>1 DEF InStream, InDir, ByProgram, SameLife, Library
      <4>3. CASE fd = f
        <5>1. ~Used(fd) /\ fd \in open'
          BY <3>1, <4>1, <4>3 DEF UsedOnce
        <5> QED BY <4>2, <4>3, <5>1 DEF Used, UsedOnce
      <4>4. CASE fd # f
        <5>1. fd \in open' <=> fd \in open
          BY <3>1, <4>4
        <5> QED BY <4>1, <4>2, <4>4, <5>1 DEF Used, UsedOnce
      <4> QED BY <4>3, <4>4
    <3> QED BY <3>2 DEF EachUsedOnce
  <2> QED BY <2>2, <2>3, OpenIsFresh DEF MonitorAssumption
<1>9. ASSUME NEW mounted \in BOOLEAN, Opendir(mounted) PROVE EachUsedOnce'
  BY <1>9, <1>3 DEF Opendir, Live, Library
<1>10. ASSUME NEW mode \in BOOLEAN, NEW mounted \in BOOLEAN, Fopen(mode, mounted) PROVE EachUsedOnce'
  <2>1. fopen("program", mode, mounted) /\ "program" \in Library
    BY <1>10 DEF Fopen, Library
  <2>2. SameLife /\ Live("program") /\ UNCHANGED <<dirs, fds, left>>
    BY <1>10, <1>1 DEF Fopen, Live
  <2>3. CASE open' = open /\ streams' = streams
    BY <2>2, <2>3, NothingMoves
  <2>4. ASSUME NEW s \in Stream, NEW f \in Fds \ open,
               streams["program"][s] = None, open' = open \cup {f},
               streams' = [streams EXCEPT !["program"] = [streams["program"] EXCEPT ![s] = f]]
        PROVE  EachUsedOnce'
    BY <2>1, <2>2, <2>4, StreamTakes
  <2> QED BY <2>1, <2>3, <2>4, FopenEffect
<1>11. ASSUME NEW f \in Fds, Close(f) PROVE EachUsedOnce'
  <2>1. SameLife /\ Live("program")
    BY <1>11, <1>1 DEF Close, Live
  <2>2. /\ f \in fds /\ open' = open \ {f} /\ fds' = fds \ {f}
        /\ UNCHANGED <<streams, dirs, left>>
    BY <1>11 DEF Close
  <2>3. ASSUME NEW fd \in Fds PROVE UsedOnce(fd)'
    <3>1. UsedOnce(fd)
      BY <2>1 DEF EachUsedOnce, SameLife
    <3>2. /\ \A m \in Library, t \in Stream : InStream(m, t, fd)' <=> InStream(m, t, fd)
          /\ \A m \in Library, d \in Dir : InDir(m, d, fd)' <=> InDir(m, d, fd)
          /\ fd \in left' <=> fd \in left
          /\ ByProgram(fd)' <=> ByProgram(fd) /\ fd # f
          /\ fd = f => ByProgram(fd)
      BY <2>1, <2>2 DEF InStream, InDir, ByProgram, SameLife, Library
    <3>3. fd \in open' <=> fd \in open /\ fd # f
      BY <2>2
    <3> QED BY <3>1, <3>2, <3>3 DEF Used, UsedOnce
  <2> QED BY <2>3 DEF EachUsedOnce
<1>12. ASSUME NEW s \in Stream, Fclose(s) PROVE EachUsedOnce'
  <2>1. SameLife /\ Live("program") /\ UNCHANGED <<dirs, fds, left>>
    BY <1>12, <1>1 DEF Fclose, Live
  <2> QED BY <1>12, <2>1, StreamReleases DEF Fclose, Library
<1>13. ASSUME NEW code \in Codes \cup {args.argc}, Exit(code) PROVE EachUsedOnce'
  <2>1. SameLife
    BY <1>13, <1>1 DEF Exit
  <2> QED BY <1>13, <2>1, NothingMoves DEF Exit
<1>14. CASE bios_exit
  <2>1. longjmp(asked) # 0
    BY <1>14 DEF bios_exit, longjmp
  <2> QED BY <1>14, <2>1, ExitLeaves DEF bios_exit
<1>15. CASE catch_exception \/ Reset
  BY <1>15 DEF catch_exception, Reset, EachUsedOnce, Running
<1>16. CASE Boot
  <2>1. ASSUME NEW fd \in Fds PROVE UsedOnce(fd)'
    <3>1. fd # None
      BY DEF Fds, None, MonitorAssumption
    <3> QED BY <1>16, <3>1 DEF Boot, UsedOnce, Used, InStream, InDir, ByProgram, Empty, Library,
                               Stream, Dir
  <2> QED BY <2>1 DEF EachUsedOnce
<1>17. CASE UNCHANGED vars
  BY <1>17, NothingMoves DEF vars, SameLife, Running, Live
<1> QED BY <1>2, <1>4, <1>5, <1>6, <1>7, <1>8, <1>9, <1>10, <1>11, <1>12, <1>13, <1>14, <1>15,
           <1>16, <1>17 DEF Next, Command, Program

\* Every open descriptor is in use, once, whatever the sizes of the tables.
THEOREM DescriptorsAccounted == Spec => []Accounted
<1> DEFINE IInv == FileTypes /\ RunTypes /\ EachUsedOnce
<1>1. Init => IInv
  <2>1. ASSUME Init, NEW fd \in Fds PROVE UsedOnce(fd)
    <3>1. fd # None
      BY MonitorAssumption DEF Fds, None
    <3> QED BY <2>1, <3>1 DEF Init, UsedOnce, Used, InStream, InDir, ByProgram, Empty, Library,
                              Stream, Dir
  <2> QED BY <2>1, InitTyped, MonitorAssumption DEF EachUsedOnce
<1>2. IInv /\ [Next]_vars => IInv'
  BY FilesStayTyped, RunStaysTyped, AccountsKept, MonitorAssumption
<1>3. IInv => Accounted
  BY UsedOnceIsAccounted
<1> QED BY <1>1, <1>2, <1>3, PTL DEF Spec
=============================================================================
