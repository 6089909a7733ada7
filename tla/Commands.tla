------------------------------- MODULE Commands -------------------------------
(***************************************************************************)
(* From keys to commands: the line editor (bios_gets), the command table   *)
(* and its lookup (main.c), split_str, and what the dump, eval and ser     *)
(* commands make of their words.  A session is all the keys a user types   *)
(* one after another; what it comes to is a record for every line.  Last   *)
(* the rtc command, and the clock it reads and sets.                       *)
(***************************************************************************)
EXTENDS Expression, TLC
LOCAL INSTANCE FiniteSetsExt
LOCAL INSTANCE SequencesExt

CONSTANTS
  MAX_ARGS,
  DumpWindow    \* what is dumped unless another size was asked for

----------------------------------------------------------------------------
(* bios_gets: the line handed over, what was echoed, and the keys left. *)

Rubout == <<"BS", " ", "BS">>
Deleted(line) == IF line = <<>> THEN line ELSE Front(line)
Typed(ed, key) ==
  IF key # "BS" THEN [line |-> Append(ed.line, key), echo |-> Append(ed.echo, key)]
  ELSE [line |-> Deleted(ed.line), echo |-> ed.echo \o (IF ed.line = <<>> THEN <<>> ELSE Rubout)]
bios_gets(keys) == FoldLeft(Typed, [line |-> <<>>, echo |-> <<>>], keys)

----------------------------------------------------------------------------
(* Strings. *)

isblank(c) == c \in {" ", "TAB"}
strblank(str) == \A k \in DOMAIN str : isblank(str[k])

RECURSIVE ltrim(_), rtrim(_)
ltrim(str) == IF str # <<>> /\ isblank(Head(str)) THEN ltrim(Tail(str)) ELSE str
rtrim(str) == IF str # <<>> /\ isblank(Last(str)) THEN rtrim(Front(str)) ELSE str

\* strchr, the length if there is none
Position(str, c) ==
  IF \E k \in DOMAIN str : str[k] = c
  THEN CHOOSE k \in DOMAIN str : str[k] = c /\ \A j \in 1 .. k - 1 : str[j] # c
  ELSE Len(str) + 1

RECURSIVE Behindmost(_, _)
Behindmost(str, sep) ==
  IF str # <<>> /\ Head(str) = sep THEN Behindmost(Tail(str), sep) ELSE str

RECURSIVE SplitOff(_, _, _)
SplitOff(str, sep, room) ==
  LET next == Position(str, sep)
  IN IF next > Len(str) \/ room = 0 THEN <<ltrim(rtrim(str))>>
     ELSE LET rest == Behindmost(SubSeq(str, next + 1, Len(str)), sep)
          IN <<SubSeq(str, 1, next - 1)>>
               \o (IF rest = <<>> THEN <<>> ELSE SplitOff(rest, sep, room - 1))
split_str(str, sep, max_bits) == SplitOff(str, sep, max_bits - 1)

----------------------------------------------------------------------------
(* The command table. *)

Command(name, min, args) ==
  [name |-> Chars(name), min |-> min, type |-> "COMMAND", cmd |-> <<>>, args |-> args]
Alias(name, cmd) ==
  [name |-> Chars(name), min |-> 2, type |-> "ALIAS", cmd |-> Chars(cmd), args |-> "NONE"]
Prefix(name, cmd) ==
  [name |-> Chars(name), min |-> 1, type |-> "PREFIX", cmd |-> Chars(cmd), args |-> "NONE"]

commands ==
  <<Command("help", 2, "NONE"), Command("cat", 0, "VEC"), Command("cd", 0, "VEC"),
    Command("dir", 0, "VEC"), Command("disassemble", 3, "VEC"), Command("eval", 2, "STR"),
    Command("go", 0, "VEC"), Command("load", 2, "VEC"), Command("probe", 3, "VEC"),
    Command("pwd", 0, "VEC"), Command("rtc", 3, "VEC"), Command("ser1", 0, "VEC"),
    Command("ser2", 0, "VEC"), Command("byteset", 6, "STR"), Command("wordset", 6, "STR"),
    Command("longset", 6, "STR"), Command("bytedump", 6, "VEC"), Command("worddump", 6, "VEC"),
    Command("longdump", 6, "VEC"), Command("showmount", 5, "VEC"),
    Alias("sb", "byteset"), Alias("sw", "wordset"), Alias("sl", "longset"),
    Alias("dump", "bytedump"), Alias("db", "bytedump"), Alias("dw", "worddump"),
    Alias("dl", "longdump"),
    Prefix("=", "eval"), Prefix("!", "byteset"), Prefix("?", "bytedump")>>

is_command(cmd, target, min_target_len, type) ==
  LET min == IF min_target_len = 0 THEN Len(target) ELSE min_target_len
      cmd_len == IF type = "PREFIX" THEN min_target_len ELSE Len(cmd)
  IN /\ cmd_len \in min .. Len(target)
     /\ \A k \in 1 .. cmd_len : LowerOf(cmd[k]) = LowerOf(target[k])

NoCommand == [type |-> "none"]
find_command(word) ==
  LET fits == {k \in DOMAIN commands :
                 is_command(word, commands[k].name, commands[k].min, commands[k].type)}
  IN IF fits = {} THEN NoCommand ELSE commands[CHOOSE k \in fits : \A j \in fits : k <= j]

RECURSIVE Resolved(_)
Resolved(cmd) == IF cmd.type \in {"ALIAS", "PREFIX"} THEN Resolved(find_command(cmd.cmd)) ELSE cmd

----------------------------------------------------------------------------
(* What the commands do.  `mem' is what they keep: the dump's address and   *)
(* size; `vals' are the values of the words; `did' is what they did.        *)

Nothing == <<>>
Undone(mem) == [mem |-> mem, did |-> Nothing]

\* The addresses of the items a dump fetches, line by line, in the order printed: an
\* item of any size is fetched one byte behind the last.
ItemsPerLine(size) == CASE size = "BYTE" -> 16 [] size = "WORD" -> 8 [] size = "LONG" -> 4
dump(buf, size, count) ==
  LET per == ItemsPerLine(size)
      needed(i) == IF i + per > count THEN count - i ELSE per
  IN [n \in 1 .. (count + per - 1) \div per |->
        [x \in 1 .. needed((n - 1) * per) |-> (buf + (n - 1) * per + x - 1) % 2^WORD]]

DumpedFromLast(mem, size) ==
  [mem |-> mem,
   did |-> [items |-> size, lines |-> dump(mem.address, size, mem.window)]]
Dumped(mem, size) ==
  [mem |-> [mem EXCEPT !.address = Long(@ + mem.window)],
   did |-> [items |-> size, lines |-> dump(mem.address, size, mem.window)]]
do_dump_command(mem, vals, size) ==
  LET argc == Len(vals)
      placed == [mem EXCEPT !.address = vals[2].v]
  IN IF argc < 2 THEN Dumped(mem, size)
     ELSE IF vals[2].err # "OK" THEN Undone(mem)
     ELSE IF argc = 3 /\ vals[3].err # "OK" THEN Undone(placed)
     ELSE Dumped(IF argc = 3 THEN [placed EXCEPT !.window = vals[3].v] ELSE placed, size)

\* The port and the rate handed to bios_set_baud.
handle_ser_command(argv, vals) ==
  IF Len(argv) # 3 THEN Nothing
  ELSE IF ~is_command(argv[2], Chars("baud"), 2, "ANY") \/ vals[3].err # "OK" THEN Nothing
  ELSE [port |-> IF Lowered(argv[1]) = Chars("ser2") THEN 1 ELSE 0,
        baud |-> vals[3].v]

Sizes == Chars("bytedump") :> "BYTE" @@ Chars("worddump") :> "WORD" @@ Chars("longdump") :> "LONG"
Handled(mem, name, argv, vals) ==
  CASE name \in DOMAIN Sizes -> do_dump_command(mem, vals, Sizes[name])
    [] name = Chars("eval") -> [mem |-> mem, did |-> vals]
    [] name \in {Chars("ser1"), Chars("ser2")} -> [mem |-> mem, did |-> handle_ser_command(argv, vals)]
    [] OTHER -> Undone(mem)

\* eval's expressions are separated by commas.  Without a blank in front of them, it
\* looks for them behind the end of the line.
RECURSIVE FromFirst(_, _)
FromFirst(str, blank) ==
  IF str # <<>> /\ isblank(Head(str)) # blank THEN FromFirst(Tail(str), blank) ELSE str
EvalText(cmdline) ==
  IF Head(cmdline) = "=" THEN Tail(cmdline) ELSE FromFirst(FromFirst(cmdline, TRUE), FALSE)
Arguments(cmd, cmdline) ==
  CASE cmd.args = "VEC" -> split_str(cmdline, " ", MAX_ARGS)
    [] cmd.name = Chars("eval") -> split_str(EvalText(cmdline), ",", MAX_ARGS)
    [] OTHER -> <<>>

Record(command, argv, vals, h) ==
  [mem |-> h.mem, command |-> command, argv |-> argv, vals |-> vals, did |-> h.did]
Run(mem, cmd, argv, vals) == Record(cmd.name, argv, vals, Handled(mem, cmd.name, argv, vals))
Ran(mem, cmd, argv) == Run(mem, cmd, argv, [k \in DOMAIN argv |-> expr_evaluate(argv[k])])
Found(mem, cmdline, cmd) ==
  IF cmd = NoCommand THEN Record(<<"?">>, <<>>, <<>>, Undone(mem))
  ELSE Ran(mem, cmd, Arguments(cmd, cmdline))
handle_command(mem, cmdline) ==
  LET cmdstr == SubSeq(cmdline, 1, Position(cmdline, " ") - 1)
  IN IF strblank(cmdstr) THEN Record(<<>>, <<>>, <<>>, Undone(mem))
     ELSE Found(mem, cmdline, Resolved(find_command(cmdstr)))

\* main's loop, line after line
Logged(s, gets, ran) == [mem |-> ran.mem, lines |-> Append(s.lines, [gets |-> gets, ran |-> ran])]
AfterLine(s, gets) == Logged(s, gets, handle_command(s.mem, gets.line))
session(typed) ==
  FoldLeft(LAMBDA s, keys : AfterLine(s, bios_gets(keys)),
           [mem |-> [address |-> 0, window |-> DumpWindow], lines |-> <<>>], typed).lines

----------------------------------------------------------------------------
(* What the user at the console sees and means: the text on the screen, the  *)
(* words of a line, and the commands a word stands for.                      *)

\* A terminal: backspace moves the cursor, a character overwrites what is there.
Print1(t, ch) ==
  IF ch = "BS" THEN [t EXCEPT !.cursor = @ - 1]
  ELSE [cells |-> SubSeq(t.cells, 1, t.cursor) \o <<ch>> \o SubSeq(t.cells, t.cursor + 2, Len(t.cells)),
        cursor |-> t.cursor + 1]
Screen(echo) == FoldLeft(Print1, [cells |-> <<>>, cursor |-> 0], echo)
Shows(echo, line) ==
  LET t == Screen(echo)
  IN /\ SubSeq(t.cells, 1, t.cursor) = line
     /\ \A k \in t.cursor + 1 .. Len(t.cells) : t.cells[k] = " "

\* The words of a line, each from where a blank ends to where the next begins.
WordStarts(line) == {k \in DOMAIN line : line[k] # " " /\ (k > 1 => line[k - 1] = " ")}
WordAt(line, k) ==
  SubSeq(line, k, Min({j \in k .. Len(line) : j = Len(line) \/ line[j + 1] = " "}))
WordsOf(line) ==
  LET starts == SetToSortSeq(WordStarts(line), <)
  IN [n \in DOMAIN starts |-> WordAt(line, starts[n])]

\* The commands a line can stand for: those it abbreviates, or an alias of them, or
\* that have a sign of their own.
Abbreviates(word, entry) ==
  /\ Len(word) <= Len(entry.name)
  /\ Len(word) >= (IF entry.min = 0 THEN Len(entry.name) ELSE entry.min)
  /\ Lowered(word) = SubSeq(entry.name, 1, Len(word))
Meanings(line) ==
  LET first == SubSeq(line, 1, Position(line, " ") - 1)
      table == Range(commands)
  IN {entry.name : entry \in {e \in table : e.type = "COMMAND" /\ Abbreviates(first, e)}}
       \cup {entry.cmd : entry \in {e \in table : e.type = "ALIAS" /\ Abbreviates(first, e)}}
       \cup {entry.cmd : entry \in {e \in table : e.type = "PREFIX" /\ line # <<>> /\ e.name = <<Head(line)>>}}

\* Dumps and the addresses of what they showed.
IsDump(ran) == ran.did # Nothing /\ ran.command \in DOMAIN Sizes
HalfObeyed(ran) ==
  /\ ran.did = Nothing /\ ran.command \in DOMAIN Sizes /\ Len(ran.vals) = 3
  /\ ran.vals[2].err = "OK"
Items(ran) == FlattenSeq(ran.did.lines)

----------------------------------------------------------------------------
(* The rtc command (rtc_cmd.c) and the clock's time and memory as ds1307.c *)
(* reads and writes them; how the bytes get there is I2c's.  The chip goes *)
(* on counting while a command runs: `regs' is what it holds when it is    *)
(* read, `later' when it is written, and it may fail to answer to either.  *)

uint8_t(n) == n % 256
bcd_to_dec(bcd) == uint8_t((bcd \div 16) * 10 + (bcd % 16))
dec_to_bcd(dec) == uint8_t((dec \div 10) * 16 + (dec % 10))

ds1307_read(chip, addr, n) ==
  IF addr \notin 0 .. 63 \/ ~chip.reads THEN <<>>
  ELSE SubSeq(chip.regs, addr + 1, IF addr + n > 64 THEN 64 ELSE addr + n)
ds1307_write(chip, addr, bytes) ==
  IF addr \notin 0 .. 63 \/ ~chip.writes THEN [n |-> -1, regs |-> chip.later]
  ELSE [n |-> Len(bytes),
        regs |-> [r \in 1 .. 64 |-> LET k == ((r - 1 - addr) % 64) + 1
                                    IN  IF k <= Len(bytes) THEN bytes[k] ELSE chip.later[r]]]

\* The time, and whether the clock stands still; of a clock that does not answer, what
\* the stack held.
ds1307_read_time(chip) ==
  LET raw == ds1307_read(chip, 0, 7)
  IN  IF Len(raw) # 7 THEN [status |-> -1, t |-> chip.junk]
      ELSE [status |-> raw[1] \div 128,
            t |-> [seconds |-> bcd_to_dec(raw[1] % 128), minutes |-> bcd_to_dec(raw[2] % 128),
                   hours |-> bcd_to_dec(raw[3] % 64), day |-> bcd_to_dec(raw[4] % 8),
                   date |-> bcd_to_dec(raw[5] % 64), month |-> bcd_to_dec(raw[6] % 32), year |-> bcd_to_dec(raw[7])]]
ds1307_write_time(chip, t) ==
  ds1307_write(chip, 0, <<dec_to_bcd(t.seconds), dec_to_bcd(t.minutes), dec_to_bcd(t.hours), dec_to_bcd(t.day),
                          dec_to_bcd(t.date), dec_to_bcd(t.month), dec_to_bcd(t.year % 100)>>)
ds1307_read_nvram(chip, addr, n) == ds1307_read(chip, addr + 8, n)
ds1307_write_nvram(chip, addr, bytes) == ds1307_write(chip, addr + 8, bytes)

\* What an argument comes to; the one behind the last is whatever the stack held.
do_eval(args, beyond, k) ==
  LET exp == IF k <= Len(args) THEN args[k] ELSE beyond
  IN  IF exp.err = "OK" THEN exp.v ELSE -1

Shown(chip, what, status) == [regs |-> chip.later, shown |-> what, status |-> status]
\* do_date_command and do_time_command: the time is read, three of its fields are shown
\* or replaced, and all of it is written back.
Dated == <<"year", "month", "date">>
Timed == <<"hours", "minutes", "seconds">>
do_time_command(chip, fields, args, beyond) ==
  LET read == ds1307_read_time(chip)
      argc == Len(args)
      given(k) == uint8_t(IF k <= argc + 1 THEN do_eval(args, beyond, k) ELSE 0)
      written == ds1307_write_time(chip, [read.t EXCEPT ![fields[1]] = given(1), ![fields[2]] = given(2), ![fields[3]] = given(3)])
  IN  CASE argc = 0 -> Shown(chip, [k \in 1 .. 3 |-> read.t[fields[k]]], read.status)
        [] argc \in {1, 2} -> [regs |-> written.regs, shown |-> IF written.n = 7 THEN "set" ELSE "failed", status |-> read.status]
        [] OTHER -> Shown(chip, "nothing", read.status)

Erased == [k \in 1 .. 56 |-> CASE k = 1 -> 176 [] k = 2 -> 186 [] OTHER -> 255]
do_nvram_command(chip, args) ==
  LET nvram == ds1307_read_nvram(chip, 0, 56)
      erased == ds1307_write_nvram(chip, 0, Erased)
  IN  CASE args = <<>> -> Shown(chip, IF Len(nvram) = 56 THEN nvram ELSE "failed", 0)
        [] Len(args) = 1 /\ is_command(args[1].text, Chars("erase"), 2, "ANY") ->
             [regs |-> erased.regs, shown |-> IF erased.n = 56 THEN "erased" ELSE "failed", status |-> 0]
        [] OTHER -> Shown(chip, "nothing", 0)

\* argv[0] is the command's own name.
handle_rtc_command(chip, argv, beyond) ==
  LET argc == Len(argv)
      args == SubSeq(argv, 3, argc)
      cmd(name) == is_command(argv[2].text, Chars(name), 2, "ANY")
  IN  IF argc = 1 \/ (argc = 2 /\ cmd("help")) THEN Shown(chip, "help", 0)
      ELSE CASE cmd("time")  -> do_time_command(chip, Timed, args, beyond)
             [] cmd("date")  -> do_time_command(chip, Dated, args, beyond)
             [] cmd("nvram") -> do_nvram_command(chip, args)
             [] OTHER        -> Shown(chip, "not valid", 0)
=============================================================================
