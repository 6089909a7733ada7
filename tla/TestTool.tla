------------------------------- MODULE TestTool -------------------------------
(***************************************************************************)
(* The diagnostic tool (programs/testtool): its commands, found by the     *)
(* first word of a line, and what they show of memory, of the clock and of *)
(* the first file system.  Its evaluator and its clock driver are copies   *)
(* of the monitor's with a table of constants that is fixed.               *)
(*                                                                         *)
(* A line is a sequence of characters.  `t' is what the tool keeps from    *)
(* line to line: the place and the size of the next dump, what the clock   *)
(* chip holds, and whether it has ended; `hw' is what it runs on.          *)
(***************************************************************************)
EXTENDS Integers, Sequences
LOCAL INSTANCE FiniteSetsExt
LOCAL INSTANCE SequencesExt

CONSTANTS
  WORD,         \* the width of a long
  constants,    \* the evaluator's table: names, as texts, and values
  MAX_ARGS,
  dump_window_size \* what is dumped unless another size was asked for

LOCAL Monitor ==
  INSTANCE Commands WITH Constants <- constants, MAX_CONSTANTS <- Len(constants), DumpWindow <- dump_window_size,
                         MAX_CONSTANT_NAME <- 1 + Max({0} \cup {Len(constants[k].name) : k \in DOMAIN constants})
LOCAL C == INSTANCE Numbers

is_command(cmd, target, min) == Monitor!is_command(cmd, Monitor!Chars(target), min, "ANY")

(***************************************************************************)
(* expr.c                                                                  *)
(***************************************************************************)
lookup_constant(name) == Monitor!lookup_constant(name)
next_token(p) == Monitor!next_token(p)
parse_shift(p) == Monitor!parse_shift(p)
Parsed(p) ==
  IF p.cur.type = "END" /\ p.err = "OK" THEN Monitor!Says("EMPTY_EXPRESSION", 0, 0)
  ELSE Monitor!Verdict(parse_shift(p))
expr_evaluate(src) ==
  Parsed(next_token([src |-> src, pos |-> 0, err |-> "OK", err_pos |-> -1, cur |-> Monitor!Token("END", 0, 0, <<>>)]))

(***************************************************************************)
(* dump.c and eval.c.  Every command leaves the tool and what it showed.   *)
(***************************************************************************)
Does(t, shown) == [t |-> t, shown |-> shown]
Says(t, what) == Does(t, [is |-> what])

PER_LINE == 16
\* The lines of a dump, each with its address; one that is all zeros may be left out.
\* (Sizes that end in the last line of the address space never end.)
dump_mem(mem, buf, count, print_zeroes) ==
  LET needed(i) == IF i + PER_LINE > count THEN count - i ELSE PER_LINE
      Line(i) == [at |-> (buf + i) % 2^WORD, bytes |-> [x \in 1 .. needed(i) |-> mem[(buf + i + x - 1) % 2^WORD]]]
      lines == [n \in 1 .. (count + PER_LINE - 1) \div PER_LINE |-> Line((n - 1) * PER_LINE)]
  IN  SelectSeq(lines, LAMBDA l : print_zeroes \/ \E x \in DOMAIN l.bytes : l.bytes[x] # 0)

Dumped(t, hw) ==
  Does([t EXCEPT !.address = Monitor!Long(@ + t.window)],
       [is |-> "dump", lines |-> dump_mem(hw.mem, t.address, t.window, FALSE)])
\* `vals' are the values of the words, the command's own first.
Dump(t, hw, vals) ==
  LET argc == Len(vals)
      placed == [t EXCEPT !.address = vals[2].v]
  IN  IF argc < 2 THEN Dumped(t, hw)
      ELSE IF vals[2].err # "OK" THEN Says(t, "cannot evaluate")
      ELSE IF argc = 3 /\ vals[3].err # "OK" THEN Says(placed, "cannot evaluate")
      ELSE Dumped(IF argc = 3 THEN [placed EXCEPT !.window = vals[3].v % 2^WORD] ELSE placed, hw)
handle_dump_command(t, hw, argv) == Dump(t, hw, [k \in DOMAIN argv |-> expr_evaluate(argv[k])])

handle_eval_command(t, argv) ==
  LET exp == FoldLeft(LAMBDA text, word : text \o word \o <<" ">>, <<>>, Tail(argv))
  IN  IF Len(argv) = 1 THEN Says(t, "usage") ELSE Does(t, [is |-> "value", value |-> expr_evaluate(exp)])

(***************************************************************************)
(* ds1307.c and rtc.c; the chip answers every time or never.               *)
(***************************************************************************)
ds1307_read(chip, addr, n) == Monitor!ds1307_read(chip, addr, n)
ds1307_write(chip, addr, bytes) == Monitor!ds1307_write(chip @@ [later |-> chip.regs], addr, bytes)
ds1307_read_time(chip) == Monitor!ds1307_read_time(chip)

SIGNATURE == <<176, 186>>
handle_rtc_command(t, argv) ==
  LET erased == ds1307_write(t.chip, 8, SIGNATURE \o [k \in 1 .. 54 |-> 255])
      cmd(name) == is_command(argv[2], name, 2)
  IN  IF Len(argv) = 1 \/ (Len(argv) = 2 /\ cmd("help")) THEN Says(t, "help")
      ELSE IF cmd("time") THEN Says(t, "not coded")
      ELSE IF ~cmd("erase") THEN Says(t, "not valid")
      ELSE IF erased.n # 56 THEN Says(t, "erase failed")
      ELSE Says([t EXCEPT !.chip.regs = erased.regs], "erased")

\* argv[1] is rtc.
handle_rtc_subcommand(t, argv) ==
  LET argc == Len(argv)
      nvram == ds1307_read(t.chip, 8, 56)
      byte == [a \in 0 .. 2^WORD - 1 |-> IF a < 56 THEN nvram[a + 1] ELSE 0]
  IN  CASE argc > 2 -> Says(t, "usage")
        [] argc = 1 -> Does(t, [is |-> "time", read |-> ds1307_read_time(t.chip)])
        [] argc = 2 /\ is_command(argv[2], "help", 2) -> Says(t, "help")
        [] argc = 2 /\ ~is_command(argv[2], "help", 2) /\ is_command(argv[2], "nvram", 2) ->
             IF Len(nvram) # 56 THEN Says(t, "read failed")
             ELSE Does(t, [is |-> "dump", lines |-> dump_mem(byte, 0, 56, TRUE)])
        [] OTHER -> Says(t, "nothing")

(***************************************************************************)
(* ext2.c and vars.c.  A file system has a superblock, the descriptors of  *)
(* its groups, each where that group's inodes begin within the group, and  *)
(* the blocks that can be read, sequences of bytes.                        *)
(***************************************************************************)
uint32_t(n) == n % 2^WORD
ext2_get_inode(fs, num) ==
  LET group == uint32_t(num - 1) \div fs.sb.s_inodes_per_group
      at == (uint32_t(num - 1) % fs.sb.s_inodes_per_group) * fs.sb.s_inode_size
      block == at \div fs.block_size + group * fs.sb.s_blocks_per_group + fs.bgdt[group + 1]
      offset == at % fs.block_size
  IN  IF group >= Len(fs.bgdt) THEN <<>>
      ELSE IF block \notin DOMAIN fs.blocks THEN <<>>
      ELSE SubSeq(fs.blocks[block], offset + 1, offset + fs.sb.s_inode_size)

\* A subcommand that takes the number of what it shows, and shows it if there is any.
Numbered(t, argv, Shown(_)) ==
  LET num == uint32_t(C!atoi(argv[2]))
  IN  IF Len(argv) # 2 THEN Says(t, "usage")
      ELSE IF Shown(num) = <<>> THEN Says(t, "read error")
      ELSE Does(t, [is |-> "disk", num |-> num, shows |-> Shown(num)])
handle_bginfo_subcommand(t, fs, argv) ==
  Numbered(t, argv, LAMBDA num : IF num >= Len(fs.bgdt) THEN <<>> ELSE <<fs.bgdt[num + 1]>>)
handle_inode_subcommand(t, fs, argv) == Numbered(t, argv, LAMBDA num : ext2_get_inode(fs, num))
handle_block_subcommand(t, fs, argv) ==
  LET byte(num) == [a \in 0 .. 2^WORD - 1 |-> IF a < fs.block_size THEN fs.blocks[num][a + 1] ELSE 0]
  IN  Numbered(t, argv, LAMBDA num : IF num \notin DOMAIN fs.blocks THEN <<>>
                                     ELSE <<dump_mem(byte(num), 0, fs.block_size, FALSE)>>)
handle_sbinfo_subcommand(t, fs, argv) ==
  IF Len(argv) # 1 THEN Says(t, "usage") ELSE Does(t, [is |-> "super", sb |-> fs.sb])
handle_vars_command(t, fs, argv) ==
  IF Len(argv) # 1 THEN Says(t, "usage")
  ELSE Does(t, [is |-> "vars", block_size |-> fs.block_size, per_group |-> fs.sb.s_inodes_per_group,
                per_block |-> fs.block_size \div fs.sb.s_inode_size])

(***************************************************************************)
(* show.c and main.c                                                       *)
(***************************************************************************)
handle_show_command(t, hw, argv) ==
  LET cmd(name, min) == is_command(argv[2], name, min)
      sub == Tail(argv)
  IN  IF Len(argv) = 1 \/ (Len(argv) = 2 /\ cmd("help", 2)) THEN Says(t, "help")
      ELSE IF cmd("bg", 0) THEN handle_bginfo_subcommand(t, hw.fs, sub)
      ELSE IF cmd("block", 2) THEN handle_block_subcommand(t, hw.fs, sub)
      ELSE IF cmd("inode", 2) THEN handle_inode_subcommand(t, hw.fs, sub)
      ELSE IF cmd("rtc", 2) THEN handle_rtc_subcommand(t, sub)
      ELSE IF cmd("super", 2) THEN handle_sbinfo_subcommand(t, hw.fs, sub)
      ELSE Says(t, "nothing")

handle_command(t, hw, argv) ==
  LET cmd(name, min) == is_command(argv[1], name, min)
  IN  IF cmd("quit", 1) THEN Says([t EXCEPT !.running = FALSE], "quit")
      ELSE IF cmd("dump", 2) THEN handle_dump_command(t, hw, argv)
      ELSE IF cmd("eval", 2) THEN handle_eval_command(t, argv)
      ELSE IF cmd("rtc", 2) THEN handle_rtc_command(t, argv)
      ELSE IF cmd("show", 2) THEN handle_show_command(t, hw, argv)
      ELSE IF cmd("vars", 2) THEN handle_vars_command(t, hw.fs, argv)
      ELSE IF cmd("help", 2) THEN Says(t, "help")
      ELSE Says(t, "unrecognised")

\* The card's status each time it is polled.
cf_present(cf_reg_status) == \E i \in DOMAIN cf_reg_status : {"RDY", "DSC"} \subseteq cf_reg_status[i]

\* What every line did, up to the one that ends the tool.
Obeyed(ran, hw, line) ==
  IF ~Last(ran).t.running THEN ran
  ELSE Append(ran, handle_command(Last(ran).t, hw, Monitor!split_str(line, " ", MAX_ARGS)))
main(hw, typed) ==
  LET t == [address |-> 0, window |-> dump_window_size, chip |-> hw.chip, running |-> TRUE]
  IN  IF ~cf_present(hw.cf) THEN [exit |-> 1, ran |-> <<>>]
      ELSE IF ~hw.mounted THEN [exit |-> 2, ran |-> <<>>]
      ELSE [exit |-> 0, ran |-> Tail(FoldLeft(LAMBDA ran, line : Obeyed(ran, hw, line), <<Says(t, "")>>, typed))]
==============================================================================
