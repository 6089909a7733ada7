----------------------------- MODULE Algorithms -----------------------------
(***************************************************************************)
(* The functions that run from a call to its return without anybody in     *)
(* between, each called once with one input, and what it returns compared  *)
(* with a definition that shares nothing with it: the disassembler and its *)
(* listing, expressions, paths, the disks that are found, command lines,   *)
(* baud rates, the tests and the set-up at power-on, numbers and dates,    *)
(* texts on both displays, the video chip's registers, system calls and    *)
(* exceptions, address translation, the listing of ELF files, and a game.  *)
(***************************************************************************)
EXTENDS Disassembler, Commands, Paths, Disks, BaudRates, FiniteSets
LOCAL INSTANCE FiniteSetsExt
LOCAL INSTANCE SequencesExt

CONSTANTS
  Behind,       \* for every opcode what all words behind it are, in turn
  Texts,        \* expressions, a set for every n of its domain
  PathNames,    \* paths, a set for every n of its domain
  PartitionTables, \* the cards whose partition tables are read in turn, a set for every n of its domain
  Roms, CFs, Memory, \* ROM disks, cards, and how many descriptors there is memory for
  Sessions,     \* lines a user types, a set of sequences for every n of its domain
  Rates,        \* baud rates that are asked for
  ROM_BITS, ADDRESS_LINES, LANE_BITS, DBRA, \* the sizes of the board that starts
  Boards,       \* boards, a set for every n of its domain
  Lines,        \* lines of numbers and their conversion, a set for every n of its domain
  WORD_BITS, TEXT_BUF_WORDS, CHUNK_MAX, TAB, \* the sizes of a frame buffer and the text on it
  Drawings,     \* frame buffers, fonts and what is drawn, a set for every n of its domain
  Real, UserErrno, Pid, \* what a library function hands to the monitor besides its arguments
  Programs,     \* system calls and what comes of them, a set of sequences for every n of its domain
  Crashes,      \* exceptions nobody handles, a set for every n of its domain
  SBCs,         \* what is plugged into a board that sets up
  PAGES, PAGE_ROWS, PANEL_WIDTH, NIBBLE, COLUMN_OFFSET, \* the sizes of the OLED display
  Panels,       \* what is shown on it, a set for every n of its domain
  Maps,         \* translation tables and accesses, a set for every n of its domain
  Listings,     \* programs in memory and the commands that list them, a set for every n of its domain
  Dates,        \* dates and times of day, a set for every n of its domain
  Elfs,         \* ELF files and the hosts they are listed on, a set for every n of its domain
  Clocks,       \* rtc commands and the clocks they find, a set for every n of its domain
  Files,        \* machine code in files and the options they are listed with, a set for every n of its domain
  Computers, Diagnoses, \* what the diagnostic tool runs on, and what it is told there, a set for every n of its domain
  Games,        \* the lines of a player, a set of sequences for every n of its domain
  Layouts       \* screens' configurations, timings and later changes, a set for every n of its domain

ASSUME TextAssumption == {WORD_BITS, TEXT_BUF_WORDS, CHUNK_MAX, TAB} \subseteq Nat \ {0}

Manual  == INSTANCE M68030
Grammar == INSTANCE Arithmetic
Board   == INSTANCE StartUp
C       == INSTANCE Numbers
Renderer == INSTANCE AcrtcText
Glass   == INSTANCE GlassTerminal
Setup   == INSTANCE AcrtcConfig
Entry   == INSTANCE SetUp
Oled    == INSTANCE Panel
Unit    == INSTANCE Mmu
Tool    == INSTANCE Elf
Game    == INSTANCE Farmhouse
Lister  == INSTANCE M680x0dis
Diagnostic == INSTANCE TestTool WITH constants <- Constants, dump_window_size <- DumpWindow

VARIABLES call, result

vars == <<call, result>>

Pending == [done |-> FALSE]
Call(function, input) == [function |-> function, input |-> input]

Init ==
  /\ \/ \E op \in DOMAIN Behind : \E w \in Behind[op] : call = Call("disassemble", <<op, w>>)
     \/ \E n \in DOMAIN Texts : \E text \in Texts[n] : call = Call("evaluate", text)
     \/ \E n \in DOMAIN PathNames : \E path \in PathNames[n] :
          \E f \in {"open", "chdir"}, cwd \in {Mounts[i] : i \in DOMAIN Mounts} \cup {NoMount} : call = Call(f, <<cwd, path>>)
     \/ \E n \in DOMAIN PathNames : \E path \in PathNames[n] : call = Call("split", path)
     \/ \E rom \in Roms, cards \in [Cards -> CFs], memory \in Memory :
          call = Call("mount", [rom |-> rom, cards |-> cards, memory |-> memory])
     \/ \E n \in DOMAIN PartitionTables : \E cards \in PartitionTables[n] : call = Call("partitions", cards)
     \/ \E n \in DOMAIN Sessions : \E typed \in Sessions[n] : call = Call("session", typed)
     \/ \E is_xr, doubled \in BOOLEAN, ports \in [1 .. 2 -> Channels], bauds \in [1 .. 2 -> Rates] :
          call = Call("rates", [hw |-> [is_xr68c681 |-> is_xr, clock_doubled |-> doubled],
                                calls |-> [k \in 1 .. 2 |-> [port |-> ports[k], baud |-> bauds[k]]]])
     \/ \E n \in DOMAIN Boards : \E board \in Boards[n] : call = Call("start", board)
     \/ \E megabytes \in {2, 4, 8} : call = Call("size", megabytes)
     \/ \E n \in DOMAIN Lines : \E line \in Lines[n] : call = Call("numbers", line)
     \/ \E n \in DOMAIN Layouts : \E layout \in Layouts[n] : call = Call("configure", layout)
     \/ \E n \in DOMAIN Programs : \E calls \in Programs[n] : call = Call("calls", calls)
     \/ \E n \in DOMAIN Crashes : \E crash \in Crashes[n] : call = Call("crash", crash)
     \/ \E sbc \in SBCs : call = Call("setup", sbc)
     \/ \E n \in DOMAIN Panels : \E panel \in Panels[n] : call = Call("panel", panel)
     \/ \E n \in DOMAIN Maps : \E map \in Maps[n] : call = Call("map", map)
     \/ \E n \in DOMAIN Listings : \E listing \in Listings[n] : call = Call("list", listing)
     \/ \E n \in DOMAIN Dates : \E date \in Dates[n] : call = Call("date", date)
     \/ \E n \in DOMAIN Elfs : \E elf \in Elfs[n] : call = Call("elf", elf)
     \/ \E n \in DOMAIN Clocks : \E clock \in Clocks[n] : call = Call("rtc", clock)
     \/ \E n \in DOMAIN Files : \E file \in Files[n] : call = Call("file", file)
     \/ \E n \in DOMAIN Diagnoses : \E diagnosis \in Diagnoses[n] : call = Call("diagnose", diagnosis)
     \/ \E n \in DOMAIN Games : \E lines \in Games[n] : call = Call("play", lines)
     \/ \E n \in DOMAIN Drawings : \E drawing \in Drawings[n] : call = Call("text", drawing)
  /\ result = Pending

Returns(function, value) ==
  /\ result = Pending
  /\ call.function = function
  /\ result' = [done |-> TRUE, value |-> value]
  /\ UNCHANGED call

disasm_single_instruction ==
  call.function = "disassemble" /\ Returns("disassemble", decode(call.input[1], call.input[2]))
Evaluate == call.function = "evaluate" /\ Returns("evaluate", expr_evaluate(call.input))

Open  == call.function = "open" /\ Returns("open", open(call.input[1], call.input[2]))
Chdir == call.function = "chdir" /\ Returns("chdir", chdir(call.input[1], call.input[2]))
Split ==
  call.function = "split"
  /\ Returns("split", [dir |-> dirname(call.input), base |-> basename(call.input)])
Mount == call.function = "mount" /\ Returns("mount", vfs_init(call.input))
ReadPartitions == call.function = "partitions" /\ Returns("partitions", tables_read(call.input))
Session == call.function = "session" /\ Returns("session", session(call.input))
SetRates ==
  call.function = "rates" /\ Returns("rates", baud_rates(call.input.hw, call.input.calls))
PowerOn == call.function = "start" /\ Returns("start", Board!_start(call.input))
SizeRam == call.function = "size" /\ Returns("size", Board!get_ram_end(call.input))

\* Numbers printed with one conversion, a character between them, and read again: by
\* the conversion for their base, and, what one of them comes to, by atoi.
Between(char, conv, n) ==
  [k \in 1 .. 2 * n - 1 |-> IF k % 2 = 1 THEN conv ELSE [type |-> "literal", char |-> char]]
Reader(conv) ==
  [type |-> IF conv.type \in {"x", "X", "p"} THEN "x" ELSE "d", length |-> "int", ignore |-> FALSE]
PrintAndRead ==
  /\ call.function = "numbers"
  /\ LET line == call.input
         n == Len(line.numbers)
         text == C!vsnprintf(80, Between(line.char, line.conv, n), line.numbers)
     IN Returns("numbers", [text |-> text, atoi |-> C!atoi(text),
                            scanf |-> C!vsscanf(text, Between(line.char, Reader(line.conv), n))])

\* A surface is set up for text, and used.
DrawText ==
  call.function = "text"
  /\ LET d == call.input
         set == Renderer!hd63484_text_init(d.surf, d.font)
     IN  Returns("text", [rc |-> set.rc, after |-> Renderer!Sequence([mem |-> d.mem, t |-> set.t, rc |-> set.rc], d.calls)])

\* A screen is timed, the chip initialised, and its screens are changed while it runs.
Changed(regs, change) ==
  IF change.fn = "visibility" THEN Setup!hd63484_set_screen_visibility(regs, change.screen, change.enable, change.display)
  ELSE Setup!hd63484_set_screen_start(regs, change.screen, change.addr, change.dot)
Configure ==
  /\ call.function = "configure"
  /\ LET layout == call.input
         timed == Setup!hd63484_config_set_timing(layout.cfg, layout.timing)
         init == Setup!hd63484_init(timed.cfg)
         after[n \in 0 .. Len(layout.changes)] ==
           IF n = 0 THEN init.regs ELSE Changed(after[n - 1], layout.changes[n])
     IN  Returns("configure",
           IF init.rc # "OK" THEN [timed |-> timed, rc |-> init.rc]
           ELSE [timed |-> timed, rc |-> init.rc, regs |-> after[Len(layout.changes)],
                 surfaces |-> [screen \in 0 .. 4 |-> IF screen = 4 THEN [rc |-> "PARAM"]
                                                   ELSE Setup!hd63484_surface_from_config(timed.cfg, screen)]])

ServeCalls == call.function = "calls" /\ Returns("calls", Entry!Calls(call.input))
Crash == call.function = "crash" /\ Returns("crash", Entry!_not_handled(call.input))
SetUpBoard == call.function = "setup" /\ Returns("setup", Entry!setup(call.input))

\* The display is initialised, and a text is drawn at the top of a cleared frame
\* buffer and carried over, as pr_banner does.
Noise == [page \in 0 .. PAGES - 1 |-> [x \in 0 .. PANEL_WIDTH - 1 |-> {x % PAGE_ROWS}]]
ShowPanel ==
  call.function = "panel"
  /\ LET p == call.input
         bus == [chip |-> Oled!Chip(Noise), sent |-> 0, refused |-> p.refused, failed |-> FALSE]
         init == Oled!sh1107_init(bus)
         shown == Oled!sh1107_display(init.bus, Oled!sh1107_pstr(Oled!sh1107_clear, 0, 0, p.text, p.font))
     IN  Returns("panel", [err |-> init.err, chip |-> shown.chip])

\* The example's tables are set up, then its windows; accesses are tried with the
\* unit on, and turned off again.
MapPages ==
  call.function = "map"
  /\ LET m == call.input
         tables == Unit!TreeTables(m.c, m.tables, m.pages)
         paged == Unit!example_paged_setup(Unit!AtReset, m.c, m.tables[1])
         mmu == [paged EXCEPT !.tt0 = Unit!m68030_make_tt(m.windows[1]), !.tt1 = Unit!m68030_make_tt(m.windows[2])]
     IN  Returns("map", [exception |-> mmu.exception,
                         on |-> [a \in m.accesses |-> Unit!Translated(mmu, tables, a.addr, a)],
                         off |-> [a \in m.accesses |-> Unit!Translated(Unit!m68030_mmu_disable(mmu), tables, a.addr, a)]])

\* Disassemble commands, one after another.
ListProgram ==
  /\ call.function = "list"
  /\ LET mem == call.input.mem
         asked == call.input.commands
         done[n \in 0 .. Len(asked)] ==
           IF n = 0 THEN Nowhere(AtStart) ELSE handle_disasm_command(mem, done[n - 1].kept, asked[n])
     IN  Returns("list", [n \in DOMAIN asked |-> done[n].listed])

\* The days before a year, by its leap years, and before a date in it; seconds.
LeapYears(y) == y \div 4 - y \div 100 + y \div 400
MonthDays(y) == <<31, IF LeapYears(y) > LeapYears(y - 1) THEN 29 ELSE 28, 31, 30, 31, 30, 31, 31, 30, 31, 30, 31>>
DayNumber(date) ==
  365 * (date.y - 1970) + LeapYears(date.y - 1) - LeapYears(1969)
    + FoldLeft(LAMBDA sum, n : sum + n, 0, SubSeq(MonthDays(date.y), 1, date.m - 1)) + date.d - 1
TellDate ==
  call.function = "date"
  /\ Returns("date", C!asctime_r(C!gmtime_r(86400 * DayNumber(call.input) + call.input.secs, call.input.infront)))

ListElf == call.function = "elf" /\ Returns("elf", Tool!load_elf(call.input.file, call.input.little))
RunRtc ==
  call.function = "rtc"
  /\ Returns("rtc", handle_rtc_command(call.input.chip, call.input.argv, call.input.beyond))

ListFile == call.function = "file" /\ Returns("file", Lister!main(call.input.argv, call.input.files))
Diagnose == call.function = "diagnose" /\ Returns("diagnose", Diagnostic!main(Computers[call.input.on], call.input.typed))
PlayGame == call.function = "play" /\ Returns("play", Game!Played(call.input))

Next ==
  \/ ReadPartitions \/ ListFile \/ Diagnose \/ PlayGame \/ TellDate \/ ListProgram \/ ListElf \/ RunRtc
  \/ ServeCalls \/ Crash \/ SetUpBoard \/ ShowPanel \/ MapPages
  \/ PrintAndRead \/ DrawText \/ Configure
  \/ PowerOn \/ SizeRam
  \/ disasm_single_instruction \/ Evaluate \/ Open \/ Chdir \/ Split \/ Mount \/ Session \/ SetRates
Spec == Init /\ [][Next]_vars

Answered(function) == result.done /\ call.function = function

(***************************************************************************)
(* The disassembler.                                                       *)
(***************************************************************************)
\* What the code does not know, or takes for something else: it looks for MOVEM.W
\* where DIVx.L is, tells the sign of MULx.L by another bit, and has no MOVES, CAS2,
\* CAS of words or longs, or MOVEC.
Unlisted(i) ==
  \/ i.stem \in {"moves", "cas2", "movec"} \/ (i.stem = "cas" /\ i.size # 1)
  \/ (i.stem = "movem" /\ i.size = 2)
Mistaken(i) ==
  i.stem \in {"cas", "bkpt"} \/ (i.stem \in {"divu", "mulu"} /\ i.size = 4)

\* A program is listed instruction by instruction, with all its words, over as many
\* commands as it takes: each goes on where the last one stopped, until one names
\* another place, with as many lines as was last asked for; and a line never shows
\* another instruction's words.
\* (argv[0] is the command.)
Evaluated(vals, n) == n <= Len(vals) /\ Len(vals) <= 3 /\ \A k \in 2 .. n : vals[k].err = "OK"
ListingFollows ==
  Answered("list") =>
    LET asked == call.input.commands
        program == call.input.program   \* instructions, and where they are
        count[n \in 0 .. Len(asked)] ==
          IF n = 0 THEN num_instructions_to_list
          ELSE IF Evaluated(asked[n], 3) THEN asked[n][3].v ELSE count[n - 1]
        refused(n) == Len(asked[n]) > 3 \/ \E k \in 2 .. Len(asked[n]) : asked[n][k].err # "OK"
        \* from the last command that named a place on
        first(n) == Max({1} \cup {m \in 1 .. n : Evaluated(asked[m], 2)})
        from(n) == IF Evaluated(asked[first(n)], 2) THEN asked[first(n)][2].v ELSE 0
        lines(n) == FlattenSeq(SubSeq(result.value, first(n), n))
    IN  \A n \in DOMAIN asked :
          /\ Len(result.value[n]) = IF refused(n) THEN 0 ELSE count[n]
          /\ \A k \in DOMAIN program :
               program[k].at = from(n) =>
                 \A j \in DOMAIN lines(n) : k + j - 1 \in DOMAIN program =>
                   /\ lines(n)[j].at = program[k + j - 1].at /\ lines(n)[j].stem = program[k + j - 1].stem
                   /\ lines(n)[j].bytes = program[k + j - 1].words

\* An ELF file for the 68000, listed on a host of either byte order, is listed as it
\* was made: its header, every program header and every section with its name, type
\* and flags, each value the one that is meant; of a file cut short or with a damaged
\* header what is listed is the beginning of that, and it is not called complete.
\* Left out are the flags of thread-local sections (SH_EXECINSTR is written in
\* octal) and the types behind the table's end.
ElfListed ==
  Answered("elf") =>
    LET made == call.input.made
        out == result.value
        meant(fields, as) == \A name \in DOMAIN as : Tool!Value(fields[name]) = as[name]
        shows(line, n) ==
          CASE n = 1 -> line.is = "header" /\ (call.input.intact => meant(line.fields, made.header))
            [] n - 1 \in DOMAIN made.programs ->
                 LET p == made.programs[n - 1] IN
                 line.is = "program" /\ meant(line.fields, p.fields) /\ line.rwx = p.rwx
            [] OTHER ->
                 LET s == made.sections[n - 1 - Len(made.programs)] IN
                 /\ line.is = "section" /\ meant(line.fields, s.fields)
                 /\ line.name = s.name /\ line.type = s.type
                 /\ "SH_TLS" \notin s.flags => line.flags = s.flags
        lines == 1 + Len(made.programs) + Len(made.sections)
    IN  /\ out.rc = "OK" <=> call.input.whole
        /\ Len(out.shown) <= lines /\ (call.input.whole => Len(out.shown) = lines)
        /\ \A n \in DOMAIN out.shown : shows(out.shown[n], n)

\* Of the file named last every whole word is listed once, at its address from the base named
\* last on, and the instructions that are whole each in a line; one that is cut off by
\* the end is a word of data, not an instruction that reads on behind the file; and nothing is
\* listed of a file that is not named, not there or empty.
FileListed ==
  Answered("file") =>
    LET meant == call.input.meant
        program == call.input.program
        there == meant.path \in DOMAIN call.input.files
        file == IF there THEN call.input.files[meant.path] ELSE <<>>
        lines == result.value.lines
        listed(n) == FlattenSeq([k \in 1 .. n |-> lines[k].bytes])
        end(k) == program[k].at + 2 * Len(program[k].words)
    IN  /\ result.value.rc = 0 <=> file # <<>>
        /\ listed(Len(lines)) = [k \in 1 .. Len(file) \div 2 |-> 256 * file[2 * k - 1] + file[2 * k]]
        /\ \A n \in DOMAIN lines : lines[n].at = meant.base + 2 * Len(listed(n - 1))
        /\ \A k \in DOMAIN program :
             /\ end(k) <= Len(file) => lines[k].stem = program[k].stem /\ lines[k].bytes = program[k].words
             /\ end(k) > Len(file) /\ program[k].at + 1 < Len(file) =>
                  k \in DOMAIN lines /\ lines[k].stem = "dc" /\ lines[k].bytes = SubSeq(program[k].words, 1, 1)

\* No instruction hides another: of the overlapping masks of disasm_cmd.c the one
\* that is tested first is the right one, and the line names the instruction, its
\* condition and, if it shows one, its size.  And the listing stays in step with the
\* program: of every instruction it knows, with any operand and any form of its
\* extension words, the disassembler takes all words and no more, so that the next
\* line starts where the next instruction does.
NamedRight ==
  /\ ListingFollows /\ FileListed /\ ElfListed
  /\ Answered("disassemble") =>
    \A i \in Manual!Matching(call.input[1]) : ~Unlisted(i) =>
      /\ result.value.words = Manual!Length(i, call.input[1], call.input[2])
      /\ ~Mistaken(i) =>
        /\ result.value.stem = Manual!NameOf(i, call.input[1], call.input[2])
        /\ result.value.cond = Manual!CondOf(i, call.input[1])
        /\ result.value.size \in {0, i.size}

(***************************************************************************)
(* The evaluator.                                                          *)
(***************************************************************************)
\* Numbers it reads otherwise than the manual says: decimal ones with a leading 0,
\* $0, and everything behind 0x.
Misread(text) ==
  \/ \E k \in 1 .. Len(text) - 1 :
       /\ text[k] = "0" /\ text[k + 1] \in Digit \cup {"x"}
       /\ k > 1 => text[k - 1] \notin Letter \cup Digit \cup {"$"}
  \/ \E k \in 2 .. Len(text) :
       /\ text[k - 1] = "$" /\ text[k] = "0"
       /\ k = Len(text) \/ text[k + 1] \notin XDigit

\* The caret under a wrong expression is at the first place where it goes wrong: up
\* to there the text can be continued to an expression, and with what is there it
\* cannot, or it is the end.  The lexer is one token ahead when it is reported.
ErrorPlaced ==
  Answered("evaluate") /\ ~Misread(call.input)
  /\ result.value.err \in {"UNEXPECTED_CHAR", "SYNTAX", "UNKNOWN_CONSTANT", "TRAILING_TOKENS"} =>
    LET lexemes == Grammar!Lexemes(call.input, 0)
        before == {k \in DOMAIN lexemes : lexemes[k].at < result.value.pos}
        through == {k \in DOMAIN lexemes : lexemes[k].at <= result.value.pos}
    IN  /\ Grammar!Begins(SubSeq(lexemes, 1, Cardinality(before)))
        /\ ~Grammar!Begins(SubSeq(lexemes, 1, Cardinality(through)))
           \/ result.value.pos = Len(call.input)

\* A text has a value if it is an expression, and exactly the one its grammar gives
\* it, in the width of a long: precedence, associativity, rounding, shifts and wraps
\* are right, and what is no expression or has no value is an error, with the caret where it goes wrong
\* (expr_evaluate).
EvaluatesRight ==
  /\ ErrorPlaced
  /\ Answered("evaluate") /\ ~Misread(call.input) =>
    LET meaning == Grammar!Meaning(call.input)
    IN IF \E m \in meaning : m.defined
       THEN result.value.err = "OK" /\ meaning = {[defined |-> TRUE, value |-> result.value.v]}
       ELSE /\ result.value.err # "OK"
            /\ meaning # {} => result.value.err \in {"DIVISION_BY_ZERO", "BAD_SHIFT"}

(***************************************************************************)
(* Paths.                                                                  *)
(***************************************************************************)
\* A path, absolute or relative, leads through realpath, the mount points and the
\* root directory's search to the one file it names: dots and doubled slashes are
\* resolved, the mount's name is cut off, and what is on no mount point is refused;
\* chdir goes to the mount point its path names, and stays if there is none.
\* Left out are the paths realpath gets wrong, those into subdirectories, and names
\* that begin with a mount point's.  And what dirname and basename split a path
\* into names the same, joined again.
PathsResolve ==
  /\ Answered("open") /\ Resolvable(call.input[1], call.input[2]) =>
       LET names == Named(call.input[1], call.input[2])
       IN CASE Called(names[1]) = {} -> result.value = Refused
            [] Called(names[1]) # {} /\ Len(names) <= 2 ->
                 /\ result.value.mp \in Called(names[1])
                 /\ result.value.name = IF Len(names) = 1 THEN <<".">> ELSE names[2]
            [] OTHER -> TRUE
  /\ Answered("chdir") /\ Resolvable(call.input[1], call.input[2]) =>
       LET names == Named(call.input[1], call.input[2])
       IN CASE Called(names[1]) = {} -> result.value = call.input[1]
            [] Called(names[1]) # {} /\ Len(names) = 1 -> result.value \in Called(names[1])
            [] OTHER -> TRUE
  /\ Answered("split") /\ result.value.base # Undefined =>
       /\ Slashes(result.value.base) = {} \/ result.value.base = <<"/">>
       /\ Named(NoMount, result.value.dir \o <<"/">> \o result.value.base)
            = Named(NoMount, call.input)

(***************************************************************************)
(* Disks.                                                                  *)
(***************************************************************************)
\* A whole ext2 filesystem the monitor can handle.
RoundedUp(count, per_group) == (count + per_group - 1) \div per_group
Sound(hw, medium) ==
  /\ medium.present /\ medium.sb.magic /\ medium.sb.s_log_block_size = 1
  /\ LET groups == RoundedUp(medium.sb.s_blocks_count, medium.sb.s_blocks_per_group)
     IN groups = RoundedUp(medium.sb.s_inodes_count, medium.sb.s_inodes_per_group) /\ groups <= hw.memory

\* Of a mounted filesystem every inode is read from where the group's descriptor
\* says, although only the first descriptor of each copy of the table is: the
\* groups with a copy are all laid out like the first.  (Those without one are
\* left out: their first block, a bitmap, is taken for a descriptor.)
InodesFound ==
  Answered("mount") /\ ~result.value.hung =>
    \A i \in DOMAIN result.value.mounts :
      LET m  == result.value.mounts[i]
          sb == (IF m.dev = "rom" THEN call.input.rom ELSE call.input.cards[m.subdev]).sb
      IN \A inode \in 1 .. sb.s_inodes_count :
           LET group == (inode - 1) \div sb.s_inodes_per_group
               byte  == (inode - 1 - group * sb.s_inodes_per_group) * sb.s_inode_size
           IN group \in {0, 1, 3, 5, 7, 9} =>
                ext2_get_inode(sb, m.bgdt, inode) = InodeTable(sb, group) + byte \div BLOCK_SIZE

\* The partitions known are those of the tables that are signed and can be read, in
\* their order and as many as fit, and a read of a table succeeds unless one of its
\* own did not fit.  Through them each sector of a card with one table is read by
\* one partition and one number, and no sector outside them is.  (Of a second card
\* the partitions are known, but partition_read reads card 0.)
PartitionsRead ==
  Answered("partitions") =>
    LET tables == call.input
        legible(k) == tables[k].readable /\ tables[k].signed
        used(k) == IF legible(k) THEN SelectSeq(tables[k].table, LAMBDA entry : entry.num_sectors > 0) ELSE <<>>
        found(k) == FlattenSeq([j \in 1 .. k |-> used(j)])
        extent(entry) == entry.start_sector .. entry.start_sector + entry.num_sectors - 1
        known == {used(1)[i] : i \in DOMAIN used(1)}
        reads == [n : 0 .. MAX_PARTITIONS, sector : 0 .. 4]
        place(read) == partition_read(result.value[2], read.n, read.sector)
    IN /\ \A k \in DOMAIN tables :
            /\ result.value[k + 1].partitions = SubSeq(found(k), 1, Min({Len(found(k)), MAX_PARTITIONS}))
            /\ result.value[k + 1].res = 0 <=>
                 legible(k) /\ (used(k) = <<>> \/ Len(found(k)) <= MAX_PARTITIONS)
       /\ {place(read) : read \in reads} \ {-1} = UNION {extent(entry) : entry \in known}
       /\ \A read1, read2 \in reads : read1 # read2 => place(read1) = -1 \/ place(read1) # place(read2)

\* Every sound filesystem is mounted under its own device's name, as long as there
\* are mount points, and nothing else is; the monitor hangs only for a sector that
\* cannot be read, or if there is a card 1 and no card 0.  And the inodes of what is
\* mounted are found, and the partitions of what has a table.
MountsWhatIsThere ==
  /\ InodesFound
  /\ PartitionsRead
  /\ Answered("mount") =>
    LET hw == call.input
        names == {<<result.value.mounts[i].dev, result.value.mounts[i].subdev>> :
                    i \in DOMAIN result.value.mounts}
        medium(name) == IF name[1] = "rom" THEN hw.rom ELSE hw.cards[name[2]]
        sound == {name \in {<<"rom", 0>>, <<"cf", 0>>, <<"cf", 1>>} :
                    Sound(hw, medium(name)) /\ (name[1] = "rom" => hw.rom.offset < Tries)}
    IN IF result.value.hung
       THEN \/ hw.cards[1].present /\ ~hw.cards[0].present
            \/ \E card \in Cards : hw.cards[card].bad # {} /\ ~hw.cards[card].noticed
       ELSE /\ names \subseteq sound
            /\ Cardinality(names) = Len(result.value.mounts)
            /\ {name \in sound : medium(name).bad = {}} \subseteq names \/ Cardinality(names) = MAX_MOUNTS

(***************************************************************************)
(* The console.                                                            *)
(***************************************************************************)

\* The time an rtc command finds, and what it leaves: time and date show the clock's
\* own, and set it to what they are given, and to nothing else of what it was when it
\* was read; neither touches the memory behind the time, nor erasing that the time;
\* what is not reported as set or erased has not been.  Left out: the third value,
\* which is never the one given (argc is taken for one more than it is), and years
\* no byte holds.
Fits(arg, field) == arg.err = "OK" /\ arg.v \in 0 .. (IF field = "year" THEN 255 ELSE 99)
BCD(n) == 16 * (n \div 10) + (n % 10)
Moment == <<"seconds", "minutes", "hours", "day", "date", "month", "year">>
ClockObeys ==
  Answered("rtc") =>
    LET chip == call.input.chip
        fields == call.input.fields
        args == SubSeq(call.input.argv, 3, Len(call.input.argv))
        out == result.value
        timed == [r \in 1 .. 7 |-> out.regs[r]] # [r \in 1 .. 7 |-> chip.later[r]]
        kept == [r \in 8 .. 64 |-> out.regs[r]] # [r \in 8 .. 64 |-> chip.later[r]]
    IN  /\ kept => out.shown = "erased" /\ ~timed
        /\ timed => out.shown = "set"
        /\ fields # <<>> /\ args # <<>> /\ ~chip.writes => out.shown # "set"
        /\ fields # <<>> /\ args = <<>> /\ chip.reads =>
             out.shown = [k \in 1 .. 3 |-> chip.moment[fields[k]]] /\ (out.status = 1 <=> chip.halted)
        /\ fields # <<>> /\ Len(args) \in 1 .. 2 /\ chip.reads /\ chip.writes =>
             \A r \in 1 .. 7 :
               CASE Moment[r] = fields[3] -> TRUE
                 [] Moment[r] = fields[1] /\ Fits(args[1], fields[1]) -> out.regs[r] = BCD(args[1].v % 100)
                 [] Moment[r] = fields[2] /\ Len(args) = 2 /\ Fits(args[2], fields[2]) -> out.regs[r] = BCD(args[2].v % 100)
                 [] Moment[r] \in {fields[1], fields[2]} -> TRUE
                 [] OTHER -> out.regs[r] = BCD(chip.moment[Moment[r]])

\* What the diagnostic tool did with each of the lines typed, as their words are meant.
ToolObeyed(hw, typed, words, meant, exit, ran) ==
  LET Stands(n, k, name, min) ==
        k \in DOMAIN words[n] /\ Len(words[n][k]) \in min .. Len(name)
          /\ Lowered(words[n][k]) = SubSeq(Chars(name), 1, Len(words[n][k]))
      Is(n, name) == typed[n] # <<>> /\ typed[n][1] # " " /\ Stands(n, 1, name, IF name = "quit" THEN 1 ELSE 2)
      ShowsOf(n, what) == Is(n, "show") /\ Stands(n, 2, what, 2)
      valued(n, k) == \E m \in meant[n][k] : m.defined
      value(n, k) == (CHOOSE m \in meant[n][k] : TRUE).value
      sized(n) == Len(words[n]) = 3 /\ valued(n, 2) /\ valued(n, 3)
      dumps(n) == Is(n, "dump") /\ (Len(words[n]) > 1 => valued(n, 2)) /\ (Len(words[n]) = 3 => valued(n, 3))
      size[n \in 0 .. Len(ran)] ==
        IF n = 0 THEN DumpWindow ELSE IF Is(n, "dump") /\ sized(n) THEN value(n, 3) ELSE size[n - 1]
      \* where the next dump begins
      next[n \in 0 .. Len(ran)] ==
        IF n = 0 THEN 0
        ELSE IF ~Is(n, "dump") THEN next[n - 1]
        ELSE (IF Len(words[n]) > 1 /\ valued(n, 2) THEN value(n, 2) ELSE next[n - 1]) + (IF dumps(n) THEN size[n] ELSE 0)
      window(n) == {(next[n] - k) % 2^WORD : k \in 1 .. size[n]}
      \* the bytes that are shown, with their addresses
      Seen(lines) ==
        FlattenSeq([k \in DOMAIN lines |-> [x \in DOMAIN lines[k].bytes |-> <<(lines[k].at + x - 1) % 2^WORD, lines[k].bytes[x]>>]])
      Proves(lines, mem, places) ==
        LET seen == Seen(lines)
        IN  /\ \A k \in DOMAIN seen : seen[k][1] \in places /\ seen[k][2] = mem[seen[k][1]]
            /\ \A j, k \in DOMAIN seen : seen[j][1] = seen[k][1] => j = k
            /\ \A a \in places : mem[a] # 0 => \E k \in DOMAIN seen : seen[k][1] = a
      regs(n) == IF n = 0 THEN hw.chip.regs ELSE ran[n].t.chip.regs
      Decimal(num) == (IF num < 10 THEN <<>> ELSE <<C!Numerals[(num \div 10) + 1]>>) \o <<C!Numerals[(num % 10) + 1]>>
      there(n, what) == {num \in DOMAIN hw.holds[what] : words[n][3] = Decimal(num)}
  IN  /\ exit = 0 <=> hw.sound
      /\ Len(ran) = IF hw.sound THEN Min({Len(typed)} \cup {n \in DOMAIN typed : Is(n, "quit")}) ELSE 0
      /\ \A n \in DOMAIN ran :
           LET shown == ran[n].shown
               meaning == Grammar!Meaning(SubSeq(typed[n], Len(words[n][1]) + 1, Len(typed[n])))
           IN  /\ Is(n, "eval") /\ Len(words[n]) > 1 =>
                    IF \E m \in meaning : m.defined THEN meaning = {[defined |-> TRUE, value |-> shown.value.v]}
                    ELSE shown.value.err # "OK"
               /\ Is(n, "dump") =>
                    IF dumps(n) THEN Proves(shown.lines, hw.mem, window(n)) ELSE shown.is = "cannot evaluate"
               /\ regs(n) # regs(n - 1) => shown.is = "erased"
               /\ shown.is = "erased" =>
                    /\ Is(n, "rtc") /\ Stands(n, 2, "erase", 2) /\ SubSeq(regs(n), 1, 8) = SubSeq(hw.chip.regs, 1, 8)
                    /\ SubSeq(regs(n), 9, 64) = [k \in 1 .. 56 |-> CASE k = 1 -> 176 [] k = 2 -> 186 [] OTHER -> 255]
               /\ ShowsOf(n, "rtc") /\ Len(words[n]) = 2 /\ hw.chip.reads =>
                    shown.read = [status |-> IF hw.chip.halted THEN 1 ELSE 0, t |-> hw.chip.moment]
               /\ ShowsOf(n, "rtc") /\ Len(words[n]) = 3 /\ Stands(n, 3, "nvram", 2) =>
                    IF hw.chip.reads THEN FlattenSeq([k \in DOMAIN shown.lines |-> shown.lines[k].bytes]) = SubSeq(regs(n), 9, 64)
                    ELSE shown.is = "read failed"
               /\ \A what \in DOMAIN hw.holds : ShowsOf(n, what) /\ Len(words[n]) = 3 =>
                    IF there(n, what) = {} THEN shown.is = "read error"
                    ELSE \A num \in there(n, what) :
                           IF what = "block" THEN Proves(shown.shows[1], hw.holds.block[num], DOMAIN hw.holds.block[num])
                           ELSE shown.shows = hw.holds[what][num]

\* The diagnostic tool does what its lines say, as long as there is a disk, up to the one that
\* quits: expressions have their value; dumps show every byte that is not 0 of what is
\* asked for, at its address and once, and go on where the last one stopped; the clock's
\* memory is erased on demand only, and not its time; and what is shown of the clock and of the
\* disk under a number is what is there, an error if there is nothing.  (A line begins with
\* a word, and what stands for a number is one.)
Diagnosed ==
  Answered("diagnose") =>
    LET typed == call.input.typed
        words == [n \in DOMAIN typed |-> WordsOf(typed[n])]
    IN  ToolObeyed(Computers[call.input.on], typed, words,
                   [n \in DOMAIN typed |-> [k \in DOMAIN words[n] |-> Grammar!Meaning(words[n][k])]],
                   result.value.exit, result.value.ran)

\* Who plays the game gets nowhere without what it takes, however the doors, lamps and
\* rats are spread over its commands: every item is in one place; nobody plays on behind
\* turn 40 without having eaten, behind turn 50 without having drunk at the cistern, from turn 60
\* on without a lamp that is at hand, filled and lit, in the tunnel a fourth time without the
\* cheese; the secret room is behind the bookcase and the woods behind the locked door, in this
\* game, not in one before; and the game is won by showing Matthew the toy car after the
\* wolf was chased away, and by nothing else.  (Who shows it on turn 40, 50 or 60 may yet die.)
GamePlayed ==
  Answered("play") =>
    LET lines == call.input
        s == result.value                                   \* s[n] is the game before lines[n]
        first(n) == Max({1} \cup {m \in 2 .. n : s[m - 1].asking = "again" /\ s[m].asking = ""})
        Turns(n) == {m \in first(n) .. n - 1 : s[m].asking = "" /\ s[m + 1].turnsPlayed = s[m].turnsPlayed + 1}
        Uses(n, item, places) == {m \in Turns(n) : lines[m] = <<"use">> \o item /\ s[m].currentLocation \in places}
        anywhere == Game!Locations
        filled(n) == {m \in Uses(n, <<"oil">>, anywhere) : Game!carryingItem(s[m], <<"lamp">>)}
        lit(n) == {m \in Uses(n, <<"matches">>, anywhere) : Game!carryingItem(s[m], <<"lamp">>) /\ filled(m) # {}}
        chased(n) == Uses(n, <<"pitchfork">>, {Game!WolfTree})
        saved(n) == {m \in Uses(n, <<"toy", "car">>, {Game!WolfTree}) : chased(m) # {}}
        besieged(n) == {m \in first(n) .. n : s[m].currentLocation = Game!Tunnel /\ s[m].asking = "" /\ s[m].locationOfItem[15] # Game!Tunnel}
    IN  \A n \in DOMAIN s :
          /\ \A i \in Game!Items :
               Cardinality({k \in 1 .. Game!MAXITEMS : s[n].Inventory[k] = i}) = IF s[n].locationOfItem[i] = Game!NoLocation THEN 1 ELSE 0
          /\ s[n].asking = "" =>
               /\ s[n].turnsPlayed >= 40 => Uses(n, <<"candybar">>, anywhere) # {}
               /\ s[n].turnsPlayed >= 50 => Uses(n, <<"bottle">>, {Game!Cistern}) # {}
               /\ s[n].turnsPlayed >= 60 => lit(n) # {} /\ Game!AtHand(s[n], <<"lamp">>)
               /\ Cardinality(besieged(n)) <= 3
          /\ s[n].currentLocation = Game!ServantsQuarters => \E m \in Turns(n) : lines[m] = <<"examine", "bookcase">>
          /\ s[n].currentLocation >= Game!Tunnel => Uses(n, <<"key">>, {Game!VacantRoom}) # {}
          /\ s[n].ends = "won" => saved(n) # {}
          /\ saved(n) # {} => s[n].ends = "won" \/ s[n].turnsPlayed \in {40, 50, 60}

\* What the user sees is what is obeyed: the line handed over is the one on the
\* screen, rubbed out characters gone; its first word stands for at most one command
\* of the table, which is the one that runs, with the words of the line, in order,
\* as far as there is room; and dumps that name no place go on, without a gap or
\* anything twice, where the last one stopped, in the size it was asked for (unless
\* one was refused for its size, which moves the place all the same).  Lines are obeyed in the
\* game and by the diagnostic tool, too (GamePlayed, Diagnosed).
LinesObeyed ==
  /\ ClockObeys
  /\ GamePlayed
  /\ Diagnosed
  /\ Answered("session") =>
    LET lines == result.value
        dumps == SelectSeq([n \in DOMAIN lines |-> lines[n].ran], IsDump)
        size[n \in 0 .. Len(dumps)] ==
          IF n = 0 THEN DumpWindow
          ELSE IF Len(dumps[n].argv) = 3 THEN dumps[n].vals[3].v ELSE size[n - 1]
        end[n \in 0 .. Len(dumps)] ==
          IF n = 0 THEN 0
          ELSE size[n] + (IF Len(dumps[n].argv) > 1 THEN dumps[n].vals[2].v ELSE end[n - 1])
    IN /\ \A n \in DOMAIN lines :
            LET line == lines[n].gets.line
                ran == lines[n].ran
                words == WordsOf(line)
            IN /\ Shows(lines[n].gets.echo, line)
               /\ line # <<>> /\ Head(line) # " " =>
                    Meanings(line) = IF ran.command = <<"?">> THEN {} ELSE {ran.command}
               /\ ran.argv # <<>> /\ ran.command # Chars("eval") =>
                    IF Len(words) <= MAX_ARGS THEN ran.argv = words
                    ELSE SubSeq(ran.argv, 1, MAX_ARGS - 1) = SubSeq(words, 1, MAX_ARGS - 1)
       /\ (\A n \in DOMAIN lines : ~HalfObeyed(lines[n].ran)) =>
            \A n \in DOMAIN dumps :
              Items(dumps[n]) = [k \in 1 .. size[n] |-> (end[n] - size[n] + k - 1) % 2^WORD]

\* A port runs at the rate it was last set to, on any chip and clock (an odd rate is
\* rounded for a doubled one), unless the other port has since been set to one from
\* another table, as they share the bit that selects it; a rate is refused only if
\* the chip has none like it, and then nothing changes.
RatesSet ==
  Answered("rates") =>
    LET hw == call.input.hw
        asked == call.input.calls
        log == result.value
        undisturbed(n, m) ==
          \A k \in n + 1 .. m :
            log[k + 1].ok => asked[k].port # asked[n].port /\ log[k + 1].chip.acr = log[n + 1].chip.acr
    IN \A n \in DOMAIN asked :
         IF log[n + 1].ok
         THEN \A m \in n .. Len(asked) :
                undisturbed(n, m) =>
                  RateOf(hw, log[m + 1].chip, asked[n].port) \in {asked[n].baud, asked[n].baud - 1}
         ELSE /\ log[n + 1].chip = log[n].chip
              /\ \A chip \in {[log[n].chip EXCEPT !.acr = acr, !.extended[asked[n].port] = ext,
                                                 !.csr[asked[n].port] = csr] :
                              acr \in BOOLEAN, ext \in BOOLEAN, csr \in 1 .. 13} :
                   RateOf(hw, chip, asked[n].port) # asked[n].baud

(***************************************************************************)
(* From reset to main.                                                     *)
(***************************************************************************)
MadeFor(kind) ==
  CASE kind \in {"data line stuck", "data lines joined", "data line floating"} -> 1
    [] kind \in {"strobe missing", "strobes joined"} -> 2
    [] kind \in {"address line stuck", "address lines joined"} -> 3
    [] kind \in {"cell stuck", "chip missing"} -> 5

\* While setup runs, no interrupt ever comes to a handler that is not its device's;
\* when it is done, the traps lead to their handlers and nothing else was taken away,
\* what commands need is there, and what the jumpers ask for was obeyed; devices are
\* told of if they are there, and the display shows the splash if it works.  (A board
\* on which nobody answers for a device it looks for hangs, or finds what is not there.)
SetUpSound ==
  Answered("setup") /\ {"pit", "duart", "acrtc"} \subseteq call.input.present =>
    LET log   == result.value
        board == call.input
        last  == log[Len(log)]
        told  == {last.told[k] : k \in DOMAIN last.told}
        handler == [pit |-> "pit_isr_handler", duart |-> "duart_irq_handler"]
    IN /\ ~last.hung
       /\ \A n \in DOMAIN log : \A d \in DOMAIN log[n].irq :
            ~log[n].masked /\ log[n].irq[d] # -1 => log[n].vectors[log[n].irq[d]] = handler[d]
       /\ ~last.masked /\ \A d \in DOMAIN last.irq : last.irq[d] \in 64 .. 255
       /\ last.vectors[32] = "trap0_handler" /\ last.vectors[46] = "trap14_handler"
       /\ \A n \in 2 .. 255 \ ({32, 46} \cup {last.irq[d] : d \in DOMAIN last.irq}) :
            last.vectors[n] = Entry!vectors[n]
       /\ {"ram_end", "heap", "constants", "duart", "block devices"} \subseteq last.ready
       /\ last.xr <=> "XR_EN" \in told
       /\ "mounts" \in last.ready <=> "Experimental" \in told
       /\ \A d \in {"rtc", "oled"} : d \in told <=> d \in board.present
       /\ "splash" \in last.ready <=> "oled" \in board.present /\ ~board.faulty

\* The monitor starts on a sound board, and only there: it stops at a ROM one long of
\* which is not what patch_sum.py saw (but for 0 and all ones, which add the same
\* unless all is 0),
\* and at any one fault of the RAM's lines, strobes, chips and cells, told no
\* later than by the stage made for it; main finds all vectors up to one that is 0, and all its
\* data, up to what a dbra loop counts.  And no board seems to have more memory
\* than it has, or less, but for one of 4 MB.  And setup leaves a board as it says (SetUpSound).
StartsSound ==
  /\ SetUpSound
  /\ Answered("start") =>
       LET board == call.input
           changed == {k \in DOMAIN board.rom : board.rom[k] # board.built[k]}
       IN CASE changed # {} ->
                 (result.value.code = "31")
                   <=> \/ \E k \in changed : {board.rom[k], board.built[k]} # {0, 2^ROM_BITS - 1}
                       \/ \A k \in DOMAIN board.rom : board.rom[k] = 0
            [] changed = {} /\ board.fault.kind # "none" ->
                 result.value.code = "36" /\ result.value.stage <= MadeFor(board.fault.kind)
            [] OTHER ->
                 /\ result.value.code = "11"
                 /\ {k \in DOMAIN board.vectors : \A j \in 1 .. k : board.vectors[j] # 0} \subseteq result.value.vectors
                 /\ 4 * board.data <= 2^DBRA => result.value.data = 1 .. board.data
  /\ Answered("size") =>
       result.value <= call.input /\ (call.input # 4 => result.value = call.input)

(***************************************************************************)
(* Numbers.                                                                *)
(***************************************************************************)
\* What digits stand for, each worth a power of the base.
Worth(digits, base) ==
  MapThenSumSet(LAMBDA k : C!DigitOf(digits[k]) * base^(Len(digits) - k), DOMAIN digits)
\* Which numbers are printed so that they are read as others: those with zeros in
\* front are octal for strtol, octal ones without are decimal, 0X is no prefix, and
\* blanks go between a prefix and its number;
\* the zeros in front of a negative number hide its sign.
Readable(conv) ==
  /\ ~conv.zeropad
  /\ conv.type = "o" => conv.numprefix
  /\ conv.numprefix => conv.type \notin {"X", "p"} /\ conv.width = 0

\* Seconds since 1970 are the time, the day of the week and the date they stand for.
\* Left out are the dates of all January and of the first of every month, where the
\* table of elapsed days is compared with one day too few.
DatesRight ==
  Answered("date") =>
    LET date == call.input
        \* Zeller's congruence counts January and February with the year before
        q == IF date.m <= 2 THEN date.y - 1 ELSE date.y
        z == (date.d + (13 * ((IF date.m <= 2 THEN date.m + 12 ELSE date.m) + 1)) \div 5 + q + q \div 4 - q \div 100 + q \div 400) % 7
    IN  /\ result.value[1] = <<"Sat", "Sun", "Mon", "Tue", "Wed", "Thu", "Fri">>[z + 1]
        /\ 3600 * result.value[4] + 60 * result.value[5] + result.value[6] = date.secs
        /\ result.value[4] < 24 /\ result.value[5] < 60 /\ result.value[6] < 60
        /\ date.m # 1 /\ date.d # 1 =>
             /\ result.value[3] = date.d /\ result.value[7] = date.y
             /\ result.value[2] =
                  <<"Jan", "Feb", "Mar", "Apr", "May", "Jun", "Jul", "Aug", "Sep", "Oct", "Nov", "Dec">>[date.m]

\* A printed number is as wide as asked for, or as it has to be, its digits stand for
\* it, and the numbers of a line are all read back as they were, each up to where it
\* ends and no further.
NumbersReadBack ==
  /\ DatesRight
  /\ Answered("numbers") =>
    LET line == call.input
        conv == line.conv
        text == result.value.text
        number == line.numbers[1]
        negative == conv.type \in {"d", "i"} /\ C!Signed(number) < 0
        digits == SelectSeq(text, LAMBDA c : C!DigitOf(c) < 16)
    IN /\ Len(line.numbers) = 1 /\ ~conv.numprefix =>
            /\ Worth(digits, C!Radix(conv.type)) = IF negative THEN -C!Signed(number) ELSE number
            /\ Len(text) >= conv.width
            /\ Len(text) > conv.width =>
                 text[1] # " " /\ (negative <=> text[1] = "-") /\ (Len(text) > 1 => text[1] # "0")
            /\ conv.type \in {"d", "i"} /\ ~(negative /\ conv.zeropad) =>
                 result.value.atoi = C!Signed(number)
       /\ Readable(conv) =>
            result.value.scanf = [count |-> Len(line.numbers),
                                  values |-> [k \in DOMAIN line.numbers |-> C!Signed(line.numbers[k])]]

(***************************************************************************)
(* Displays.                                                               *)
(***************************************************************************)
\* The row buffer can hold what a call draws: the blanks of a tab, one character.
HasRoom(t, c) ==
  CASE c.fn = "write" /\ (\E i \in DOMAIN c.s : c.s[i] = "HT") ->
         Renderer!max_run(t.surf, t.font, t.scale) >= (IF t.cols < TAB THEN t.cols ELSE TAB)
    [] c.fn = "scale" -> c.scale = 0 \/ Renderer!max_run(t.surf, t.font, c.scale) > 0
    [] OTHER -> TRUE

\* The words of the surface.
Within(surf) ==
  {surf.base_addr + y * surf.mem_width + k : y \in 0 .. surf.height - 1, k \in 0 .. Renderer!words_per_line(surf) - 1}

\* Where the characters of a text stand: each beside the one before it, but a line
\* further down after a newline and behind the right edge.
PanelText(p) ==
  LET glyph(k) == Oled!Printable(p.font, p.text[k])
      wid(k) == IF p.text[k] = Oled!NL THEN 0 ELSE p.font.char_widths[glyph(k)]
      ends(c, k) == p.text[k] = Oled!NL \/ c.x + wid(k) >= PANEL_WIDTH
      Cell(c, k) == [x |-> c.x, line |-> c.line, char |-> glyph(k), wid |-> wid(k)]
      next(c, k) == IF ends(c, k) THEN [x |-> 0, line |-> c.line + 1] ELSE [x |-> c.x + wid(k), line |-> c.line]
      Step(cells, k) ==
        Append(cells, Cell(IF k = 1 THEN [x |-> 0, line |-> 0] ELSE next(cells[k - 1], k - 1), k))
  IN FoldLeft(Step, <<>>, [k \in DOMAIN p.text |-> k])

\* After a sound initialisation the display is set as asked, and an initialisation tells of
\* every byte that is refused; what is seen, from the column shown first on, is the text as
\* if every point had been set by the last character that covers it, with lines starting over at
\* the top behind the last one that begins on the display.  (Left out are newlines in that last
\* line, behind which all text is lost, and the rows a glyph has beyond those in the table.)
PanelShowsText ==
  Answered("panel") =>
    LET p == call.input
        chip == result.value.chip
        text == PanelText(p)
        lines == (Oled!HEIGHT + p.font.height - 1) \div p.font.height
        top(k) == (text[k].line % lines) * p.font.height
        covering(px, py) == {k \in DOMAIN text : px - text[k].x \in 0 .. text[k].wid - 1
                                                /\ py - top(k) \in 0 .. p.font.height - 1}
    IN /\ result.value.err <=> \E n \in p.refused : n <= 3 * 23
       /\ ~result.value.err =>
            /\ chip.awaits = ""
            /\ {<<"start line", 0>>, <<"multiplex", Oled!HEIGHT - 1>>, <<"offset", 96>>, <<"clock", 81>>,
                <<"on", 0>>} \subseteq {chip.set[k] : k \in DOMAIN chip.set}
       /\ p.refused = {} /\ (\A k \in DOMAIN text : p.text[k] = Oled!NL => (text[k].line + 1) % lines # 0) =>
            \A px \in 0 .. PANEL_WIDTH - 1, py \in 0 .. Oled!HEIGHT - 1 :
              LET over == covering(px, py)
                  last == CHOOSE k \in over : \A j \in over : j <= k
                  lit  == py % PAGE_ROWS \in chip.ram[py \div PAGE_ROWS][(px + COLUMN_OFFSET) % PANEL_WIDTH]
              IN IF over = {} THEN ~lit
                 ELSE py - top(last) < p.font.width => (lit <=> (px - text[last].x) \in p.font.glyphs[text[last].char][py - top(last)])

\* Text stands on the screen as if it were painted a point at a time, whatever the bits of a
\* point, their order, the scale and the place it begins: pixels beside a run keep their
\* colour although they share words with it, runs and rasters longer than the buffers are put
\* together without a seam, and lines wrap, scroll and go on at the top as the header says;
\* no word outside the surface is written, and only a grid without a cell is refused (and what
\* the row buffer cannot hold).  The OLED display shows its text, too (PanelShowsText).
ScreenShowsText ==
  /\ PanelShowsText
  /\ Answered("text") =>
    LET d == call.input
        after == result.value.after
        shown == Glass!Shows(d.surf, d.font, d.mem, d.calls)
    IN  result.value.rc = "OK" =>
          \A n \in DOMAIN d.calls :
            (\A k \in 1 .. n : HasRoom(after[k - 1].t, d.calls[k])) =>
              /\ Glass!Picture(d.surf, after[n].mem) = shown[n].picture
              /\ \A a \in DOMAIN d.mem \ Within(d.surf) : after[n].mem[a] = d.mem[a]
              /\ (after[n].rc = "OK") <=> ~shown[n].refused

\* What was last asked for a screen, at first in the configuration.
Asked(layout, cfg, fn, screen, first) ==
  LET asked == SelectSeq(layout.changes, LAMBDA ch : ch.fn = fn /\ ch.screen = screen
                                                     /\ (fn = "start" => ch.addr < 2^20 /\ ch.dot < 16))
  IN  IF asked = <<>> THEN first ELSE asked[Len(asked)]

\* A configuration that is accepted is the one the chip shows: the lines and frames are as
\* long as the timing's pixels and rasters, the screens above one another fill its height,
\* every enabled screen begins, lies in memory and is as high as configured, no field is cut
\* to the width of its register or runs into the next; screens are enabled, shown and moved as
\* asked for last, and nothing else changes with them.  The surface text is drawn on is
\* the part of a screen that is seen and has memory.  (Lines and frames from 65536 on, whose
\* length is cut before it is checked, are left out.)  The serial chip's rates are those
\* asked for, too (RatesSet).
ChipSetAsAsked ==
  /\ RatesSet
  /\ Answered("configure") /\ result.value.rc = "OK" =>
    LET layout == call.input
        t    == layout.timing
        cfg  == result.value.timed.cfg
        regs == result.value.regs
        line == Setup!LineCycles(regs)
        frame == Setup!FrameRasters(regs)
        pixels == Setup!CyclePixels(regs)
        enabled == {n \in 0 .. 3 : cfg.screen[n].enable}
        start(n) == Asked(layout, cfg, "start", n, [addr |-> cfg.screen[n].start_addr, dot |-> cfg.screen[n].start_dot])
        seen(n) == Asked(layout, cfg, "visibility", n, cfg.screen[n])
    IN /\ result.value.timed.rc = "OK" /\ t.h_active + t.h_front + t.h_sync + t.h_back < 2^16
          /\ t.v_active + t.v_front + t.v_sync + t.v_back < 2^16 =>
            /\ line.total * pixels = t.h_active + t.h_front + t.h_sync + t.h_back
            /\ line.sync * pixels = t.h_sync /\ line.back * pixels = t.h_back /\ line.active * pixels = t.h_active
            /\ frame = [total |-> t.v_active + t.v_front + t.v_sync + t.v_back, sync |-> t.v_sync, back |-> t.v_back]
            /\ t.v_active = Setup!Height(regs, 1) + (IF 0 \in enabled THEN Setup!Height(regs, 0) ELSE 0)
                                                   + (IF 2 \in enabled THEN Setup!Height(regs, 2) ELSE 0)
       /\ \A n \in enabled :
            /\ Setup!FirstWord(regs, n) = start(n).addr /\ Setup!FirstDot(regs, n) = start(n).dot
            /\ Setup!WordsAcross(regs, n) = cfg.screen[n].mem_width
            /\ Setup!HasCharacters(regs, n) = cfg.screen[n].character
            /\ cfg.screen[n].character =>
                 Setup!CharacterRasters(regs, n) = [first |-> cfg.screen[n].first_raster, last |-> cfg.screen[n].last_raster]
            /\ Setup!Height(regs, n) = IF n = 3 THEN cfg.vww ELSE cfg.screen[n].height
       /\ 3 \in enabled =>
            Setup!Window(regs) = [left |-> cfg.hws, across |-> cfg.hww, top |-> cfg.vws, down |-> cfg.vww]
       /\ \A n \in 0 .. 3 :
            /\ n # 1 => Setup!Enabled(regs, n) = seen(n).enable
            /\ n = 1 \/ seen(n).enable => Setup!Displayed(regs, n) = seen(n).display
       /\ Setup!Field(regs, 6, 0, 8) = cfg.attr /\ (Setup!Field(regs, 6, 15, 1) = 1) = cfg.dsp_mode
       /\ \A n \in 0 .. 3 :
            LET surface == result.value.surfaces[n]
                across == IF n = 3 THEN cfg.hww ELSE line.active
            IN /\ (surface.rc = "OK") <=> (n \in enabled /\ ~cfg.screen[n].character)
               /\ surface.rc = "OK" =>
                    /\ surface.width * 2^surface.gbm <= 16 * surface.mem_width
                    /\ pixels > 0 /\ cfg.gai # Setup!GAI_NONE => surface.width <= across * pixels
                    /\ surface.height = Setup!Height(regs, n)

(***************************************************************************)
(* System calls and exceptions.                                            *)
(***************************************************************************)
\* What the monitor's function is given: the call's arguments, and what the library adds.
Given(c) ==
  CASE c.fn = "putchar" -> <<0>> \o SubSeq(c.args, 1, 1)
    [] c.fn \in {"getchar", "char_available"} -> <<0>>
    [] c.fn \in {"open", "chdir"} -> <<Real>> \o Tail(c.args)
    [] c.fn \in {"exit", "malloc", "free"} -> c.args \o <<Pid>>
    [] OTHER -> c.args

\* Through the library, the trap, the stack of the processor's frame and the saved
\* registers, and the table, a system call reaches the function it names with its arguments;
\* its result, or the one the library stands for, comes back to where it was called, all
\* registers kept; a call that fails leaves its error in the program's errno, one whose path
\* cannot be resolved is not made, and before the first failure errno is 0.
CallsServed ==
  Answered("calls") =>
    \A n \in DOMAIN call.input :
      LET c == call.input[n]
          r == result.value[n]
      IN IF c.fn \in {"open", "chdir"} /\ ~c.resolves THEN r.res = -1 /\ r.trap.fn = "none"
         ELSE /\ r.trap.fn = "bios_" \o (IF c.fn = "lseek" THEN "seek" ELSE c.fn)
              /\ r.trap.args = Given(c)
              /\ \A k \in 1 .. 14 : r.trap.regs[k] = Entry!Registers[k]
              /\ r.trap.pc = 700
              /\ r.res = IF c.fn = "putchar" \/ (c.fn = "getcwd" /\ c.what.result # 0) THEN c.args[1] ELSE c.what.result
              /\ c.what.errno # 0 => r.mem.errno = c.what.errno
              /\ (\A m \in 1 .. n : call.input[m].what.errno = 0) => r.mem.errno = 0

\* Names of classes of exceptions, after machine.h and the processor's manual.
ClassName(vector) ==
  CASE vector = 2 -> "Bus error" [] vector = 3 -> "Address error" [] vector = 4 -> "Illegal instruction"
    [] vector = 5 -> "Divide by zero" [] vector = 6 -> "CHK/CHK2" [] vector = 7 -> "TRAPcc/TRAPV"
    [] vector = 24 -> "Spurious interrupt" [] vector \in 25 .. 31 -> "Autovector interrupt"
    [] vector \in 32 .. 47 -> "TRAP" [] vector = 56 -> "MMU configuration error"
    [] vector \in 16 .. 23 \cup {12, 55} \cup 57 .. 63 -> "Unassigned/reserved"
    [] vector >= 64 -> "User-defined vector"
    [] OTHER -> ""

\* The report of an exception is what happened, whatever frame the processor pushed for
\* it: vector, name and number, the state it happened in, the registers and both stack
\* pointers as they were before it, the address of the instruction or of the data access
\* where the frame has one, and no address of a data access where it has none.
CrashesReported ==
  Answered("crash") =>
    LET e == call.input
        r == result.value
        cycle == e.fmt \in {10, 11}
    IN /\ r.vec = e.vector /\ ClassName(e.vector) \in {"", r.name}
       /\ r.number = IF ClassName(e.vector) = "TRAP" THEN e.vector - 32
                     ELSE IF ClassName(e.vector) = "Autovector interrupt" THEN e.vector - 24 ELSE -1
       /\ r.pc = e.pc /\ r.sr = e.sr /\ r.supervisor = (e.sr \in 8192 .. 16383)
       /\ r.usp = e.usp /\ r.ssp = e.ssp
       /\ r.dregs \o r.aregs = e.regs
       /\ r.instruction = IF e.fmt \in {2, 9} THEN e.instruction ELSE -1
       /\ r.data = IF cycle /\ e.access.data THEN <<e.access.dir, e.fault, e.access.fc>> ELSE <<>>
       /\ r.fetch = (cycle /\ e.access.fetch)

\* Both ways into the monitor find what was pushed on the stack where it is.
TrapsServed == CallsServed /\ CrashesReported

(***************************************************************************)
(* Address translation.                                                    *)
(***************************************************************************)
\* A transparent window: addresses that agree with it above the bits of its mask, and
\* the function codes it is for.
InWindow(w, a) ==
  w.enable = 1 /\ a.fc \in w.fcs
    /\ (a.addr[1] \div 256) \div (w.logical_mask + 1) = w.logical_base \div (w.logical_mask + 1)

\* Whatever the sizes of pages and tables, an access leads through the tables mmu.h's
\* builders make to the page its address names, at the same place within it; in a
\* window it is not translated, a page that is not mapped is a fault, and so is a write to
\* one that is protected or below a protected table; the unit accepts every configuration
\* whose fields fill a long, and turned off it lets all addresses through.
MapsTranslate ==
  Answered("map") =>
    LET m == call.input
        c == m.c
        offset(addr) == addr[2] % 2^c.page_size_exp
        last == Unit!Index(c, Len(m.tables))
        page(addr) == (addr[1] * 2^(16 - c.page_size_exp) + (addr[2] \div 2^c.page_size_exp)) % 2^last
        through(addr) == [ok |-> TRUE, addr |-> addr]
    IN /\ ~result.value.exception
       /\ \A a \in m.accesses :
            LET n == page(a.addr)
                at == m.pages.at[n]
            IN /\ result.value.off[a] = through(a.addr)
               /\ result.value.on[a] =
                    IF \E k \in 1 .. 2 : InWindow(m.windows[k], a) THEN through(a.addr)
                    ELSE IF n \in m.pages.missing THEN Unit!Fault("invalid")
                    ELSE IF a.write /\ (m.pages.protects \in 1 .. Len(m.tables) - 1 \/ n \in m.pages.protected)
                         THEN Unit!Fault("write protected")
                    ELSE through(<<at[1], at[2] + offset(a.addr)>>)
=============================================================================
