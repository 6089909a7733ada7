---------------------------- MODULE MCAlgorithms ----------------------------
(***************************************************************************)
(* All opcodes, those with an index also with every form of its extension  *)
(* word, and those of the two long multiplications and divisions, CHK2 and *)
(* CMP2 with both values of the bit that tells them apart; all short texts *)
(* over two alphabets, and all longer chains of two operators.             *)
(***************************************************************************)
EXTENDS Algorithms, TLC, SequencesExt

Brief == {0, \h0800}
Full  == {\h0110 + 16 * base + outer : base \in 0 .. 2, outer \in {0, 1, 2, 3, 6, 7}}
Indexed(op) ==
  \/ Mode(op) = 6 \/ (Mode(op) = 7 /\ Bits(op, 0, 3) = 3)
  \/ (op \div 4096 \in 1 .. 3 /\ Bits(op, 6, 3) \in {6, 7})
Every == {\h00F0, \h02D0, \h4C30, \h4C70, \h41F0, \h2DB0, \hD1B0}
MCBehind ==
  [op \in 0 .. 65535 |->
     {0} \cup (IF Indexed(op) THEN {\h0110, \h0123, \h0132} ELSE {})
         \cup (IF op \in Every THEN Brief \cup Full ELSE {})]

Operators == {<<"+">>, <<"-">>, <<"*">>, <<"/">>, <<"%">>, <<"<", "<">>, <<">", ">">>}
Chains(number) ==
  {<<a>> \o p \o <<b>> \o q \o <<c>> : a \in number, b \in number, c \in number,
                                       p \in Operators, q \in Operators}
MCTexts ==
  [n \in 0 .. 5 |-> [1 .. n -> {"2", "+", "-", "*", "/", "(", ")"}]]
  @@ [n \in 10 .. 14 |-> [1 .. n - 10 -> {"1", "0", "$", "a", "x", "_", "<", ">", " ", "%"}]]
  @@ 20 :> Chains({"2", "9", "1"})
  @@ 22 :> UNION {[1 .. n -> {"a", "A", "x", "_", "1"}] : n \in 0 .. 3}
  @@ 21 :> {<<"(">> \o t \o <<")">> : t \in Chains({"2", "8"})}

\* All paths of up to five parts.
MCMounts == <<[dev |-> <<"m">>, subdev |-> <<"0">>], [dev |-> <<"m">>, subdev |-> <<"1">>]>>
Part == {<<>>, <<".">>, <<".", ".">>, <<"m", "0">>, <<"M", "1">>, <<"a">>}
MCPathNames ==
  [n \in 1 .. 5 |-> {FoldLeft(LAMBDA p, q : p \o <<"/">> \o q, parts[1], Tail(parts)) : parts \in [1 .. n -> Part]}]
  @@ 6 :> {<<"/", "m", "0", "a">>, <<"/", "m", "0", "a", "/", "a">>}

\* Filesystems with one, three and ten groups, and what else a card may hold.
Super == [magic |-> TRUE, sparse |-> TRUE, s_log_block_size |-> 1, s_inode_size |-> 256,
          s_blocks_count |-> 10, s_blocks_per_group |-> 10,
          s_inodes_count |-> 16, s_inodes_per_group |-> 16]
Big   == [Super EXCEPT !.s_blocks_count = 93, !.s_inodes_count = 160]
Old   == [Super EXCEPT !.s_blocks_count = 30, !.s_inodes_count = 48, !.sparse = FALSE]
Disk(sb) == [present |-> TRUE, sb |-> sb, bad |-> {}, noticed |-> TRUE]
Absent == [Disk(Super) EXCEPT !.present = FALSE]
MCCards ==
  {Absent, Disk(Super), Disk(Big), Disk(Old)}
    \cup {Disk([Super EXCEPT !.magic = FALSE]), Disk([Super EXCEPT !.s_log_block_size = 2]),
          Disk([Super EXCEPT !.s_blocks_count = 11])}
    \cup {[Disk(Big) EXCEPT !.bad = {b}, !.noticed = n] : b \in {0, 31, 50, 51}, n \in BOOLEAN}
Rom(disk, offset, blocks) == disk @@ [offset |-> offset, num_blocks |-> blocks]
MCRoms ==
  {Rom(Absent, 0, 0), Rom(Disk(Super), 1023, 10), Rom(Disk(Super), 1024, 10), Rom(Disk(Old), 0, 30),
   Rom([Disk(Super) EXCEPT !.sb.magic = FALSE], 8, 10)}

MCConstants == <<[name |-> <<"A">>, val |-> 11], [name |-> <<"x", "_">>, val |-> -3]>>

\* Lines: all words that begin like a command, and slips of them; all short lines of
\* a few keys, with backspaces; and what follows a dump command or two.
Names == {commands[k].name : k \in DOMAIN commands}
Abbreviated(name) == {SubSeq(name, 1, n) : n \in 1 .. Len(name)} \cup {name \o <<"s">>}
Slips(name) == {[name EXCEPT ![k] = c] : k \in DOMAIN name, c \in {"s", "E"}}
Dumps == {Chars(t) : t \in {"dump", "DB", "dw 8", "longdump", "dump 8 21", "dl 10", "? 2", "?2",
                            "db 9 0", "db 2 )", "dump )", "worddump 1 9 9"}}
Others == {Chars(t) : t \in {"=8", "=2,1", "eval  2 , 1", "eval ", "ser2 ba 8", "SER2 baud 9", "ser1 baud )",
                             "ser1", "pwd", "", " dump", "dump  8  2 ", "cat a b x", "cat a b x b", "cat  a b  x  a"}}
MCSessions ==
  [n \in 1 .. 7 |-> IF n = 7 THEN {<<a, b, c>> : a \in Dumps, b \in Dumps, c \in Dumps}
                    ELSE {<<t>> : t \in [1 .. n -> {"d", "w", " ", "BS"}]}]
  @@ 8 :> {<<t>> : t \in UNION {Abbreviated(name) \cup Slips(name) : name \in Names}}
  @@ 9 :> {<<a, b>> : a \in Others, b \in Dumps} \cup {<<a, b>> : a \in Dumps, b \in Others}

MCRates == {0, 50, 75, 110, 150, 200, 1050, 1800, 2000, 3600, 7200, 9600, 19200, 19201, 28800, 31250,
            38400, 57600, 76800, 115200, 230400}

\* Boards: every ROM of three longs with one of them changed or none, every fault, and
\* vectors and data of every length.
Width == 4 * LANE_BITS
Pairs(S) == {p \in S \X S : p[1] < p[2]}
Fault(kind) == [kind |-> kind]
Faults ==
  {Fault("data line stuck") @@ [line |-> b, at |-> v] : b \in 0 .. Width - 1, v \in 0 .. 1}
  \cup {Fault("data lines joined") @@ [line |-> p[1], with |-> p[2]] : p \in Pairs(0 .. Width - 1)}
  \cup {Fault("data line floating") @@ [line |-> b] : b \in 0 .. Width - 1}
  \cup {Fault("strobe missing") @@ [lane |-> l] : l \in 0 .. 3}
  \cup {Fault("strobes joined") @@ [lane |-> p[1], with |-> p[2]] : p \in Pairs(0 .. 3)}
  \cup {Fault("address line stuck") @@ [line |-> b, at |-> v] : b \in 0 .. ADDRESS_LINES - 1, v \in 0 .. 1}
  \cup {Fault("address lines joined") @@ [line |-> p[1], with |-> p[2]] : p \in Pairs(0 .. ADDRESS_LINES - 1)}
  \cup {Fault("cell stuck") @@ [row |-> r, line |-> b, at |-> v] :
           r \in 0 .. 2^ADDRESS_LINES - 1, b \in 0 .. Width - 1, v \in 0 .. 1}
  \cup {Fault("chip missing") @@ [row |-> r] : r \in 0 .. 2^ADDRESS_LINES - 1}
Ram(v) == [cells |-> [r \in 0 .. 2^ADDRESS_LINES - 1 |-> v], bus |-> v]
Good ==
  [rom |-> <<2^ROM_BITS - 1>>, built |-> <<2^ROM_BITS - 1>>, ram |-> Ram(0),
   fault |-> Fault("none"), vectors |-> <<1, 1>>, data |-> 2]
Built(longs, off) == Board!patch_sum(longs, off)
Longs == 0 .. 2^ROM_BITS - 1
MCBoards ==
  0 :> UNION {LET built == Built(longs, 2) IN
                {[Good EXCEPT !.built = built, !.rom = [built EXCEPT ![k] = v]] : k \in 1 .. 3, v \in Longs}
              : longs \in [1 .. 3 -> Longs]}
  @@ 1 :> {[Good EXCEPT !.fault = f, !.ram = Ram(v)] : f \in Faults, v \in {0, 2^Width - 1}}
  @@ 2 :> {[Good EXCEPT !.vectors = v, !.data = d] : v \in [1 .. 4 -> 0 .. 1], d \in 0 .. 9}

Conversions ==
  [zeropad : BOOLEAN, numprefix : BOOLEAN, width : {0, 2, 5},
   type : {"d", "i", "u", "x", "X", "p", "o"}]
MCLines ==
  0 :> [conv : Conversions, char : {":"}, numbers : [1 .. 1 -> 0 .. 2^WORD - 1]]
  @@ 1 :> [conv : Conversions, char : {":", " ", "-"}, numbers : [1 .. 2 -> {0, 1, 8, 31, 32, 63}]]

\* Surfaces with 1, 2 and 4 bits a pixel in words of four bits, and a font of two
\* letters, with and without a mark for those it lacks.
Letter2x2(bits) == [row \in 0 .. 1 |-> [px \in 0 .. 1 |-> bits[2 * row + px + 1]]]
Marked == [width |-> 2, height |-> 2,
           glyphs |-> "a" :> Letter2x2(<<TRUE, FALSE, TRUE, TRUE>>) @@ "?" :> Letter2x2(<<FALSE, TRUE, TRUE, FALSE>>)]
Narrow == [width |-> 1, height |-> 2,
           glyphs |-> "a" :> [row \in 0 .. 1 |-> [px \in {0} |-> row = 0]]]
Surface(gbm, order) == [base_addr |-> 1, mem_width |-> 7, gbm |-> gbm, order |-> order, width |-> 6, height |-> 7]
Surfaces == {Surface(gbm, order) : gbm \in 0 .. 2, order \in 0 .. 1}
Before == [a \in 0 .. 51 |-> (5 * a + 3) % 2^WORD_BITS]
Drawing(surf, calls) == [surf |-> surf, font |-> Marked, mem |-> Before, calls |-> calls]
Strings(n, keys) == UNION {[1 .. k -> keys] : k \in 0 .. n}
Write(s) == [fn |-> "write", s |-> s]
Cursors == {[fn |-> "cursor", col |-> c, row |-> r] : c \in {0, 2}, r \in 0 .. 1}
Settings ==
  {[fn |-> "scale", scale |-> n] : n \in 0 .. 4} \cup {[fn |-> "font", font |-> Narrow], [fn |-> "clear"]}
    \cup {[fn |-> "transparent", on |-> TRUE], [fn |-> "scroll", on |-> FALSE], [fn |-> "colors", fg |-> 2, bg |-> 5]}
MCDrawings ==
  0 :> {Drawing(surf, <<c, Write(s)>>) : surf \in Surfaces, c \in Cursors, s \in Strings(3, {"a", "b", "NL", "CR", "BS", "HT"})}
  @@ 1 :> {Drawing(surf, <<t, [fn |-> "draw", x |-> x, y |-> y, s |-> s]>>) :
             surf \in Surfaces, t \in Settings, x \in 0 .. 5, y \in {0, 1, 6}, s \in {<<"a">>, <<"a", "b">>, <<"b", "a", "a">>}}
  @@ 2 :> {Drawing(surf, <<t, c, u, Write(s), v, Write(<<"a">>)>>) :
             surf \in {Surface(0, 0), Surface(1, 1), Surface(2, 0)}, t \in Settings, u \in Settings, c \in Cursors,
             v \in {[fn |-> "scale", scale |-> 2], [fn |-> "font", font |-> Narrow], [fn |-> "clear"]},
             s \in {<<"a", "b">>, <<"a", "NL", "HT">>}}

\* Layouts: a screen of 640 by 480 in every format; timings at the ends of the registers; every
\* field of a configuration at the ends of its range; screens above one another and windows,
\* and what is changed of them while they are shown.
Timing(h, v) ==
  [h_active |-> h[1], h_front |-> h[2], h_sync |-> h[3], h_back |-> h[4],
   v_active |-> v[1], v_front |-> v[2], v_sync |-> v[3], v_back |-> v[4]]
Vga == Timing(<<640, 64, 128, 64>>, <<480, 10, 2, 33>>)
Default == [Setup!hd63484_config_default EXCEPT !.screen[1].mem_width = 40]
Sized == Setup!hd63484_config_set_timing(Default, Vga).cfg
Layout(c, t, changes) == [cfg |-> c, timing |-> t, changes |-> changes]
Untimed == Timing(<<1, 0, 0, 0>>, <<0, 0, 0, 0>>)
Ends == {0, 1, 2, 31, 32, 255, 256, 257, 4095, 4096, 65535}
WithScreen(c, n) ==
  [c EXCEPT !.screen[n] = [Default.screen[1] EXCEPT !.height = 50, !.start_addr = 1048575, !.start_dot = n + 5]]
Windowed(c) ==
  [c EXCEPT !.screen[3] = [Default.screen[1] EXCEPT !.start_addr = 65536], !.hws = 20, !.hww = 16, !.vws = 200, !.vww = 31]
Splits == {Sized, WithScreen(Sized, 0), WithScreen(Sized, 2), WithScreen(WithScreen(Sized, 0), 2), Windowed(Sized), Windowed(WithScreen(Sized, 2))}
Visibility == [fn : {"visibility"}, screen : 0 .. 4, enable : BOOLEAN, display : BOOLEAN]
Starts == [fn : {"start"}, screen : 0 .. 4, addr : {0, 65535, 65536, 1048575, 1048576}, dot : {0, 15, 16}]
MCLayouts ==
  0 :> {Layout([Default EXCEPT !.gbm = gbm, !.gai = gai, !.acm = acm, !.screen[1].mem_width = Setup!hd63484_mem_width_words(640, gbm)],
               Timing(h, <<480, 10, 2, 33>>), <<>>) :
          gbm \in 0 .. 5, gai \in 0 .. 7, acm \in {0, 1, 2, 3},
          h \in {<<640, 64, 128, 64>>, <<640, 32, 96, 32>>, <<1024, 0, 256, 128>>, <<1024, 65408, 256, 128>>}}
  @@ 1 :> {Layout(c, Timing(<<640, 64, 128, 64>>, v), <<>>) : c \in Splits,
             v \in {<<a, f, s, b>> : a \in {0, 1, 50, 51, 100, 101, 4095}, f \in {0, 3500}, s \in {1, 31, 32}, b \in {1, 256, 257}}}
  @@ 2 :> {Layout(c, Untimed, <<>>) :
             c \in UNION {{[d EXCEPT !.hc = v], [d EXCEPT !.hsw = v], [d EXCEPT !.hds = v], [d EXCEPT !.hdw = v], [d EXCEPT !.vc = v],
                          [d EXCEPT !.vsw = v], [d EXCEPT !.vds = v], [d EXCEPT !.hws = v], [d EXCEPT !.hww = v], [d EXCEPT !.vws = v],
                          [d EXCEPT !.vww = v], [d EXCEPT !.screen[1].height = v], [d EXCEPT !.screen[2].height = v],
                          [d EXCEPT !.screen[1].mem_width = v], [d EXCEPT !.screen[3].mem_width = v],
                          [d EXCEPT !.screen[1].start_dot = v], [d EXCEPT !.screen[1].start_addr = 16 * v],
                          [d EXCEPT !.screen[1].character = TRUE, !.screen[1].first_raster = v % 256, !.screen[1].last_raster = 7],
                          [d EXCEPT !.screen[1].enable = FALSE], [d EXCEPT !.attr = v % 256, !.dsp_mode = TRUE],
                          [d EXCEPT !.hc = 256, !.hdw = v], [d EXCEPT !.hc = 256, !.hds = v], [d EXCEPT !.vc = 4095, !.screen[1].height = v],
                          [d EXCEPT !.vc = 4095, !.vds = v], [d EXCEPT !.vc = 65535, !.vds = v], [d EXCEPT !.gai = 5, !.hww = v]} :
                         d \in Splits, v \in Ends}}
  @@ 3 :> {Layout(c, Vga, <<a, b>>) : c \in Splits, a \in Visibility, b \in Visibility}
  @@ 4 :> {Layout(c, Vga, <<a, b>>) : c \in Splits, a \in Starts, b \in {[fn |-> "start", screen |-> 1, addr |-> 7, dot |-> 3]}}

\* Every system call with every outcome, before and after others.
Comes(value, errno) == [result |-> value, errno |-> errno, left |-> 0]
Outcomes == {Comes(0, 0), Comes(7, 0), Comes(-1, 5), Comes(-1, 2)}
SystemCall(fn, args, what) == [fn |-> fn, args |-> args, resolves |-> TRUE, what |-> what]
CallArguments ==
  [fn \in {"ticks", "reset_ticks", "getchar", "char_available"} |-> <<>>]
  @@ [fn \in {"putchar", "exit", "malloc", "free", "chdir", "close"} |-> <<11>>]
  @@ [fn \in {"open", "creat", "getcwd"} |-> <<11, 12>>]
  @@ [fn \in {"read", "write", "getdents", "lseek"} |-> <<11, 12, 13>>]
AnyCall ==
  {SystemCall(fn, CallArguments[fn], what) : fn \in DOMAIN CallArguments, what \in Outcomes}
  \cup {[SystemCall(fn, CallArguments[fn], Comes(0, 0)) EXCEPT !.resolves = FALSE] : fn \in {"open", "chdir"}}
MCPrograms ==
  2 :> {<<c, d>> : c \in AnyCall, d \in AnyCall}
  @@ 3 :> {<<c, d, e>> : c \in {SystemCall("open", <<11, 12>>, w) : w \in Outcomes},
                         d \in {SystemCall("read", <<3, 12, 13>>, w) : w \in Outcomes},
                         e \in {SystemCall("close", <<3>>, w) : w \in Outcomes}}

\* Every vector, with the frames its exception comes in, and every status of a bus cycle.
Access(ssw) ==
  [data |-> Bits(ssw, 8, 1) = 1, dir |-> IF Bits(ssw, 6, 1) = 1 THEN "read" ELSE "write",
   fc |-> Bits(ssw, 0, 3), fetch |-> Bits(ssw, 14, 2) # 0]
Exception(fmt, vector, sr, ssw) ==
  [fmt |-> fmt, vector |-> vector, sr |-> sr, pc |-> 700, instruction |-> 810, fault |-> 820, ssw |-> ssw,
   access |-> Access(ssw), regs |-> [k \in 1 .. 15 |-> 300 + k], usp |-> 401, ssp |-> 9000]
MCCrashes ==
  0 :> {Exception(fmt, v, sr, 0) : fmt \in {0, 1}, v \in 4 .. 255, sr \in {0, 31, 8192, 9984}}
  @@ 1 :> {Exception(2, v, sr, 0) : v \in {5, 6, 7, 9, 13}, sr \in {0, 9984}}
  @@ 2 :> {Exception(9, v, 9984, 0) : v \in {13} \cup 25 .. 31}
  @@ 3 :> {Exception(fmt, v, sr, 32768 * c + 16384 * b + 256 * d + 64 * r + fc) :
             fmt \in {10, 11}, v \in {2, 3}, sr \in {0, 9984}, c \in 0 .. 1, b \in 0 .. 1, d \in 0 .. 1,
             r \in 0 .. 1, fc \in {1, 2, 5, 6}}

MCSBCs ==
  [present : SUBSET {"pit", "duart", "rtc", "oled", "acrtc"}, floats : BOOLEAN, faulty : BOOLEAN,
   jumpers : SUBSET (0 .. 5)]

\* A font as high as its rows are apart, and one that is higher, as norm_font is.
Square == [width |-> 2, height |-> 2, char_widths |-> [c \in 0 .. 2 |-> IF c = 1 THEN 1 ELSE 2],
           glyphs |-> 0 :> [i \in 0 .. 1 |-> {}] @@ 1 :> [i \in 0 .. 1 |-> {0}] @@ 2 :> (0 :> {1} @@ 1 :> {0, 1})]
Tall == [Square EXCEPT !.height = 3]
\* Its table: the rows of one glyph after those of another, and what lies behind it.
Tabled(font) ==
  font @@ [font_chars |-> [i \in 0 .. 6 |-> IF i = 6 THEN {1} ELSE font.glyphs[i \div 2][i % 2]]]
MCPanels ==
  [n \in 0 .. 6 |-> [text : [1 .. n -> IF n <= 4 THEN {0, 1, 2, Oled!NL, 9} ELSE {1, 2, Oled!NL}],
                     font : {Tabled(Square), Tabled(Tall)}, refused : {{}}]]
  @@ 7 :> [text : {<<2>>}, font : {Tabled(Square)}, refused : {{n} : n \in 1 .. 80}]

\* Pages of 32 KB, 4 KB and 256 bytes below one to four levels of tables.
TreeSizes(ps, is, ti) ==
  [enable |-> 1, page_size_exp |-> ps, initial_shift |-> is, tia |-> ti[1], tib |-> ti[2], tic |-> ti[3], tid |-> ti[4]]
Window(enable, base, mask, low, fcs) ==
  [enable |-> enable, logical_base |-> base, logical_mask |-> mask, low_bits |-> low, fcs |-> fcs]
AnyFc == 0 .. 7
NoWindow == Window(0, 0, 255, 263, AnyFc)
TableAt == <<<<16, 1024>>, <<17, 2048>>, <<18, 48>>, <<19, 61440>>>>
MCMaps ==
  LET Addresses == {<<h, l>> : h \in {0, 1, 255, 256, 4660, 32768, 43981, 65535}, l \in {0, 255, 256, 4098, 33023, 65535}}
      Accesses == {[addr |-> addr, fc |-> fc, write |-> w] : addr \in Addresses, fc \in {1, 2, 5, 6}, w \in BOOLEAN}
      Case(c, levels, page, protects, windows) ==
        LET entries == 0 .. 2^Unit!Index(c, levels) - 1 IN
        [c |-> c, tables |-> SubSeq(TableAt, 1, levels), windows |-> windows, accesses |-> Accesses,
         pages |-> [protects |-> protects, missing |-> {i \in entries : i % 3 = 2}, at |-> [i \in entries |-> page[(i % 2) + 1]],
                    inhibited |-> {i \in entries : i % 4 = 1}, protected |-> {i \in entries : i % 5 = 0}]]
      Shapes == {<<TreeSizes(15, 0, <<4, 4, 4, 5>>), 4, <<<<4096, 0>>, <<291, 32768>>>>>>,
                 <<TreeSizes(12, 8, <<6, 6, 0, 0>>), 2, <<<<4096, 4096>>, <<291, 57344>>>>>>,
                 <<TreeSizes(8, 4, <<7, 7, 6, 0>>), 3, <<<<4096, 256>>, <<291, 65280>>>>>>,
                 <<TreeSizes(15, 8, <<9, 0, 0, 0>>), 1, <<<<4096, 0>>, <<291, 32768>>>>>>}
      Windows == {<<NoWindow, NoWindow>>, <<Window(1, 0, 255, 263, AnyFc), NoWindow>>,
                  <<Window(1, 128, 127, 263, AnyFc), Window(1, 1, 0, 263, AnyFc)>>,
                  <<NoWindow, Window(1, 18, 3, 256 + 16 * 5, {5})>>,
                  <<Window(1, 168, 7, 256 + 16 * 1 + 4, {1, 5}), Window(1, 255, 0, 263, AnyFc)>>}
  IN [n \in {0} |-> {Case(s[1], s[2], s[3], p, w) : s \in Shapes, p \in 0 .. 3, w \in Windows}]

\* ELF files: what is meant, and the bytes it is written in.
ByteOf(v, n) == (v \div 256^n) % 256
Written(v, size, order) ==
  [k \in 1 .. size |-> ByteOf(v, IF order = 2 THEN size - k ELSE k - 1)]
BytesOf(struct, fields, order) ==
  FlattenSeq([k \in DOMAIN struct |->
    IF struct[k][1] = "e_ident" THEN fields.e_ident ELSE Written(fields[struct[k][1]], struct[k][2], order)])
DotT == <<46, 116>>
SectionNames == <<<<>>, DotT, <<46>>, <<46, 100, 97>>>>
NameTable == FlattenSeq([k \in DOMAIN SectionNames |-> Append(SectionNames[k], 0)])
NameAt(n) == Len(FlattenSeq([k \in 1 .. n - 1 |-> Append(SectionNames[k], 0)]))
FlagBit == [SH_WRITE |-> 0, SH_ALLOC |-> 1, SH_EXECINSTR |-> 2, SH_MERGE |-> 4, SH_STRINGS |-> 5, SH_INFO_LINK |-> 6,
            SH_LINK_ORDER |-> 7, SH_OS_NONCONFORMING |-> 8, SH_GROUP |-> 9, SH_TLS |-> 10, SH_COMPRESSED |-> 11]
ElfProgram(type, v, flags) ==
  [fields |-> [p_type |-> type, p_offset |-> v, p_vaddr |-> 305419896 + v, p_paddr |-> v * 65793, p_filesz |-> 258, p_memsz |-> 772,
               p_flags |-> flags, p_align |-> 4096],
   rwx |-> [k \in 1 .. 3 |-> (flags \div 2^(3 - k)) % 2 = 1]]
ElfSection(n, type, flags) ==
  [name |-> SectionNames[n], flags |-> flags,
   type |-> IF type < 20 THEN Tool!Types[type + 1] ELSE "Undefined",
   fields |-> [sh_name |-> NameAt(n), sh_type |-> type, sh_flags |-> FoldSet(LAMBDA f, sum : sum + 2^FlagBit[f], 0, flags),
               sh_addr |-> 16909060 * n, sh_offset |-> 52, sh_size |-> Len(NameTable), sh_link |-> 259, sh_info |-> 1029,
               sh_addralign |-> 2, sh_entsize |-> 513]]
Ident(order) == <<127, 69, 76, 70, 1, order, 1, 0, 0, 0, 0, 0, 0, 0, 0, 0>>
\* The names' section is the one its index says; its table is before the others.
ElfMade(programs, sections, strtab, order) ==
  LET phoff == 52 + Len(NameTable)
      shoff == phoff + 32 * Len(programs)
  IN [header |-> [e_type |-> 2, e_machine |-> 4, e_version |-> 1, e_entry |-> 19088743, e_phoff |-> phoff, e_shoff |-> shoff,
                  e_flags |-> 66051, e_ehsize |-> 52, e_phentsize |-> 32, e_phnum |-> Len(programs), e_shentsize |-> 40,
                  e_shnum |-> Len(sections), e_shstrndx |-> strtab],
      programs |-> programs, sections |-> sections]
ElfBytes(m, order) ==
  BytesOf(Tool!Elf32_Ehdr, m.header @@ [e_ident |-> Ident(order)], order) \o NameTable
    \o FlattenSeq([k \in DOMAIN m.programs |-> BytesOf(Tool!Elf32_Phdr, m.programs[k].fields, order)])
    \o FlattenSeq([k \in DOMAIN m.sections |-> BytesOf(Tool!Elf32_Shdr, m.sections[k].fields, order)])
ElfInput(m, little, whole, intact, file) ==
  [made |-> m, little |-> little, whole |-> whole, intact |-> intact, file |-> file]
MCElfs ==
  LET sample == ElfMade(<<ElfProgram(1, 84, 5), ElfProgram(0, 300, 2)>>,
                        <<ElfSection(1, 0, {}), ElfSection(4, 1, {"SH_ALLOC", "SH_EXECINSTR"}), ElfSection(3, 3, {})>>, 2, 2)
      bytes == ElfBytes(sample, 2)
      programs == {<<>>} \cup {<<ElfProgram(t, 84, f), ElfProgram(1, 4660, 7 - f)>> : t \in {0, 1, 7, 1685382481}, f \in 0 .. 7}
      flags == {S \in SUBSET DOMAIN FlagBit : Cardinality(S) <= 2}
      sections == {<<ElfSection(3, 3, f)>> : f \in flags} \cup {<<ElfSection(n, 3, {})>> : n \in DOMAIN SectionNames}
                  \cup {<<ElfSection(4, t, {}), ElfSection(2, 3, {"SH_STRINGS"})>> : t \in 0 .. 19 \cup {160, 1879048182}}
  IN [n \in 0 .. 2 |->
        CASE n = 0 -> {LET m == ElfMade(p, s, 0, 2) IN ElfInput(m, little, TRUE, TRUE, ElfBytes(m, 2)) :
                         p \in {<<>>, sample.programs}, s \in sections, little \in BOOLEAN}
                      \cup {LET m == ElfMade(p, sample.sections, 0, 2) IN ElfInput(m, little, TRUE, TRUE, ElfBytes(m, 2)) :
                              p \in programs, little \in BOOLEAN}
          [] n = 1 -> {ElfInput(sample, little, FALSE, TRUE, SubSeq(bytes, 1, cut)) : cut \in 0 .. Len(bytes) - 1, little \in BOOLEAN}
                      \cup {ElfInput(sample, little, TRUE, TRUE, bytes) : little \in BOOLEAN}
          [] n = 2 -> {ElfInput(sample, little, FALSE, TRUE, ElfBytes(sample, 1)) : little \in BOOLEAN}
                      \cup {ElfInput(sample, little, FALSE, FALSE, [bytes EXCEPT ![k] = v]) :
                              k \in (1 .. 7) \cup (10 .. 20), v \in {3, 77}, little \in BOOLEAN}]

\* Clocks at the ends of a second, and an instant later; halted; not answering.
Instant(s, m, h, w, d, mo, y) ==
  [seconds |-> s, minutes |-> m, hours |-> h, day |-> w, date |-> d, month |-> mo, year |-> y]
ClockRegs(t, halted) ==
  [r \in 1 .. 64 |-> IF r > 7 THEN r ELSE BCD(t[Moment[r]]) + (IF r = 1 /\ halted THEN 128 ELSE 0)]
Instants == {<<Instant(59, 59, 23, 7, 31, 12, 99), Instant(0, 0, 0, 1, 1, 1, 0)>>,
             <<Instant(9, 8, 19, 2, 28, 2, 26), Instant(10, 8, 19, 2, 28, 2, 26)>>}
ChipAt(i, ticked, halted, reads, writes) ==
  [moment |-> i[1], halted |-> halted, reads |-> reads, writes |-> writes, junk |-> Instant(200, 7, 99, 3, 0, 45, 255),
   regs |-> ClockRegs(i[1], halted), later |-> ClockRegs(IF ticked THEN i[2] ELSE i[1], halted)]
RtcChips ==
  {ChipAt(i, ticked, FALSE, reads, writes) : i \in Instants, ticked \in BOOLEAN, reads \in BOOLEAN, writes \in BOOLEAN}
    \cup {ChipAt(i, FALSE, TRUE, TRUE, TRUE) : i \in Instants}
RtcWord(t) == [text |-> Chars(t), err |-> "SYNTAX", v |-> 0]
RtcNumber(v) == [text |-> <<"n">>, err |-> "OK", v |-> v]
RtcArgs == {RtcNumber(v) : v \in {0, 9, 10, 31, 59, 126, 2026}} \cup {RtcWord("))")}
RtcSub(t) == IF t \in {"time", "ti", "TIM"} THEN <<"hours", "minutes", "seconds">>
             ELSE IF t \in {"date", "da"} THEN <<"year", "month", "date">> ELSE <<>>
RtcInput(chip, t, args, beyond) ==
  [chip |-> chip, argv |-> <<RtcWord("rtc"), RtcWord(t)>> \o args, fields |-> RtcSub(t), beyond |-> beyond]
MCClocks ==
  [n \in 0 .. 3 |-> {RtcInput(chip, t, args, beyond) : chip \in RtcChips, t \in {"time", "date"} \cup (IF n = 0 THEN {"ti", "TIM", "da"} ELSE {}),
                       args \in IF n = 3 THEN {<<RtcNumber(1), RtcNumber(2), RtcNumber(3)>>} ELSE [1 .. n -> RtcArgs],
                       beyond \in {RtcNumber(7), RtcWord("))")}}]
  @@ 4 :> {RtcInput(chip, t, args, RtcNumber(0)) : chip \in RtcChips, t \in {"nvram", "NV", "t", "dates", "help"},
             args \in {<<>>, <<RtcWord("er")>>, <<RtcWord("Erase")>>, <<RtcWord("e")>>, <<RtcWord("erase"), RtcWord("er")>>}}
  @@ 5 :> {[RtcInput(chip, "time", <<>>, RtcNumber(0)) EXCEPT !.argv = <<RtcWord("rtc")>>, !.fields = <<>>] : chip \in RtcChips}

\* Programs of a few instructions of every length from 0 on, and what is behind them.
Instructions ==
  {[stem |-> "nop", words |-> <<20081>>], [stem |-> "moveq", words |-> <<28673>>], [stem |-> "dc", words |-> <<40960>>],
   [stem |-> "bra", words |-> <<24576, 16>>], [stem |-> "jmp", words |-> <<20217, 4660, 4660>>],
   [stem |-> "lea", words |-> <<16891, 354, 4, 4>>]}
Located(instructions) ==
  [k \in DOMAIN instructions |->
     [at |-> 2 * Len(FlattenSeq([j \in 1 .. k - 1 |-> instructions[j].words]))] @@ instructions[k]]
InMemory(words) ==
  [a \in 0 .. TOP |-> IF a \div 2 >= Len(words) THEN 0
                     ELSE (words[(a \div 2) + 1] \div (IF a % 2 = 0 THEN 256 ELSE 1)) % 256]
Val(v) == [err |-> "OK", v |-> v]
Ask(vals) == <<Val(0)>> \o vals
MCListings ==
  LET Listing(instructions, asked) ==
        [mem |-> InMemory(FlattenSeq([k \in DOMAIN instructions |-> instructions[k].words])),
         program |-> Located(instructions), commands |-> asked]
      Wrong == [err |-> "SYNTAX", v |-> 0]
      Asks == {Ask(<<>>), Ask(<<Val(0)>>), Ask(<<Val(0), Val(2)>>), Ask(<<Val(2), Val(1)>>), Ask(<<Wrong>>),
               Ask(<<Val(2), Wrong>>), Ask(<<Val(60), Val(4)>>), Ask(<<Val(63)>>), Ask(<<Val(0), Val(1), Val(1)>>)}
  IN [n \in 0 .. 2 |->
        CASE n = 0 -> {Listing(i, <<a, b>>) : i \in [1 .. 4 -> Instructions], a \in {Ask(<<>>)}, b \in {Ask(<<>>)}}
          [] n = 1 -> {Listing(i, <<a, b, c>>) : i \in [1 .. 2 -> Instructions], a \in {Ask(<<Val(0), Val(1)>>)}, b \in Asks, c \in {Ask(<<>>)}}
          [] OTHER -> {Listing(i, <<a, b, c>>) : i \in {<<CHOOSE x \in Instructions : x.stem = "nop", CHOOSE x \in Instructions : x.stem = "bra">>},
                         a \in Asks, b \in Asks, c \in Asks}]

\* Every day of the years around leap years and centuries.
MCDates ==
  [y \in 0 .. 2037 - 1970 |->
     IF y \notin {0, 1, 2, 3, 29, 30, 31, 54, 67} THEN {}
     ELSE UNION {{[y |-> 1970 + y, m |-> m, d |-> d, secs |-> secs, infront |-> infront] :
                    d \in 1 .. MonthDays(1970 + y)[m], secs \in IF m = 2 THEN {0, 59, 3599, 3600, 86399} ELSE {45296},
                    infront \in IF m = 1 THEN {0, 3, -365} ELSE {0}} : m \in 1 .. 12}]

\* Files of a few instructions, whole and cut off everywhere, and every order of up to
\* three options.
InFile(words) == FlattenSeq([k \in DOMAIN words |-> <<words[k] \div 256, words[k] % 256>>])
Argument(text) == [text |-> text, value |-> 0]
Rendered(option) ==
  IF option.is = "base" THEN <<Argument("-a"), [text |-> "0x1000", value |-> option.base]>> ELSE <<Argument(option.path)>>
LastOr(options, is, default) ==
  LET these == SelectSeq(options, LAMBDA o : o.is = is) IN IF these = <<>> THEN default ELSE Last(these)
MCFiles ==
  LET BaseOption(base) == [is |-> "base", base |-> base]
      PathOption(path) == [is |-> "path", path |-> path]
      File(instructions, cut, options, more) ==
        LET program == Located(instructions)
            bytes == InFile(FlattenSeq([k \in DOMAIN instructions |-> instructions[k].words]))
        IN [program |-> program, argv |-> FlattenSeq([k \in DOMAIN options |-> Rendered(options[k])]) \o more,
            files |-> "a.bin" :> SubSeq(bytes, 1, Len(bytes) - cut) @@ "none.bin" :> <<>>,
            meant |-> [base |-> LastOr(options, "base", BaseOption(0)).base,
                       path |-> IF more # <<>> THEN "-a" ELSE LastOr(options, "path", PathOption(Lister!NoPath)).path]]
      Whole == {File(i, 0, <<PathOption("a.bin")>>, <<>>) : i \in [1 .. 4 -> Instructions]}
      Cut == {f \in {File(i, cut, <<BaseOption(4096), PathOption("a.bin")>>, <<>>) : i \in [1 .. 3 -> Instructions], cut \in 1 .. 9} :
                f.files["a.bin"] # <<>>}
      Options == {BaseOption(0), BaseOption(4096), PathOption("a.bin"), PathOption("none.bin"), PathOption("b.bin")}
      Nop == CHOOSE x \in Instructions : x.stem = "nop"
      Meant(f) == IF f.meant.path = "a.bin" THEN f ELSE [f EXCEPT !.program = <<>>]
  IN [n \in 0 .. 2 |->
        CASE n = 0 -> Whole
          [] n = 1 -> Cut
          [] OTHER -> {Meant(File(<<Nop>>, 0, options, more)) :
                         options \in UNION {[1 .. k -> Options] : k \in 0 .. 3}, more \in {<<>>, <<Argument("-a")>>}}]

\* Games: a way to win with one line more, less or at another place; games that
\* wait in every place on it; and a second game after one that was won.
Commands1 == [l \in {"n", "s", "e", "w", "u", "d"} |-> <<l>>]
Way(text) == [k \in DOMAIN text |-> Commands1[text[k]]]
Take(item) == <<<<"take">> \o item>>
Use(item) == <<<<"use">> \o item>>
DropIt(item) == <<<<"drop">> \o item>>
Winning ==
  DropIt(<<"flashlight">>) \o Take(<<"key">>) \o Way(<<"n">>) \o Take(<<"bottle">>) \o Way(<<"e", "e">>) \o Take(<<"oil">>)
    \o Way(<<"w", "w", "n", "n">>) \o Take(<<"lamp">>) \o Use(<<"oil">>) \o DropIt(<<"oil">>) \o Way(<<"u">>)
    \o Take(<<"pitchfork">>) \o Way(<<"d", "s", "s", "w", "w">>) \o Take(<<"candybar">>) \o Use(<<"candybar">>)
    \o DropIt(<<"candybar">>) \o Way(<<"s", "w", "u", "e">>) \o Take(<<"toy", "car">>) \o Way(<<"w", "w">>)
    \o <<<<"examine", "bookcase">>>> \o Way(<<"n">>) \o Use(<<"matches">>) \o Way(<<"d", "s", "e", "e", "n", "d", "w", "n">>)
    \o Use(<<"key">>) \o Way(<<"w">>) \o Use(<<"bottle">>) \o Way(<<"e", "n", "n", "w", "n">>)
    \o Use(<<"pitchfork">>) \o Use(<<"toy", "car">>)
Wait == <<"examine", "book">>
MCGames ==
  LET Longer(k, more) == SubSeq(Winning, 1, k) \o more \o SubSeq(Winning, k + 1, Len(Winning))
      Late == Longer(Len(Winning) - 2, [i \in 1 .. 12 |-> Wait])
      Asides == {<<>>, <<"q">>, <<"y">>, <<"g">>, <<"look">>, Wait, <<"examine", "bookcase">>, <<"go", "south">>, <<"u">>,
                 <<"use", "stale", "meat">>, <<"use", "matches">>, <<"use", "toy", "car">>, <<"take", "cheese">>,
                 <<"drop", "cheese">>, <<"drop", "lamp">>, <<"drop", "toy", "car">>, <<"take", "lamp">>, <<"drop", "key">>}
      Again == <<<<"y">>>> \o Way(<<"n", "w", "w", "d", "w", "n", "n", "n", "n">>)
      Upstairs == <<<<"y">>>> \o Way(<<"n", "w", "w", "s", "w", "u", "w", "n", "n">>)
  IN [n \in 0 .. 4 |->
        CASE n = 0 -> {Longer(k, <<>>) : k \in {0}} \cup {RemoveAt(Winning, k) : k \in DOMAIN Winning}
          [] n = 1 -> {Longer(k, <<line>>) : k \in 0 .. Len(Winning), line \in Asides}
          [] n = 2 -> {RemoveAt(Late, k) : k \in 1 .. Len(Winning) - 2}
                      \cup {InsertAt(Late, k, <<"drop", "lamp">>) : k \in 1 .. Len(Late)}
                      \cup {InsertAt(RemoveAt(Late, m), k, Late[m]) : m \in {j \in DOMAIN Winning : Len(Winning[j]) > 1}, k \in DOMAIN Winning}
                      \cup {Longer(k, [i \in 1 .. m |-> Wait]) : k \in 0 .. Len(Winning), m \in {3, 7, 8, 12, 30}}
          [] n = 3 -> {Winning \o more : more \in {<<<<"n">>, <<"n">>>>, Again, Upstairs, Again \o Upstairs, <<<<"y">>>> \o Winning}}
          [] OTHER -> {Longer(k, <<<<"q">>, line>>) \o Again : k \in 0 .. Len(Winning), line \in {<<"y">>, <<"no">>, <<>>}}]
\* What the diagnostic tool is told: dumps one after another; every other command and slips of
\* it; an erasure, and what is shown of the clock behind it; on a sound board and others.
\* The disk has two groups of three inodes, two to a block.
ToolInode(n) == <<n, 0, 10 + n, 0, 0, 0, 0, 0, 0, 0, 0, 0>>
ToolBlock(num) ==
  LET first == CASE num \in 2 .. 3 -> 2 * (num - 2) + 1 [] num \in 10 .. 11 -> 3 + 2 * (num - 10) + 1 [] OTHER -> 0
  IN  CASE num \in {2, 10} -> ToolInode(first) \o ToolInode(first + 1)
        [] num \in {3, 11} -> ToolInode(first) \o [k \in 1 .. 12 |-> 0]
        [] OTHER -> [k \in 1 .. 24 |-> IF num = 1 \/ k < 17 THEN 0 ELSE num]
ToolDisk(bad) ==
  LET sb == [s_inodes_per_group |-> 3, s_inode_size |-> 12, s_blocks_per_group |-> 8]
      good == (0 .. 15) \ bad
      at(n) == 8 * ((n - 1) \div 3) + 2 + ((n - 1) % 3) \div 2
  IN  [fs |-> [sb |-> sb, block_size |-> 24, bgdt |-> <<2, 2>>, blocks |-> [num \in good |-> ToolBlock(num)]],
       holds |-> [bg |-> [num \in {0, 1} |-> <<2>>], inode |-> [n \in {n \in 1 .. 6 : at(n) \notin bad} |-> ToolInode(n)],
                  block |-> [num \in good |-> [a \in 0 .. 23 |-> ToolBlock(num)[a + 1]]]]]
ToolBoard(chip, bad, cf, mounted) ==
  [chip |-> chip, cf |-> cf, mounted |-> mounted, sound |-> mounted /\ Last(cf) = {"RDY", "DSC"},
   mem |-> [a \in 0 .. 2^WORD - 1 |-> IF a \in 8 .. 40 \/ a = 63 THEN 0 ELSE a]] @@ ToolDisk(bad)
ToolChip ==
  LET chip == ChipAt(CHOOSE i \in Instants : TRUE, FALSE, FALSE, TRUE, TRUE)
  IN  [chip EXCEPT !.regs = [r \in 1 .. 64 |-> IF r \in 24 .. 41 THEN 0 ELSE chip.regs[r]]]
ToolChips ==
  LET i == CHOOSE i \in Instants : TRUE
  IN  <<ChipAt(i, FALSE, FALSE, FALSE, TRUE), ChipAt(i, FALSE, FALSE, TRUE, FALSE), ChipAt(i, FALSE, TRUE, TRUE, TRUE)>>
MCComputers ==
  <<ToolBoard(ToolChip, {}, <<{}, {"RDY"}, {"DSC"}, {"RDY", "DSC"}>>, TRUE),
    ToolBoard(ToolChip, {3, 5}, <<{"RDY", "DSC"}>>, TRUE), ToolBoard(ToolChip, {}, <<{"RDY", "DSC"}>>, FALSE),
    ToolBoard(ToolChip, {}, <<{"RDY"}, {"DSC"}>>, TRUE)>>
  \o [k \in DOMAIN ToolChips |-> ToolBoard(ToolChips[k], {}, <<{"RDY", "DSC"}>>, TRUE)]
ToolDumps == {"dump", "du 8", "DUMP x_+9 9", "dump 0 )", "dump )", "dump -2 A", "dump 2 9+8-2", "dump 20 21 8", "dum -1", "dump 9 0", "eval 8"}
ToolErases == {"rtc erase", "RTC Er now", "rtc e", "show rtc"}
ToolShows == {"show rtc", "SH rt nv", "show rtc nvram", "show rtc nv x", "show rtc he", "show rtc n", "dump", "rtc er"}
ToolOthers ==
  {"d", "e 1", "eval", "ev 1 + A * 2", "eval (1 - A", "eval 1 2", "eval 9/0 ,1", "EVAL -(A)  - -  (1 <<1) ", "rtc", "r", "rtc help", "rtc help x",
   "rtc ti", "rtc time 1", "rtc erases", "show", "show he", "show b 1", "show bgs 1", "show bg", "show bg 0", "SHOW BG 1", "show bg 2", "show bg 1 1",
   "show su", "show super 1", "show x", "vars", "vars 1", "va", "he", "help x", "quits", "Q", "", " dump", "unknown"}
  \cup UNION {{"show inode " \o n, "sh bl " \o n} : n \in {"0", "1", "2", "3", "4", "5", "6", "7", "8", "9", "10", "11", "15", "16", "99", "-1"}}
Told(k, strs) == [on |-> k, typed |-> [n \in DOMAIN strs |-> Chars(strs[n])]]
MCDiagnoses ==
  [n \in 0 .. 3 |->
     CASE n = 0 -> {Told(1, <<a, b, c>>) : a, b, c \in ToolDumps}
       [] n = 1 -> {Told(1, <<a, b>>) : a \in ToolOthers, b \in {"dump", "quit", "show rtc nvram"}}
       [] n = 2 -> {Told(k, <<a, b, "qui", "dump">>) : k \in DOMAIN MCComputers, a \in ToolErases, b \in ToolShows}
       [] n = 3 -> {Told(k, <<a>>) : k \in {1, 2, 3}, a \in ToolOthers}]
\* Cards whose partitions, of at most two sectors and some of none, lie one behind the
\* other in this order or the reverse, from sector 1 or with a gap; up to two such cards.
Tables ==
  {[k \in 1 .. 4 |->
      LET place == IF turned THEN 5 - k ELSE k
      IN  [start_sector |-> 1 + gap * place + 2 * (place - 1), num_sectors |-> sizes[k]]] :
     sizes \in [1 .. 4 -> 0 .. 2], turned \in BOOLEAN, gap \in {0, 3}}
TableCards(tables) == [readable : BOOLEAN, signed : BOOLEAN, table : tables]
MCPartitionTables ==
  <<{<<card>> : card \in TableCards(Tables)},
    LET some == {table \in Tables : table[1].start_sector = 1 /\ \A k \in 1 .. 4 : table[k].num_sectors # 2}
    IN  {<<card0, card1>> : card0 \in TableCards(some), card1 \in TableCards(some)}>>

==============================================================================
