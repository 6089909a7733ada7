---------------------------- MODULE Disassembler ----------------------------
(***************************************************************************)
(* What disasm_cmd.c takes an instruction for: its name, and how many      *)
(* words it has.  The name decides what the reader is told, the length     *)
(* where the next line of the listing starts.  Each group of opcodes is a  *)
(* list of tests in the order of the code, the first that holds decides;   *)
(* masks overlap, and the order is what keeps one instruction from hiding  *)
(* another.  Operands are left out but for the words they take.            *)
(*                                                                         *)
(* w is every word behind the opcode.  A name is a stem, a condition code  *)
(* or NoCond, and the size its suffix shows, 0 if it shows none.           *)
(***************************************************************************)
EXTENDS Naturals, Sequences
LOCAL INSTANCE SequencesExt

LOCAL Nibble == 0 .. 15
LOCAL And[x \in 0 .. 15, y \in 0 .. 15] ==
  IF x = 0 \/ y = 0 THEN 0 ELSE 2 * And[x \div 2, y \div 2] + (x % 2) * (y % 2)
LOCAL Table == [x \in Nibble |-> [y \in Nibble |-> And[x, y]]]

\* C's & on 16 bits, and a field of a word.
x & y ==
  Table[x % 16][y % 16] + 16 * Table[(x \div 16) % 16][(y \div 16) % 16]
  + 256 * Table[(x \div 256) % 16][(y \div 256) % 16] + 4096 * Table[x \div 4096][y \div 4096]
Bits(x, low, n) == (x \div 2^low) % 2^n

NoCond == 16
Cond(op) == Bits(op, 8, 4)
Insn(stem, cond, size, words) ==
  [stem |-> stem, cond |-> cond, size |-> size, words |-> words + 1]

\* The first test that holds.
First(tests) ==
  LET holds == {i \in DOMAIN tests : tests[i][1]}
  IN  tests[CHOOSE i \in holds : \A j \in holds : i <= j][2]

szb(size) == CASE size = 0 -> 1 [] size = 1 -> 2 [] OTHER -> 4
Words(size) == IF size = 4 THEN 2 ELSE 1

(***************************************************************************)
(* Words an operand takes.                                                 *)
(***************************************************************************)
decode_ext_wordBaseOnly(w) ==
  IF Bits(w, 8, 1) = 0 THEN 1
  ELSE 1 + (CASE Bits(w, 4, 2) = 2 -> 1 [] Bits(w, 4, 2) = 3 -> 2 [] OTHER -> 0)
decode_ext_word(w) ==
  IF Bits(w, 8, 1) = 0 THEN 1
  ELSE 1 + (CASE Bits(w, 4, 2) = 2 -> 1 [] Bits(w, 4, 2) = 3 -> 2 [] OTHER -> 0)
         + (CASE Bits(w, 0, 2) = 2 -> 1 [] Bits(w, 0, 2) = 3 -> 2 [] OTHER -> 0)

ea_str(mode, reg, size, w) ==
  CASE mode = 5 -> 1
    [] mode = 6 -> decode_ext_word(w)
    [] mode = 7 /\ reg \in {0, 2} -> 1
    [] mode = 7 /\ reg = 1 -> 2
    [] mode = 7 /\ reg = 3 -> decode_ext_word(w)
    [] mode = 7 /\ reg = 4 -> Words(size)
    [] OTHER -> 0

\* The operand in the low six bits.
Ea(op, size, w) == ea_str(Bits(op, 3, 3), Bits(op, 0, 3), size, w)
Mode(op) == Bits(op, 3, 3)
Size(op) == Bits(op, 6, 2)

unknown == Insn("dc", NoCond, 2, 0)

BitNames == <<"btst", "bchg", "bclr", "bset">>
BitInsn(op, words, w) ==
  Insn(BitNames[Size(op) + 1], NoCond, IF Mode(op) = 0 THEN 4 ELSE 1, words + Ea(op, 1, w))

decode_0000(op, w) ==
  LET size == szb(Size(op))
      type == Bits(op, 9, 3)
      names == <<"ori", "andi", "subi", "addi", "NULL", "eori", "cmpi", "NULL">>
  IN First(<<
    <<op \in {\h003C, \h007C}, Insn("ori", NoCond, 0, 1)>>,
    <<op \in {\h023C, \h027C}, Insn("andi", NoCond, 0, 1)>>,
    <<op \in {\h0A3C, \h0A7C}, Insn("eori", NoCond, 0, 1)>>,
    <<op & \hF9C0 = \h00C0 /\ Bits(op, 9, 2) # 3,
      Insn(IF Bits(w, 11, 1) = 1 THEN "chk2" ELSE "cmp2", NoCond, szb(Bits(op, 9, 2)),
           1 + Ea(op, szb(Bits(op, 9, 2)), w))>>,
    <<op & \hF800 <= \h0E00 /\ op & \h0100 = 0 /\ names[type + 1] # "NULL" /\ Size(op) # 3,
      Insn(names[type + 1], NoCond, size, Words(size) + Ea(op, size, w))>>,
    <<Mode(op) = 1 /\ op & \h0100 # 0 /\ Bits(op, 6, 3) \in 4 .. 7,
      Insn("movep", NoCond, IF Bits(op, 6, 1) = 1 THEN 4 ELSE 2, 1)>>,
    <<op & \h0100 # 0, BitInsn(op, 0, w)>>,
    <<Bits(op, 8, 8) \in {8, 9, 10, 11}, BitInsn(op, 1, w)>>,
    <<TRUE, unknown>> >>)

decode_move(op, w) ==
  LET szf == Bits(op, 12, 2)
      size == CASE szf = 1 -> 1 [] szf = 3 -> 2 [] OTHER -> 4
  IN  Insn(IF Bits(op, 6, 3) = 1 THEN "movea" ELSE "move", NoCond, size,
           Ea(op, size, w) + ea_str(Bits(op, 6, 3), Bits(op, 9, 3), size, w))

\* The operand in the low six bits is the only one that takes words.
Unary(stem, shown, size, op, w) == Insn(stem, NoCond, shown, Ea(op, size, w))
Plain(stem, words) == Insn(stem, NoCond, 0, words)

\* The tests of decode_0100, in their order.
Fixed(op) ==
  <<<<op = \h4E70, Plain("reset", 0)>>, <<op = \h4E71, Plain("nop", 0)>>,
    <<op = \h4E72, Plain("stop", 1)>>,  <<op = \h4E73, Plain("rte", 0)>>,
    <<op = \h4E74, Plain("rtd", 1)>>,   <<op = \h4E75, Plain("rts", 0)>>,
    <<op = \h4E76, Plain("trapv", 0)>>, <<op = \h4E77, Plain("rtr", 0)>>,
    <<op = \h4AFC, Plain("illegal", 0)>> >>
OneOperand(op, w) ==
  LET size == szb(Size(op)) opmode == Bits(op, 6, 3)
  IN <<
    <<op & \hFFC0 \in {\h40C0, \h42C0, \h44C0, \h46C0}, Unary("move", 0, 2, op, w)>>,
    <<op & \hF900 = \h4000 /\ Size(op) # 3,
      Unary(<<"negx", "clr", "neg", "not">>[Bits(op, 9, 2) + 1], size, size, op, w)>>,
    <<op & \hFF00 = \h4A00 /\ Size(op) # 3, Unary("tst", size, size, op, w)>>,
    <<op & \hFFC0 = \h4AC0, Unary("tas", 0, 1, op, w)>>,
    <<op & \hFFF8 = \h4840, Plain("swap", 0)>>,
    <<op & \hFFC0 = \h4840, Unary("pea", 0, 4, op, w)>>,
    <<op & \hFE38 = \h4800 /\ opmode = 2, Insn("ext", NoCond, 2, 0)>>,
    <<op & \hFE38 = \h4800 /\ opmode = 3, Insn("ext", NoCond, 4, 0)>>,
    <<op & \hFE38 = \h4800 /\ opmode = 7, Insn("extb", NoCond, 4, 0)>> >>
Transfers(op, w) == <<
    <<op & \hFFF8 = \h4E50, Insn("link", NoCond, 2, 1)>>,
    <<op & \hFFF8 = \h4808, Insn("link", NoCond, 4, 2)>>,
    <<op & \hFFF8 = \h4E58, Plain("unlk", 0)>>,
    <<op & \hFFF0 = \h4E60, Plain("move", 0)>>,
    <<op & \hFFC0 = \h4800, Unary("nbcd", 0, 1, op, w)>>,
    <<op & \hFFC0 = \h4E80, Unary("jsr", 0, 4, op, w)>>,
    <<op & \hFFC0 = \h4EC0, Unary("jmp", 0, 4, op, w)>>,
    <<op & \hFB40 = \h4840,
      Insn("movem", NoCond, IF Bits(op, 7, 1) = 1 THEN 4 ELSE 2, 1 + Ea(op, 4, w))>>,
    <<op & \hF1C0 = \h41C0, Unary("lea", 0, 4, op, w)>> >>
LongArithmetic(op, w) ==
  LET opmode == Bits(op, 6, 3)
      Signed(s, u) == IF Bits(w, 15, 1) = 1 THEN s ELSE u
  IN <<
    <<op & \hFFC0 = \h4C00, Insn(Signed("muls", "mulu"), NoCond, 4, 1 + Ea(op, 4, w))>>,
    <<op & \hFFC0 = \h4C40, Insn(Signed("divs", "divu"), NoCond, 4, 1 + Ea(op, 4, w))>>,
    <<opmode = 6, Unary("chk", 2, 2, op, w)>>,
    <<opmode = 4, Unary("chk", 4, 4, op, w)>>,
    <<op & \hFFF0 = \h4E40, Plain("trap", 0)>> >>
decode_0100(op, w) ==
  First(Fixed(op) \o OneOperand(op, w) \o Transfers(op, w) \o LongArithmetic(op, w)
          \o <<<<TRUE, unknown>>>>)

decode_0101(op, w) ==
  LET size == szb(Size(op)) reg == Bits(op, 0, 3)
  IN First(<<
    <<Size(op) # 3,
      Unary(IF Bits(op, 8, 1) = 0 THEN "addq" ELSE "subq", size, size, op, w)>>,
    <<Mode(op) = 1, Insn("db", Cond(op), 0, 1)>>,
    <<Mode(op) = 7 /\ reg \in {2, 3, 4},
      Insn("trap", Cond(op), 0, CASE reg = 2 -> 1 [] reg = 3 -> 2 [] OTHER -> 0)>>,
    <<TRUE, Insn("s", Cond(op), 0, Ea(op, 1, w))>> >>)

\* .s, the suffix of a branch with its displacement in the opcode, counts as size 1.
decode_0110(op, w) ==
  LET size == CASE op & \hFF = 0 -> 2 [] op & \hFF = \hFF -> 4 [] OTHER -> 1
      words == CASE size = 2 -> 1 [] size = 4 -> 2 [] OTHER -> 0
  IN CASE Cond(op) = 0 -> Insn("bra", NoCond, size, words)
       [] Cond(op) = 1 -> Insn("bsr", NoCond, size, words)
       [] OTHER -> Insn("b", Cond(op), size, words)

decode_0111(op, w) == Plain("moveq", 0)

decode_alu_family(op, w, base_name, allow_x, is_cmp_eor) ==
  LET opmode == Bits(op, 6, 3)
      size == szb(opmode % 4)
      address == IF opmode = 3 THEN 2 ELSE 4
      stems == CASE base_name = "add" -> [a |-> "adda", x |-> "addx"]
                 [] base_name = "sub" -> [a |-> "suba", x |-> "subx"]
                 [] base_name = "cmp" -> [a |-> "cmpa", x |-> "cmpx"]
                 [] base_name = "and" -> [a |-> "anda", x |-> "andx"]
                 [] OTHER -> [a |-> "ora", x |-> "orx"]
  IN First(<<
    <<opmode \in {3, 7}, Unary(stems.a, address, address, op, w)>>,
    <<opmode >= 4 /\ allow_x /\ Mode(op) \in {0, 1}, Insn(stems.x, NoCond, size, 0)>>,
    <<is_cmp_eor /\ opmode >= 4 /\ Mode(op) = 1, Insn("cmpm", NoCond, size, 0)>>,
    <<opmode <= 2, Unary(base_name, size, size, op, w)>>,
    <<TRUE, Unary(IF is_cmp_eor THEN "eor" ELSE base_name, size, size, op, w)>> >>)

decode_1000(op, w) ==
  LET opmode == Bits(op, 6, 3) registers == Mode(op) \in {0, 1}
  IN First(<<
    <<opmode = 3, Unary("divu", 2, 2, op, w)>>,
    <<opmode = 7, Unary("divs", 2, 2, op, w)>>,
    <<opmode = 4 /\ registers, Plain("sbcd", 0)>>,
    <<opmode = 5 /\ registers, Plain("pack", 1)>>,
    <<opmode = 6 /\ registers, Plain("unpk", 1)>>,
    <<TRUE, decode_alu_family(op, w, "or", FALSE, FALSE)>> >>)

decode_1100WithoutExg(op, w) ==
  LET opmode == Bits(op, 6, 3)
  IN First(<<
    <<opmode = 3, Unary("mulu", 2, 2, op, w)>>,
    <<opmode = 7, Unary("muls", 2, 2, op, w)>>,
    <<opmode = 4 /\ Mode(op) \in {0, 1}, Plain("abcd", 0)>>,
    <<TRUE, decode_alu_family(op, w, "and", TRUE, FALSE)>> >>)
decode_1100(op, w) ==
  LET opmode == Bits(op, 6, 3)
  IN First(<<
    <<opmode = 3, Unary("mulu", 2, 2, op, w)>>,
    <<opmode = 7, Unary("muls", 2, 2, op, w)>>,
    <<opmode = 4 /\ Mode(op) \in {0, 1}, Plain("abcd", 0)>>,
    <<op & \hF1F8 \in {\hC140, \hC148, \hC188}, Plain("exg", 0)>>,
    <<TRUE, decode_alu_family(op, w, "and", TRUE, FALSE)>> >>)

\* The direction is part of the stem.
ShiftName(type, dir) ==
  (IF dir = 1 THEN <<"asl", "lsl", "roxl", "rol">> ELSE <<"asr", "lsr", "roxr", "ror">>)[type + 1]

decode_1110(op, w) ==
  First(<<
    <<Size(op) = 3 /\ op & \h0800 # 0,
      Plain(<<"bftst", "bfextu", "bfchg", "bfexts", "bfclr", "bfffo", "bfset", "bfins">>
              [Bits(op, 8, 3) + 1], 1 + Ea(op, 1, w))>>,
    <<Size(op) = 3, Unary(ShiftName(Bits(op, 9, 2), Bits(op, 8, 1)), 2, 2, op, w)>>,
    <<TRUE, Insn(ShiftName(Bits(op, 3, 2), Bits(op, 8, 1)), NoCond, szb(Size(op)), 0)>> >>)

decode(op, w) ==
  LET group == Bits(op, 12, 4)
  IN CASE group = 0 -> decode_0000(op, w)
       [] group \in {1, 2, 3} -> decode_move(op, w)
       [] group = 4 -> decode_0100(op, w)
       [] group = 5 -> decode_0101(op, w)
       [] group = 6 -> decode_0110(op, w)
       [] group = 7 -> decode_0111(op, w)
       [] group = 8 -> decode_1000(op, w)
       [] group = 9 -> decode_alu_family(op, w, "sub", TRUE, FALSE)
       [] group = 11 -> decode_alu_family(op, w, "cmp", FALSE, TRUE)
       [] group = 12 -> decode_1100(op, w)
       [] group = 13 -> decode_alu_family(op, w, "add", TRUE, FALSE)
       [] group = 14 -> decode_1110(op, w)
       [] OTHER -> unknown

------------------------------------------------------------------------------
(* The disassemble command: which instructions it lists, one after the     *)
(* other from where it is told to or where it stopped the last time, and   *)
(* the words it shows of each.  Memory ends at TOP.                        *)

CONSTANTS TOP, num_instructions_to_list
ASSUME TopAssumption == TOP \in Nat /\ TOP % 2 = 1

Address(pos) == pos % (TOP + 1)
fetch_byte(mem, addr) == mem[Address(addr)]
\* A word; at the top there is none, and the position stays.
fetch16(mem, pos) ==
  IF Address(pos) = TOP THEN 0 ELSE 256 * fetch_byte(mem, pos) + fetch_byte(mem, pos + 1)
truncated(pos, words) == \E k \in 0 .. words - 1 : Address(pos + 2 * k) = TOP

\* As many words as the buffer has room for; none of an instruction that goes on at 0.
HEX_WORDS == 12
print_hexbytes(mem, start, end) ==
  LET words == IF end <= start THEN 0 ELSE (end - start) \div 2
  IN  [k \in 1 .. (IF words > HEX_WORDS THEN HEX_WORDS ELSE words) |->
         256 * fetch_byte(mem, start + 2 * k - 2) + fetch_byte(mem, start + 2 * k - 1)]

\* The line an instruction is listed in, and where the next one starts.
LineOf(mem, start, insn) ==
  LET cut == truncated(start, insn.words)
      next == Address(start + 2 * (IF cut THEN 1 ELSE insn.words))
  IN  [at |-> start, stem |-> IF cut THEN "dc" ELSE insn.stem, bytes |-> print_hexbytes(mem, start, next), next |-> next]
disasm_line(mem, start) == LineOf(mem, start, decode(fetch16(mem, start), fetch16(mem, start + 2)))

\* What is kept from one command to the next: the position and the number of lines.
AtStart == [pos |-> 0, lines |-> num_instructions_to_list]
Nowhere(kept) == [kept |-> kept, listed |-> <<>>]
Lined(s, line) == [s EXCEPT !.kept.pos = line.next, !.listed = Append(@, line)]
ListedFrom(mem, kept) ==
  FoldLeft(LAMBDA s, n : Lined(s, disasm_line(mem, s.kept.pos)), Nowhere(kept), [n \in 1 .. kept.lines |-> n])
handle_disasm_command(mem, kept, vals) ==
  LET argc == Len(vals)
      failed == {n \in 2 .. argc : vals[n].err # "OK"}
      placed == [kept EXCEPT !.pos = IF argc > 1 THEN vals[2].v ELSE @]
  IN  IF argc > 3 \/ 2 \in failed THEN Nowhere(kept)
      ELSE IF 3 \in failed THEN Nowhere(placed)
      ELSE ListedFrom(mem, [placed EXCEPT !.lines = IF argc = 3 THEN vals[3].v ELSE @])
==============================================================================
