------------------------------- MODULE M68030 -------------------------------
(***************************************************************************)
(* The instructions of the 68030, as its programmer's manual lists them:   *)
(* the bits that are fixed, the addressing modes an operand may have, and  *)
(* the words that follow the opcode.  No order: at most one instruction    *)
(* fits an opcode.  The coprocessor instructions are left out.  This is    *)
(* what the disassembler is compared with, and uses nothing of it.         *)
(***************************************************************************)
EXTENDS Naturals, Sequences, FiniteSets

\* Addressing modes: 0 .. 6 by the mode field, 7 .. 11 by the register of mode 7.
Modes       == 0 .. 11
Data        == Modes \ {1}
Control     == {2, 5, 6, 7, 8, 9, 10}
Alterable   == 0 .. 8
DataAlt     == Alterable \ {1}
MemoryAlt   == 2 .. 8
ControlAlt  == Control \cap Alterable
Bitfield    == Control \cup {0}
BitfieldAlt == ControlAlt \cup {0}
Relative    == {9, 10}

Field(op, low, n) == (op \div 2^low) % 2^n
ModeOf(op) == IF Field(op, 3, 3) < 7 THEN Field(op, 3, 3) ELSE 7 + Field(op, 0, 3)
\* The destination of a MOVE has its fields the other way round.
Destination(op) == IF Field(op, 6, 3) < 7 THEN Field(op, 6, 3) ELSE 7 + Field(op, 9, 3)

\* Words of an addressing mode: w is the extension word.  A full extension word
\* tells the size of the base and of the outer displacement.
Displacement(size) == IF size = 2 THEN 1 ELSE IF size = 3 THEN 2 ELSE 0
ExtensionWords(w) ==
  IF Field(w, 8, 1) = 0 THEN 1
  ELSE 1 + Displacement(Field(w, 4, 2)) + Displacement(Field(w, 0, 3) % 4)
ModeWords(mode, size, w) ==
  CASE mode \in {5, 7, 9} -> 1
    [] mode = 8 -> 2
    [] mode \in {6, 10} -> ExtensionWords(w)
    [] mode = 11 -> IF size = 4 THEN 2 ELSE 1
    [] OTHER -> 0

(***************************************************************************)
(* An instruction: its name, an opcode, where that leaves the bits free    *)
(* (as <<low, n>>), the operand's modes ({} if the low bits are no         *)
(* operand), its size, and the words between the opcode and the operand's. *)
(***************************************************************************)
Fits(op, value, free) ==
  LET Rest(n) == LET Drop[k \in 0 .. Len(free)] ==
                       IF k = 0 THEN n
                       ELSE Drop[k - 1] - 2^free[k][1] * Field(n, free[k][1], free[k][2])
                 IN  Drop[Len(free)]
  IN  Rest(op) = value
Ins(stem, value, free, modes, size, words) ==
  [stem |-> stem, value |-> value, free |-> free, modes |-> modes, size |-> size,
   words |-> words, cond |-> FALSE]
Conditional(i) == [i EXCEPT !.cond = TRUE]

ea == <<0, 6>>
rx == <<9, 3>>
ry == <<0, 3>>
cc == <<8, 4>>
imm(size) == IF size = 4 THEN 2 ELSE 1

\* The same in three sizes, the size field in bits 7 and 6.
Sized(stem, value, free, modes, immediate) ==
  {Ins(stem, value + 64 * s, free, IF s = 0 THEN modes \ {1} ELSE modes, 2^s,
       IF immediate THEN imm(2^s) ELSE 0) : s \in 0 .. 2}
Each(stems, F(_, _)) == UNION {F(stems[k], k - 1) : k \in DOMAIN stems}

Group0 ==
  LET Immediate(stem, value, modes) == Sized(stem, value, <<ea>>, modes, TRUE)
      \* Of a register 32 bits can be tested, of memory a byte.
      Bit(stem, k) ==
        LET memory == IF k = 0 THEN Data \ {0} ELSE MemoryAlt
        IN  {Ins(stem, \h0100 + 64 * k, <<ea, rx>>, {0}, 4, 0),
             Ins(stem, \h0100 + 64 * k, <<ea, rx>>, memory, 1, 0),
             Ins(stem, \h0800 + 64 * k, <<ea>>, {0}, 4, 1),
             Ins(stem, \h0800 + 64 * k, <<ea>>, memory \ {11}, 1, 1)}
  IN  Immediate("ori", \h0000, DataAlt) \cup Immediate("andi", \h0200, DataAlt)
      \cup Immediate("subi", \h0400, DataAlt) \cup Immediate("addi", \h0600, DataAlt)
      \cup Immediate("eori", \h0A00, DataAlt)
      \cup Immediate("cmpi", \h0C00, DataAlt \cup Relative)
      \cup {Ins("ori", v, <<>>, {}, 1, 1) : v \in {\h003C, \h007C}}
      \cup {Ins("andi", v, <<>>, {}, 1, 1) : v \in {\h023C, \h027C}}
      \cup {Ins("eori", v, <<>>, {}, 1, 1) : v \in {\h0A3C, \h0A7C}}
      \cup Each(<<"btst", "bchg", "bclr", "bset">>, Bit)
      \cup {Ins("cmp2", \h00C0 + 512 * s, <<ea>>, Control, 2^s, 1) : s \in 0 .. 2}
      \cup {Ins("cas", \h0AC0 + 512 * s, <<ea>>, MemoryAlt, 2^s, 1) : s \in 0 .. 2}
      \cup {Ins("cas2", v, <<>>, {}, 2, 2) : v \in {\h0CFC, \h0EFC}}
      \cup {Ins("moves", \h0E00 + 64 * s, <<ea>>, MemoryAlt, 2^s, 1) : s \in 0 .. 2}
      \cup {Ins("movep", \h0108 + 64 * s, <<ry, rx>>, {}, IF s % 2 = 0 THEN 2 ELSE 4, 1)
              : s \in 0 .. 3}

Moves ==
  UNION {LET size == CASE z = 1 -> 1 [] z = 3 -> 2 [] z = 2 -> 4
             source == IF z = 1 THEN Data ELSE Modes
         IN  {Ins("move", 4096 * z, <<<<0, 12>>>>, source, size, 0)}
         : z \in 1 .. 3}

Group4 ==
  {Ins("move", v, <<ea>>, DataAlt, 2, 0) : v \in {\h40C0, \h42C0}}
  \cup {Ins("move", v, <<ea>>, Data, 2, 0) : v \in {\h44C0, \h46C0}}
  \cup {Ins("move", v, <<ry>>, {}, 4, 0) : v \in {\h4E60, \h4E68}}
  \cup Sized("negx", \h4000, <<ea>>, DataAlt, FALSE) \cup Sized("clr", \h4200, <<ea>>, DataAlt, FALSE)
  \cup Sized("neg", \h4400, <<ea>>, DataAlt, FALSE) \cup Sized("not", \h4600, <<ea>>, DataAlt, FALSE)
  \cup Sized("tst", \h4A00, <<ea>>, Modes, FALSE)
  \cup {Ins("tas", \h4AC0, <<ea>>, DataAlt, 1, 0), Ins("nbcd", \h4800, <<ea>>, DataAlt, 1, 0),
        Ins("pea", \h4840, <<ea>>, Control, 4, 0), Ins("lea", \h41C0, <<ea, rx>>, Control, 4, 0),
        Ins("jsr", \h4E80, <<ea>>, Control, 0, 0), Ins("jmp", \h4EC0, <<ea>>, Control, 0, 0),
        Ins("chk", \h4180, <<ea, rx>>, Data, 2, 0), Ins("chk", \h4100, <<ea, rx>>, Data, 4, 0),
        Ins("mulu", \h4C00, <<ea>>, Data, 4, 1), Ins("divu", \h4C40, <<ea>>, Data, 4, 1),
        Ins("swap", \h4840, <<ry>>, {}, 2, 0), Ins("bkpt", \h4848, <<ry>>, {}, 0, 0),
        Ins("ext", \h4880, <<ry>>, {}, 2, 0), Ins("ext", \h48C0, <<ry>>, {}, 4, 0),
        Ins("extb", \h49C0, <<ry>>, {}, 4, 0), Ins("link", \h4E50, <<ry>>, {}, 2, 1),
        Ins("link", \h4808, <<ry>>, {}, 4, 2), Ins("unlk", \h4E58, <<ry>>, {}, 0, 0),
        Ins("trap", \h4E40, <<<<0, 4>>>>, {}, 0, 0), Ins("movec", \h4E7A, <<<<0, 1>>>>, {}, 4, 1),
        Ins("reset", \h4E70, <<>>, {}, 0, 0), Ins("nop", \h4E71, <<>>, {}, 0, 0),
        Ins("stop", \h4E72, <<>>, {}, 0, 1), Ins("rte", \h4E73, <<>>, {}, 0, 0),
        Ins("rtd", \h4E74, <<>>, {}, 0, 1), Ins("rts", \h4E75, <<>>, {}, 0, 0),
        Ins("trapv", \h4E76, <<>>, {}, 0, 0), Ins("rtr", \h4E77, <<>>, {}, 0, 0),
        Ins("illegal", \h4AFC, <<>>, {}, 0, 0)}
  \cup UNION {{Ins("movem", \h4880 + 64 * s, <<ea>>, ControlAlt \cup {4}, 2 * 2^s, 1),
               Ins("movem", \h4C80 + 64 * s, <<ea>>, Control \cup {3}, 2 * 2^s, 1)} : s \in 0 .. 1}

Group5 ==
  Sized("addq", \h5000, <<ea, rx>>, Alterable, FALSE)
  \cup Sized("subq", \h5100, <<ea, rx>>, Alterable, FALSE)
  \cup {Conditional(i) : i \in
         {Ins("s", \h50C0, <<ea, cc>>, DataAlt, 1, 0), Ins("db", \h50C8, <<ry, cc>>, {}, 2, 1),
          Ins("trap", \h50FA, <<cc>>, {}, 2, 1), Ins("trap", \h50FB, <<cc>>, {}, 4, 2),
          Ins("trap", \h50FC, <<cc>>, {}, 0, 0)}}

Branches ==
  LET Branch(stem, value) ==
        {Ins(stem, value + low, <<>>, {}, IF low = 0 THEN 2 ELSE IF low = 255 THEN 4 ELSE 1,
             IF low = 0 THEN 1 ELSE IF low = 255 THEN 2 ELSE 0) : low \in 0 .. 255}
      OnCondition(c) == {Conditional(i) : i \in Branch("b", \h6000 + 256 * c)}
  IN  Branch("bra", \h6000) \cup Branch("bsr", \h6100) \cup UNION {OnCondition(c) : c \in 2 .. 15}

Shifts ==
  LET Way(stem, k, left) ==
        {Ins(stem, \hE000 + 8 * k + 256 * left + 64 * s, <<<<5, 1>>, ry, rx>>, {}, 2^s, 0) : s \in 0 .. 2}
        \cup {Ins(stem, \hE0C0 + 512 * k + 256 * left, <<ea>>, MemoryAlt, 2, 0)}
      Left(stem, k) == Way(stem, k, 1)
      Right(stem, k) == Way(stem, k, 0)
      Alters == {"bfchg", "bfclr", "bfset", "bfins"}
      OfField(stem, k) ==
        {Ins(stem, \hE8C0 + 256 * k, <<ea>>, IF stem \in Alters THEN BitfieldAlt ELSE Bitfield, 0, 1)}
  IN  Each(<<"asl", "lsl", "roxl", "rol">>, Left) \cup Each(<<"asr", "lsr", "roxr", "ror">>, Right)
      \cup Each(<<"bftst", "bfextu", "bfchg", "bfexts", "bfclr", "bfffo", "bfset", "bfins">>, OfField)

Arithmetic ==
  LET FromEa(stem, value, modes) == Sized(stem, value, <<ea, rx>>, modes, FALSE)
      ToEa(stem, value, modes) == Sized(stem, value + \h0100, <<ea, rx>>, modes, FALSE)
      Address(stem, value) == {Ins(stem, value + \h00C0, <<ea, rx>>, Modes, 2, 0),
                               Ins(stem, value + \h01C0, <<ea, rx>>, Modes, 4, 0)}
      Extended(stem, value) == Sized(stem, value + \h0100, <<ry, <<3, 1>>, rx>>, {}, FALSE)
      Pair(stem, value, words) == {Ins(stem, value, <<ry, <<3, 1>>, rx>>, {}, 1, words)}
      Word(stem, value) == {Ins(stem, value, <<ea, rx>>, Data, 2, 0)}
  IN  FromEa("or", \h8000, Data) \cup ToEa("or", \h8000, MemoryAlt)
      \cup FromEa("sub", \h9000, Modes) \cup ToEa("sub", \h9000, MemoryAlt)
      \cup Address("suba", \h9000) \cup Extended("subx", \h9000)
      \cup FromEa("cmp", \hB000, Modes) \cup ToEa("eor", \hB000, DataAlt) \cup Address("cmpa", \hB000)
      \cup Sized("cmpm", \hB108, <<ry, rx>>, {}, FALSE)
      \cup FromEa("and", \hC000, Data) \cup ToEa("and", \hC000, MemoryAlt)
      \cup FromEa("add", \hD000, Modes) \cup ToEa("add", \hD000, MemoryAlt)
      \cup Address("adda", \hD000) \cup Extended("addx", \hD000)
      \cup Word("divu", \h80C0) \cup Word("divs", \h81C0) \cup Word("mulu", \hC0C0) \cup Word("muls", \hC1C0)
      \cup Pair("sbcd", \h8100, 0) \cup Pair("abcd", \hC100, 0) \cup Pair("pack", \h8140, 1)
      \cup Pair("unpk", \h8180, 1)
      \cup {Ins("exg", v, <<ry, rx>>, {}, 4, 0) : v \in {\hC140, \hC148, \hC188}}
      \cup {Ins("moveq", \h7000, <<<<0, 8>>, rx>>, {}, 4, 0)}

\* By the first four bits.
Group(g) ==
  CASE g = 0 -> Group0
    [] g \in {1, 2, 3} -> {i \in Moves : i.value \div 4096 = g}
    [] g = 4 -> Group4
    [] g = 5 -> Group5
    [] g = 6 -> Branches
    [] g = 14 -> Shifts
    [] OTHER -> {i \in Arithmetic : i.value \div 4096 = g}
Groups == [g \in 0 .. 15 |-> Group(g)]

Valid(i, op) ==
  /\ Fits(op, i.value, i.free)
  /\ i.modes # {} => ModeOf(op) \in i.modes
  /\ i.stem = "move" /\ i.value < \h4000 =>
       Destination(op) \in Alterable /\ (Destination(op) = 1 => i.size # 1)

\* The branches are 4096 instructions here, each with one opcode.
Matching(op) ==
  {i \in Groups[op \div 4096] : (op \div 4096 = 6 => i.value = op) /\ Valid(i, op)}

Length(i, op, w) ==
  1 + i.words + (IF i.modes = {} THEN 0 ELSE ModeWords(ModeOf(op), i.size, w))
    + (IF i.stem = "move" /\ i.value < \h4000 THEN ModeWords(Destination(op), i.size, w) ELSE 0)

\* Names that depend on more than the opcode.
NameOf(i, op, w) ==
  CASE i.stem = "cmp2" -> IF Field(w, 11, 1) = 1 THEN "chk2" ELSE "cmp2"
    [] i.stem \in {"mulu", "divu"} /\ i.size = 4 ->
         IF Field(w, 11, 1) = 0 THEN i.stem ELSE IF i.stem = "mulu" THEN "muls" ELSE "divs"
    [] i.stem = "move" /\ i.value < \h4000 /\ Destination(op) = 1 -> "movea"
    [] OTHER -> i.stem
CondOf(i, op) == IF i.cond THEN Field(op, 8, 4) ELSE 16
=============================================================================
