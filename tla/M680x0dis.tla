------------------------------ MODULE M680x0dis ------------------------------
(***************************************************************************)
(* The disassembler of files (programs/m680x0dis).  Its decoder is the     *)
(* monitor's, token for token, group by group; what differs is where words *)
(* come from and end, and what is listed when they do: a file has a length *)
(* and no word behind it, an instruction cut off by its end is listed as   *)
(* one word of data, and the listing goes on behind that word.             *)
(***************************************************************************)
EXTENDS Naturals, Sequences
LOCAL INSTANCE SequencesExt

\* No memory is read by what is taken from the monitor's disassembler.
LOCAL Same == INSTANCE Disassembler WITH TOP <- 1, num_instructions_to_list <- 0

decode_ext_word(w) == Same!decode_ext_word(w)
ea_str(mode, reg, size, w) == Same!ea_str(mode, reg, size, w)
set(stem, cond, size, words) == Same!Insn(stem, cond, size, words)
unknown == set("dc", Same!NoCond, 2, 0)

decode_0000(op, w) == Same!decode_0000(op, w)
decode_move(op, w) == Same!decode_move(op, w)
decode_0100(op, w) == Same!decode_0100(op, w)
decode_0101(op, w) == Same!decode_0101(op, w)
decode_0110(op, w) == Same!decode_0110(op, w)
decode_0111(op, w) == Same!decode_0111(op, w)
decode_alu_family(op, w, base_name, allow_x, is_cmp_eor) == Same!decode_alu_family(op, w, base_name, allow_x, is_cmp_eor)
decode_1000(op, w) == Same!decode_1000(op, w)
decode_1001(op, w) == decode_alu_family(op, w, "sub", TRUE, FALSE)
decode_1011(op, w) == decode_alu_family(op, w, "cmp", FALSE, TRUE)
decode_1100(op, w) == Same!decode_1100(op, w)
decode_1101(op, w) == decode_alu_family(op, w, "add", TRUE, FALSE)
decode_1110(op, w) == Same!decode_1110(op, w)
decode(op, w) ==
  LET group == op \div 4096
  IN CASE group = 0 -> decode_0000(op, w)
       [] group \in {1, 2, 3} -> decode_move(op, w)
       [] group = 4 -> decode_0100(op, w)
       [] group = 5 -> decode_0101(op, w)
       [] group = 6 -> decode_0110(op, w)
       [] group = 7 -> decode_0111(op, w)
       [] group = 8 -> decode_1000(op, w)
       [] group = 9 -> decode_1001(op, w)
       [] group = 11 -> decode_1011(op, w)
       [] group = 12 -> decode_1100(op, w)
       [] group = 13 -> decode_1101(op, w)
       [] group = 14 -> decode_1110(op, w)
       [] OTHER -> unknown

------------------------------------------------------------------------------
(* The file. *)

\* The word at a position of the file, counted in bytes from 0; 0 where there is none.
HasWord(buf, pos) == pos + 2 <= Len(buf)
fetch16(buf, pos) == IF HasWord(buf, pos) THEN 256 * buf[pos + 1] + buf[pos + 2] ELSE 0
truncated(buf, start, words) == ~HasWord(buf, start + 2 * (words - 1))

\* As many words as the text of 64 characters has room for.
HEX_WORDS == 12
print_hexbytes(buf, start, end) ==
  [k \in 1 .. (IF end - start > 2 * HEX_WORDS THEN HEX_WORDS ELSE (end - start) \div 2) |-> fetch16(buf, start + 2 * (k - 1))]

\* The line of the instruction at a position; addresses are those of the base.
LineOf(insn, buf, base, start) ==
  LET cut == truncated(buf, start, insn.words)
      end == start + 2 * (IF cut THEN 1 ELSE insn.words)
  IN  [at |-> base + start, stem |-> IF cut THEN "dc" ELSE insn.stem, bytes |-> print_hexbytes(buf, start, end), next |-> end]
Listing(buf, base) ==
  LET Listed(s, line) == [pos |-> line.next, lines |-> Append(s.lines, line)]
      More(s) == Listed(s, LineOf(decode(fetch16(buf, s.pos), fetch16(buf, s.pos + 2)), buf, base, s.pos))
  IN  FoldLeft(LAMBDA s, n : IF HasWord(buf, s.pos) THEN More(s) ELSE s, [pos |-> 0, lines |-> <<>>],
               [n \in 1 .. Len(buf) \div 2 |-> n]).lines

\* An argument is a text and the number strtoul takes it for.  What follows -a is the
\* base; everything else is the path, the last of them, -a too if nothing follows.
NoPath == ""
Arguments(argv) ==
  FoldLeft(LAMBDA a, i :
             IF a.isBase THEN [a EXCEPT !.base = argv[i].value, !.isBase = FALSE]
             ELSE IF argv[i].text = "-a" /\ i < Len(argv) THEN [a EXCEPT !.isBase = TRUE]
             ELSE [a EXCEPT !.path = argv[i].text],
           [base |-> 0, path |-> NoPath, isBase |-> FALSE], [i \in DOMAIN argv |-> i])
\* `files' are those that can be opened.
main(argv, files) ==
  LET asked == Arguments(argv)
  IN  IF asked.path = NoPath \/ asked.path \notin DOMAIN files THEN [rc |-> 1, lines |-> <<>>]
      ELSE IF files[asked.path] = <<>> THEN [rc |-> 1, lines |-> <<>>]
      ELSE [rc |-> 0, lines |-> Listing(files[asked.path], asked.base)]
==============================================================================
