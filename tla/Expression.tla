------------------------------ MODULE Expression ------------------------------
(***************************************************************************)
(* The monitor's expressions (expr.c): a lexer that reads one token ahead  *)
(* and a parser by recursive descent that computes as it goes and keeps    *)
(* the first error.  A text is a sequence of characters.  A long has WORD  *)
(* bits, a long long twice as many.                                        *)
(***************************************************************************)
EXTENDS Integers, Sequences
LOCAL INSTANCE SequencesExt

CONSTANTS
  WORD,         \* the width of a long
  Constants,    \* what start-up defines, in turn: names, as texts, and values
  MAX_CONSTANTS, MAX_CONSTANT_NAME \* what the table and a name's field in it hold

ASSUME ExpressionAssumption == WORD \in Nat \ {0} /\ 2 * WORD <= 30

Long(n) == ((n + 2^(WORD - 1)) % 2^WORD) - 2^(WORD - 1)

DigitValue ==
  [c \in {"0", "1", "2", "8", "9", "a", "b", "f", "A"} |->
     CASE c = "0" -> 0 [] c = "1" -> 1 [] c = "2" -> 2 [] c = "8" -> 8 [] c = "9" -> 9
       [] c \in {"a", "A"} -> 10 [] c = "b" -> 11 [] OTHER -> 15]
XDigit == DOMAIN DigitValue
Digit  == {c \in XDigit : DigitValue[c] < 10}
Letter == (XDigit \ Digit) \cup {"x", "_"}
Blank  == {" "}

At(src, i) == IF i < Len(src) THEN src[i + 1] ELSE "EOS"
RECURSIVE RunEnd(_, _, _)
RunEnd(src, i, chars) == IF At(src, i) \in chars THEN RunEnd(src, i + 1, chars) ELSE i

(***************************************************************************)
(* The lexer.  A parser is its source, position, current token and first   *)
(* error; a token is a type, a position, and a number or a name.           *)
(***************************************************************************)
Token(type, pos, number, ident) == [type |-> type, pos |-> pos, number |-> number, ident |-> ident]

set_errorBehind(p, err, pos) ==
  IF p.err = "OK" THEN [p EXCEPT !.err = err, !.err_pos = p.pos] ELSE p
set_error(p, err, pos) == IF p.err = "OK" THEN [p EXCEPT !.err = err, !.err_pos = pos] ELSE p

\* strtol of the C library: a leading 0 makes the base 8, whatever the caller asked
\* for, and $ makes it 16; it stops at the first character that is no digit of it.
RECURSIVE Digits(_, _, _)
Digits(text, base, num) ==
  IF text = <<>> \/ Head(text) \notin XDigit THEN num
  ELSE IF DigitValue[Head(text)] >= base THEN num
  ELSE Digits(Tail(text), base, Long(num * base + DigitValue[Head(text)]))
strtol(text, base) ==
  CASE Head(text) = "0" -> Digits(Tail(text), 8, 0)
    [] Head(text) = "$" -> Digits(Tail(text), 16, 0)
    [] OTHER -> Digits(text, base, 0)

\* The test for 0x holds for a small x; behind it the x is taken for a digit.
IsHex(src, pos) == At(src, pos) = "$" \/ (At(src, pos) = "0" /\ At(src, pos + 1) = "x")

Lexed(p, base, from, end) ==
  IF end = from
  THEN [set_error(p, "UNEXPECTED_CHAR", p.pos) EXCEPT
          !.pos = end, !.cur = Token("NUMBER", p.pos, 0, <<>>)]
  ELSE [p EXCEPT !.pos = end,
          !.cur = Token("NUMBER", p.pos, strtol(SubSeq(p.src, p.pos + 1, end), base), <<>>)]
HexFrom(p, start) == Lexed(p, 16, start, RunEnd(p.src, start, XDigit))
lex_number(p) ==
  IF IsHex(p.src, p.pos) THEN HexFrom(p, p.pos + (IF At(p.src, p.pos + 1) = "0" THEN 2 ELSE 1))
  ELSE Lexed(p, 10, p.pos, RunEnd(p.src, p.pos, Digit))

Single == {"+", "-", "*", "/", "%", "(", ")"}

TokenAt(p) ==
  LET c == At(p.src, p.pos)
      Takes(n, type) == [p EXCEPT !.pos = @ + n, !.cur = Token(type, p.pos, 0, <<>>)]
      end == RunEnd(p.src, p.pos, Letter \cup Digit)
  IN CASE c = "EOS" -> Takes(0, "END")
       [] c \in Digit \/ (c = "$" /\ At(p.src, p.pos + 1) \in XDigit) -> lex_number(p)
       [] c \in Letter ->
            [p EXCEPT !.pos = end, !.cur = Token("IDENT", p.pos, 0, SubSeq(p.src, p.pos + 1, end))]
       [] c \in Single -> Takes(1, c)
       [] c = "<" /\ At(p.src, p.pos + 1) = "<" -> Takes(2, "<<")
       [] c = ">" /\ At(p.src, p.pos + 1) = ">" -> Takes(2, ">>")
       [] OTHER -> set_error(Takes(1, "END"), "UNEXPECTED_CHAR", p.pos)
next_token(p) == TokenAt([p EXCEPT !.pos = RunEnd(p.src, p.pos, Blank)])

(***************************************************************************)
(* The table of constants.                                                 *)
(***************************************************************************)
Chars(str) == [k \in 1 .. Len(str) |-> SubSeq(str, k, k)]
Upper == Chars("ABCDEFGHIJKLMNOPQRSTUVWXYZ")
Lower == Chars("abcdefghijklmnopqrstuvwxyz")
LowerOf(c) == IF \E k \in DOMAIN Upper : Upper[k] = c
              THEN Lower[CHOOSE k \in DOMAIN Upper : Upper[k] = c] ELSE c
Lowered(text) == [k \in DOMAIN text |-> LowerOf(text[k])]

ci_streq_n(a, b) == Lowered(a) = Lowered(b)

add_constant(table, c) ==
  IF Len(c.name) >= MAX_CONSTANT_NAME \/ Len(table) = MAX_CONSTANTS THEN table ELSE Append(table, c)
init_constants == FoldLeft(add_constant, <<>>, Constants)

\* The places in the table of the constants a name can mean.
lookup_constant(name) == {i \in DOMAIN init_constants : ci_streq_n(name, init_constants[i].name)}
FirstOf(places) == init_constants[CHOOSE i \in places : \A j \in places : i <= j].val

(***************************************************************************)
(* The parser.  Each level returns the parser and the value; an error      *)
(* makes the value 0.                                                      *)
(***************************************************************************)
Gives(p, v) == [p |-> p, v |-> v]
Fails(p, err, pos) == Gives(set_error(p, err, pos), 0)

\* Division rounds towards 0.
Quotient(a, b) ==
  LET q == (IF a < 0 THEN -a ELSE a) \div (IF b < 0 THEN -b ELSE b)
  IN  Long(IF (a < 0) = (b < 0) THEN q ELSE -q)
Remainder(a, b) ==
  LET r == (IF a < 0 THEN -a ELSE a) % (IF b < 0 THEN -b ELSE b) IN IF a < 0 THEN -r ELSE r

\* A shift is of a long long; what fits a long is kept.
MaxShift == 2 * WORD - 1
Left(a, n)  == IF n >= WORD THEN 0 ELSE Long(Long(a) * 2^n)
Right(a, n) == a \div 2^n

RECURSIVE parse_primary(_), parse_unary(_), TermFrom(_), AdditiveFrom(_), parse_additive(_),
          ShiftFrom(_)

Negated(rest) == Gives(rest.p, Long(-rest.v))
parse_unary(p) ==
  CASE p.err # "OK" -> Gives(p, 0)
    [] p.err = "OK" /\ p.cur.type = "-" -> Negated(parse_unary(next_token(p)))
    [] p.err = "OK" /\ p.cur.type = "+" -> parse_unary(next_token(p))
    [] OTHER -> parse_primary(p)

\* The loop of parse_term, with the left operand in hand.
Product(a, op, b, at) ==
  CASE b.p.err # "OK" -> Gives(b.p, 0)
    [] b.p.err = "OK" /\ op = "*" -> Gives(b.p, Long(a * b.v))
    [] b.p.err = "OK" /\ op # "*" /\ b.v = 0 -> Fails(b.p, "DIVISION_BY_ZERO", at)
    [] OTHER -> Gives(b.p, IF op = "/" THEN Quotient(a, b.v) ELSE Remainder(a, b.v))
TermFrom(lhs) ==
  IF lhs.p.err # "OK" \/ lhs.p.cur.type \notin {"*", "/", "%"} THEN lhs
  ELSE TermFrom(Product(lhs.v, lhs.p.cur.type, parse_unary(next_token(lhs.p)), lhs.p.cur.pos))
parse_term(p) == TermFrom(parse_unary(p))

Total(a, op, b) ==
  IF b.p.err # "OK" THEN Gives(b.p, 0) ELSE Gives(b.p, Long(IF op = "+" THEN a + b.v ELSE a - b.v))
AdditiveFromRight(lhs) ==
  IF lhs.p.err # "OK" \/ lhs.p.cur.type \notin {"+", "-"} THEN lhs
  ELSE Total(lhs.v, lhs.p.cur.type, parse_additive(next_token(lhs.p)))
AdditiveFrom(lhs) ==
  IF lhs.p.err # "OK" \/ lhs.p.cur.type \notin {"+", "-"} THEN lhs
  ELSE AdditiveFrom(Total(lhs.v, lhs.p.cur.type, parse_term(next_token(lhs.p))))
parse_additive(p) == AdditiveFrom(parse_term(p))

Shifted(a, op, b, at) ==
  CASE b.p.err # "OK" -> Gives(b.p, 0)
    [] b.p.err = "OK" /\ b.v \notin 0 .. MaxShift -> Fails(b.p, "BAD_SHIFT", at)
    [] OTHER -> Gives(b.p, IF op = "<<" THEN Left(a, b.v) ELSE Right(a, b.v))
ShiftFrom(lhs) ==
  IF lhs.p.err # "OK" \/ lhs.p.cur.type \notin {"<<", ">>"} THEN lhs
  ELSE ShiftFrom(Shifted(lhs.v, lhs.p.cur.type, parse_additive(next_token(lhs.p)), lhs.p.cur.pos))
parse_shift(p) == ShiftFrom(parse_additive(p))

\* What was in parentheses, the left one being at pos.
Closed(inner, pos) ==
  CASE inner.p.err # "OK" -> Gives(inner.p, 0)
    [] inner.p.err = "OK" /\ inner.p.cur.type # ")" -> Fails(inner.p, "UNBALANCED_PARENS", pos)
    [] OTHER -> Gives(next_token(inner.p), inner.v)
parse_primary(p) ==
  LET tok == p.cur
  IN CASE tok.type = "NUMBER" -> Gives(next_token(p), tok.number)
       [] tok.type = "IDENT" /\ lookup_constant(tok.ident) # {} ->
            Gives(next_token(p), FirstOf(lookup_constant(tok.ident)))
       [] tok.type = "IDENT" /\ lookup_constant(tok.ident) = {} ->
            Fails(p, "UNKNOWN_CONSTANT", tok.pos)
       [] tok.type = "(" -> Closed(parse_shift(next_token(p)), tok.pos)
       [] OTHER -> Fails(p, "SYNTAX", tok.pos)

Says(err, pos, v) == [err |-> err, pos |-> pos, v |-> v]
Verdict(parsed) ==
  CASE parsed.p.err # "OK" -> Says(parsed.p.err, parsed.p.err_pos, 0)
    [] parsed.p.err = "OK" /\ parsed.p.cur.type # "END" -> Says("TRAILING_TOKENS", parsed.p.cur.pos, 0)
    [] OTHER -> Says("OK", 0, parsed.v)
Primed(p) ==
  IF p.cur.type = "END" /\ p.err = "OK" THEN Says("EMPTY_EXPRESSION", 0, 0)
  ELSE Verdict(parse_shift(p))
expr_evaluate(src) ==
  Primed(next_token([src |-> src, pos |-> 0, err |-> "OK", err_pos |-> -1,
                     cur |-> Token("END", 0, 0, <<>>)]))
=============================================================================
