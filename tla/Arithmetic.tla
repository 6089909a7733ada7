----------------------------- MODULE Arithmetic -----------------------------
(***************************************************************************)
(* What an expression is and means, by its grammar: the longest lexemes,   *)
(* and a value for every way to derive the text, the operators of a level  *)
(* taken from the right end.  Nothing here reads from left to right, and   *)
(* nothing of the evaluator is used.  Numbers are as the user's manual has *)
(* them (micromon_user.md: decimal, or hexadecimal behind $); a long has   *)
(* WORD bits.                                                              *)
(***************************************************************************)
EXTENDS Integers, Sequences, FiniteSets

CONSTANTS WORD, Constants

HexDigits == <<"0", "1", "2", "3", "4", "5", "6", "7", "8", "9", "a", "b", "c", "d", "e", "f">>
Hex     == {HexDigits[k] : k \in 1 .. 16} \cup {"A"}
Decimal == {HexDigits[k] : k \in 1 .. 10}
Letters == (Hex \ Decimal) \cup {"x", "_"}
Worth(c) == IF c = "A" THEN 10 ELSE (CHOOSE k \in 1 .. 16 : HexDigits[k] = c) - 1

Signed(n) == ((n + 2^(WORD - 1)) % 2^WORD) - 2^(WORD - 1)
Numeral(text, base) ==
  LET To[k \in 0 .. Len(text)] == IF k = 0 THEN 0 ELSE Signed(To[k - 1] * base + Worth(text[k]))
  IN  To[Len(text)]

\* Small and capital letters are the same in a name.
Same(c, d) == c = d \/ {c, d} \in {{"a", "A"}, {"x", "X"}}
Defines(c, text) == Len(c.name) = Len(text) /\ \A k \in DOMAIN text : Same(c.name[k], text[k])
Known(text) == {c \in {Constants[i] : i \in DOMAIN Constants} : Defines(c, text)}

AllIn(text, chars) == \A k \in 1 .. Len(text) : text[k] \in chars
Kind(text) ==
  CASE AllIn(text, Decimal) -> "decimal"
    [] text[1] = "$" /\ Len(text) > 1 /\ AllIn(Tail(text), Hex) -> "hex"
    [] text[1] \in Letters /\ AllIn(text, Letters \cup Decimal) -> "name"
    [] text \in {<<"+">>, <<"-">>, <<"*">>, <<"/">>, <<"%">>, <<"(">>, <<")">>,
                 <<"<", "<">>, <<">", ">">>} -> "operator"
    [] OTHER -> "none"

\* The lexemes of a text, with their places; the last is of no kind if the text has
\* a character that starts none.
RECURSIVE Lexemes(_, _)
Lexemes(text, at) ==
  LET ends == {n \in at + 1 .. Len(text) : Kind(SubSeq(text, at + 1, n)) # "none"}
      end == CHOOSE n \in ends : \A m \in ends : m <= n
      Lexeme(n) == [text |-> SubSeq(text, at + 1, n), at |-> at]
  IN CASE at = Len(text) -> <<>>
       [] at < Len(text) /\ text[at + 1] = " " -> Lexemes(text, at + 1)
       [] at < Len(text) /\ text[at + 1] # " " /\ ends = {} -> <<Lexeme(at + 1)>>
       [] OTHER -> <<Lexeme(end)>> \o Lexemes(text, end)

\* A value, or an expression that has none: it divides by zero or shifts too far.
Value(v) == [defined |-> TRUE, value |-> Signed(v)]
NoValue  == [defined |-> FALSE, value |-> 0]

Magnitude(n) == IF n < 0 THEN -n ELSE n
Apply(op, a, b) ==
  LET q == CHOOSE n \in 0 .. 2^WORD :
             /\ n * Magnitude(b) <= Magnitude(a) /\ Magnitude(a) < (n + 1) * Magnitude(b)
      towards == IF (a < 0) = (b < 0) THEN q ELSE -q
  IN CASE op = <<"+">> -> Value(a + b)
       [] op = <<"-">> -> Value(a - b)
       [] op = <<"*">> -> Value(a * b)
       [] op \in {<<"/">>, <<"%">>} /\ b = 0 -> NoValue
       [] op = <<"/">> /\ b # 0 -> Value(towards)
       [] op = <<"%">> /\ b # 0 -> Value(a - b * towards)
       [] op \in {<<"<", "<">>, <<">", ">">>} /\ b \notin 0 .. 2 * WORD - 1 -> NoValue
       [] op = <<"<", "<">> /\ b \in 0 .. 2 * WORD - 1 ->
            Value(IF b < WORD THEN a * 2^b ELSE 0)
       [] op = <<">", ">">> /\ b \in 0 .. 2 * WORD - 1 ->
            Value(CHOOSE n \in -(2^WORD) .. 2^WORD : n * 2^b <= a /\ a < (n + 1) * 2^b)
Combine(op, x, y) ==
  IF x.defined /\ y.defined THEN Apply(op, x.value, y.value) ELSE NoValue

\* Binary operators by level, the loosest first.
Levels == <<{<<"<", "<">>, <<">", ">">>}, {<<"+">>, <<"-">>}, {<<"*">>, <<"/">>, <<"%">>}>>

\* What the lexemes mean at a level: the empty set if they are no expression of it.
RECURSIVE Meanings(_, _)
Meanings(s, level) ==
  LET n == Len(s)
      splits == {k \in 2 .. n - 1 : s[k].text \in Levels[level]}
      Atom(text) ==
        CASE Kind(text) = "decimal" -> {Value(Numeral(text, 10))}
          [] Kind(text) = "hex" -> {Value(Numeral(Tail(text), 16))}
          [] Kind(text) = "name" -> {Value(c.val) : c \in Known(text)}
          [] OTHER -> {}
  IN CASE n = 0 -> {}
       [] n > 0 /\ level <= 3 ->
            Meanings(s, level + 1)
            \cup UNION {{Combine(s[k].text, x, y) : x \in Meanings(SubSeq(s, 1, k - 1), level),
                                                    y \in Meanings(SubSeq(s, k + 1, n), level + 1)}
                        : k \in splits}
       [] n = 1 /\ level = 4 -> Atom(s[1].text)
       [] n > 1 /\ level = 4 ->
            (CASE s[1].text = <<"+">> -> Meanings(Tail(s), 4)
               [] s[1].text = <<"-">> ->
                    {Combine(<<"-">>, Value(0), x) : x \in Meanings(Tail(s), 4)}
               [] s[1].text = <<"(">> /\ s[n].text = <<")">> -> Meanings(SubSeq(s, 2, n - 1), 1)
               [] OTHER -> {})

Meaning(text) == Meanings(Lexemes(text, 0), 1)

\* Whether lexemes are the beginning of some expression: operands and operators
\* take turns, and no bracket is closed that was not opened.
Operand(l) == Kind(l.text) \in {"decimal", "hex"} \/ (Kind(l.text) = "name" /\ Known(l.text) # {})
Begins(s) ==
  LET Sign(l) == l.text \in {<<"+">>, <<"-">>}
      \* Behind k lexemes: an operand is due or not, and brackets are open; -1: neither.
      After[k \in 0 .. Len(s)] ==
        IF k = 0 THEN [due |-> TRUE, open |-> 0]
        ELSE LET b == After[k - 1] l == s[k]
             IN CASE b.open < 0 -> b
                  [] b.open >= 0 /\ b.due /\ l.text = <<"(">> -> [b EXCEPT !.open = @ + 1]
                  [] b.open >= 0 /\ b.due /\ Sign(l) -> b
                  [] b.open >= 0 /\ b.due /\ Operand(l) -> [b EXCEPT !.due = FALSE]
                  [] b.open >= 0 /\ ~b.due /\ l.text \in UNION {Levels[k2] : k2 \in 1 .. 3} ->
                       [b EXCEPT !.due = TRUE]
                  [] b.open > 0 /\ ~b.due /\ l.text = <<")">> -> [b EXCEPT !.open = @ - 1]
                  [] OTHER -> [b EXCEPT !.open = -1]
  IN  After[Len(s)].open >= 0
=============================================================================
