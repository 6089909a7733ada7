------------------------------- MODULE Numbers -------------------------------
(***************************************************************************)
(* Numbers to text and back in the C library: itoa_padded and vsnprintf,   *)
(* strtol, atoi, atol and vsscanf.  A format is a sequence of records: the *)
(* literal characters, and the conversions with their flags; an unsigned   *)
(* int and a long have WORD bits.  Strings, characters and %f are left out. *)
(* And seconds to dates.                                                    *)
(***************************************************************************)
EXTENDS Integers, Sequences
LOCAL INSTANCE FiniteSetsExt
LOCAL INSTANCE SequencesExt

CONSTANT WORD

Numerals == <<"0", "1", "2", "3", "4", "5", "6", "7", "8", "9", "a", "b", "c", "d", "e", "f">>
Capitals == <<"0", "1", "2", "3", "4", "5", "6", "7", "8", "9", "A", "B", "C", "D", "E", "F">>
Signed(n) == ((n + 2^(WORD - 1)) % 2^WORD) - 2^(WORD - 1)
LONG_MAX == 2^(WORD - 1) - 1
LONG_MIN == -(2^(WORD - 1))

----------------------------------------------------------------------------
(* Printing.  A number is built from its last digit on, and reversed.       *)

Repeated(c, n) == [k \in 1 .. n |-> c]
PaddedLoose(string, width, c) == string \o Repeated(c, IF Len(string) <= width THEN width + 1 - Len(string) ELSE 0)
Padded(string, width, c) == string \o Repeated(c, IF Len(string) < width THEN width - Len(string) ELSE 0)

RECURSIVE Backwards(_, _, _)
Backwards(value, base, numerals) ==
  <<numerals[(value % base) + 1]>>
  \o (IF value < base THEN <<>> ELSE Backwards(value \div base, base, numerals))
itoa_padded(value, base, width, zeropad, is_signed, numerals) ==
  LET sign == is_signed /\ Signed(value) < 0
      digits == Backwards(IF sign THEN -Signed(value) ELSE value, base, numerals)
  IN Reverse(Padded(digits \o (IF sign THEN <<"-">> ELSE <<>>), width, IF zeropad THEN "0" ELSE " "))

\* What the conversion of a number comes to: # puts 0, 0x or 0X in front, but not of 0,
\* and not within the width.
Radix(type) == CASE type \in {"x", "X", "p"} -> 16 [] type = "o" -> 8 [] OTHER -> 10
NumPrefix(conv, value) ==
  CASE ~conv.numprefix \/ value = 0 -> <<>>
    [] conv.numprefix /\ value # 0 /\ conv.type = "x" -> <<"0", "x">>
    [] conv.numprefix /\ value # 0 /\ conv.type \in {"X", "p"} -> <<"0", "X">>
    [] conv.numprefix /\ value # 0 /\ conv.type = "o" -> <<"0">>
    [] OTHER -> <<>>
PrintNumber(conv, value) ==
  NumPrefix(conv, value)
  \o itoa_padded(value, Radix(conv.type), conv.width, conv.zeropad, conv.type \in {"d", "i"},
                 IF conv.type = "x" THEN Numerals ELSE Capitals)
Printed(p, f) ==
  IF f.type = "literal" THEN [p EXCEPT !.str = Append(@, f.char)]
  ELSE [str |-> p.str \o PrintNumber(f, Head(p.args)), args |-> Tail(p.args)]
\* No conversion is begun in the last place of the buffer or behind it.
vsnprintf(size, format, args) ==
  FoldLeft(LAMBDA p, f : IF Len(p.str) < size - 1 THEN Printed(p, f) ELSE p,
           [str |-> <<>>, args |-> args], format).str

----------------------------------------------------------------------------
(* Reading.                                                                 *)

IsSpace(c) == c \in {" ", "TAB"}
\* The digit a character stands for, any number out of reach if it is none.
DigitOf(c) ==
  IF \E d \in 0 .. 15 : c \in {Numerals[d + 1], Capitals[d + 1]}
  THEN CHOOSE d \in 0 .. 15 : c \in {Numerals[d + 1], Capitals[d + 1]} ELSE 36

RECURSIVE Blanks(_), Leading(_, _), Accumulated(_, _, _)
Blanks(text) == IF text # <<>> /\ IsSpace(Head(text)) THEN 1 + Blanks(Tail(text)) ELSE 0
Leading(text, base) ==
  IF text # <<>> /\ DigitOf(Head(text)) < base THEN 1 + Leading(Tail(text), base) ELSE 0
Accumulated(num, digits, base) ==
  IF digits = <<>> THEN num
  ELSE Accumulated(Signed(num * base + DigitOf(Head(digits))), Tail(digits), base)
After(text, n) == SubSeq(text, n + 1, Len(text))

\* A number has a sign or a base in front of it, never both.
Opening(text, base) ==
  CASE text # <<>> /\ Head(text) = "-" -> [sign |-> -1, base |-> base, length |-> 1]
    [] text # <<>> /\ Head(text) = "0" ->
         (IF Len(text) > 1 /\ text[2] = "x" THEN [sign |-> 1, base |-> 16, length |-> 2]
          ELSE [sign |-> 1, base |-> 8, length |-> 1])
    [] text # <<>> /\ Head(text) = "$" -> [sign |-> 1, base |-> 16, length |-> 1]
    [] OTHER -> [sign |-> 1, base |-> base, length |-> 0]
strtol(nptr, base) ==
  LET blanks == Blanks(nptr)
      opening == Opening(After(nptr, blanks), base)
      start == blanks + opening.length
      length == Leading(After(nptr, start), opening.base)
  IN [value |-> Signed(Accumulated(0, SubSeq(nptr, start + 1, start + length), opening.base) * opening.sign),
      endptr |-> start + length]

\* atoi and atol: of a number too large, the limit.
RECURSIVE Limited(_, _, _)
Limited(result, digits, sign) ==
  IF digits = <<>> THEN result * sign
  ELSE IF result > (LONG_MAX - DigitOf(Head(digits))) \div 10
       THEN (IF sign = 1 THEN LONG_MAX ELSE LONG_MIN)
       ELSE Limited(result * 10 + DigitOf(Head(digits)), Tail(digits), sign)
atol(str) ==
  LET text == After(str, Blanks(str))
      signed == text # <<>> /\ Head(text) \in {"+", "-"}
      digits == IF signed THEN Tail(text) ELSE text
  IN Limited(0, SubSeq(digits, 1, Leading(digits, 10)), IF signed /\ Head(text) = "-" THEN -1 ELSE 1)
atoi(str) == atol(str)

\* Only %d, %i and %x read numbers; the length says how much of one is stored.
Kept(value, length) == IF length = "short" THEN value % 2^(WORD \div 2) ELSE value
ReadNumber(s, f) ==
  LET number == strtol(After(s.str, s.i), IF f.type \in {"d", "i"} THEN 10 ELSE 16)
  IN IF f.length = "char" /\ ~f.ignore THEN [s EXCEPT !.done = TRUE]
     ELSE [s EXCEPT !.i = @ + number.endptr, !.count = @ + 1,
                    !.values = IF f.ignore THEN @ ELSE Append(@, Kept(number.value, f.length))]
Matched(s, f) ==
  LET char == s.str[s.i + 1]
  IN CASE s.done \/ s.i >= Len(s.str) -> [s EXCEPT !.done = TRUE]
       [] ~s.done /\ s.i < Len(s.str) /\ f.type = "literal" ->
            (IF IsSpace(f.char) THEN [s EXCEPT !.i = @ + Blanks(After(s.str, s.i))]
             ELSE [s EXCEPT !.i = @ + 1, !.done = (char # f.char)])
       [] ~s.done /\ s.i < Len(s.str) /\ f.type \in {"d", "i", "x", "X"} -> ReadNumber(s, f)
       [] OTHER -> [s EXCEPT !.done = TRUE]
vsscanf(str, format) ==
  LET end == FoldLeft(Matched, [str |-> str, i |-> 0, count |-> 0, values |-> <<>>, done |-> FALSE], format)
  IN [count |-> end.count, values |-> end.values]

----------------------------------------------------------------------------
(* gmtime_r and asctime_r: a number of seconds since 1970 as a date and a    *)
(* time of day, and what is printed of them.                                 *)

SECONDS_IN_DAY == 86400
SECONDS_IN_HOUR == 3600
SECONDS_IN_MINUTE == 60

elapsed_days ==
  <<<<31, 59, 90, 120, 151, 181, 212, 243, 273, 304, 334, 365>>,
    <<31, 60, 91, 121, 152, 182, 213, 244, 274, 305, 335, 366>>>>
is_leap_year(year) == (year % 4 = 0 /\ year % 100 # 0) \/ year % 400 = 0
Table(year) == IF is_leap_year(year) THEN 2 ELSE 1

\* Months count from 0.  The days before January are looked up in front of a row: that
\* is the end of the row before, or whatever lies in front of the table.
find_month_from_day_num(day_num, year, infront) ==
  LET row == elapsed_days[Table(year)]
      month == Min({m \in 0 .. 11 : day_num <= row[m + 1]})
      before == IF month > 0 THEN row[month] ELSE IF Table(year) = 2 THEN elapsed_days[1][12] ELSE infront
  IN  [mon |-> month, day_num |-> day_num - before]

LAST_YEAR == 2040   \* the bound of the loop over the years
gmtime_r(src, infront) ==
  LET days == src \div SECONDS_IN_DAY
      tod_secs == src % SECONDS_IN_DAY
      left[y \in 1970 .. LAST_YEAR] ==
        IF y = 1970 THEN days ELSE left[y - 1] - (IF is_leap_year(y - 1) THEN 366 ELSE 365)
      year == Min({y \in 1970 .. LAST_YEAR : left[y] <= 0}) - 1
      yday == IF year < 1970 THEN days ELSE left[year]
      found == find_month_from_day_num(yday, year, infront)
      hour == tod_secs \div SECONDS_IN_HOUR
      min == (tod_secs - hour * SECONDS_IN_HOUR) \div 60
  IN  [tm_wday |-> (days + 4) % 7, tm_yday |-> yday, tm_mon |-> found.mon, tm_mday |-> found.day_num + 1,
       tm_year |-> year - 1900, tm_hour |-> hour, tm_min |-> min,
       tm_sec |-> tod_secs - hour * SECONDS_IN_HOUR - min * SECONDS_IN_MINUTE]

day_names == <<"Sun", "Mon", "Tue", "Wed", "Thu", "Fri", "Sat">>
month_names == <<"Jan", "Feb", "Mar", "Apr", "May", "Jun", "Jul", "Aug", "Sep", "Oct", "Nov", "Dec">>
asctime_r(tm) ==
  <<day_names[tm.tm_wday + 1], month_names[tm.tm_mon + 1], tm.tm_mday, tm.tm_hour, tm.tm_min, tm.tm_sec, 1900 + tm.tm_year>>
=============================================================================
