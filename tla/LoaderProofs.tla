---------------------------- MODULE LoaderProofs ----------------------------
(***************************************************************************)
(* Proofs about the load command, for every base of at least ten, every    *)
(* well-formed file, every way its characters may be altered and any       *)
(* number of them altered or lost: a line that arrives whole is read as    *)
(* what it says, damage reaches no further than the line behind it, and a  *)
(* termination record with one of its digits altered is found out.         *)
(***************************************************************************)
EXTENDS Loader, TLAPS, WellFoundedInduction

-----------------------------------------------------------------------------
(* Induction on numbers, with the property as a set.                       *)

LEMMA LeastNumber ==
  ASSUME NEW T \in SUBSET Nat, T # {}
  PROVE  \E i \in T : \A j \in T : i <= j
<1>1. IsWellFoundedOn(OpToRel(<, Nat), Nat)
  BY NatLessThanWellFounded
<1>2. \E i \in T : \A j \in T : ~(<<j, i>> \in OpToRel(<, Nat))
  BY <1>1, WFMin
<1>3. \A i, j \in Nat : ~(<<j, i>> \in OpToRel(<, Nat)) => i <= j
  BY DEF OpToRel
<1> QED
  BY <1>2, <1>3

LEMMA Inductively ==
  ASSUME NEW T, 0 \in T, \A n \in Nat : n \in T => n + 1 \in T
  PROVE  \A n \in Nat : n \in T
<1>1. SUFFICES ASSUME Nat \ T # {} PROVE FALSE
  OBVIOUS
<1>2. PICK i \in Nat \ T : \A j \in Nat \ T : i <= j
  BY <1>1, LeastNumber
<1>3. i # 0 /\ i - 1 \in T
  BY <1>2
<1> QED
  BY <1>2, <1>3

-----------------------------------------------------------------------------
(* Numbers made of digits, and sums of bytes.                              *)

\* g holds the numbers of the first digits of l from the i-th character on, up to n of them.
Reads(l, i, g, n) ==
  /\ g[0] = 0
  /\ \A k \in 1 .. n : g[k] = g[k - 1] * BASE + l[i + k - 1]

LEMMA ReadsExists == ASSUME NEW l, NEW i PROVE \A n \in Nat : \E g : Reads(l, i, g, n)
<1> DEFINE T == {n \in Nat : \E g : Reads(l, i, g, n)}
<1>1. 0 \in T
  <2> DEFINE g == [k \in 0 .. 0 |-> 0]
  <2>1. Reads(l, i, g, 0)
    BY DEF Reads
  <2> QED BY <2>1
<1>2. ASSUME NEW n \in Nat, n \in T PROVE n + 1 \in T
  <2>1. PICK g : Reads(l, i, g, n)
    BY <1>2
  <2> DEFINE h == [k \in 0 .. n + 1 |-> IF k <= n THEN g[k] ELSE g[n] * BASE + l[i + (n + 1) - 1]]
  <2>2. h[0] = 0
    BY <2>1 DEF Reads
  <2>3. ASSUME NEW k \in 1 .. n + 1 PROVE h[k] = h[k - 1] * BASE + l[i + k - 1]
    <3>1. CASE k <= n
      <4>1. k \in 1 .. n /\ h[k] = g[k] /\ h[k - 1] = g[k - 1]
        BY <3>1
      <4> QED BY <2>1, <4>1 DEF Reads
    <3>2. CASE k = n + 1
      <4>1. h[k] = g[n] * BASE + l[i + k - 1] /\ h[k - 1] = g[n]
        BY <3>2
      <4> QED BY <4>1
    <3> QED BY <3>1, <3>2
  <2> HIDE DEF h
  <2>4. Reads(l, i, h, n + 1)
    BY <2>2, <2>3 DEF Reads
  <2> QED BY <2>4
<1> HIDE DEF T
<1>3. \A n \in Nat : n \in T
  BY <1>1, <1>2, Inductively
<1> QED BY <1>3 DEF T

LEMMA ReadsAgree ==
  ASSUME NEW l, NEW i, NEW n \in Nat, NEW g, NEW h, Reads(l, i, g, n), Reads(l, i, h, n + 1)
  PROVE  g[n] = h[n]
<1> DEFINE T == {k \in Nat : k <= n => g[k] = h[k]}
<1>1. 0 \in T
  BY DEF Reads
<1>2. ASSUME NEW k \in Nat, k \in T PROVE k + 1 \in T
  <2> SUFFICES ASSUME k + 1 <= n PROVE g[k + 1] = h[k + 1]
    OBVIOUS
  <2>1. g[k] = h[k] /\ k + 1 \in 1 .. n /\ k + 1 \in 1 .. n + 1 /\ (k + 1) - 1 = k
    BY <1>2
  <2> QED BY <2>1 DEF Reads
<1> HIDE DEF T
<1>3. \A k \in Nat : k \in T
  BY <1>1, <1>2, Inductively
<1> QED BY <1>3 DEF T

\* The recursion defines a number for every number of digits.
LEMMA NumberIs ==
  ASSUME NEW l, NEW i
  PROVE  /\ Number(l, i, 0) = 0
         /\ \A n \in Nat : Number(l, i, n + 1) = Number(l, i, n) * BASE + l[i + (n + 1) - 1]
<1> DEFINE G(n) == CHOOSE g : Reads(l, i, g, n)
           f == [n \in Nat |-> G(n)[n]]
           P(p) == p = [k \in Nat |-> IF k = 0 THEN 0 ELSE p[k - 1] * BASE + l[i + k - 1]]
<1>1. ASSUME NEW n \in Nat PROVE Reads(l, i, G(n), n)
  BY ReadsExists
<1> HIDE DEF G
<1>2. f[0] = 0
  BY <1>1 DEF Reads
<1>3. ASSUME NEW n \in Nat \ {0} PROVE f[n] = f[n - 1] * BASE + l[i + n - 1]
  <2>1. n - 1 \in Nat /\ (n - 1) + 1 = n
    OBVIOUS
  <2>2. G(n - 1)[n - 1] = G(n)[n - 1]
    BY <1>1, <2>1, ReadsAgree
  <2>3. G(n)[n] = G(n)[n - 1] * BASE + l[i + n - 1]
    BY <1>1 DEF Reads
  <2> QED BY <2>1, <2>2, <2>3
<1>4. P(f)
  BY <1>2, <1>3
<1> HIDE DEF f
<1> DEFINE c == CHOOSE p : P(p)
<1>5. c = [k \in Nat |-> IF k = 0 THEN 0 ELSE c[k - 1] * BASE + l[i + k - 1]]
  BY <1>4
<1>6. \A n : Number(l, i, n) = c[n]
  BY DEF Number
<1> HIDE DEF c
<1>7. c[0] = 0
  BY <1>5
<1>8. ASSUME NEW n \in Nat PROVE c[n + 1] = c[n] * BASE + l[i + (n + 1) - 1]
  <2>1. n + 1 \in Nat /\ n + 1 # 0 /\ (n + 1) - 1 = n
    OBVIOUS
  <2> QED BY <1>5, <2>1
<1> QED BY <1>6, <1>7, <1>8

\* The same of sums.
Sums(l, g, n) ==
  /\ g[0] = 0
  /\ \A k \in 1 .. n : g[k] = (g[k - 1] + ByteOf(l, k)) % ByteValues

LEMMA SumsExists == ASSUME NEW l PROVE \A n \in Nat : \E g : Sums(l, g, n)
<1> DEFINE T == {n \in Nat : \E g : Sums(l, g, n)}
<1>1. 0 \in T
  <2> DEFINE g == [k \in 0 .. 0 |-> 0]
  <2>1. Sums(l, g, 0)
    BY DEF Sums
  <2> QED BY <2>1
<1>2. ASSUME NEW n \in Nat, n \in T PROVE n + 1 \in T
  <2>1. PICK g : Sums(l, g, n)
    BY <1>2
  <2> DEFINE h == [k \in 0 .. n + 1 |-> IF k <= n THEN g[k] ELSE (g[n] + ByteOf(l, n + 1)) % ByteValues]
  <2>2. h[0] = 0
    BY <2>1 DEF Sums
  <2>3. ASSUME NEW k \in 1 .. n + 1 PROVE h[k] = (h[k - 1] + ByteOf(l, k)) % ByteValues
    <3>1. CASE k <= n
      <4>1. k \in 1 .. n /\ h[k] = g[k] /\ h[k - 1] = g[k - 1]
        BY <3>1
      <4> QED BY <2>1, <4>1 DEF Sums
    <3>2. CASE k = n + 1
      <4>1. h[k] = (g[n] + ByteOf(l, k)) % ByteValues /\ h[k - 1] = g[n]
        BY <3>2
      <4> QED BY <4>1
    <3> QED BY <3>1, <3>2
  <2> HIDE DEF h
  <2>4. Sums(l, h, n + 1)
    BY <2>2, <2>3 DEF Sums
  <2> QED BY <2>4
<1> HIDE DEF T
<1>3. \A n \in Nat : n \in T
  BY <1>1, <1>2, Inductively
<1> QED BY <1>3 DEF T

LEMMA SumsAgree ==
  ASSUME NEW l, NEW n \in Nat, NEW g, NEW h, Sums(l, g, n), Sums(l, h, n + 1)
  PROVE  g[n] = h[n]
<1> DEFINE T == {k \in Nat : k <= n => g[k] = h[k]}
<1>1. 0 \in T
  BY DEF Sums
<1>2. ASSUME NEW k \in Nat, k \in T PROVE k + 1 \in T
  <2> SUFFICES ASSUME k + 1 <= n PROVE g[k + 1] = h[k + 1]
    OBVIOUS
  <2>1. g[k] = h[k] /\ k + 1 \in 1 .. n /\ k + 1 \in 1 .. n + 1 /\ (k + 1) - 1 = k
    BY <1>2
  <2> QED BY <2>1 DEF Sums
<1> HIDE DEF T
<1>3. \A k \in Nat : k \in T
  BY <1>1, <1>2, Inductively
<1> QED BY <1>3 DEF T

LEMMA SumIs ==
  ASSUME NEW l
  PROVE  /\ SumOf(l, 0) = 0
         /\ \A n \in Nat : SumOf(l, n + 1) = (SumOf(l, n) + ByteOf(l, n + 1)) % ByteValues
<1> DEFINE G(n) == CHOOSE g : Sums(l, g, n)
           f == [n \in Nat |-> G(n)[n]]
           P(p) == p = [k \in Nat |-> IF k = 0 THEN 0 ELSE (p[k - 1] + ByteOf(l, k)) % ByteValues]
<1>1. ASSUME NEW n \in Nat PROVE Sums(l, G(n), n)
  BY SumsExists
<1> HIDE DEF G
<1>2. f[0] = 0
  BY <1>1 DEF Sums
<1>3. ASSUME NEW n \in Nat \ {0} PROVE f[n] = (f[n - 1] + ByteOf(l, n)) % ByteValues
  <2>1. n - 1 \in Nat /\ (n - 1) + 1 = n
    OBVIOUS
  <2>2. G(n - 1)[n - 1] = G(n)[n - 1]
    BY <1>1, <2>1, SumsAgree
  <2>3. G(n)[n] = (G(n)[n - 1] + ByteOf(l, n)) % ByteValues
    BY <1>1 DEF Sums
  <2> QED BY <2>1, <2>2, <2>3
<1>4. P(f)
  BY <1>2, <1>3
<1> HIDE DEF f
<1> DEFINE c == CHOOSE p : P(p)
<1>5. c = [k \in Nat |-> IF k = 0 THEN 0 ELSE (c[k - 1] + ByteOf(l, k)) % ByteValues]
  BY <1>4
<1>6. \A n : SumOf(l, n) = c[n]
  BY DEF SumOf
<1> HIDE DEF c
<1>7. c[0] = 0
  BY <1>5
<1>8. ASSUME NEW n \in Nat PROVE c[n + 1] = (c[n] + ByteOf(l, n + 1)) % ByteValues
  <2>1. n + 1 \in Nat /\ n + 1 # 0 /\ (n + 1) - 1 = n
    OBVIOUS
  <2> QED BY <1>5, <2>1
<1> QED BY <1>6, <1>7, <1>8

Digit == 0 .. BASE - 1

\* What the alphabet is.
LEMMA Alphabet ==
  /\ BASE \in Nat /\ BASE >= 10 /\ Char \subseteq Nat /\ Digit \subseteq Char
  /\ {S, CR, LF, Space} \subseteq Char /\ S # CR /\ S # LF /\ CR # LF
  /\ \A c \in {S, CR, LF, Space} : c >= BASE
  /\ \A c \in Types : c < BASE
  /\ \A c \in Char : c < BASE => c \in Digit
  /\ \A c \in Char : c >= BASE => c \notin Types /\ c # 0
BY LoaderAssumption DEF S, CR, LF, Space, Other, Char, Digit, Types

LEMMA Digits == \A d \in Digit : d \in Nat /\ d < BASE
BY LoaderAssumption DEF Digit

LEMMA ByItself == \A c \in Char : c < BASE => c \in Digit
BY Alphabet

LEMMA NotBehind == ASSUME NEW c \in Char, ~(c >= BASE) PROVE c \in Digit
<1>1. c < BASE
  BY Alphabet
<1> QED BY <1>1, ByItself

LEMMA Sizes ==
  /\ ByteValues \in Nat /\ ByteValues > 0 /\ AddressSpace \in Nat
<1>1. ASSUME NEW a \in Nat, NEW b \in Nat PROVE a * b \in Nat
  OBVIOUS
<1>2. ByteValues \in Nat
  BY <1>1, LoaderAssumption DEF ByteValues
<1>3. ASSUME NEW b \in Nat, b >= 10 PROVE b * b > 0
  BY <1>3
<1>4. ByteValues > 0
  BY <1>3, LoaderAssumption DEF ByteValues
<1> HIDE DEF ByteValues
<1>5. ByteValues * ByteValues \in Nat
  BY <1>2, <1>1
<1> DEFINE b2 == ByteValues * ByteValues
<1>6. b2 * ByteValues \in Nat
  BY <1>2, <1>5, <1>1
<1>7. (b2 * ByteValues) * ByteValues \in Nat
  BY <1>2, <1>6, <1>1
<1> QED BY <1>2, <1>4, <1>7 DEF AddressSpace

LEMMA Multiple == ASSUME NEW a \in Nat PROVE a * BASE \in Nat
BY LoaderAssumption

\* The last digit of a number.
LEMMA LastDigit == ASSUME NEW a \in Nat, NEW d \in Digit PROVE (a * BASE + d) % BASE = d
BY LoaderAssumption DEF Digit

LEMMA NumberNat ==
  ASSUME NEW l, NEW i \in Nat, NEW n \in Nat, \A k \in i .. i + n - 1 : l[k] \in Digit
  PROVE  Number(l, i, n) \in Nat
<1> DEFINE T == {k \in Nat : k <= n => Number(l, i, k) \in Nat}
<1>1. 0 \in T
  BY NumberIs
<1>2. ASSUME NEW k \in Nat, k \in T PROVE k + 1 \in T
  <2> SUFFICES ASSUME k + 1 <= n PROVE Number(l, i, k + 1) \in Nat
    OBVIOUS
  <2>1. Number(l, i, k) \in Nat /\ i + (k + 1) - 1 \in i .. i + n - 1
    BY <1>2
  <2>2. l[i + (k + 1) - 1] \in Nat
    BY <2>1, Alphabet
  <2>3. Number(l, i, k) * BASE \in Nat
    BY <2>1, Multiple
  <2>4. Number(l, i, k + 1) = Number(l, i, k) * BASE + l[i + (k + 1) - 1]
    BY NumberIs
  <2> QED BY <2>2, <2>3, <2>4
<1> HIDE DEF T
<1>3. n \in T
  BY <1>1, <1>2, Inductively
<1> QED BY <1>3 DEF T

LEMMA OneDigit == ASSUME NEW l, NEW i \in Nat, l[i] \in Digit PROVE Number(l, i, 1) = l[i]
<1>1. Number(l, i, 0 + 1) = Number(l, i, 0) * BASE + l[i + (0 + 1) - 1] /\ Number(l, i, 0) = 0
  BY NumberIs
<1>2. i + (0 + 1) - 1 = i /\ 0 + 1 = 1
  OBVIOUS
<1>3. Number(l, i, 1) = 0 * BASE + l[i]
  BY <1>1, <1>2
<1>4. l[i] \in Nat
  BY Digits
<1>5. 0 * BASE = 0
  BY LoaderAssumption
<1> QED BY <1>3, <1>4, <1>5

\* A byte is its two digits.
LEMMA ByteIs ==
  ASSUME NEW l, NEW k \in Nat, l[2 * k + 1] \in Digit, l[2 * k + 2] \in Digit
  PROVE  /\ ByteOf(l, k) = l[2 * k + 1] * BASE + l[2 * k + 2]
         /\ ByteOf(l, k) \in Nat
<1> DEFINE i == 2 * k + 1
<1>1. i \in Nat /\ i + (1 + 1) - 1 = 2 * k + 2
  OBVIOUS
<1>2. Number(l, i, 1) = l[i]
  BY <1>1, OneDigit
<1>3. Number(l, i, 1 + 1) = Number(l, i, 1) * BASE + l[i + (1 + 1) - 1]
  BY NumberIs
<1>4. ByteOf(l, k) = l[i] * BASE + l[2 * k + 2]
  BY <1>1, <1>2, <1>3 DEF ByteOf
<1>5. l[i] * BASE \in Nat
  BY Multiple, Digits
<1>6. l[2 * k + 2] \in Nat
  BY Digits
<1> QED BY <1>4, <1>5, <1>6

-----------------------------------------------------------------------------
(* Lines.                                                                  *)

Formed(l) == l \in Seq(Char) /\ WellFormed(l)

LEMMA LineFacts ==
  ASSUME NEW l, Formed(l)
  PROVE  /\ Len(l) \in Nat /\ Len(l) >= 2 /\ EndOf(l) \in 2 .. Len(l)
         /\ EndOf(l) = Len(l) \/ (EndOf(l) = Len(l) - 1 /\ l[Len(l)] = LF)
         /\ \A i \in 1 .. Len(l) : l[i] \in Char
         /\ \A i \in 1 .. Len(l) : l[i] = CR <=> i = EndOf(l)
         /\ \A i \in 2 .. Len(l) : l[i] # S
         /\ l[1] >= BASE /\ l[1] \notin {CR, LF} /\ (l[1] = S => Len(l) >= 3)
         /\ l[Len(l)] >= BASE
<1>1. Len(l) \in Nat /\ \A i \in 1 .. Len(l) : l[i] \in Char
  BY DEF Formed
<1>2. /\ Len(l) >= 2 /\ EndOf(l) >= 2 /\ l[EndOf(l)] = CR
      /\ \A i \in 2 .. EndOf(l) - 1 : l[i] \notin {S, CR}
      /\ WholeRecord(l) \/ NoRecord(l)
  BY DEF Formed, WellFormed
<1>3. EndOf(l) = Len(l) \/ (EndOf(l) = Len(l) - 1 /\ l[Len(l)] = LF)
  BY DEF EndOf
<1>4. EndOf(l) \in 2 .. Len(l)
  BY <1>1, <1>2, <1>3
<1>5. l[1] >= BASE /\ l[1] \notin {CR, LF} /\ (l[1] = S => Len(l) >= 3)
  <2>1. CASE WholeRecord(l)
    BY <2>1, <1>1, Alphabet DEF WholeRecord
  <2>2. CASE NoRecord(l)
    BY <2>2 DEF NoRecord
  <2> QED BY <1>2, <2>1, <2>2
<1>6. ASSUME NEW i \in 1 .. Len(l) PROVE /\ l[i] = CR <=> i = EndOf(l)
                                         /\ i # 1 => l[i] # S
  <2>1. i = 1 \/ i \in 2 .. EndOf(l) - 1 \/ i = EndOf(l) \/ i = EndOf(l) + 1
    BY <1>1, <1>3, <1>4
  <2>2. CASE i = 1
    BY <1>4, <1>5, <2>2
  <2>3. CASE i \in 2 .. EndOf(l) - 1
    BY <1>2, <1>4, <2>3
  <2>4. CASE i = EndOf(l)
    BY <1>2, <2>4, Alphabet
  <2>5. CASE i = EndOf(l) + 1
    <3>1. i = Len(l) /\ l[i] = LF /\ i # EndOf(l)
      BY <1>1, <1>3, <1>4, <2>5
    <3> QED BY <3>1, Alphabet
  <2> QED BY <2>1, <2>2, <2>3, <2>4, <2>5
<1>7. l[Len(l)] >= BASE
  <2>1. l[Len(l)] \in {CR, LF}
    BY <1>2, <1>3
  <2> QED BY <2>1, Alphabet
<1> QED BY <1>1, <1>2, <1>3, <1>4, <1>5, <1>6, <1>7

LEMMA Widths ==
  ASSUME NEW t \in Types
  PROVE  /\ AddressDigits(t) \in {4, 6, 8} /\ Least(t) \in {3, 4, 5}
         /\ AddressDigits(t) = 2 * Least(t) - 2
<1>1. AddressDigits(t) \in {4, 6, 8}
  BY DEF AddressDigits
<1>2. 4 \div 2 = 2 /\ 6 \div 2 = 3 /\ 8 \div 2 = 4
  OBVIOUS
<1> QED BY <1>1, <1>2 DEF Least

LEMMA RecordFacts ==
  ASSUME NEW l, Formed(l), WholeRecord(l)
  PROVE  /\ l[1] = S /\ l[2] \in Types
         /\ CountOf(l) \in Nat /\ CountOf(l) >= 3
         /\ 4 + 2 * CountOf(l) < EndOf(l) /\ EndOf(l) <= Len(l) /\ Len(l) \in Nat
         /\ \A i \in 3 .. 4 + 2 * CountOf(l) : l[i] \in Digit
         /\ l[2] # 5 => DataCount(l) \in Nat /\ CountOf(l) = DataCount(l) + Least(l[2])
         /\ l[2] # 5 => NumberOf(l) \in Nat
<1>1. Len(l) \in Nat /\ EndOf(l) <= Len(l) /\ EndOf(l) \in Nat /\ \A i \in 1 .. Len(l) : l[i] \in Char
  BY LineFacts
<1>2. l[3] \in Digit /\ l[4] \in Digit /\ l[1] = S /\ l[2] \in Types
  <2>1. Len(l) >= 5 /\ l[3] < BASE /\ l[4] < BASE /\ l[1] = S /\ l[2] \in Types
    BY DEF WholeRecord
  <2>2. l[3] \in Char /\ l[4] \in Char
    BY <1>1, <2>1
  <2> QED BY <2>1, <2>2, ByItself
<1>3. CountOf(l) \in Nat
  <2>1. ByteOf(l, 1) \in Nat
    BY <1>2, ByteIs
  <2> QED BY <2>1 DEF CountOf
<1>4. CountOf(l) >= IF l[2] = 5 THEN 3 ELSE Least(l[2])
  BY DEF WholeRecord
<1>5. Least(l[2]) \in {3, 4, 5} /\ AddressDigits(l[2]) = 2 * Least(l[2]) - 2
  BY <1>2, Widths
<1>6. 4 + 2 * CountOf(l) < EndOf(l) /\ \A i \in 3 .. 4 + 2 * CountOf(l) : l[i] < BASE
  BY DEF WholeRecord
<1>7. ASSUME NEW i \in 3 .. 4 + 2 * CountOf(l) PROVE l[i] \in Digit
  <2>1. i \in 1 .. Len(l) /\ l[i] < BASE
    BY <1>1, <1>3, <1>6
  <2> QED BY <1>1, <2>1, Alphabet
<1>8. l[2] # 5 => DataCount(l) \in Nat /\ CountOf(l) = DataCount(l) + Least(l[2])
  BY <1>3, <1>4, <1>5 DEF DataCount
<1>9. l[2] # 5 => NumberOf(l) \in Nat
  <2> SUFFICES ASSUME l[2] # 5 PROVE NumberOf(l) \in Nat
    OBVIOUS
  <2> DEFINE n == AddressDigits(l[2])
  <2>1. n \in Nat /\ n <= 2 * CountOf(l) - 2
    BY <1>3, <1>4, <1>5
  <2> HIDE DEF n
  <2>2. ASSUME NEW k \in 5 .. 5 + n - 1 PROVE l[k] \in Digit
    BY <1>3, <1>7, <2>1
  <2>3. Number(l, 5, n) \in Nat
    BY <2>1, <2>2, NumberNat
  <2> QED BY <2>3 DEF NumberOf, n
<1>10. CountOf(l) >= 3
  BY <1>3, <1>4, <1>5
<1> QED BY <1>1, <1>2, <1>3, <1>6, <1>7, <1>8, <1>9, <1>10

-----------------------------------------------------------------------------
(* Reading a field.                                                        *)

Fields == {"count", "address", "data", "name", "sum"}

LEMMA FieldOnly == ASSUME NEW c, pc \in Fields, Handle(c) PROVE Hex(c)
BY DEF Fields, Handle, Start, Garbage, Type, SkipRest

\* A character that is no digit ends it.
LEMMA NoDigit ==
  ASSUME NEW c, c >= BASE, pc \in Fields, Handle(c)
  PROVE  type' = type /\ calculated_xsum' = calculated_xsum /\ FieldRead(0, TRUE)
BY FieldOnly DEF Hex

Summed(c) == (calculated_xsum + (value % BASE) * BASE + c) % ByteValues

\* So does the last of its digits, and others are added to the number.
LEMMA DigitRead ==
  ASSUME NEW c \in Digit, pc \in Fields, Handle(c)
  PROVE  /\ type' = type
         /\ calculated_xsum' = IF digits % 2 = 0 THEN calculated_xsum ELSE Summed(c)
         /\ digits + 1 = Width => FieldRead(value * BASE + c, FALSE)
         /\ digits + 1 # Width =>
              /\ pc' = pc /\ digits' = digits + 1 /\ value' = value * BASE + c
              /\ UNCHANGED <<count, bad, address, left, name, res, mem, go_address, program_name>>
<1>1. ~(c >= BASE)
  BY LoaderAssumption DEF Digit
<1>2. Hex(c)
  BY FieldOnly
<1> QED BY <1>1, <1>2 DEF Hex, Summed, results

\* A digit more makes the number of one digit more.
LEMMA DigitAdded ==
  ASSUME NEW l, NEW i \in Nat, NEW n \in Nat, value = Number(l, i, n)
  PROVE  value * BASE + l[i + n] = Number(l, i, n + 1)
<1>1. i + (n + 1) - 1 = i + n
  OBVIOUS
<1> QED BY <1>1, NumberIs

LEMMA SumNat ==
  ASSUME NEW l, NEW n \in Nat, \A j \in 3 .. 2 * n + 2 : l[j] \in Digit
  PROVE  SumOf(l, n) \in Nat
<1> DEFINE T == {k \in Nat : k <= n => SumOf(l, k) \in Nat}
<1>1. 0 \in T
  BY SumIs
<1>2. ASSUME NEW k \in Nat, k \in T PROVE k + 1 \in T
  <2> SUFFICES ASSUME k + 1 <= n PROVE SumOf(l, k + 1) \in Nat
    OBVIOUS
  <2>1. SumOf(l, k) \in Nat /\ 2 * (k + 1) + 1 \in 3 .. 2 * n + 2 /\ 2 * (k + 1) + 2 \in 3 .. 2 * n + 2
    BY <1>2
  <2>2. ByteOf(l, k + 1) \in Nat
    BY <2>1, ByteIs
  <2>3. SumOf(l, k + 1) = (SumOf(l, k) + ByteOf(l, k + 1)) % ByteValues
    BY SumIs
  <2> QED BY <2>1, <2>2, <2>3, Sizes
<1> HIDE DEF T
<1>3. n \in T
  BY <1>1, <1>2, Inductively
<1> QED BY <1>3 DEF T

\* The second digit of a byte adds it to the sum.
LEMMA PairAdded ==
  ASSUME NEW l, NEW i \in Nat, NEW n \in Nat, NEW k \in Nat, i + n = 2 * (k + 1) + 1,
         i >= 3, \A j \in 3 .. i + n + 1 : l[j] \in Digit,
         value = Number(l, i, n + 1), calculated_xsum = SumOf(l, k)
  PROVE  Summed(l[i + (n + 1)]) = SumOf(l, k + 1)
<1>1. Number(l, i, n + 1) = Number(l, i, n) * BASE + l[i + n]
  <2>1. i + (n + 1) - 1 = i + n
    OBVIOUS
  <2> QED BY <2>1, NumberIs
<1>2. Number(l, i, n) \in Nat
  <2>1. \A j \in i .. i + n - 1 : l[j] \in Digit
    OBVIOUS
  <2> QED BY <2>1, NumberNat
<1>3. i + n \in 3 .. i + n + 1 /\ i + (n + 1) \in 3 .. i + n + 1
  OBVIOUS
<1>4. l[i + n] \in Digit /\ l[i + (n + 1)] \in Digit
  BY <1>3
<1>5. value % BASE = l[i + n]
  BY <1>1, <1>2, <1>4, LastDigit
<1>6. 2 * (k + 1) + 2 = i + (n + 1) /\ k + 1 \in Nat
  OBVIOUS
<1>7. ByteOf(l, k + 1) = l[i + n] * BASE + l[i + (n + 1)] /\ ByteOf(l, k + 1) \in Nat
  <2>1. l[2 * (k + 1) + 1] \in Digit /\ l[2 * (k + 1) + 2] \in Digit
    BY <1>4, <1>6
  <2> QED BY <1>6, <2>1, ByteIs
<1>8. SumOf(l, k + 1) = (SumOf(l, k) + ByteOf(l, k + 1)) % ByteValues
  BY SumIs
<1>9. SumOf(l, k) \in Nat
  <2>1. \A j \in 3 .. 2 * k + 2 : l[j] \in Digit
    OBVIOUS
  <2> QED BY <2>1, SumNat
<1>10. l[i + n] * BASE \in Nat /\ l[i + (n + 1)] \in Nat
  BY <1>4, Digits, Multiple
<1>11. Summed(l[i + (n + 1)]) = (SumOf(l, k) + l[i + n] * BASE + l[i + (n + 1)]) % ByteValues
  BY <1>5 DEF Summed
<1>12. SumOf(l, k) + l[i + n] * BASE + l[i + (n + 1)] = SumOf(l, k) + ByteOf(l, k + 1)
  BY <1>7, <1>9, <1>10
<1> QED BY <1>8, <1>11, <1>12

\* The reader is at p, the second digit of the m-th byte, n digits behind i.
AtByte(l, i, n, m, p) ==
  /\ i \in Nat /\ i >= 3 /\ n \in Nat /\ n >= 1 /\ m \in Nat /\ m >= 1 /\ p = i + n /\ p = 2 * m + 2
  /\ \A j \in 3 .. p : l[j] \in Digit
  /\ value = Number(l, i, n) /\ calculated_xsum = SumOf(l, m - 1)

LEMMA ByteAdded ==
  ASSUME NEW l, NEW i, NEW n, NEW m, NEW p, AtByte(l, i, n, m, p)
  PROVE  Summed(l[p]) = SumOf(l, m)
<1> DEFINE h == n - 1
           k == m - 1
<1> USE DEF AtByte
<1>1. /\ h \in Nat /\ h + 1 = n /\ i + h = 2 * (k + 1) + 1 /\ i + (h + 1) = p /\ i + h + 1 = p
      /\ k \in Nat /\ k + 1 = m /\ calculated_xsum = SumOf(l, k)
  OBVIOUS
<1> HIDE DEF h, k
<1>2. value = Number(l, i, h + 1) /\ \A j \in 3 .. i + h + 1 : l[j] \in Digit
  BY <1>1
<1>3. Summed(l[i + (h + 1)]) = SumOf(l, k + 1)
  BY <1>1, <1>2, PairAdded
<1> QED BY <1>1, <1>3

-----------------------------------------------------------------------------
(* A record being read as what it says: where the reader is in line l, and *)
(* what it knows by then.                                                  *)

InCount(l) ==
  /\ pc = "count" /\ digits \in 0 .. 1 /\ col = 3 + digits
  /\ value = Number(l, 3, digits) /\ calculated_xsum = 0

InAddress(l) ==
  /\ pc = "address" /\ digits \in 0 .. 7 /\ digits < AddressDigits(l[2]) /\ col = 5 + digits
  /\ ~bad /\ count = CountOf(l) /\ value = Number(l, 5, digits)
  /\ l[2] # 5 => calculated_xsum = SumOf(l, 1 + digits \div 2)

\* The first n bytes of its data are in memory.
FirstStored(l, n) ==
  \A k \in 1 .. n : NumberOf(l) + k - 1 \in DOMAIN mem /\ mem[NumberOf(l) + k - 1] = DataByte(l, k)

\* So many bytes of data or name have been read, beginning behind the address.
Taken(l) == DataCount(l) - left
BytesFrom(l) == 2 * Least(l[2]) + 3

InBytes(l) ==
  /\ pc = (IF l[2] = 0 THEN "name" ELSE "data") /\ l[2] \in Data \cup {0}
  /\ left \in 1 .. DataCount(l) /\ digits \in 0 .. 1
  /\ col = BytesFrom(l) + 2 * Taken(l) + digits
  /\ value = Number(l, BytesFrom(l) + 2 * Taken(l), digits)
  /\ l[2] \in Data => address = NumberOf(l) + Taken(l) /\ FirstStored(l, Taken(l))
  /\ calculated_xsum = SumOf(l, Least(l[2]) + Taken(l))

InSum(l) ==
  /\ pc = "sum" /\ digits \in 0 .. 1 /\ l[2] # 5
  /\ col = 3 + 2 * CountOf(l) + digits
  /\ value = Number(l, 3 + 2 * CountOf(l), digits)
  /\ l[2] \in Data => FirstStored(l, DataCount(l))
  /\ l[2] \in Termination => address = NumberOf(l)
  /\ calculated_xsum = SumOf(l, CountOf(l))

Track(l) == WholeRecord(l) /\ type = l[2] /\ (InCount(l) \/ InAddress(l) \/ InBytes(l) \/ InSum(l))

\* What is so when it has been read.
Finished(l) ==
  /\ l[2] \in Data => FirstStored(l, DataCount(l))
  /\ l[2] \in Termination => go_address = NumberOf(l)

Over(l) == pc = "rest" /\ Finished(l) /\ (res = "DONE" => l[2] \in Termination)

LEMMA CountGoes ==
  ASSUME NEW l, Formed(l), WholeRecord(l), type = l[2], InCount(l), Handle(l[col]), col' = col + 1
  PROVE  Track(l)'
<1>1. CountOf(l) \in Nat /\ CountOf(l) >= 3 /\ \A i \in 3 .. 4 + 2 * CountOf(l) : l[i] \in Digit
  BY RecordFacts
<1>2. l[2] \in Types /\ AddressDigits(l[2]) \in {4, 6, 8}
  BY RecordFacts, Widths
<1>3. l[3] \in Digit /\ l[4] \in Digit
  BY <1>1
<1>4. pc \in Fields /\ Width = 2 /\ l[col] \in Digit
  BY <1>3 DEF InCount, Fields, Width
<1>5. value * BASE + l[3 + digits] = Number(l, 3, digits + 1)
  BY DigitAdded DEF InCount
<1>6. CASE digits = 0
  <2>1. digits + 1 # Width /\ digits % 2 = 0 /\ col = 3 + digits
    BY <1>4, <1>6 DEF InCount
  <2>2. /\ pc' = pc /\ digits' = digits + 1 /\ value' = value * BASE + l[col] /\ type' = type
        /\ calculated_xsum' = calculated_xsum
    BY <1>4, <2>1, DigitRead
  <2>3. InCount(l)'
    BY <1>5, <1>6, <2>1, <2>2 DEF InCount
  <2> QED BY <2>2, <2>3 DEF Track
<1>7. CASE digits = 1
  <2>1. digits + 1 = Width /\ digits % 2 # 0 /\ col = 3 + digits /\ digits + 1 = 2
    BY <1>4, <1>7 DEF InCount
  <2>2. FieldRead(value * BASE + l[col], FALSE) /\ type' = type /\ calculated_xsum' = Summed(l[col])
    BY <1>4, <2>1, DigitRead
  <2>3. /\ count' = value * BASE + l[col] /\ bad' = FALSE
        /\ pc' = "address" /\ digits' = 0 /\ value' = 0
    BY <2>2 DEF FieldRead, Count, Address, ReadData, Name, compare_xsums, InCount, Field
  <2>4. count' = CountOf(l)
    BY <1>5, <2>1, <2>3 DEF CountOf, ByteOf
  <2>5. calculated_xsum' = SumOf(l, 1)
    <3>1. calculated_xsum = SumOf(l, 0) /\ value = Number(l, 3, 1) /\ col = 3 + 1 /\ col = 2 * 1 + 2
      BY <1>7, SumIs DEF InCount
    <3>2. \A j \in 3 .. col : l[j] \in Digit
      BY <1>1, <3>1
    <3>3. AtByte(l, 3, 1, 1, col)
      BY <3>1, <3>2 DEF AtByte
    <3> QED BY <2>2, <3>3, ByteAdded
  <2>6. value' = Number(l, 5, 0) /\ 1 + 0 \div 2 = 1 /\ col' = 5 + 0
    BY <1>7, <2>1, <2>3, NumberIs
  <2>7. InAddress(l)'
    BY <1>2, <2>3, <2>4, <2>5, <2>6 DEF InAddress
  <2> QED BY <2>2, <2>7 DEF Track
<1> QED BY <1>6, <1>7 DEF InCount

\* The address has as many digits as its type has, and ends the record if it is a name's and not 0.
LEMMA AddressSum ==
  ASSUME NEW l, Formed(l), WholeRecord(l), type = l[2], l[2] # 5, InAddress(l), Handle(l[col])
  PROVE  /\ pc \in Fields /\ Width = AddressDigits(l[2]) /\ l[col] \in Digit
         /\ calculated_xsum' = SumOf(l, 1 + (digits + 1) \div 2)
<1>1. CountOf(l) \in Nat /\ CountOf(l) >= Least(l[2]) /\ \A i \in 3 .. 4 + 2 * CountOf(l) : l[i] \in Digit
  <2>1. CountOf(l) \in Nat /\ \A i \in 3 .. 4 + 2 * CountOf(l) : l[i] \in Digit
    BY RecordFacts
  <2>2. DataCount(l) \in Nat /\ CountOf(l) = DataCount(l) + Least(l[2]) /\ l[2] \in Types
    BY RecordFacts
  <2>3. Least(l[2]) \in {3, 4, 5}
    BY <2>2, Widths
  <2> QED BY <2>1, <2>2, <2>3
<1>2. l[2] \in Types /\ AddressDigits(l[2]) \in {4, 6, 8} /\ AddressDigits(l[2]) = 2 * Least(l[2]) - 2
      /\ Least(l[2]) \in {3, 4, 5}
  BY RecordFacts, Widths
<1>3. digits \in 0 .. 7 /\ digits < AddressDigits(l[2]) /\ col = 5 + digits
  BY DEF InAddress
<1>4. \A j \in 3 .. col : l[j] \in Digit
  BY <1>1, <1>2, <1>3
<1>5. l[col] \in Digit
  BY <1>3, <1>4
<1>6. pc \in Fields /\ Width = AddressDigits(l[2])
  BY DEF InAddress, Fields, Width
<1>7. calculated_xsum' = IF digits % 2 = 0 THEN calculated_xsum ELSE Summed(l[col])
  BY <1>5, <1>6, DigitRead
<1>8. calculated_xsum = SumOf(l, 1 + digits \div 2)
  BY DEF InAddress
<1>9. CASE digits \in {0, 2, 4, 6}
  <2>1. digits % 2 = 0 /\ 1 + digits \div 2 = 1 + (digits + 1) \div 2
    BY <1>9
  <2> QED BY <1>5, <1>6, <1>7, <1>8, <2>1
<1>10. CASE digits \in {1, 3, 5, 7}
  <2> DEFINE m == 1 + (digits + 1) \div 2
  <2>1. /\ digits % 2 # 0 /\ m \in Nat /\ m >= 1 /\ m - 1 = 1 + digits \div 2
        /\ col = 2 * m + 2 /\ digits \in Nat /\ digits >= 1
    BY <1>3, <1>10
  <2> HIDE DEF m
  <2>2. value = Number(l, 5, digits)
    BY DEF InAddress
  <2>3. AtByte(l, 5, digits, m, col)
    BY <1>3, <1>4, <1>8, <2>1, <2>2 DEF AtByte
  <2>4. Summed(l[col]) = SumOf(l, m)
    BY <2>3, ByteAdded
  <2> QED BY <1>5, <1>6, <1>7, <2>1, <2>4 DEF m
<1> QED BY <1>3, <1>5, <1>6, <1>9, <1>10

LEMMA AddressGoes ==
  ASSUME NEW l, Formed(l), WholeRecord(l), type = l[2], l[2] # 5, InAddress(l), Handle(l[col]),
         col' = col + 1
  PROVE  Track(l)' \/ Over(l)'
<1>1. /\ CountOf(l) \in Nat /\ DataCount(l) \in Nat /\ CountOf(l) = DataCount(l) + Least(l[2])
      /\ l[2] \in Types /\ CountOf(l) >= 3
  BY RecordFacts
<1>2. /\ AddressDigits(l[2]) \in {4, 6, 8} /\ AddressDigits(l[2]) = 2 * Least(l[2]) - 2
      /\ Least(l[2]) \in {3, 4, 5}
  BY <1>1, Widths
<1>3. digits \in 0 .. 7 /\ digits < AddressDigits(l[2]) /\ col = 5 + digits /\ digits \in Nat
  BY DEF InAddress
<1>4. pc \in Fields /\ Width = AddressDigits(l[2]) /\ l[col] \in Digit
      /\ calculated_xsum' = SumOf(l, 1 + (digits + 1) \div 2)
  BY AddressSum
<1>5. value * BASE + l[col] = Number(l, 5, digits + 1)
  <2>1. value * BASE + l[5 + digits] = Number(l, 5, digits + 1)
    BY <1>3, DigitAdded DEF InAddress
  <2> QED BY <1>3, <2>1
<1>6. CASE digits + 1 # AddressDigits(l[2])
  <2>1. /\ pc' = pc /\ digits' = digits + 1 /\ value' = value * BASE + l[col] /\ type' = type
        /\ count' = count /\ bad' = bad
    BY <1>4, <1>6, DigitRead
  <2>2. digits + 1 \in 0 .. 7 /\ digits + 1 < AddressDigits(l[2]) /\ col' = 5 + (digits + 1)
    BY <1>2, <1>3, <1>6
  <2>3. InAddress(l)'
    BY <1>4, <1>5, <2>1, <2>2 DEF InAddress
  <2> QED BY <2>1, <2>3 DEF Track
<1>7. CASE digits + 1 = AddressDigits(l[2])
  <2>1. FieldRead(value * BASE + l[col], FALSE) /\ type' = type
    BY <1>4, <1>7, DigitRead
  <2>2. value * BASE + l[col] = NumberOf(l)
    BY <1>5, <1>7 DEF NumberOf
  <2>3. pc = "address" /\ ~bad /\ count = CountOf(l)
    BY DEF InAddress
  <2>4. Address(NumberOf(l), FALSE)
    BY <2>1, <2>2, <2>3 DEF FieldRead, Count, ReadData, Name, compare_xsums
  <2>5. calculated_xsum' = SumOf(l, Least(l[2]))
    <3>1. 1 + (digits + 1) \div 2 = Least(l[2])
      BY <1>2, <1>7
    <3> QED BY <1>4, <3>1
  <2>6. CASE Refused(type, count, NumberOf(l))
    <3>1. l[2] = 0
      BY <1>1, <1>2, <2>3, <2>6 DEF Refused
    <3>2. pc' = "rest" /\ res' = "NOT_OK"
      BY <2>4, <2>6, <3>1 DEF Address, Rest, Ends, Termination
    <3> QED BY <3>1, <3>2 DEF Over, Finished, Data, Termination
  <2>7. CASE ~Refused(type, count, NumberOf(l))
    <3> DEFINE n == IF type \in Data \cup {0} THEN count - Least(type) ELSE 0
    <3>1. /\ address' = NumberOf(l) /\ left' = n
          /\ pc' = IF n = 0 THEN "sum" ELSE IF type = 0 THEN "name" ELSE "data"
          /\ digits' = 0 /\ value' = 0
      BY <2>3, <2>4, <2>7 DEF Address, Field
    <3>2. n = DataCount(l)
      <4>1. l[2] \in Termination => DataCount(l) = 0
        BY <1>1 DEF WholeRecord
      <4>2. l[2] \in Data \cup {0} \/ l[2] \in Termination
        BY <1>1 DEF Types, Data, Termination
      <4>3. CASE l[2] \in Data \cup {0}
        BY <1>1, <1>2, <2>3, <4>3
      <4>4. CASE l[2] \notin Data \cup {0}
        BY <4>1, <4>2, <4>4
      <4> QED BY <4>3, <4>4
    <3>3. n # 0 => l[2] \in Data \cup {0}
      OBVIOUS
    <3> HIDE DEF n
    <3>4. col' = BytesFrom(l)
      BY <1>2, <1>3, <1>7 DEF BytesFrom
    <3>5. CASE n = 0
      <4>1. /\ pc' = "sum" /\ DataCount(l) = 0 /\ CountOf(l) = Least(l[2])
            /\ col' = 3 + 2 * CountOf(l) + 0 /\ value' = Number(l, 3 + 2 * CountOf(l), 0)
        BY <1>1, <1>2, <3>1, <3>2, <3>4, <3>5, NumberIs DEF BytesFrom
      <4>2. FirstStored(l, DataCount(l))'
        <5>1. 1 .. DataCount(l) = {}
          BY <4>1
        <5> QED BY <5>1 DEF FirstStored
      <4>3. InSum(l)'
        BY <2>5, <3>1, <4>1, <4>2 DEF InSum
      <4> QED BY <2>1, <4>3 DEF Track
    <3>6. CASE n # 0
      <4>1. left' = DataCount(l) /\ DataCount(l) \in 1 .. DataCount(l) /\ DataCount(l) - DataCount(l) = 0
        BY <1>1, <3>1, <3>2, <3>6
      <4>2. /\ pc' = (IF l[2] = 0 THEN "name" ELSE "data") /\ l[2] \in Data \cup {0}
            /\ Taken(l)' = 0
        BY <3>1, <3>3, <3>6, <4>1 DEF Taken
      <4>3. col' = BytesFrom(l) + 2 * 0 + 0 /\ value' = Number(l, BytesFrom(l) + 2 * 0, 0)
        <5>1. BytesFrom(l) \in Nat
          BY <1>2 DEF BytesFrom
        <5> QED BY <3>1, <3>4, <5>1, NumberIs
      <4>4. l[2] \in Data => address' = NumberOf(l) + 0
        <5>1. NumberOf(l) \in Nat
          BY RecordFacts
        <5> QED BY <3>1, <5>1
      <4>5. FirstStored(l, 0)'
        <5>1. 1 .. 0 = {}
          OBVIOUS
        <5> QED BY <5>1 DEF FirstStored
      <4>6. calculated_xsum' = SumOf(l, Least(l[2]) + 0)
        BY <1>2, <2>5
      <4>7. InBytes(l)'
        BY <3>1, <4>1, <4>2, <4>3, <4>4, <4>5, <4>6 DEF InBytes
      <4> QED BY <2>1, <4>7 DEF Track
    <3> QED BY <3>5, <3>6
  <2> QED BY <2>6, <2>7
<1> QED BY <1>6, <1>7

\* Where the reader is in the data or the name.
LEMMA InBytesFacts ==
  ASSUME NEW l, Formed(l), WholeRecord(l), type = l[2], InBytes(l), Handle(l[col])
  PROVE  /\ Taken(l) \in Nat /\ Taken(l) + 1 <= DataCount(l) /\ left = DataCount(l) - Taken(l)
         /\ BytesFrom(l) \in Nat /\ Least(l[2]) \in Nat
         /\ pc \in {"data", "name"} /\ pc \in Fields /\ Width = 2
         /\ l[col] \in Digit /\ \A j \in 3 .. col : l[j] \in Digit
<1>1. /\ CountOf(l) \in Nat /\ DataCount(l) \in Nat /\ CountOf(l) = DataCount(l) + Least(l[2])
      /\ l[2] \in Types /\ \A i \in 3 .. 4 + 2 * CountOf(l) : l[i] \in Digit
  BY RecordFacts DEF InBytes, Data
<1>2. Least(l[2]) \in {3, 4, 5}
  BY <1>1, Widths
<1>3. left \in 1 .. DataCount(l) /\ digits \in 0 .. 1 /\ col = BytesFrom(l) + 2 * Taken(l) + digits
  BY DEF InBytes
<1>4. Taken(l) = DataCount(l) - left
  BY DEF Taken
<1>5. BytesFrom(l) = 2 * Least(l[2]) + 3
  BY DEF BytesFrom
<1>6. col \in 3 .. 4 + 2 * CountOf(l)
  BY <1>1, <1>2, <1>3, <1>4, <1>5
<1>7. \A j \in 3 .. col : j \in 3 .. 4 + 2 * CountOf(l)
  BY <1>1, <1>6
<1>8. pc \in {"data", "name"}
  BY DEF InBytes
<1>9. Width = 2 /\ pc \in Fields
  BY <1>8 DEF Width, Fields
<1> QED BY <1>1, <1>2, <1>3, <1>4, <1>5, <1>6, <1>7, <1>8, <1>9

LEMMA ByteRead ==
  ASSUME NEW l, Formed(l), WholeRecord(l), type = l[2], InBytes(l), Handle(l[col]), digits = 1
  PROVE  /\ type' = type /\ calculated_xsum' = SumOf(l, Least(l[2]) + (Taken(l) + 1))
         /\ pc = "data" => ReadData(DataByte(l, Taken(l) + 1), FALSE)
         /\ pc = "name" => Name(DataByte(l, Taken(l) + 1))
<1> DEFINE t == Taken(l)
           m == Least(l[2]) + (t + 1)
           i == BytesFrom(l) + 2 * t
<1>1. /\ t \in Nat /\ pc \in {"data", "name"} /\ pc \in Fields /\ Width = 2 /\ l[col] \in Digit
      /\ \A j \in 3 .. col : l[j] \in Digit
      /\ Least(l[2]) \in Nat
  BY InBytesFacts
<1>2. /\ col = i + 1 /\ value = Number(l, i, 1) /\ calculated_xsum = SumOf(l, Least(l[2]) + t)
  BY DEF InBytes
<1>3. BytesFrom(l) = 2 * Least(l[2]) + 3
  BY DEF BytesFrom
<1> HIDE DEF t
<1>4. /\ m \in Nat /\ m >= 1 /\ m - 1 = Least(l[2]) + t /\ i = 2 * m + 1 /\ i \in Nat /\ i >= 3
      /\ col = 2 * m + 2
  BY <1>1, <1>2, <1>3
<1>5. DataByte(l, t + 1) = Number(l, i, 2)
  BY <1>4 DEF DataByte, ByteOf
<1> HIDE DEF m, i
<1>6. AtByte(l, i, 1, m, col)
  BY <1>1, <1>2, <1>4 DEF AtByte
<1>7. Summed(l[col]) = SumOf(l, m)
  BY <1>6, ByteAdded
<1>8. value * BASE + l[col] = Number(l, i, 2)
  <2>1. value * BASE + l[i + 1] = Number(l, i, 1 + 1)
    BY <1>2, <1>4, DigitAdded
  <2> QED BY <1>2, <2>1
<1>9. digits % 2 # 0 /\ digits + 1 = Width
  BY <1>1
<1>10. type' = type /\ calculated_xsum' = Summed(l[col]) /\ FieldRead(value * BASE + l[col], FALSE)
  BY <1>1, <1>9, DigitRead
<1>11. FieldRead(DataByte(l, t + 1), FALSE)
  BY <1>5, <1>8, <1>10
<1>12. /\ pc = "data" => ReadData(DataByte(l, t + 1), FALSE)
       /\ pc = "name" => Name(DataByte(l, t + 1))
  BY <1>11 DEF FieldRead, Count, Address, ReadData, Name, compare_xsums
<1> QED BY <1>7, <1>10, <1>12 DEF t, m

LEMMA OneMoreStored ==
  ASSUME NEW l, NEW n \in Nat, FirstStored(l, n), NumberOf(l) \in Nat,
         mem' = StoreAt(NumberOf(l) + n, DataByte(l, n + 1))
  PROVE  FirstStored(l, n + 1)'
<1> SUFFICES ASSUME NEW k \in 1 .. n + 1
             PROVE  /\ NumberOf(l) + k - 1 \in DOMAIN mem'
                    /\ mem'[NumberOf(l) + k - 1] = DataByte(l, k)
  BY DEF FirstStored
<1> DEFINE a == NumberOf(l) + n
           b == NumberOf(l) + k - 1
<1>1. mem' = [x \in DOMAIN mem \cup {a} |-> IF x = a THEN DataByte(l, n + 1) ELSE mem[x]]
  BY DEF StoreAt
<1>2. CASE k = n + 1
  <2>1. b = a
    BY <1>2
  <2> QED BY <1>1, <1>2, <2>1
<1>3. CASE k # n + 1
  <2>1. k \in 1 .. n /\ b # a
    BY <1>3
  <2>2. b \in DOMAIN mem /\ mem[b] = DataByte(l, k)
    BY <2>1 DEF FirstStored
  <2> QED BY <1>1, <2>1, <2>2
<1> QED BY <1>2, <1>3

LEMMA BytesGoes ==
  ASSUME NEW l, Formed(l), WholeRecord(l), type = l[2], InBytes(l), Handle(l[col]), col' = col + 1
  PROVE  Track(l)'
<1>0. PICK t : t = Taken(l)
  OBVIOUS
<1>1. /\ t \in Nat /\ t + 1 <= DataCount(l) /\ left = DataCount(l) - t
      /\ pc \in {"data", "name"} /\ pc \in Fields /\ Width = 2
      /\ BytesFrom(l) \in Nat /\ Least(l[2]) \in Nat /\ l[col] \in Digit
  BY <1>0, InBytesFacts
<1>2. /\ l[2] # 5 /\ DataCount(l) \in Nat /\ CountOf(l) = DataCount(l) + Least(l[2])
      /\ NumberOf(l) \in Nat
  <2>1. l[2] # 5
    BY DEF InBytes, Data
  <2> QED BY <2>1, RecordFacts
<1>3. /\ col = BytesFrom(l) + 2 * t + digits /\ digits \in 0 .. 1
      /\ value = Number(l, BytesFrom(l) + 2 * t, digits)
      /\ l[2] \in Data => address = NumberOf(l) + t /\ FirstStored(l, t)
      /\ l[2] \in Data \cup {0} /\ pc = (IF l[2] = 0 THEN "name" ELSE "data")
      /\ calculated_xsum = SumOf(l, Least(l[2]) + t)
  BY <1>0 DEF InBytes
<1>4. BytesFrom(l) = 2 * Least(l[2]) + 3
  BY DEF BytesFrom
<1>5. CASE digits = 0
  <2>1. digits + 1 # Width /\ digits % 2 = 0
    BY <1>1, <1>5
  <2>2. /\ pc' = pc /\ digits' = digits + 1 /\ value' = value * BASE + l[col] /\ type' = type
        /\ calculated_xsum' = calculated_xsum /\ left' = left /\ address' = address /\ mem' = mem
    BY <1>1, <2>1, DigitRead
  <2>3. Taken(l)' = t /\ (FirstStored(l, t) => FirstStored(l, t)')
    BY <1>0, <2>2 DEF Taken, FirstStored
  <2>4. value' = Number(l, BytesFrom(l) + 2 * t, 1)
    <3>1. BytesFrom(l) + 2 * t \in Nat
      BY <1>1
    <3>2. value * BASE + l[BytesFrom(l) + 2 * t + 0] = Number(l, BytesFrom(l) + 2 * t, 0 + 1)
      BY <1>3, <1>5, <3>1, DigitAdded
    <3> QED BY <1>3, <1>5, <2>2, <3>2
  <2>5. digits' = 1 /\ col' = BytesFrom(l) + 2 * t + 1 /\ left' \in 1 .. DataCount(l)
    BY <1>1, <1>2, <1>3, <1>5, <2>2
  <2>6. InBytes(l)'
    BY <1>3, <2>2, <2>3, <2>4, <2>5 DEF InBytes
  <2> QED BY <2>2, <2>6 DEF Track
<1>6. CASE digits = 1
  <2>1. /\ type' = type /\ calculated_xsum' = SumOf(l, Least(l[2]) + (t + 1))
        /\ pc = "data" => ReadData(DataByte(l, t + 1), FALSE)
        /\ pc = "name" => Name(DataByte(l, t + 1))
    BY <1>0, <1>6, ByteRead
  <2>2. /\ left' = left - 1 /\ digits' = 0 /\ value' = 0
        /\ pc' = IF left = 1 THEN "sum" ELSE pc
    BY <1>1, <2>1 DEF ReadData, Name, Field
  <2>3. ASSUME l[2] \in Data
        PROVE  FirstStored(l, t + 1)' /\ (left # 1 => address' = NumberOf(l) + (t + 1))
    <3>1. pc = "data"
      BY <1>3, <2>3 DEF Data
    <3>2. mem' = StoreAt(NumberOf(l) + t, DataByte(l, t + 1)) /\ address' = (NumberOf(l) + t + 1) % AddressSpace
      BY <1>3, <2>1, <2>3, <3>1 DEF ReadData
    <3>3. FirstStored(l, t + 1)'
      BY <1>1, <1>2, <1>3, <2>3, <3>2, OneMoreStored
    <3>4. NumberOf(l) + DataCount(l) <= AddressSpace
      BY <2>3 DEF WholeRecord
    <3>5. ASSUME left # 1 PROVE address' = NumberOf(l) + (t + 1)
      <4>1. NumberOf(l) + t + 1 \in Nat /\ NumberOf(l) + t + 1 < AddressSpace
        BY <1>1, <1>2, <3>4, <3>5, Sizes
      <4> DEFINE x == NumberOf(l) + t + 1
      <4>2. x = NumberOf(l) + (t + 1)
        BY <1>1, <1>2
      <4> HIDE DEF x
      <4>3. ASSUME NEW y \in Nat, NEW z \in Nat, y < z PROVE y % z = y
        BY <4>3
      <4>4. x % AddressSpace = x
        BY <4>1, <4>3, Sizes DEF x
      <4> QED BY <3>2, <4>2, <4>4 DEF x
    <3> QED BY <3>3, <3>5
  <2>4. CASE left = 1
    <3>1. t + 1 = DataCount(l) /\ Least(l[2]) + (t + 1) = CountOf(l)
      BY <1>1, <1>2, <2>4
    <3>2. col' = 3 + 2 * CountOf(l) + 0
      BY <1>1, <1>2, <1>3, <1>4, <1>6, <3>1
    <3>3. 3 + 2 * CountOf(l) \in Nat
      BY <1>1, <1>2
    <3>4. value' = Number(l, 3 + 2 * CountOf(l), 0)
      BY <2>2, <3>3, NumberIs
    <3>5. l[2] \notin Termination
      BY <1>3 DEF Termination, Data
    <3>6. l[2] \in Data => FirstStored(l, DataCount(l))'
      BY <2>3, <3>1
    <3>7. InSum(l)'
      BY <1>2, <2>1, <2>2, <2>4, <3>1, <3>2, <3>4, <3>5, <3>6 DEF InSum
    <3> QED BY <2>1, <3>7 DEF Track
  <2>5. CASE left # 1
    <3>1. Taken(l)' = t + 1
      BY <1>0, <1>1, <1>2, <2>2 DEF Taken
    <3>2. left' \in 1 .. DataCount(l) /\ col' = BytesFrom(l) + 2 * (t + 1) + 0
      BY <1>1, <1>2, <1>3, <1>6, <2>2, <2>5
    <3>3. value' = Number(l, BytesFrom(l) + 2 * (t + 1), 0)
      BY <2>2, NumberIs
    <3>4. l[2] \in Data => address' = NumberOf(l) + (t + 1) /\ FirstStored(l, t + 1)'
      BY <2>3, <2>5
    <3>5. FirstStored(l, Taken(l))' = FirstStored(l, t + 1)'
      BY <3>1 DEF FirstStored
    <3>6. InBytes(l)'
      BY <1>3, <2>1, <2>2, <2>5, <3>1, <3>2, <3>3, <3>4, <3>5 DEF InBytes
    <3> QED BY <2>1, <3>6 DEF Track
  <2> QED BY <2>4, <2>5
<1> QED BY <1>3, <1>5, <1>6

LEMMA SumGoes ==
  ASSUME NEW l, Formed(l), WholeRecord(l), type = l[2], InSum(l), Handle(l[col]), col' = col + 1
  PROVE  Track(l)' \/ Over(l)'
<1> DEFINE n == CountOf(l)
           i == 3 + 2 * n
<1>1. n \in Nat /\ n >= 3 /\ \A j \in 3 .. 4 + 2 * n : l[j] \in Digit
  BY RecordFacts
<1>2. /\ pc = "sum" /\ digits \in 0 .. 1 /\ l[2] # 5 /\ col = i + digits /\ value = Number(l, i, digits)
      /\ l[2] \in Data => FirstStored(l, DataCount(l))
      /\ l[2] \in Termination => address = NumberOf(l)
      /\ calculated_xsum = SumOf(l, n)
  BY DEF InSum
<1> HIDE DEF n
<1>3. pc \in Fields /\ Width = 2 /\ l[col] \in Digit /\ i \in Nat
  BY <1>1, <1>2 DEF Fields, Width
<1>4. value * BASE + l[i + digits] = Number(l, i, digits + 1)
  BY <1>2, <1>3, DigitAdded
<1>5. CASE digits = 0
  <2>1. digits + 1 # Width /\ digits % 2 = 0
    BY <1>3, <1>5
  <2>2. /\ pc' = pc /\ digits' = digits + 1 /\ value' = value * BASE + l[col] /\ type' = type
        /\ calculated_xsum' = calculated_xsum /\ left' = left /\ address' = address /\ mem' = mem
    BY <1>3, <2>1, DigitRead
  <2>3. digits' = 1 /\ col' = i + 1 /\ value' = Number(l, i, 1)
    BY <1>2, <1>3, <1>4, <1>5, <2>2
  <2>4. FirstStored(l, DataCount(l)) => FirstStored(l, DataCount(l))'
    BY <2>2 DEF FirstStored
  <2>5. InSum(l)'
    BY <1>2, <2>2, <2>3, <2>4 DEF InSum, n
  <2> QED BY <2>2, <2>5 DEF Track
<1>6. CASE digits = 1
  <2>1. digits + 1 = Width
    BY <1>3, <1>6
  <2>2. value * BASE + l[col] = ByteOf(l, n + 1)
    <3>1. 2 * (n + 1) + 1 = i
      BY <1>1
    <3> QED BY <1>2, <1>4, <1>6, <3>1 DEF ByteOf
  <2>3. FieldRead(ByteOf(l, n + 1), FALSE)
    BY <1>3, <2>1, <2>2, DigitRead
  <2>4. compare_xsums(ByteOf(l, n + 1))
    BY <1>2, <2>3 DEF FieldRead, Count, Address, ReadData, Name
  <2>5. pc' = "rest" /\ mem' = mem /\ (res' = "DONE" => l[2] \in Termination)
    BY <2>4 DEF compare_xsums, Rest, Ends
  <2>6. ASSUME l[2] \in Termination PROVE go_address' = NumberOf(l)
    <3>1. ByteOf(l, n + 1) = (ByteValues - 1) - SumOf(l, n)
      BY <2>6 DEF WholeRecord, n
    <3> QED BY <1>2, <2>4, <2>6, <3>1 DEF compare_xsums, XsumMatches
  <2>7. FirstStored(l, DataCount(l)) => FirstStored(l, DataCount(l))'
    BY <2>5 DEF FirstStored
  <2>8. Over(l)'
    BY <1>2, <2>5, <2>6, <2>7 DEF Over, Finished
  <2> QED BY <2>8
<1> QED BY <1>2, <1>5, <1>6

\* So a record that arrives whole is read as what it says.
LEMMA TrackGoes ==
  ASSUME NEW l, Formed(l), Track(l), l[2] # 5, Handle(l[col]), col' = col + 1
  PROVE  Track(l)' \/ Over(l)'
BY CountGoes, AddressGoes, BytesGoes, SumGoes DEF Track

\* And ends in front of the end of its line.
LEMMA TrackInside ==
  ASSUME NEW l, Formed(l), Track(l), l[2] # 5
  PROVE  col \in 3 .. 4 + 2 * CountOf(l) /\ col < EndOf(l) /\ pc \in Fields
<1>1. /\ CountOf(l) \in Nat /\ CountOf(l) >= 3 /\ l[2] \in Types /\ 4 + 2 * CountOf(l) < EndOf(l)
      /\ DataCount(l) \in Nat /\ CountOf(l) = DataCount(l) + Least(l[2]) /\ EndOf(l) \in Nat
  BY RecordFacts, LineFacts DEF Track
<1>2. Least(l[2]) \in {3, 4, 5} /\ AddressDigits(l[2]) = 2 * Least(l[2]) - 2
  BY <1>1, Widths
<1>3. col \in 3 .. 4 + 2 * CountOf(l)
  <2>1. CASE InCount(l)
    BY <1>1, <2>1 DEF InCount
  <2>2. CASE InAddress(l)
    BY <1>1, <1>2, <2>2 DEF InAddress
  <2>3. CASE InBytes(l)
    BY <1>1, <1>2, <2>3 DEF InBytes, BytesFrom, Taken
  <2>4. CASE InSum(l)
    BY <1>1, <2>4 DEF InSum
  <2> QED BY <2>1, <2>2, <2>3, <2>4 DEF Track
<1>4. pc \in Fields
  BY DEF Track, InCount, InAddress, InBytes, InSum, Fields
<1> QED BY <1>1, <1>3, <1>4

-----------------------------------------------------------------------------
(* Reading any other line.                                                 *)

LEMMA Handlers ==
  ASSUME NEW c, Handle(c)
  PROVE  /\ pc \in {"start", "second"} => Start(c)
         /\ pc = "garbage" => Garbage(c)
         /\ pc = "type" => Type(c)
         /\ pc = "rest" => SkipRest(c)
         /\ pc \in {"start", "second", "garbage", "type", "rest"} \cup Fields
BY DEF Handle, Start, Garbage, Type, SkipRest, Hex, Fields

\* Only a byte of data changes memory, and only a checksum the address to go to.
LEMMA Keeps ==
  ASSUME NEW c, Handle(c)
  PROVE  /\ pc # "data" => mem' = mem
         /\ pc # "sum" => go_address' = go_address
<1>1. CASE pc \in Fields
  <2>1. Hex(c)
    BY <1>1, FieldOnly
  <2>2. ASSUME NEW v, NEW err, FieldRead(v, err)
        PROVE  /\ pc # "data" => mem' = mem
               /\ pc # "sum" => go_address' = go_address
    BY <2>2 DEF FieldRead, Count, Address, ReadData, Name, compare_xsums, results
  <2>3. CASE c >= BASE
    BY <2>1, <2>2, <2>3 DEF Hex
  <2>4. CASE ~(c >= BASE)
    BY <2>1, <2>2, <2>4 DEF Hex, results
  <2> QED BY <2>3, <2>4
<1>2. CASE pc \notin Fields
  BY <1>2, Handlers DEF Start, Garbage, Type, SkipRest, results
<1> QED BY <1>1, <1>2

\* What a field that ends too soon comes to.
LEMMA CutShort ==
  ASSUME NEW c, c >= BASE, pc \in Fields, Handle(c)
  PROVE  /\ type' = type /\ mem' = mem
         /\ pc = "count" => pc' = "address"
         /\ pc \in {"address", "data", "sum"} => pc' = "rest"
         /\ pc = "name" => pc' \in {"name", "sum"}
<1>1. type' = type /\ FieldRead(0, TRUE)
  BY NoDigit
<1>2. pc = "count" => pc' = "address" /\ mem' = mem
  BY <1>1 DEF FieldRead, Count, Address, ReadData, Name, compare_xsums, Field, results
<1>3. pc = "address" => pc' = "rest" /\ mem' = mem
  BY <1>1 DEF FieldRead, Count, Address, ReadData, Name, compare_xsums, Rest, results
<1>4. pc = "data" => pc' = "rest" /\ mem' = mem
  BY <1>1 DEF FieldRead, Count, Address, ReadData, Name, compare_xsums, Rest
<1>5. pc = "name" => pc' \in {"name", "sum"} /\ mem' = mem
  BY <1>1 DEF FieldRead, Count, Address, ReadData, Name, compare_xsums, Field, results
<1>6. pc = "sum" => pc' = "rest" /\ mem' = mem
  BY <1>1 DEF FieldRead, Count, Address, ReadData, Name, compare_xsums, Rest
<1> QED BY <1>1, <1>2, <1>3, <1>4, <1>5, <1>6 DEF Fields

\* What any character may make of a field.
LEMMA FieldGoes ==
  ASSUME NEW c \in Char, pc \in Fields, Handle(c)
  PROVE  /\ type' = type
         /\ pc = "count" => pc' \in {"count", "address"}
         /\ pc = "address" => /\ pc' \in {"address", "sum", "rest", "name", "data"}
                              /\ pc' = "name" => type = 0
                              /\ pc' = "data" => type \in Data
                              /\ pc' = "rest" /\ res' = "DONE" => type \in Termination
         /\ pc = "data" => pc' \in {"data", "sum", "rest"}
         /\ pc = "name" => pc' \in {"name", "sum"}
         /\ pc = "sum" => /\ pc' \in {"sum", "rest"}
                          /\ pc' = "rest" /\ res' = "DONE" => type \in Termination
<1> DEFINE G ==
      /\ pc = "count" => pc' \in {"count", "address"}
      /\ pc = "address" => /\ pc' \in {"address", "sum", "rest", "name", "data"}
                           /\ pc' = "name" => type = 0
                           /\ pc' = "data" => type \in Data
                           /\ pc' = "rest" /\ res' = "DONE" => type \in Termination
      /\ pc = "data" => pc' \in {"data", "sum", "rest"}
      /\ pc = "name" => pc' \in {"name", "sum"}
      /\ pc = "sum" => /\ pc' \in {"sum", "rest"}
                       /\ pc' = "rest" /\ res' = "DONE" => type \in Termination
<1>1. ASSUME NEW v, NEW err, FieldRead(v, err) PROVE G
  <2>1. pc = "count" => pc' = "address"
    BY <1>1 DEF FieldRead, Count, Address, ReadData, Name, compare_xsums, Field
  <2>2. ASSUME pc = "address"
        PROVE  /\ pc' \in {"sum", "rest", "name", "data"}
               /\ pc' = "name" => type = 0
               /\ pc' = "data" => type \in Data
               /\ pc' = "rest" /\ res' = "DONE" => type \in Termination
    <3>1. Address(v, err)
      BY <1>1, <2>2 DEF FieldRead, Count, ReadData, Name, compare_xsums
    <3>2. CASE bad \/ err \/ Refused(type, count, v)
      BY <3>1, <3>2 DEF Address, Rest, Ends
    <3>3. CASE ~(bad \/ err \/ Refused(type, count, v))
      BY <3>1, <3>3 DEF Address, Field
    <3> QED BY <3>2, <3>3
  <2>3. pc = "data" => pc' \in {"data", "sum", "rest"}
    BY <1>1 DEF FieldRead, Count, Address, ReadData, Name, compare_xsums, Field, Rest
  <2>4. pc = "name" => pc' \in {"name", "sum"}
    BY <1>1 DEF FieldRead, Count, Address, ReadData, Name, compare_xsums, Field
  <2>5. pc = "sum" => pc' = "rest" /\ (res' = "DONE" => type \in Termination)
    <3>1. pc = "sum" => compare_xsums(v)
      BY <1>1 DEF FieldRead, Count, Address, ReadData, Name
    <3> QED BY <3>1 DEF compare_xsums, Rest, Ends
  <2> QED BY <2>1, <2>2, <2>3, <2>4, <2>5
<1>2. CASE c >= BASE
  <2>1. type' = type /\ FieldRead(0, TRUE)
    BY <1>2, NoDigit
  <2> HIDE DEF G
  <2>2. G
    BY <1>1, <2>1
  <2> QED BY <2>1, <2>2 DEF G
<1>3. CASE ~(c >= BASE)
  <2>1. c \in Digit
    BY <1>3, Alphabet
  <2>2. type' = type
    BY <2>1, DigitRead
  <2>3. CASE digits + 1 = Width
    <3>1. FieldRead(value * BASE + c, FALSE)
      BY <2>1, <2>3, DigitRead
    <3> HIDE DEF G
    <3>2. G
      BY <1>1, <3>1
    <3> QED BY <2>2, <3>2 DEF G
  <2>4. CASE digits + 1 # Width
    <3>1. pc' = pc
      BY <2>1, <2>4, DigitRead
    <3> QED BY <2>1, <2>2, <2>4, <3>1, DigitRead DEF Fields
  <2> QED BY <2>3, <2>4
<1> QED BY <1>2, <1>3

CountRecord(l) == l[1] = S /\ l[2] = 5

\* What is known of the reader in a line of which nothing was altered or lost: it has yet to begin
\* it, or skips it, or has read it to its end, or reads it as what it says.  It passes the end only
\* of a count record, whose address is read too long, or with a name that began on a line before.
Known(l) ==
  \/ col = 1
  \/ pc \in {"rest", "garbage"} /\ (col <= EndOf(l) \/ CountRecord(l) \/ strayed)
  \/ pc = "start" /\ col = EndOf(l) + 1
  \/ pc = "type" /\ col = 2 /\ l[1] = S
  \/ Track(l)
  \/ pc \in {"address", "sum"} /\ type = 5 /\ CountRecord(l)
  \/ pc \in {"name", "sum"} /\ type = 0 /\ strayed

\* The first character of a line ends whatever was being read, but for a name.
LEMMA FirstGoes ==
  ASSUME NEW l, Formed(l), col = 1, Handle(l[1]), pc # "count", pc = "name" => type = 0 /\ strayed,
         col' = 2, strayed => strayed'
  PROVE  Known(l)'
<1>1. l[1] >= BASE /\ l[1] \notin {CR, LF} /\ 2 <= EndOf(l) /\ l[1] \in Char /\ l[1] \notin Types
  <2>1. l[1] >= BASE /\ l[1] \notin {CR, LF} /\ 2 <= EndOf(l) /\ l[1] \in Char
    <3>1. 1 \in 1 .. Len(l)
      BY LineFacts
    <3> QED BY <3>1, LineFacts
  <2> QED BY <2>1, Alphabet
<1>2. CASE pc \in {"start", "second"}
  <2>1. (pc' = "type" /\ l[1] = S) \/ pc' = "garbage"
    BY <1>1, <1>2, Handlers DEF Start
  <2> QED BY <1>1, <2>1 DEF Known
<1>3. CASE pc \in {"garbage", "type", "rest"}
  <2>1. pc = "garbage" => pc' = "garbage"
    BY <1>1, Handlers DEF Garbage
  <2>2. pc = "type" => pc' = "rest"
    BY <1>1, Handlers DEF Type, Rest
  <2>3. pc = "rest" => pc' = "rest"
    BY <1>1, Handlers DEF SkipRest
  <2> QED BY <1>1, <1>3, <2>1, <2>2, <2>3 DEF Known
<1>4. CASE pc \in Fields
  <2>1. /\ type' = type
        /\ pc \in {"address", "data", "sum"} => pc' = "rest"
        /\ pc = "name" => pc' \in {"name", "sum"}
    BY <1>1, <1>4, CutShort
  <2>2. pc' = "rest" \/ (pc' \in {"name", "sum"} /\ type' = 0 /\ strayed')
    BY <1>4, <2>1 DEF Fields
  <2> QED BY <1>1, <2>2 DEF Known
<1> QED BY <1>2, <1>3, <1>4, Handlers

\* The second is the type of a record, or of none.
LEMMA TypeGoes ==
  ASSUME NEW l, Formed(l), pc = "type", col = 2, l[1] = S, Handle(l[2]), col' = 3
  PROVE  \/ Track(l)' /\ l[2] \in Types
         \/ pc' = "rest" /\ 3 <= EndOf(l) /\ l[2] \notin Types /\ res' = "OK" /\ mem' = mem
<1>1. Type(l[2])
  BY Handlers
<1>2. WholeRecord(l) \/ (NoRecord(l) /\ l[2] \notin Types \cup {CR})
  BY DEF Formed, WellFormed, NoRecord
<1>3. CASE l[2] \in Types
  <2>1. /\ pc' = "count" /\ digits' = 0 /\ value' = 0 /\ type' = l[2] /\ calculated_xsum' = 0
    BY <1>1, <1>3 DEF Type, Field, XsumCleared
  <2>2. value' = Number(l, 3, 0) /\ col' = 3 + 0
    BY <2>1, NumberIs
  <2>3. InCount(l)'
    BY <2>1, <2>2 DEF InCount
  <2> QED BY <1>2, <1>3, <2>1, <2>3 DEF Track
<1>4. CASE l[2] \notin Types
  <2>1. l[2] # CR
    BY <1>2, <1>4 DEF WholeRecord
  <2>2. EndOf(l) \in 2 .. Len(l) /\ Len(l) \in Nat /\ l[EndOf(l)] = CR
    BY LineFacts
  <2>3. EndOf(l) # 2
    BY <2>1, <2>2
  <2>4. pc' = "rest" /\ res' = "OK" /\ mem' = mem
    BY <1>1, <1>4 DEF Type, Rest, results
  <2> QED BY <1>4, <2>2, <2>3, <2>4
<1> QED BY <1>3, <1>4

LEMMA KnownGoes ==
  ASSUME NEW l, Formed(l), Known(l), col \in 1 .. Len(l) - 1, Handle(l[col]),
         pc = "count" => col # 1, pc = "name" /\ col = 1 => type = 0 /\ strayed,
         col' = col + 1, strayed => strayed'
  PROVE  Known(l)' \/ pc' = "idle"
<1>1. /\ Len(l) \in Nat /\ EndOf(l) \in 2 .. Len(l) /\ col \in 1 .. Len(l) /\ l[col] \in Char
      /\ l[col] = CR <=> col = EndOf(l)
  BY LineFacts
<1>2. CASE col = 1
  BY <1>2, FirstGoes
<1>3. CASE pc = "rest" /\ (col <= EndOf(l) \/ CountRecord(l) \/ strayed)
  <2>1. SkipRest(l[col])
    BY <1>3, Handlers
  <2>2. CASE col = EndOf(l)
    <3>1. pc' = "idle" \/ pc' = "start"
      BY <1>1, <2>1, <2>2 DEF SkipRest
    <3> QED BY <2>2, <3>1 DEF Known
  <2>3. CASE col # EndOf(l)
    <3>1. pc' = "rest"
      BY <1>1, <1>3, <2>1, <2>3 DEF SkipRest
    <3>2. col + 1 <= EndOf(l) \/ CountRecord(l) \/ strayed
      BY <1>1, <1>3, <2>3
    <3> QED BY <3>1, <3>2 DEF Known, CountRecord
  <2> QED BY <2>2, <2>3
<1>4. CASE pc = "garbage" /\ (col <= EndOf(l) \/ CountRecord(l) \/ strayed)
  <2>1. Garbage(l[col])
    BY <1>4, Handlers
  <2>2. CASE col = EndOf(l)
    <3>1. pc' = "start"
      BY <1>1, <2>1, <2>2 DEF Garbage
    <3> QED BY <2>2, <3>1 DEF Known
  <2>3. CASE col # EndOf(l)
    <3>1. pc' = "garbage"
      BY <1>1, <2>1, <2>3 DEF Garbage
    <3>2. col + 1 <= EndOf(l) \/ CountRecord(l) \/ strayed
      BY <1>1, <1>4, <2>3
    <3> QED BY <3>1, <3>2 DEF Known, CountRecord
  <2> QED BY <2>2, <2>3
<1>5. CASE pc = "start" /\ col = EndOf(l) + 1
  <2>1. FALSE
    BY <1>5, LineFacts
  <2> QED BY <2>1
<1>6. CASE pc = "type" /\ col = 2 /\ l[1] = S
  <2>1. Track(l)' \/ (pc' = "rest" /\ 3 <= EndOf(l))
    BY <1>6, TypeGoes
  <2> QED BY <1>6, <2>1 DEF Known
<1>7. CASE Track(l) /\ l[2] # 5
  <2>1. Track(l)' \/ Over(l)'
    BY <1>7, TrackGoes
  <2>2. col + 1 <= EndOf(l)
    BY <1>1, <1>7, TrackInside
  <2> QED BY <2>1, <2>2 DEF Known, Over
<1>8. CASE Track(l) /\ l[2] = 5
  <2>1. type = 5 /\ CountRecord(l)
    BY <1>8 DEF Track, WholeRecord, CountRecord
  <2>2. CASE InCount(l)
    BY <1>8, <2>2, CountGoes DEF Track, Known
  <2>3. CASE pc \in {"address", "sum"}
    <3>1. type' = type /\ pc' \in {"address", "sum", "rest"}
      BY <1>1, <2>1, <2>3, FieldGoes DEF Fields, Data
    <3> QED BY <2>1, <3>1 DEF Known, CountRecord
  <2>4. InCount(l) \/ pc \in {"address", "sum"}
    BY <1>8 DEF Track, InAddress, InBytes, InSum, Data
  <2> QED BY <2>2, <2>3, <2>4
<1>9. CASE pc \in {"address", "sum"} /\ type = 5 /\ CountRecord(l)
  <2>1. type' = type /\ pc' \in {"address", "sum", "rest"}
    BY <1>1, <1>9, FieldGoes DEF Fields, Data
  <2> QED BY <1>9, <2>1 DEF Known, CountRecord
<1>10. CASE pc \in {"name", "sum"} /\ type = 0 /\ strayed
  <2>1. type' = type /\ pc' \in {"name", "sum", "rest"}
    BY <1>1, <1>10, FieldGoes DEF Fields
  <2> QED BY <1>10, <2>1 DEF Known
<1> QED BY <1>2, <1>3, <1>4, <1>5, <1>6, <1>7, <1>8, <1>9, <1>10 DEF Known

\* What has come of a line that was begun at its beginning: it is skipped if it is no record, and
\* is read as what it says if it is one.
Seen(l) ==
  \/ pc = "type" /\ col = 2 /\ l[1] = S
  \/ Track(l)
  \/ pc \in {"address", "sum"} /\ type = 5 /\ CountRecord(l)
  \/ l[1] = S /\ Over(l)
  \/ pc = "start" /\ (l[1] = S => Finished(l))
  \/ pc = "garbage" /\ l[1] # S

\* The load is over with a termination record.
Done(l) == pc = "idle" /\ l[1] = S /\ l[2] \in Termination /\ Finished(l)

LEMMA FinishedKept ==
  ASSUME NEW l, Finished(l), mem' = mem, go_address' = go_address
  PROVE  Finished(l)'
BY DEF Finished, FirstStored

LEMMA BeginGoes ==
  ASSUME NEW l, Formed(l), col = 1, pc \in {"start", "second"}, Handle(l[1]), col' = 2
  PROVE  Seen(l)'
<1>1. l[1] \notin {CR, LF}
  BY LineFacts
<1>2. (pc' = "type" /\ l[1] = S) \/ (pc' = "garbage" /\ l[1] # S)
  BY <1>1, Handlers DEF Start
<1> QED BY <1>2 DEF Seen

LEMMA CountRecordGoes ==
  ASSUME NEW l, NEW c \in Char, pc \in {"address", "sum"}, type = 5, CountRecord(l), Handle(c)
  PROVE  Seen(l)'
<1>1. type' = 5 /\ pc' \in {"address", "sum", "rest"} /\ (pc' = "rest" => res' # "DONE")
  BY FieldGoes DEF Fields, Data, Termination
<1>2. Finished(l)'
  BY DEF Finished, CountRecord, Data, Termination
<1> QED BY <1>1, <1>2 DEF Seen, Over, CountRecord

LEMMA OverGoes ==
  ASSUME NEW l, NEW c, l[1] = S, Over(l), Handle(c)
  PROVE  /\ Finished(l)'
         /\ Seen(l)' \/ Done(l)'
         /\ pc' = "idle" => Done(l)'
<1>1. pc = "rest" /\ Finished(l) /\ (res = "DONE" => l[2] \in Termination)
  BY DEF Over
<1>2. Finished(l)'
  BY <1>1, Keeps, FinishedKept
<1>3. SkipRest(c)
  BY <1>1, Handlers
<1>4. CASE c = CR
  <2>1. pc' = IF res = "DONE" THEN "idle" ELSE "start"
    BY <1>3, <1>4 DEF SkipRest
  <2> QED BY <1>1, <1>2, <2>1 DEF Seen, Done
<1>5. CASE c # CR
  <2>1. pc' = "rest" /\ (res' = res \/ res' = "NOT_OK")
    BY <1>1, <1>3, <1>5 DEF SkipRest, RestComesTo
  <2> QED BY <1>1, <1>2, <2>1 DEF Seen, Over
<1> QED BY <1>4, <1>5

LEMMA SeenGoes ==
  ASSUME NEW l, Formed(l), Known(l), Seen(l), col \in 2 .. Len(l) - 1, Handle(l[col]), col' = col + 1
  PROVE  Seen(l)' \/ Done(l)'
<1>1. /\ Len(l) \in Nat /\ EndOf(l) \in 2 .. Len(l) /\ l[col] \in Char
      /\ EndOf(l) >= Len(l) - 1
  BY LineFacts
<1>2. CASE pc = "type" /\ col = 2 /\ l[1] = S
  <2>1. \/ Track(l)'
        \/ pc' = "rest" /\ l[2] \notin Types /\ res' = "OK"
    BY <1>2, TypeGoes
  <2>2. l[2] \notin Types => Finished(l)'
    BY DEF Finished, Types, Data, Termination
  <2> QED BY <1>2, <2>1, <2>2 DEF Seen, Over
<1>3. CASE Track(l) /\ l[2] # 5
  <2>1. Track(l)' \/ Over(l)'
    BY <1>3, TrackGoes
  <2> QED BY <1>3, <2>1 DEF Seen, Track, WholeRecord
<1>4. CASE Track(l) /\ l[2] = 5
  <2>1. type = 5 /\ CountRecord(l)
    BY <1>4 DEF Track, WholeRecord, CountRecord
  <2>2. CASE InCount(l)
    BY <1>4, <2>2, CountGoes DEF Track, Seen
  <2>3. CASE pc \in {"address", "sum"}
    BY <1>1, <2>1, <2>3, CountRecordGoes
  <2>4. InCount(l) \/ pc \in {"address", "sum"}
    BY <1>4 DEF Track, InAddress, InBytes, InSum, Data
  <2> QED BY <2>2, <2>3, <2>4
<1>5. CASE pc \in {"address", "sum"} /\ type = 5 /\ CountRecord(l)
  BY <1>1, <1>5, CountRecordGoes
<1>6. CASE l[1] = S /\ Over(l)
  BY <1>6, OverGoes
<1>7. CASE pc = "start"
  <2>1. col = EndOf(l) + 1
    BY <1>7 DEF Known, Track, InCount, InAddress, InBytes, InSum
  <2> QED BY <1>1, <2>1
<1>8. CASE pc = "garbage" /\ l[1] # S
  <2>1. Garbage(l[col])
    BY <1>8, Handlers
  <2>2. pc' = "start" \/ pc' = "garbage"
    BY <2>1 DEF Garbage
  <2> QED BY <1>8, <2>2 DEF Seen
<1> QED BY <1>2, <1>3, <1>4, <1>5, <1>6, <1>7, <1>8 DEF Seen

\* The last character of a line is met by the next one's reader.
LEMMA LastGoes ==
  ASSUME NEW l, Formed(l), Known(l), ~CountRecord(l), ~strayed, col = Len(l), Handle(l[col])
  PROVE  pc \in {"rest", "garbage", "start"} /\ pc' \in {"start", "second", "idle"}
<1>1. /\ Len(l) \in Nat /\ EndOf(l) \in 2 .. Len(l) /\ col \in 1 .. Len(l)
      /\ l[col] = CR <=> col = EndOf(l)
      /\ EndOf(l) = Len(l) \/ (EndOf(l) = Len(l) - 1 /\ l[Len(l)] = LF)
  BY LineFacts
<1>2. ~Track(l)
  <2> SUFFICES ASSUME Track(l) PROVE FALSE
    OBVIOUS
  <2>1. l[2] # 5
    BY DEF CountRecord, Track, WholeRecord
  <2>2. col < EndOf(l)
    BY <2>1, TrackInside
  <2> QED BY <1>1, <2>2
<1>3. \/ pc \in {"rest", "garbage"} /\ col = EndOf(l)
      \/ pc = "start" /\ col = EndOf(l) + 1
  <2>1. col # 1 /\ (l[1] = S => col # 2)
    BY LineFacts
  <2> QED BY <1>1, <1>2, <2>1 DEF Known
<1>4. CASE pc = "rest" /\ col = EndOf(l)
  <2>1. SkipRest(l[col]) /\ l[col] = CR
    BY <1>1, <1>4, Handlers
  <2> QED BY <1>4, <2>1 DEF SkipRest
<1>5. CASE pc = "garbage" /\ col = EndOf(l)
  <2>1. Garbage(l[col]) /\ l[col] = CR
    BY <1>1, <1>5, Handlers
  <2> QED BY <1>5, <2>1 DEF Garbage
<1>6. CASE pc = "start" /\ col = EndOf(l) + 1
  <2>1. Start(l[col]) /\ l[col] = LF
    BY <1>1, <1>6, Handlers
  <2> QED BY <1>6, <2>1, Alphabet DEF Start
<1> QED BY <1>3, <1>4, <1>5, <1>6

LEMMA SeenLast ==
  ASSUME NEW l, NEW c, Seen(l), pc \in {"rest", "garbage", "start"}, Handle(c)
  PROVE  /\ l[1] = S => Finished(l)'
         /\ pc' = "idle" => Done(l)'
<1>1. (l[1] = S /\ Over(l)) \/ (pc = "start" /\ (l[1] = S => Finished(l))) \/ (pc = "garbage" /\ l[1] # S)
  BY DEF Seen, Track, InCount, InAddress, InBytes, InSum
<1>2. CASE l[1] = S /\ Over(l)
  BY <1>2, OverGoes
<1>3. CASE pc = "start" /\ (l[1] = S => Finished(l))
  <2>1. mem' = mem /\ go_address' = go_address /\ pc' # "idle"
    BY <1>3, Keeps, Handlers DEF Start
  <2> QED BY <1>3, <2>1, FinishedKept
<1>4. CASE pc = "garbage" /\ l[1] # S
  <2>1. pc' # "idle"
    BY <1>4, Handlers DEF Garbage
  <2> QED BY <1>4, <2>1
<1> QED BY <1>1, <1>2, <1>3, <1>4

-----------------------------------------------------------------------------
(* The inductive invariant.                                                *)

Here == file[line]

\* Where the remote is in its file, and in which lines it can have been disturbed.
Places ==
  /\ file \in Files \cup {<<>>} /\ strayed \in BOOLEAN
  /\ line \in 1 .. Len(file) + 1 /\ (More => col \in 1 .. Len(Here)) /\ (~More => col = 1)
  /\ hurt \subseteq 1 .. line /\ (line \in hurt => col # 1)

\* Only a name is read on at the beginning of a line as it was at the end of the line before.
Begun ==
  /\ pc = "count" => col # 1
  /\ pc = "name" => type = 0 /\ (col = 1 => strayed)
  /\ pc \in {"reset", "poll", "ticks"} => line = 1 /\ col = 1 /\ hurt = {} /\ ~strayed

Whole == Reading /\ More /\ line \notin hurt => Known(Here)

\* The reader is ready for a line that follows a whole one.
Entry == Reading /\ More /\ col = 1 /\ InStep(line) /\ ~strayed => pc \in {"start", "second"}

Followed == Reading /\ More /\ col # 1 /\ InStep(line) /\ ~strayed /\ line \notin hurt => Seen(Here)

\* All that a file that arrives whole has said so far has been done.
SoFar ==
  Reading /\ hurt = {} /\ ~HasCount =>
    /\ ~strayed
    /\ \A i \in 1 .. line - 1 : IsRecord(i) => Finished(file[i])

LoaderInv == Places /\ Begun /\ Whole /\ Entry /\ Followed /\ SoFar /\ Contained /\ LoadedWhole

-----------------------------------------------------------------------------
(* The next character arrives as it was sent, or it does not.              *)

Undisturbed == Handle(Here[col]) /\ hurt' = hurt
Disturbed ==
  /\ Exposed /\ hurt' = hurt \cup {line}
  /\ (\E c \in Char : Handle(c)) \/ UNCHANGED <<pc, type, mem, go_address>>

ReadsOn == Reading /\ More /\ Onward /\ UNCHANGED <<file, sending>> /\ (Undisturbed \/ Disturbed)

LEMMA CharactersRead == ASSUME Places, ReadChar \/ LoseChar PROVE ReadsOn
<1>1. CASE ReadChar
  <2>1. PICK c \in {file[line][col]} \cup (IF Exposed THEN Altered ELSE {}) :
          /\ Handle(c)
          /\ hurt' = IF c = file[line][col] THEN hurt ELSE hurt \cup {line}
    BY <1>1 DEF ReadChar
  <2>2. Reading /\ More /\ Onward /\ UNCHANGED <<file, sending>>
    BY <1>1 DEF ReadChar
  <2>3. CASE c = file[line][col]
    BY <2>1, <2>2, <2>3 DEF ReadsOn, Undisturbed, Here
  <2>4. CASE c # file[line][col]
    <3>1. Exposed /\ c \in Char
      BY <2>1, <2>4, LoaderAssumption
    <3> QED BY <2>1, <2>2, <2>4, <3>1 DEF ReadsOn, Disturbed
  <2> QED BY <2>3, <2>4
<1>2. CASE LoseChar
  BY <1>2 DEF LoseChar, ReadsOn, Disturbed, record, results
<1> QED BY <1>1, <1>2

LEMMA Lines ==
  ASSUME Places, More
  PROVE  /\ file \in Files /\ Consistent(file) /\ Len(file) \in Nat /\ line \in 1 .. Len(file)
         /\ \A i \in 1 .. Len(file) : Formed(file[i])
         /\ col \in 1 .. Len(Here) /\ Formed(Here)
<1>1. line \in 1 .. Len(file) + 1 /\ line <= Len(file) /\ col \in 1 .. Len(Here)
  BY DEF Places, More
<1>2. file \in Files
  <2>1. file # <<>>
    BY <1>1
  <2> QED BY <2>1 DEF Places
<1>3. file \in Seq(Seq(Char)) /\ Consistent(file) /\ \A i \in 1 .. Len(file) : WellFormed(file[i])
  BY <1>2, LoaderAssumption, FilesAssumption
<1>4. \A i \in 1 .. Len(file) : Formed(file[i])
  BY <1>3 DEF Formed
<1>5. Len(file) \in Nat /\ line \in 1 .. Len(file)
  BY <1>1, <1>3
<1> QED BY <1>1, <1>2, <1>3, <1>4, <1>5 DEF Here

\* The place moves on in the line, or to the next.
LEMMA Moves ==
  ASSUME Places, ReadsOn
  PROVE  /\ Places'
         /\ \/ /\ line' = line /\ col' = col + 1 /\ col \in 1 .. Len(Here) - 1 /\ col' # 1
               /\ Here' = Here /\ (strayed' <=> strayed)
            \/ /\ line' = line + 1 /\ col' = 1 /\ col = Len(Here) /\ line' \notin hurt'
               /\ (strayed' <=> strayed \/ pc' = "name")
<1>1. /\ file \in Files /\ Len(file) \in Nat /\ line \in 1 .. Len(file)
      /\ \A i \in 1 .. Len(file) : Formed(file[i])
      /\ col \in 1 .. Len(Here) /\ Formed(Here) /\ More /\ file' = file
  BY Lines DEF ReadsOn
<1>2. hurt \subseteq 1 .. line /\ hurt' \subseteq hurt \cup {line} /\ strayed \in BOOLEAN
  BY DEF Places, ReadsOn, Undisturbed, Disturbed
<1>3. Len(Here) \in Nat /\ Len(Here) >= 2
  BY <1>1, LineFacts
<1>4. /\ IF col < Len(Here) THEN line' = line /\ col' = col + 1 ELSE line' = line + 1 /\ col' = 1
      /\ strayed' = (strayed \/ (col' = 1 /\ pc' = "name"))
  BY DEF ReadsOn, Onward, Here
<1>5. strayed' \in BOOLEAN /\ file' \in Files \cup {<<>>}
  BY <1>1, <1>4
<1>6. CASE col < Len(Here)
  <2>1. line' = line /\ col' = col + 1 /\ col \in 1 .. Len(Here) - 1 /\ col' # 1 /\ Here' = Here
    BY <1>1, <1>3, <1>4, <1>6 DEF Here
  <2>2. strayed' <=> strayed
    BY <1>4, <2>1
  <2>3. hurt' \subseteq 1 .. line
    BY <1>1, <1>2
  <2>4. col' \in 1 .. Len(Here) /\ More'
    BY <1>1, <1>3, <2>1 DEF More
  <2>5. Places'
    BY <1>1, <1>5, <2>1, <2>3, <2>4 DEF Places
  <2> QED BY <2>1, <2>2, <2>5
<1>7. CASE ~(col < Len(Here))
  <2>1. line' = line + 1 /\ col' = 1 /\ col = Len(Here)
    BY <1>1, <1>3, <1>4, <1>7
  <2>2. strayed' <=> strayed \/ pc' = "name"
    BY <1>4, <2>1
  <2>3. hurt' \subseteq 1 .. line
    BY <1>1, <1>2
  <2>4. line' \notin hurt' /\ hurt' \subseteq 1 .. line'
    BY <1>1, <2>1, <2>3
  <2>5. More' => Len(Here)' >= 2 /\ Len(Here)' \in Nat
    <3>1. More' => line + 1 \in 1 .. Len(file)
      BY <1>1, <2>1 DEF More
    <3>2. More' => Formed(file[line + 1])
      BY <1>1, <3>1
    <3>3. Here' = file[line + 1]
      BY <1>1, <2>1 DEF Here
    <3> QED BY <3>2, <3>3, LineFacts
  <2>6. Places'
    BY <1>1, <1>5, <2>1, <2>4, <2>5 DEF Places
  <2> QED BY <2>1, <2>2, <2>4, <2>6
<1> QED BY <1>6, <1>7

\* Where the place stays in its line, an undisturbed line has been undisturbed so far.
LEMMA Exactly ==
  ASSUME Places, ReadsOn, line \notin hurt'
  PROVE  Handle(Here[col]) /\ hurt' = hurt /\ line \notin hurt
BY DEF ReadsOn, Undisturbed, Disturbed

\* No record is begun with the last character of a line.
LEMMA NotLast ==
  ASSUME NEW l, Formed(l), Known(l), col = Len(l)
  PROVE  pc \notin {"type", "count"}
<1>1. Len(l) \in Nat /\ Len(l) >= 2 /\ EndOf(l) <= Len(l) /\ EndOf(l) \in Nat /\ (l[1] = S => Len(l) >= 3)
  BY LineFacts
<1>2. ASSUME Track(l) PROVE pc \notin {"type", "count"}
  <2> SUFFICES ASSUME pc \in {"type", "count"} PROVE FALSE
    OBVIOUS
  <2>1. InCount(l) /\ WholeRecord(l)
    BY <1>2 DEF Track, InCount, InAddress, InBytes, InSum
  <2>2. col <= 4 /\ CountOf(l) \in Nat /\ 4 + 2 * CountOf(l) < EndOf(l)
    BY <2>1, RecordFacts DEF InCount
  <2> QED BY <1>1, <2>2
<1> QED BY <1>1, <1>2 DEF Known

LEMMA CountFrom ==
  ASSUME NEW c \in Char, Handle(c), pc' = "count"
  PROVE  pc \in {"type", "count"} /\ ~(c >= BASE)
<1>1. pc \in {"type", "count"}
  <2>1. CASE pc \in Fields
    BY <2>1, FieldGoes DEF Fields
  <2>2. CASE pc \notin Fields
    BY <2>2, Handlers DEF Start, Garbage, Type, SkipRest
  <2> QED BY <2>1, <2>2
<1>2. ASSUME c >= BASE PROVE FALSE
  <2>1. CASE pc = "count"
    BY <1>2, <2>1, CutShort DEF Fields
  <2>2. CASE pc = "type"
    <3>1. c \notin Types
      BY <1>2, Alphabet
    <3> QED BY <2>2, <3>1, Handlers DEF Type, Rest
  <2> QED BY <1>1, <2>1, <2>2
<1> QED BY <1>1, <1>2

LEMMA NameFrom ==
  ASSUME NEW c \in Char, Handle(c), pc' = "name"
  PROVE  type' = type /\ (pc = "name" \/ type = 0)
<1>1. CASE pc \in Fields
  BY <1>1, FieldGoes DEF Fields
<1>2. CASE pc \notin Fields
  BY <1>2, Handlers DEF Start, Garbage, Type, SkipRest, Field, Rest
<1> QED BY <1>1, <1>2

LEMMA NotWaiting ==
  ASSUME NEW c \in Char, Handle(c)
  PROVE  pc' \notin {"reset", "poll", "ticks"}
<1>1. CASE pc \in Fields
  BY <1>1, FieldGoes DEF Fields
<1>2. CASE pc \notin Fields
  BY <1>2, Handlers DEF Start, Garbage, Type, SkipRest, Field, Rest
<1> QED BY <1>1, <1>2

LEMMA BegunOn == ASSUME Places, Begun, Whole, ReadsOn PROVE Begun'
<1>1. /\ Formed(Here) /\ col \in 1 .. Len(Here) /\ Len(Here) \in Nat
      /\ Here[col] \in Char /\ Here[Len(Here)] >= BASE
  <2>1. Formed(Here) /\ col \in 1 .. Len(Here)
    BY Lines DEF ReadsOn
  <2> QED BY <2>1, LineFacts
<1>2. \/ col' # 1 /\ (strayed' <=> strayed)
      \/ col' = 1 /\ col = Len(Here) /\ (strayed' <=> strayed \/ pc' = "name")
  BY Moves
<1>3. pc \notin {"reset", "poll", "ticks"}
  BY DEF ReadsOn, Reading
<1>4. CASE Undisturbed
  <2>1. Handle(Here[col])
    BY <1>4 DEF Undisturbed
  <2>2. pc' = "count" => col' # 1
    BY <1>1, <1>2, <2>1, CountFrom
  <2>3. pc' = "name" => type' = 0
    BY <1>1, <2>1, NameFrom DEF Begun
  <2>4. pc' \notin {"reset", "poll", "ticks"}
    BY <1>1, <2>1, NotWaiting
  <2> QED BY <1>2, <2>2, <2>3, <2>4 DEF Begun
<1>5. CASE Disturbed
  <2>1. Known(Here)
    BY <1>5 DEF Whole, ReadsOn, Disturbed, Exposed
  <2>2. col = Len(Here) => pc \notin {"type", "count"}
    BY <1>1, <2>1, NotLast
  <2>3. CASE UNCHANGED <<pc, type, mem, go_address>>
    BY <1>2, <1>3, <2>2, <2>3 DEF Begun
  <2>4. CASE \E c \in Char : Handle(c)
    <3>1. PICK c \in Char : Handle(c)
      BY <2>4
    <3>2. pc' = "count" => col' # 1
      BY <1>2, <2>2, <3>1, CountFrom
    <3>3. pc' = "name" => type' = 0
      BY <3>1, NameFrom DEF Begun
    <3>4. pc' \notin {"reset", "poll", "ticks"}
      BY <3>1, NotWaiting
    <3> QED BY <1>2, <3>2, <3>3, <3>4 DEF Begun
  <2> QED BY <1>5, <2>3, <2>4 DEF Disturbed
<1> QED BY <1>4, <1>5 DEF ReadsOn

LEMMA WholeOn == ASSUME Places, Begun, Whole, ReadsOn PROVE Whole'
<1> SUFFICES ASSUME Reading', More', line' \notin hurt' PROVE Known(Here)'
  BY DEF Whole
<1>1. CASE col' = 1
  BY <1>1 DEF Known
<1>2. CASE col' # 1
  <2>1. line' = line /\ col' = col + 1 /\ col \in 1 .. Len(Here) - 1 /\ Here' = Here /\ (strayed' <=> strayed)
    BY <1>2, Moves
  <2>2. Handle(Here[col]) /\ line \notin hurt
    BY <2>1, Exactly
  <2>3. Known(Here) /\ Formed(Here)
    BY <2>2, Lines DEF Whole, ReadsOn
  <2>4. PICK l : l = Here
    OBVIOUS
  <2>5. pc = "count" => col # 1
    BY DEF Begun
  <2>6. pc = "name" /\ col = 1 => type = 0 /\ strayed
    BY DEF Begun
  <2>7. Formed(l) /\ Known(l) /\ col \in 1 .. Len(l) - 1 /\ Handle(l[col])
    BY <2>1, <2>2, <2>3, <2>4
  <2>8. strayed => strayed'
    BY <2>1
  <2>9. Known(l)' \/ pc' = "idle"
    BY <2>1, <2>5, <2>6, <2>7, <2>8, KnownGoes
  <2>10. pc' # "idle"
    BY DEF Reading
  <2>11. Here' = l
    BY <2>1, <2>4
  <2> QED BY <2>9, <2>10, <2>11 DEF Known, Track, InCount, InAddress, InBytes, InSum, CountRecord, Taken, FirstStored
<1> QED BY <1>1, <1>2

\* A line met at its beginning is one behind a whole line that ends where its record does.
LEMMA InStepOn ==
  ASSUME Places, ReadsOn, NEW i \in Nat, InStep(i)'
  PROVE  /\ InStep(i)
         /\ i = line + 1 => line \notin hurt' /\ ~CountRecord(Here)
<1>1. file' = file /\ hurt \subseteq hurt' /\ line \in Nat /\ line >= 1
  <2>1. line \in 1 .. Len(file) /\ Len(file) \in Nat
    BY Lines DEF ReadsOn
  <2> QED BY <2>1 DEF ReadsOn, Undisturbed, Disturbed
<1>2. i = 1 \/ (i - 1 \notin hurt' /\ ~CountRecord(file[i - 1]))
  BY <1>1 DEF InStep, IsRecord, Kind, CountRecord
<1>3. InStep(i)
  BY <1>1, <1>2 DEF InStep, IsRecord, Kind, CountRecord
<1>4. ASSUME i = line + 1 PROVE line \notin hurt' /\ ~CountRecord(Here)
  <2>1. i # 1 /\ i - 1 = line
    BY <1>1, <1>4
  <2> QED BY <1>2, <2>1 DEF Here
<1> QED BY <1>3, <1>4

LEMMA EntryOn == ASSUME Places, Begun, Whole, ReadsOn PROVE Entry'
<1> SUFFICES ASSUME Reading', More', col' = 1, InStep(line)', ~strayed' PROVE pc' \in {"start", "second"}
  BY DEF Entry
<1>1. line' = line + 1 /\ col = Len(Here) /\ (strayed' <=> strayed \/ pc' = "name")
  BY Moves
<1>2. /\ line \in Nat /\ Formed(Here) /\ Len(Here) \in Nat
  <2>1. line \in 1 .. Len(file) /\ Formed(Here) /\ Len(file) \in Nat
    BY Lines DEF ReadsOn
  <2> QED BY <2>1, LineFacts
<1>3. PICK i : i = line + 1
  OBVIOUS
<1>4. i \in Nat /\ InStep(i)'
  BY <1>1, <1>2, <1>3 DEF InStep, IsRecord, Kind
<1>5. line \notin hurt' /\ ~CountRecord(Here)
  BY <1>3, <1>4, InStepOn
<1>6. Handle(Here[col]) /\ line \notin hurt
  BY <1>5, Exactly
<1>7. Known(Here)
  BY <1>6 DEF Whole, ReadsOn
<1>8. pc' \in {"start", "second", "idle"}
  BY <1>1, <1>2, <1>5, <1>6, <1>7, LastGoes
<1> QED BY <1>8 DEF Reading

LEMMA FollowedOn == ASSUME Places, Begun, Whole, Entry, Followed, ReadsOn PROVE Followed'
<1> SUFFICES ASSUME Reading', More', col' # 1, InStep(line)', ~strayed', line' \notin hurt' PROVE Seen(Here)'
  BY DEF Followed
<1>1. line' = line /\ col' = col + 1 /\ col \in 1 .. Len(Here) - 1 /\ Here' = Here /\ ~strayed
  BY Moves
<1>2. PICK i : i = line
  OBVIOUS
<1>3. line \in Nat /\ Formed(Here)
  <2>1. line \in 1 .. Len(file) /\ Formed(Here) /\ Len(file) \in Nat
    BY Lines DEF ReadsOn
  <2> QED BY <2>1
<1>4. i \in Nat /\ InStep(i)'
  BY <1>1, <1>2, <1>3 DEF InStep, IsRecord, Kind
<1>5. InStep(line)
  BY <1>2, <1>4, InStepOn
<1>6. Handle(Here[col]) /\ line \notin hurt /\ Reading /\ More
  BY <1>1, Exactly DEF ReadsOn
<1>7. Known(Here)
  BY <1>6 DEF Whole
<1>8. PICK l : l = Here
  OBVIOUS
<1>9. Formed(l) /\ Known(l) /\ col \in 1 .. Len(l) - 1 /\ Handle(l[col]) /\ Here' = l
  BY <1>1, <1>3, <1>6, <1>7, <1>8
<1>10. Seen(l)' \/ Done(l)'
  <2>1. CASE col = 1
    <3>1. pc \in {"start", "second"}
      BY <1>1, <1>5, <1>6, <2>1 DEF Entry
    <3>2. Seen(l)'
      BY <1>1, <1>9, <2>1, <3>1, BeginGoes
    <3> QED BY <3>2
  <2>2. CASE col # 1
    <3>1. Seen(Here)
      BY <1>1, <1>5, <1>6, <2>2 DEF Followed
    <3>2. col \in 2 .. Len(l) - 1 /\ Seen(l)
      BY <1>8, <1>9, <2>2, <3>1
    <3> QED BY <1>1, <1>9, <3>2, SeenGoes
  <2> QED BY <2>1, <2>2
<1>11. Seen(l)'
  BY <1>10 DEF Done, Reading
<1> QED BY <1>9, <1>11 DEF Seen, Over, Finished, Track, InCount, InAddress, InBytes, InSum, CountRecord, Taken,
                          FirstStored

\* The end of a line that was met at its beginning, and that arrived whole.
LEMMA LineOver ==
  ASSUME Places, Begun, Whole, Entry, Followed, ReadsOn, NEW l, l = Here, line \notin hurt', InStep(line),
         ~strayed, ~CountRecord(l), col = Len(l)
  PROVE  /\ l[1] = S => Finished(l)'
         /\ pc' \in {"start", "second", "idle"}
<1>1. Handle(l[col]) /\ line \notin hurt /\ Reading /\ More
  BY Exactly DEF ReadsOn
<1>2. Formed(l) /\ Known(l)
  BY <1>1, Lines DEF Whole
<1>3. pc \in {"rest", "garbage", "start"} /\ pc' \in {"start", "second", "idle"}
  BY <1>1, <1>2, LastGoes
<1>4. Seen(l)
  <2>1. col # 1
    BY <1>2, LineFacts
  <2> QED BY <1>1, <2>1 DEF Followed
<1> QED BY <1>1, <1>3, <1>4, SeenLast

\* The end of the load.
LEMMA LoadOver ==
  ASSUME Places, Begun, Whole, Entry, Followed, ReadsOn, NEW l, l = Here, line \notin hurt', InStep(line),
         ~strayed, pc' = "idle"
  PROVE  Done(l)'
<1>1. Handle(l[col]) /\ line \notin hurt /\ Reading /\ More
  BY Exactly DEF ReadsOn
<1>2. pc = "rest"
  <2>1. l[col] \in Char
    BY Lines, LineFacts DEF ReadsOn
  <2>2. CASE pc \in Fields
    BY <1>1, <2>1, <2>2, FieldGoes DEF Fields
  <2>3. CASE pc \notin Fields
    BY <1>1, <2>3, Handlers DEF Start, Garbage, Type, SkipRest, Field, Rest
  <2> QED BY <2>2, <2>3
<1>3. col # 1
  BY <1>1, <1>2 DEF Entry
<1>4. Seen(l)
  BY <1>1, <1>3 DEF Followed
<1> QED BY <1>1, <1>2, <1>4, SeenLast

\* A line of which nothing was altered or lost has stored what it says where it says, or nothing.
LEMMA MemoryOn ==
  ASSUME Places, Begun, Whole, ReadsOn, NEW l, l = Here, line \notin hurt', mem' # mem
  PROVE  /\ l[1] = S /\ l[2] \in Data /\ DataCount(l) \in Nat /\ NumberOf(l) \in Nat
         /\ \E k \in 1 .. DataCount(l) : mem' = StoreAt(NumberOf(l) + k - 1, DataByte(l, k))
<1>1. Handle(l[col]) /\ line \notin hurt /\ Reading /\ More
  BY Exactly DEF ReadsOn
<1>2. Formed(l) /\ Known(l)
  BY <1>1, Lines DEF Whole
<1>3. pc = "data" /\ pc \in Fields
  BY <1>1, Keeps DEF Fields
<1>4. col # 1
  <2> SUFFICES ASSUME col = 1 PROVE FALSE
    OBVIOUS
  <2>1. l[1] >= BASE
    BY <1>2, LineFacts
  <2> QED BY <1>1, <1>3, <2>1, CutShort
<1>5. Track(l) /\ InBytes(l) /\ WholeRecord(l) /\ type = l[2]
  BY <1>2, <1>3, <1>4 DEF Known, Track, InCount, InAddress, InSum
<1>6. l[1] = S /\ l[2] \in Data /\ l[2] # 5
  BY <1>3, <1>5 DEF InBytes, WholeRecord, Data
<1>7. DataCount(l) \in Nat /\ NumberOf(l) \in Nat
  BY <1>2, <1>5, <1>6, RecordFacts
<1>8. PICK t : t = Taken(l)
  OBVIOUS
<1>9. t \in Nat /\ t + 1 <= DataCount(l) /\ Width = 2 /\ l[col] \in Digit
  BY <1>1, <1>2, <1>5, <1>8, InBytesFacts
<1>10. digits = 1
  <2> SUFFICES ASSUME digits = 0 PROVE FALSE
    BY <1>5 DEF InBytes
  <2> QED BY <1>1, <1>3, <1>9, DigitRead
<1>11. ReadData(DataByte(l, t + 1), FALSE)
  BY <1>1, <1>2, <1>3, <1>5, <1>8, <1>10, ByteRead
<1>12. mem' = StoreAt(NumberOf(l) + t, DataByte(l, t + 1))
  BY <1>5, <1>6, <1>8, <1>11 DEF ReadData, InBytes
<1>13. NumberOf(l) + (t + 1) - 1 = NumberOf(l) + t /\ t + 1 \in 1 .. DataCount(l)
  BY <1>7, <1>9
<1> QED BY <1>6, <1>7, <1>12, <1>13

\* A record has its data in memory for good: those of others are stored elsewhere.
LEMMA StoredKept ==
  ASSUME Places, Begun, Whole, ReadsOn, line \notin hurt', NEW i \in 1 .. Len(file), i # line,
         file[i][1] = S, file[i][2] \in Data, FirstStored(file[i], DataCount(file[i]))
  PROVE  FirstStored(file[i], DataCount(file[i]))'
<1>1. file' = file
  BY DEF ReadsOn
<1>2. CASE mem' = mem
  BY <1>1, <1>2 DEF FirstStored
<1>3. CASE mem' # mem
  <2>1. PICK l : l = Here
    OBVIOUS
  <2>2. PICK k \in 1 .. DataCount(l) : mem' = StoreAt(NumberOf(l) + k - 1, DataByte(l, k))
    BY <1>3, <2>1, MemoryOn
  <2>3. l[1] = S /\ l[2] \in Data /\ DataCount(l) \in Nat /\ NumberOf(l) \in Nat
    BY <1>3, <2>1, MemoryOn
  <2>4. Consistent(file) /\ line \in 1 .. Len(file) /\ Len(file) \in Nat /\ Formed(file[i])
    BY Lines DEF ReadsOn
  <2>5. PICK m : m = file[i]
    OBVIOUS
  <2>6. DataCount(m) \in Nat /\ NumberOf(m) \in Nat
    <3>1. m[2] \in Types /\ m[2] # 5
      BY <2>5 DEF Data, Types
    <3>2. Formed(m) /\ WholeRecord(m)
      BY <2>4, <2>5, <3>1 DEF Formed, WellFormed, NoRecord
    <3> QED BY <3>1, <3>2, RecordFacts
  <2>7. NumberOf(m) + DataCount(m) <= NumberOf(l) \/ NumberOf(l) + DataCount(l) <= NumberOf(m)
    BY <2>1, <2>3, <2>4, <2>5 DEF Consistent, Here
  <2>8. ASSUME NEW j \in 1 .. DataCount(m)
        PROVE  /\ NumberOf(m) + j - 1 \in DOMAIN mem'
               /\ mem'[NumberOf(m) + j - 1] = DataByte(m, j)
    <3>1. NumberOf(m) + j - 1 # NumberOf(l) + k - 1
      BY <2>3, <2>6, <2>7
    <3>2. NumberOf(m) + j - 1 \in DOMAIN mem /\ mem[NumberOf(m) + j - 1] = DataByte(m, j)
      BY <2>5 DEF FirstStored
    <3> QED BY <2>2, <3>1, <3>2 DEF StoreAt
  <2> QED BY <1>1, <2>5, <2>8 DEF FirstStored
<1> QED BY <1>2, <1>3

\* What earlier lines have said stays done.
LEMMA EarlierKept ==
  ASSUME Places, Begun, Whole, SoFar, ReadsOn, hurt' = {}, ~HasCount, NEW i \in 1 .. line - 1, IsRecord(i)
  PROVE  Finished(file[i])'
<1>1. /\ file' = file /\ Reading /\ More /\ hurt = {} /\ line \notin hurt'
  BY DEF ReadsOn, Undisturbed, Disturbed
<1>2. Consistent(file) /\ line \in 1 .. Len(file) /\ Len(file) \in Nat /\ Formed(file[i])
  BY <1>1, Lines
<1>3. i \in 1 .. Len(file) /\ i # line /\ i # Len(file) /\ file[i][1] = S /\ Finished(file[i])
  BY <1>1, <1>2 DEF SoFar, IsRecord
<1>4. file[i][2] \notin Termination
  BY <1>2, <1>3 DEF Consistent
<1>5. file[i][2] \in Data => FirstStored(file[i], DataCount(file[i]))'
  <2> SUFFICES ASSUME file[i][2] \in Data PROVE FirstStored(file[i], DataCount(file[i]))'
    OBVIOUS
  <2>1. FirstStored(file[i], DataCount(file[i]))
    BY <1>3 DEF Finished
  <2> QED BY <1>1, <1>3, <2>1, StoredKept
<1> QED BY <1>1, <1>4, <1>5 DEF Finished

\* Every line is met at its beginning in a file that arrives whole.
LEMMA AllInStep ==
  ASSUME Places, ReadsOn, hurt = {}, ~HasCount
  PROVE  InStep(line) /\ ~CountRecord(Here)
<1>1. line \in 1 .. Len(file) /\ Len(file) \in Nat
  BY Lines DEF ReadsOn
<1>2. line = 1 \/ line - 1 \in 1 .. Len(file)
  BY <1>1
<1> QED BY <1>1, <1>2 DEF InStep, HasCount, IsRecord, Kind, CountRecord, Here

LEMMA SoFarOn == ASSUME Places, Begun, Whole, Entry, Followed, SoFar, ReadsOn PROVE SoFar'
<1> SUFFICES ASSUME Reading', hurt' = {}, ~HasCount'
             PROVE  /\ ~strayed'
                    /\ \A i \in 1 .. line' - 1 : IsRecord(i)' => Finished(file[i])'
  BY DEF SoFar
<1>1. /\ file' = file /\ Reading /\ More /\ hurt = {} /\ line \notin hurt' /\ ~HasCount
  BY DEF ReadsOn, Undisturbed, Disturbed, HasCount, IsRecord, Kind
<1>2. InStep(line) /\ ~CountRecord(Here) /\ ~strayed
  BY <1>1, AllInStep DEF SoFar
<1>3. line \in Nat
  BY <1>1 DEF Places
<1>4. ASSUME NEW i \in 1 .. line - 1, IsRecord(i)' PROVE Finished(file[i])'
  BY <1>1, <1>4, EarlierKept DEF IsRecord
<1>5. CASE col' # 1
  BY <1>2, <1>4, <1>5, Moves
<1>6. CASE col' = 1
  <2>1. line' = line + 1 /\ col = Len(Here) /\ (strayed' <=> strayed \/ pc' = "name")
    BY <1>6, Moves
  <2>2. PICK l : l = Here
    OBVIOUS
  <2>3. (l[1] = S => Finished(l)') /\ pc' \in {"start", "second", "idle"}
    BY <1>1, <1>2, <2>1, <2>2, LineOver
  <2>4. ASSUME NEW i \in 1 .. line' - 1, IsRecord(i)' PROVE Finished(file[i])'
    <3>1. CASE i \in 1 .. line - 1
      BY <1>4, <2>4, <3>1
    <3>2. CASE i \notin 1 .. line - 1
      <4>1. i = line
        BY <1>3, <2>1, <3>2
      <4>2. file'[i] = l /\ file[i] = l /\ l[1] = S
        BY <1>1, <2>2, <2>4, <4>1 DEF IsRecord, Here
      <4> QED BY <2>3, <4>2 DEF Finished, FirstStored
    <3> QED BY <3>1, <3>2
  <2> QED BY <1>2, <2>1, <2>3, <2>4
<1> QED BY <1>5, <1>6

LEMMA ContainedOn == ASSUME Places, Begun, Whole, Entry, Followed, Contained, ReadsOn PROVE Contained'
<1> SUFFICES ASSUME NEW i \in 1 .. Len(file)', line' = i + 1, col' = 1, IsRecord(i)', Kind(i)' \in Data,
                    i \notin hurt', InStep(i)', ~strayed'
             PROVE  Stored(i)'
  BY DEF Contained
<1>1. line' = line + 1 /\ col = Len(Here) /\ ~strayed /\ file' = file
  BY Moves DEF ReadsOn
<1>2. line \in Nat /\ i \in Nat
  <2>1. line \in 1 .. Len(file) /\ Len(file) \in Nat
    BY Lines DEF ReadsOn
  <2> QED BY <1>1, <2>1
<1>3. i = line
  BY <1>1, <1>2
<1>4. InStep(line)
  BY <1>2, <1>3, InStepOn
<1>5. PICK l : l = Here
  OBVIOUS
<1>6. l = file[i] /\ l = file'[i] /\ l[1] = S /\ l[2] \in Data
  BY <1>1, <1>3, <1>5 DEF Here, IsRecord, Kind
<1>7. ~CountRecord(l) /\ line \notin hurt'
  BY <1>3, <1>6 DEF CountRecord, Data
<1>8. Finished(l)'
  BY <1>1, <1>4, <1>5, <1>6, <1>7, LineOver
<1>9. Finished(file[i])'
  BY <1>6, <1>8 DEF Finished, FirstStored
<1>10. Kind(i)' \in Data => Stored(i)'
  BY <1>9 DEF Finished, FirstStored, Kind, AddressOf, Stored, DataBytes, DataOf
<1> QED BY <1>10

LEMMA LoadedWholeOn ==
  ASSUME Places, Begun, Whole, Entry, Followed, SoFar, ReadsOn
  PROVE  LoadedWhole'
<1> SUFFICES ASSUME pc' = "idle", hurt' = {}, ~HasCount', NEW i \in 1 .. Len(file)', IsRecord(i)'
             PROVE  /\ Kind(i)' \in Termination => go_address' = AddressOf(i)'
                    /\ Kind(i)' \in Data => Stored(i)'
  BY DEF LoadedWhole
<1>1. /\ file' = file /\ Reading /\ More /\ hurt = {} /\ line \notin hurt' /\ ~HasCount
  BY DEF ReadsOn, Undisturbed, Disturbed, HasCount, IsRecord, Kind
<1>2. InStep(line) /\ ~strayed
  BY <1>1, AllInStep DEF SoFar
<1>3. PICK l : l = Here
  OBVIOUS
<1>4. Done(l)'
  BY <1>1, <1>2, <1>3, LoadOver
<1>5. Consistent(file) /\ line \in 1 .. Len(file) /\ Len(file) \in Nat
  BY <1>1, Lines
<1>6. line = Len(file)
  BY <1>3, <1>4, <1>5 DEF Done, Consistent, Here
<1>7. Finished(file[i])'
  <2>1. CASE i = line
    <3>1. file'[i] = l
      BY <1>1, <1>3, <2>1 DEF Here
    <3> QED BY <1>4, <3>1 DEF Done, Finished, FirstStored
  <2>2. CASE i # line
    <3>1. i \in 1 .. line - 1 /\ IsRecord(i)
      BY <1>1, <1>5, <1>6, <2>2 DEF IsRecord
    <3> QED BY <1>1, <3>1, EarlierKept
  <2> QED BY <2>1, <2>2
<1> QED BY <1>7 DEF Finished, FirstStored, Kind, AddressOf, Stored, DataBytes, DataOf

-----------------------------------------------------------------------------
(* Every step keeps the invariant.                                         *)

\* There is nothing to say before a character of the file has been read.
LEMMA Fresh ==
  ASSUME file' \in Files \cup {<<>>}, line' = 1, col' = 1, hurt' = {}, strayed' = FALSE,
         pc' \in {"idle", "reset", "poll", "ticks", "start"}
  PROVE  LoaderInv'
<1>1. Len(file)' \in Nat /\ (More' => Formed(file'[1]))
  <2>1. CASE file' = <<>>
    <3>1. Len(file') = 0
      BY <2>1
    <3> QED BY <3>1 DEF More
  <2>2. CASE file' \in Files
    <3>1. file' \in Seq(Seq(Char)) /\ \A i \in 1 .. Len(file') : WellFormed(file'[i])
      BY <2>2, LoaderAssumption, FilesAssumption
    <3>2. More' => 1 \in 1 .. Len(file')
      BY <3>1 DEF More
    <3> QED BY <3>1, <3>2 DEF Formed
  <2> QED BY <2>1, <2>2
<1>2. More' => col' \in 1 .. Len(Here)'
  <2>1. Formed(file'[1]) => Len(file'[1]) \in Nat /\ Len(file'[1]) >= 2
    BY LineFacts
  <2> QED BY <1>1, <2>1 DEF Here
<1>3. Places'
  <2>1. strayed' \in BOOLEAN
    OBVIOUS
  <2>2. line' \in 1 .. Len(file)' + 1
    BY <1>1
  <2>3. hurt' \subseteq 1 .. line' /\ line' \notin hurt'
    OBVIOUS
  <2> QED BY <1>2, <2>1, <2>2, <2>3 DEF Places
<1>4. Begun'
  BY DEF Begun
<1>5. Whole' /\ Followed'
  BY DEF Whole, Followed, Known
<1>6. Entry'
  BY DEF Entry, Reading
<1>7. SoFar' /\ Contained' /\ LoadedWhole'
  BY <1>1 DEF SoFar, Contained, LoadedWhole
<1> QED BY <1>3, <1>4, <1>5, <1>6, <1>7 DEF LoaderInv

LEMMA LoaderBegins == ASSUME Init PROVE LoaderInv
<1>1. file = <<>> /\ line = 1 /\ col = 1 /\ hurt = {} /\ strayed = FALSE /\ pc = "idle"
  BY DEF Init
<1>2. Len(file) = 0
  BY <1>1
<1>3. ~More /\ ~Reading
  BY <1>1, <1>2 DEF More, Reading
<1>4. Places
  <2>1. strayed \in BOOLEAN
    BY <1>1
  <2>2. line \in 1 .. Len(file) + 1 /\ file \in Files \cup {<<>>}
    BY <1>1, <1>2
  <2>3. hurt \subseteq 1 .. line /\ line \notin hurt
    BY <1>1
  <2> QED BY <1>1, <1>3, <2>1, <2>2, <2>3 DEF Places
<1>5. Begun
  BY <1>1 DEF Begun
<1>6. Whole /\ Entry /\ Followed /\ SoFar /\ Contained /\ LoadedWhole
  BY <1>1, <1>2, <1>3 DEF Whole, Entry, Followed, SoFar, Contained, LoadedWhole
<1> QED BY <1>4, <1>5, <1>6 DEF LoaderInv

LEMMA CharactersKeep == ASSUME LoaderInv, ReadChar \/ LoseChar PROVE LoaderInv'
<1>1. ReadsOn
  BY CharactersRead DEF LoaderInv
<1> QED BY <1>1, Moves, BegunOn, WholeOn, EntryOn, FollowedOn, SoFarOn, ContainedOn, LoadedWholeOn DEF LoaderInv

\* So does the wait for the first of them.
LEMMA WaitKeeps ==
  ASSUME LoaderInv, Tick \/ RemoteBegins \/ ResetReturns \/ kchar_available \/ ReadTicks
  PROVE  LoaderInv'
<1>1. /\ pc \in {"reset", "poll", "ticks"} /\ pc' \in {"idle", "reset", "poll", "ticks", "start"}
      /\ UNCHANGED <<file, line, col, hurt, strayed>>
  BY DEF Tick, RemoteBegins, ResetReturns, kchar_available, ReadTicks, remote
<1>2. line = 1 /\ col = 1 /\ hurt = {} /\ strayed = FALSE /\ file \in Files \cup {<<>>}
  BY <1>1 DEF LoaderInv, Begun, Places
<1> QED BY <1>1, <1>2, Fresh

LEMMA CommandKeeps == ASSUME NEW f \in Files, handle_load_command(f) PROVE LoaderInv'
BY Fresh DEF handle_load_command

LEMMA StutterKeeps == ASSUME LoaderInv, UNCHANGED vars PROVE LoaderInv'
<1> USE DEF vars, timer, remote, record, results
<1>1. Places'
  BY DEF LoaderInv, Places, More, Here
<1>2. Begun'
  BY DEF LoaderInv, Begun
<1>3. Known(Here) => Known(Here)'
  BY DEF Known, Here, CountRecord, Track, InCount, InAddress, InBytes, InSum, Taken, FirstStored
<1>4. Seen(Here) => Seen(Here)'
  BY DEF Seen, Over, Finished, Here, CountRecord, Track, InCount, InAddress, InBytes, InSum, Taken, FirstStored
<1>5. Whole'
  BY <1>3 DEF LoaderInv, Whole, Reading, More
<1>6. Entry'
  BY DEF LoaderInv, Entry, Reading, More, InStep, IsRecord, Kind
<1>7. Followed'
  BY <1>4 DEF LoaderInv, Followed, Reading, More, InStep, IsRecord, Kind
<1>8. SoFar'
  BY DEF LoaderInv, SoFar, Reading, HasCount, IsRecord, Kind, Finished, FirstStored
<1>9. Contained'
  BY DEF LoaderInv, Contained, InStep, IsRecord, Kind, Stored, AddressOf, DataBytes, DataOf
<1>10. LoadedWhole'
  BY DEF LoaderInv, LoadedWhole, HasCount, IsRecord, Kind, Stored, AddressOf, DataBytes, DataOf
<1> QED BY <1>1, <1>2, <1>5, <1>6, <1>7, <1>8, <1>9, <1>10 DEF LoaderInv

LEMMA LoaderKeeps == LoaderInv /\ [Next]_vars => LoaderInv'
BY CharactersKeep, WaitKeeps, CommandKeeps, StutterKeeps DEF Next, Step

LEMMA LoaderAlways == Spec => []LoaderInv
BY LoaderBegins, LoaderKeeps, PTL DEF Spec

\* A data record that arrives whole is in memory when its line is over, whatever happened to the
\* lines before the one it follows.
THEOREM DamageContained == Spec => []Contained
<1>1. LoaderInv => Contained
  BY DEF LoaderInv
<1> QED BY <1>1, LoaderAlways, PTL

\* A file that arrives whole is in memory, all of it, when the load is over, and the address its
\* termination record gives is the one to go to.
THEOREM FileLoadedWhole == Spec => []LoadedWhole
<1>1. LoaderInv => LoadedWhole
  BY DEF LoaderInv
<1> QED BY <1>1, LoaderAlways, PTL

\* What the step that stores something stores.
LEMMA StoresKept ==
  ASSUME LoaderInv, [Next]_vars, line \notin hurt', mem' # mem, NEW a \in DOMAIN mem'
  PROVE  \/ a \in DOMAIN mem /\ mem'[a] = mem[a]
         \/ /\ Kind(line) \in Data
            /\ \E k \in 1 .. DataBytes(line) :
                 a = AddressOf(line) + k - 1 /\ mem'[a] = DataOf(line)[k]
<1>1. ReadChar
  BY DEF Next, Step, Tick, RemoteBegins, handle_load_command, ResetReturns, kchar_available, ReadTicks,
         LoseChar, vars, results
<1>2. Places /\ Begun /\ Whole /\ ReadsOn
  BY <1>1, CharactersRead DEF LoaderInv
<1>3. PICK l : l = Here
  OBVIOUS
<1>4. l[2] \in Data
  BY <1>2, <1>3, MemoryOn
<1>5. PICK k \in 1 .. DataCount(l) : mem' = StoreAt(NumberOf(l) + k - 1, DataByte(l, k))
  BY <1>2, <1>3, MemoryOn
<1>6. Kind(line) = l[2] /\ AddressOf(line) = NumberOf(l) /\ DataBytes(line) = DataCount(l)
      /\ DataOf(line)[k] = DataByte(l, k)
  BY <1>3 DEF Here, Kind, AddressOf, DataBytes, DataOf
<1>7. CASE a = NumberOf(l) + k - 1
  <2>1. mem'[a] = DataByte(l, k)
    BY <1>5, <1>7 DEF StoreAt
  <2> QED BY <1>4, <1>6, <1>7, <2>1
<1>8. CASE a # NumberOf(l) + k - 1
  <2>1. a \in DOMAIN mem /\ mem'[a] = mem[a]
    BY <1>5, <1>8 DEF StoreAt
  <2> QED BY <2>1
<1> QED BY <1>7, <1>8

\* A line of which nothing was altered or lost stores what it says where it says, whatever state
\* the lines before it have left the reader in.
THEOREM OnlyTheFileStored == Spec => StoresTheFile
<1>1. LoaderInv /\ [Next]_vars =>
        [line \notin hurt' =>
           \A a \in DOMAIN mem' :
             \/ a \in DOMAIN mem /\ mem'[a] = mem[a]
             \/ /\ Kind(line) \in Data
                /\ \E k \in 1 .. DataBytes(line) :
                     a = AddressOf(line) + k - 1 /\ mem'[a] = DataOf(line)[k]]_mem
  BY StoresKept
<1> QED BY <1>1, LoaderAlways, PTL DEF Spec, StoresTheFile

-----------------------------------------------------------------------------
(* What the checksum finds out.                                            *)

\* The sum of two numbers below v is, modulo v, itself or v less.
LEMMA AddedModulo ==
  ASSUME NEW v \in Nat, NEW a \in 0 .. v - 1, NEW b \in 0 .. v - 1
  PROVE  (a + b) % v = IF a + b < v THEN a + b ELSE a + b - v
<1> DEFINE x == a + b
<1>1. x \in Nat /\ x < v + v /\ v > 0
  OBVIOUS
<1> HIDE DEF x
<1>2. x = v * (x \div v) + (x % v) /\ x % v \in 0 .. v - 1 /\ x \div v \in Int
  BY <1>1
<1> DEFINE q == x \div v
           r == x % v
<1> HIDE DEF q, r
<1>3. x = v * q + r /\ r \in 0 .. v - 1 /\ q \in Int
  BY <1>2 DEF q, r
<1>4. ASSUME q <= -1 PROVE FALSE
  <2>1. v * q <= v * (-1)
    BY <1>1, <1>3, <1>4
  <2> QED BY <1>1, <1>3, <2>1
<1>5. ASSUME q >= 2 PROVE FALSE
  <2>1. v * q >= v * 2
    BY <1>1, <1>3, <1>5
  <2> QED BY <1>1, <1>3, <2>1
<1>6. q = 0 \/ q = 1
  BY <1>3, <1>4, <1>5
<1>7. q = 0 => x = r
  BY <1>1, <1>3
<1>8. q = 1 => x = v + r
  BY <1>1, <1>3
<1> QED BY <1>1, <1>3, <1>6, <1>7, <1>8 DEF x, r

\* So different numbers make different sums with the same.
LEMMA AddedDiffers ==
  ASSUME NEW v \in Nat, NEW a \in 0 .. v - 1, NEW b \in 0 .. v - 1, NEW c \in 0 .. v - 1, a # b
  PROVE  (a + c) % v # (b + c) % v /\ (c + a) % v # (c + b) % v
<1>1. (a + c) % v = IF a + c < v THEN a + c ELSE a + c - v
  BY AddedModulo
<1>2. (b + c) % v = IF b + c < v THEN b + c ELSE b + c - v
  BY AddedModulo
<1>3. (c + a) % v = (a + c) % v /\ (c + b) % v = (b + c) % v
  <2>1. c + a = a + c /\ c + b = b + c
    OBVIOUS
  <2> QED BY <2>1
<1> QED BY <1>1, <1>2, <1>3

LEMMA ByteRange ==
  ASSUME NEW l, NEW k \in Nat, l[2 * k + 1] \in Digit, l[2 * k + 2] \in Digit
  PROVE  ByteOf(l, k) \in 0 .. ByteValues - 1
<1> DEFINE a == l[2 * k + 1]
           b == l[2 * k + 2]
<1>1. ByteOf(l, k) = a * BASE + b /\ ByteOf(l, k) \in Nat
  BY ByteIs
<1>2. a \in Nat /\ b \in Nat /\ a <= BASE - 1 /\ b <= BASE - 1 /\ BASE \in Nat
  BY LoaderAssumption DEF Digit
<1> HIDE DEF a, b
<1>3. a * BASE <= (BASE - 1) * BASE
  BY <1>2
<1>4. (BASE - 1) * BASE = BASE * BASE - BASE
  BY <1>2
<1>5. a * BASE \in Nat /\ BASE * BASE \in Nat
  BY <1>2
<1>6. a * BASE + b <= BASE * BASE - 1
  BY <1>2, <1>3, <1>4, <1>5
<1> QED BY <1>1, <1>5, <1>6 DEF ByteValues

\* Two bytes of different digits are different.
LEMMA ByteDiffers ==
  ASSUME NEW l, NEW m, NEW k \in Nat,
         l[2 * k + 1] \in Digit, l[2 * k + 2] \in Digit, m[2 * k + 1] \in Digit, m[2 * k + 2] \in Digit,
         ByteOf(l, k) = ByteOf(m, k)
  PROVE  l[2 * k + 1] = m[2 * k + 1] /\ l[2 * k + 2] = m[2 * k + 2]
<1> DEFINE a == l[2 * k + 1]
           b == l[2 * k + 2]
           c == m[2 * k + 1]
           d == m[2 * k + 2]
<1>1. ByteOf(l, k) = a * BASE + b
  BY ByteIs
<1>2. ByteOf(m, k) = c * BASE + d
  BY ByteIs
<1>3. a \in Digit /\ b \in Digit /\ c \in Digit /\ d \in Digit
  OBVIOUS
<1> HIDE DEF a, b, c, d
<1>4. a \in Nat /\ c \in Nat /\ BASE \in Nat /\ BASE > 0
  BY <1>3, LoaderAssumption DEF Digit
<1>5. b = d
  <2>1. (a * BASE + b) % BASE = b
    BY <1>3, <1>4, LastDigit
  <2>2. (c * BASE + d) % BASE = d
    BY <1>3, <1>4, LastDigit
  <2> QED BY <1>1, <1>2, <2>1, <2>2
<1>6. a * BASE = c * BASE
  <2> DEFINE x == a * BASE
             y == c * BASE
  <2>1. x \in Nat /\ y \in Nat /\ b \in Nat
    BY <1>3, <1>4, Digits
  <2>2. x + b = y + b
    BY <1>1, <1>2, <1>5
  <2> HIDE DEF x, y
  <2>3. x = y
    BY <2>1, <2>2
  <2> QED BY <2>3 DEF x, y
<1>7. ASSUME NEW x \in Nat, NEW y \in Nat, x < y PROVE x * BASE # y * BASE
  <2>1. (x + 1) * BASE <= y * BASE
    BY <1>4, <1>7
  <2>2. (x + 1) * BASE = x * BASE + BASE
    BY <1>4
  <2>3. x * BASE \in Nat
    BY <1>4
  <2> QED BY <1>4, <2>1, <2>2, <2>3
<1>8. a = c
  BY <1>4, <1>6, <1>7
<1> QED BY <1>5, <1>8 DEF a, b, c, d

LEMMA NumberSame ==
  ASSUME NEW l, NEW m, NEW i \in Nat, NEW n \in Nat, \A k \in i .. i + n - 1 : m[k] = l[k]
  PROVE  Number(m, i, n) = Number(l, i, n)
<1> DEFINE T == {k \in Nat : k <= n => Number(m, i, k) = Number(l, i, k)}
<1>1. 0 \in T
  BY NumberIs
<1>2. ASSUME NEW k \in Nat, k \in T PROVE k + 1 \in T
  <2> SUFFICES ASSUME k + 1 <= n PROVE Number(m, i, k + 1) = Number(l, i, k + 1)
    OBVIOUS
  <2>1. Number(m, i, k) = Number(l, i, k) /\ i + (k + 1) - 1 \in i .. i + n - 1
    BY <1>2
  <2>2. Number(m, i, k + 1) = Number(m, i, k) * BASE + m[i + (k + 1) - 1]
    BY NumberIs
  <2>3. Number(l, i, k + 1) = Number(l, i, k) * BASE + l[i + (k + 1) - 1]
    BY NumberIs
  <2> QED BY <2>1, <2>2, <2>3
<1> HIDE DEF T
<1>3. n \in T
  BY <1>1, <1>2, Inductively
<1> QED BY <1>3 DEF T

LEMMA ByteSame ==
  ASSUME NEW l, NEW m, NEW k \in Nat, m[2 * k + 1] = l[2 * k + 1], m[2 * k + 2] = l[2 * k + 2]
  PROVE  ByteOf(m, k) = ByteOf(l, k)
<1>1. \A j \in 2 * k + 1 .. 2 * k + 1 + 2 - 1 : m[j] = l[j]
  <2> SUFFICES ASSUME NEW j \in 2 * k + 1 .. 2 * k + 1 + 2 - 1 PROVE m[j] = l[j]
    OBVIOUS
  <2>1. j = 2 * k + 1 \/ j = 2 * k + 2
    OBVIOUS
  <2> QED BY <2>1
<1>2. 2 * k + 1 \in Nat
  OBVIOUS
<1> QED BY <1>1, <1>2, NumberSame DEF ByteOf

LEMMA SumSame ==
  ASSUME NEW l, NEW m, NEW n \in Nat, \A k \in 3 .. 2 * n + 2 : m[k] = l[k]
  PROVE  SumOf(m, n) = SumOf(l, n)
<1> DEFINE T == {k \in Nat : k <= n => SumOf(m, k) = SumOf(l, k)}
<1>1. 0 \in T
  BY SumIs
<1>2. ASSUME NEW k \in Nat, k \in T PROVE k + 1 \in T
  <2> SUFFICES ASSUME k + 1 <= n PROVE SumOf(m, k + 1) = SumOf(l, k + 1)
    OBVIOUS
  <2>1. /\ SumOf(m, k) = SumOf(l, k) /\ k + 1 \in Nat
        /\ 2 * (k + 1) + 1 \in 3 .. 2 * n + 2 /\ 2 * (k + 1) + 2 \in 3 .. 2 * n + 2
    BY <1>2
  <2>2. ByteOf(m, k + 1) = ByteOf(l, k + 1)
    BY <2>1, ByteSame
  <2>3. SumOf(m, k + 1) = (SumOf(m, k) + ByteOf(m, k + 1)) % ByteValues
    BY SumIs
  <2>4. SumOf(l, k + 1) = (SumOf(l, k) + ByteOf(l, k + 1)) % ByteValues
    BY SumIs
  <2> QED BY <2>1, <2>2, <2>3, <2>4
<1> HIDE DEF T
<1>3. n \in T
  BY <1>1, <1>2, Inductively
<1> QED BY <1>3 DEF T

LEMMA SumRange ==
  ASSUME NEW l, NEW n \in Nat, \A j \in 3 .. 2 * n + 2 : l[j] \in Digit
  PROVE  SumOf(l, n) \in 0 .. ByteValues - 1
<1>1. CASE n = 0
  BY <1>1, SumIs, Sizes
<1>2. CASE n # 0
  <2> DEFINE k == n - 1
  <2>1. k \in Nat /\ k + 1 = n
    BY <1>2
  <2> HIDE DEF k
  <2>2. SumOf(l, k + 1) = (SumOf(l, k) + ByteOf(l, k + 1)) % ByteValues
    BY <2>1, SumIs
  <2>3. SumOf(l, k) \in Nat
    <3>1. \A j \in 3 .. 2 * k + 2 : l[j] \in Digit
      BY <2>1
    <3> QED BY <2>1, <3>1, SumNat
  <2>4. ByteOf(l, k + 1) \in Nat
    <3>1. 2 * (k + 1) + 1 \in 3 .. 2 * n + 2 /\ 2 * (k + 1) + 2 \in 3 .. 2 * n + 2
      BY <2>1
    <3> QED BY <2>1, <3>1, ByteIs
  <2> QED BY <2>1, <2>2, <2>3, <2>4, Sizes
<1> QED BY <1>1, <1>2

\* A sum of other bytes that differ in one digit is another.
LEMMA SumDiffers ==
  ASSUME NEW l, NEW m, NEW n \in Nat, NEW p \in 3 .. 2 * n + 2,
         \A i \in 3 .. 2 * n + 2 : l[i] \in Digit /\ m[i] \in Digit /\ (i # p => m[i] = l[i]),
         m[p] # l[p]
  PROVE  SumOf(l, n) # SumOf(m, n)
<1> DEFINE T == {k \in Nat : k <= n => IF p <= 2 * k + 2 THEN SumOf(l, k) # SumOf(m, k)
                                                         ELSE SumOf(l, k) = SumOf(m, k)}
<1>1. 0 \in T
  BY SumIs
<1>2. ASSUME NEW k \in Nat, k \in T PROVE k + 1 \in T
  <2> DEFINE i == 2 * (k + 1) + 1
             j == 2 * (k + 1) + 2
             a == ByteOf(l, k + 1)
             b == ByteOf(m, k + 1)
  <2> SUFFICES ASSUME k + 1 <= n
               PROVE  IF p <= 2 * (k + 1) + 2 THEN SumOf(l, k + 1) # SumOf(m, k + 1)
                                              ELSE SumOf(l, k + 1) = SumOf(m, k + 1)
    OBVIOUS
  <2>1. /\ i \in 3 .. 2 * n + 2 /\ j \in 3 .. 2 * n + 2 /\ k + 1 \in Nat
        /\ IF p <= 2 * k + 2 THEN SumOf(l, k) # SumOf(m, k) ELSE SumOf(l, k) = SumOf(m, k)
    BY <1>2
  <2>2. l[i] \in Digit /\ l[j] \in Digit /\ m[i] \in Digit /\ m[j] \in Digit
    BY <2>1
  <2>3. a \in 0 .. ByteValues - 1 /\ b \in 0 .. ByteValues - 1
    BY <2>1, <2>2, ByteRange
  <2>4. SumOf(l, k) \in 0 .. ByteValues - 1 /\ SumOf(m, k) \in 0 .. ByteValues - 1
    <3>1. \A x \in 3 .. 2 * k + 2 : x \in 3 .. 2 * n + 2
      BY <2>1
    <3> QED BY <3>1, SumRange
  <2>5. SumOf(l, k + 1) = (SumOf(l, k) + a) % ByteValues /\ SumOf(m, k + 1) = (SumOf(m, k) + b) % ByteValues
    BY SumIs
  <2>6. a = b <=> p \notin {i, j}
    <3>1. CASE p \notin {i, j}
      BY <2>1, <3>1, ByteSame
    <3>2. CASE p \in {i, j}
      <4>1. m[i] # l[i] \/ m[j] # l[j]
        BY <3>2
      <4>2. a # b
        BY <2>1, <2>2, <4>1, ByteDiffers
      <4> QED BY <3>2, <4>2
    <3> QED BY <3>1, <3>2
  <2> HIDE DEF a, b
  <2>7. CASE p <= 2 * k + 2
    <3>1. a = b /\ SumOf(l, k) # SumOf(m, k)
      BY <2>1, <2>6, <2>7
    <3> QED BY <2>3, <2>4, <2>5, <2>7, <3>1, Sizes, AddedDiffers
  <2>8. CASE p \in {i, j}
    <3>1. a # b /\ SumOf(l, k) = SumOf(m, k) /\ p <= 2 * (k + 1) + 2
      BY <2>1, <2>6, <2>8
    <3> QED BY <2>3, <2>4, <2>5, <3>1, Sizes, AddedDiffers
  <2>9. CASE p > 2 * (k + 1) + 2
    <3>1. a = b /\ SumOf(l, k) = SumOf(m, k)
      BY <2>1, <2>6, <2>9
    <3> QED BY <2>5, <2>9, <3>1
  <2> QED BY <2>7, <2>8, <2>9
<1> HIDE DEF T
<1>3. n \in T
  BY <1>1, <1>2, Inductively
<1> QED BY <1>3 DEF T

-----------------------------------------------------------------------------
(* A termination record as it arrives: m is the line with what was altered *)
(* in it, and the reader has seen its characters before col.               *)

HeardAddress(m) ==
  /\ pc = "address" /\ digits \in 0 .. 7 /\ digits < AddressDigits(m[2]) /\ col = 5 + digits
  /\ value = Number(m, 5, digits) /\ calculated_xsum = SumOf(m, 1 + digits \div 2)

HeardSum(m) ==
  /\ pc = "sum" /\ digits \in 0 .. 1 /\ col = 3 + 2 * Least(m[2]) + digits
  /\ value = Number(m, 3 + 2 * Least(m[2]), digits)
  /\ address = NumberOf(m) /\ calculated_xsum = SumOf(m, Least(m[2]))

Heard(m) ==
  /\ type = m[2] /\ m[2] \in Termination /\ \A i \in 3 .. col - 1 : m[i] \in Digit
  /\ InCount(m) \/ HeardAddress(m) \/ HeardSum(m)

\* Its checksum, at col the last digit, is the one it should have.
Matches(m) ==
  /\ col = 4 + 2 * Least(m[2]) /\ \A i \in 3 .. col : m[i] \in Digit
  /\ ByteOf(m, Least(m[2]) + 1) = (ByteValues - 1) - SumOf(m, Least(m[2]))

\* What becomes of it: it is read on, or is given up, or is over.
HeardOn(m) == Heard(m)' \/ (pc' = "address" /\ bad' = TRUE) \/ pc' = "rest"

\* What it says: the address to go to, if its checksum could not be read or is the one.
HeardSaid(m) ==
  go_address' = go_address \/ (go_address' = NumberOf(m) /\ (m[col] >= BASE \/ Matches(m)))

LEMMA TerminationFacts ==
  ASSUME NEW m, Heard(m)
  PROVE  /\ AddressDigits(m[2]) \in {4, 6, 8} /\ AddressDigits(m[2]) = 2 * Least(m[2]) - 2
         /\ Least(m[2]) \in {3, 4, 5} /\ pc \in Fields /\ type = m[2] /\ type \in Termination
<1>1. m[2] \in Types /\ m[2] = type /\ m[2] \in Termination
  BY DEF Heard, Types, Termination
<1>2. pc \in Fields
  BY DEF Heard, InCount, HeardAddress, HeardSum, Fields
<1> QED BY <1>1, <1>2, Widths

LEMMA HeardCountGoes ==
  ASSUME NEW m, Heard(m), InCount(m), m[col] \in Char, Handle(m[col]), col' = col + 1
  PROVE  HeardOn(m)
<1>1. pc \in Fields /\ pc = "count" /\ Width = 2 /\ go_address' = go_address
  BY Keeps DEF InCount, Fields, Width
<1>2. AddressDigits(m[2]) \in {4, 6, 8}
  BY TerminationFacts
<1>3. CASE m[col] >= BASE
  <2>1. FieldRead(0, TRUE)
    BY <1>1, <1>3, NoDigit
  <2>2. pc' = "address" /\ bad' = TRUE
    BY <1>1, <2>1 DEF FieldRead, Count, Address, ReadData, Name, compare_xsums, Field
  <2> QED BY <1>1, <2>2 DEF HeardOn
<1>4. CASE ~(m[col] >= BASE)
  <2>1. m[col] \in Digit /\ col \in Nat
    <3>1. m[col] \in Digit
      BY <1>4, NotBehind
    <3> QED BY <3>1 DEF InCount
  <2>2. \A i \in 3 .. col : m[i] \in Digit
    <3>1. \A i \in 3 .. col : i \in 3 .. col - 1 \/ i = col
      BY <2>1
    <3> QED BY <2>1, <3>1 DEF Heard
  <2>3. \A i \in 3 .. col' - 1 : m[i] \in Digit
    BY <2>1, <2>2
  <2>4. value * BASE + m[3 + digits] = Number(m, 3, digits + 1)
    BY DigitAdded DEF InCount
  <2>5. CASE digits = 0
    <3>1. digits + 1 # Width /\ digits % 2 = 0 /\ col = 3 + digits
      BY <1>1, <2>5 DEF InCount
    <3>2. /\ pc' = pc /\ digits' = digits + 1 /\ value' = value * BASE + m[col] /\ type' = type
          /\ calculated_xsum' = calculated_xsum
      BY <1>1, <2>1, <3>1, DigitRead
    <3>3. InCount(m)'
      BY <2>4, <2>5, <3>1, <3>2 DEF InCount
    <3> QED BY <1>1, <2>3, <3>2, <3>3 DEF HeardOn, Heard
  <2>6. CASE digits = 1
    <3>1. digits + 1 = Width /\ digits % 2 # 0 /\ col = 3 + digits
      BY <1>1, <2>6 DEF InCount
    <3>2. FieldRead(value * BASE + m[col], FALSE) /\ type' = type /\ calculated_xsum' = Summed(m[col])
      BY <1>1, <2>1, <3>1, DigitRead
    <3>3. pc' = "address" /\ digits' = 0 /\ value' = 0
      BY <1>1, <3>2 DEF FieldRead, Count, Address, ReadData, Name, compare_xsums, Field
    <3>4. calculated_xsum' = SumOf(m, 1)
      <4>1. calculated_xsum = SumOf(m, 0) /\ value = Number(m, 3, 1) /\ col = 3 + 1 /\ col = 2 * 1 + 2
        BY <2>6, SumIs DEF InCount
      <4>2. AtByte(m, 3, 1, 1, col)
        BY <2>2, <4>1 DEF AtByte
      <4> QED BY <3>2, <4>2, ByteAdded
    <3>5. value' = Number(m, 5, 0) /\ 1 + 0 \div 2 = 1 /\ col' = 5 + 0
      BY <2>6, <3>1, <3>3, NumberIs
    <3>6. HeardAddress(m)'
      BY <1>2, <3>3, <3>4, <3>5 DEF HeardAddress
    <3> QED BY <1>1, <2>3, <3>2, <3>6 DEF HeardOn, Heard
  <2> QED BY <2>5, <2>6 DEF InCount
<1> QED BY <1>3, <1>4

LEMMA HeardAddressGoes ==
  ASSUME NEW m, Heard(m), HeardAddress(m), m[col] \in Char, Handle(m[col]), col' = col + 1
  PROVE  HeardOn(m)
<1>1. pc = "address" /\ pc \in Fields /\ Width = AddressDigits(m[2]) /\ go_address' = go_address
  BY Keeps DEF Heard, HeardAddress, Fields, Width
<1>2. /\ AddressDigits(m[2]) \in {4, 6, 8} /\ AddressDigits(m[2]) = 2 * Least(m[2]) - 2
      /\ Least(m[2]) \in {3, 4, 5} /\ type = m[2] /\ type \in Termination
  BY TerminationFacts
<1>3. CASE m[col] >= BASE
  <2>1. pc' = "rest"
    BY <1>1, <1>3, CutShort
  <2> QED BY <1>1, <2>1 DEF HeardOn
<1>4. CASE ~(m[col] >= BASE)
  <2>1. m[col] \in Digit /\ digits \in 0 .. 7 /\ digits < AddressDigits(m[2]) /\ col = 5 + digits
    <3>1. m[col] \in Digit
      BY <1>4, NotBehind
    <3> QED BY <3>1 DEF HeardAddress
  <2>2. \A i \in 3 .. col : m[i] \in Digit
    <3>1. \A i \in 3 .. col : i \in 3 .. col - 1 \/ i = col
      BY <2>1
    <3> QED BY <2>1, <3>1 DEF Heard
  <2>3. \A i \in 3 .. col' - 1 : m[i] \in Digit
    BY <2>1, <2>2
  <2>4. value * BASE + m[col] = Number(m, 5, digits + 1)
    <3>1. value * BASE + m[5 + digits] = Number(m, 5, digits + 1)
      BY <2>1, DigitAdded DEF HeardAddress
    <3> QED BY <2>1, <3>1
  <2>5. calculated_xsum' = SumOf(m, 1 + (digits + 1) \div 2)
    <3>1. calculated_xsum' = IF digits % 2 = 0 THEN calculated_xsum ELSE Summed(m[col])
      BY <1>1, <2>1, DigitRead
    <3>2. calculated_xsum = SumOf(m, 1 + digits \div 2) /\ value = Number(m, 5, digits)
      BY DEF HeardAddress
    <3>3. CASE digits \in {0, 2, 4, 6}
      <4>1. digits % 2 = 0 /\ 1 + digits \div 2 = 1 + (digits + 1) \div 2
        BY <3>3
      <4> QED BY <3>1, <3>2, <4>1
    <3>4. CASE digits \in {1, 3, 5, 7}
      <4> DEFINE n == 1 + (digits + 1) \div 2
      <4>1. /\ digits % 2 # 0 /\ n \in Nat /\ n >= 1 /\ n - 1 = 1 + digits \div 2
            /\ col = 2 * n + 2 /\ digits \in Nat /\ digits >= 1
        BY <2>1, <3>4
      <4> HIDE DEF n
      <4>2. AtByte(m, 5, digits, n, col)
        BY <2>1, <2>2, <3>2, <4>1 DEF AtByte
      <4>3. Summed(m[col]) = SumOf(m, n)
        BY <4>2, ByteAdded
      <4> QED BY <3>1, <4>1, <4>3 DEF n
    <3> QED BY <2>1, <3>3, <3>4
  <2>6. CASE digits + 1 # AddressDigits(m[2])
    <3>1. pc' = pc /\ digits' = digits + 1 /\ value' = value * BASE + m[col] /\ type' = type
      BY <1>1, <2>1, <2>6, DigitRead
    <3>2. digits + 1 \in 0 .. 7 /\ digits + 1 < AddressDigits(m[2]) /\ col' = 5 + (digits + 1)
      BY <1>2, <2>1, <2>6
    <3>3. HeardAddress(m)'
      BY <1>1, <2>4, <2>5, <3>1, <3>2 DEF HeardAddress
    <3> QED BY <1>1, <1>2, <2>3, <3>1, <3>3 DEF HeardOn, Heard
  <2>7. CASE digits + 1 = AddressDigits(m[2])
    <3>1. FieldRead(value * BASE + m[col], FALSE) /\ type' = type
      BY <1>1, <2>1, <2>7, DigitRead
    <3>2. value * BASE + m[col] = NumberOf(m)
      BY <2>4, <2>7 DEF NumberOf
    <3>3. Address(NumberOf(m), FALSE)
      BY <1>1, <3>1, <3>2 DEF FieldRead, Count, ReadData, Name, compare_xsums
    <3>4. calculated_xsum' = SumOf(m, Least(m[2]))
      <4>1. 1 + (digits + 1) \div 2 = Least(m[2])
        BY <1>2, <2>7
      <4> QED BY <2>5, <4>1
    <3>5. CASE bad \/ Refused(type, count, NumberOf(m))
      <4>1. pc' = "rest"
        BY <3>3, <3>5 DEF Address, Rest
      <4> QED BY <1>1, <4>1 DEF HeardOn
    <3>6. CASE ~(bad \/ Refused(type, count, NumberOf(m)))
      <4>1. type \notin Data \cup {0}
        BY <1>2 DEF Termination, Data
      <4>2. pc' = "sum" /\ digits' = 0 /\ value' = 0 /\ address' = NumberOf(m)
        BY <3>3, <3>6, <4>1 DEF Address, Field
      <4>3. col' = 3 + 2 * Least(m[2]) + 0 /\ 3 + 2 * Least(m[2]) \in Nat
        BY <1>2, <2>1, <2>7
      <4>4. value' = Number(m, 3 + 2 * Least(m[2]), 0)
        BY <4>2, <4>3, NumberIs
      <4>5. HeardSum(m)'
        BY <3>4, <4>2, <4>3, <4>4 DEF HeardSum
      <4> QED BY <1>1, <1>2, <2>3, <3>1, <4>5 DEF HeardOn, Heard
    <3> QED BY <3>5, <3>6
  <2> QED BY <2>6, <2>7
<1> QED BY <1>3, <1>4

LEMMA HeardSumGoes ==
  ASSUME NEW m, Heard(m), HeardSum(m), m[col] \in Char, Handle(m[col])
  PROVE  HeardSaid(m) /\ (col' = col + 1 => HeardOn(m))
<1> DEFINE i == 3 + 2 * Least(m[2])
<1>1. pc = "sum" /\ pc \in Fields /\ Width = 2 /\ address = NumberOf(m)
  BY DEF HeardSum, Fields, Width
<1>2. Least(m[2]) \in Nat /\ type = m[2] /\ type \in Termination /\ i \in Nat
  BY TerminationFacts
<1>3. CASE m[col] >= BASE
  <2>1. FieldRead(0, TRUE)
    BY <1>1, <1>3, NoDigit
  <2>2. compare_xsums(0)
    BY <1>1, <2>1 DEF FieldRead, Count, Address, ReadData, Name
  <2>3. pc' = "rest" /\ (go_address' = go_address \/ go_address' = NumberOf(m))
    BY <1>1, <2>2 DEF compare_xsums, Rest
  <2> QED BY <1>3, <2>3 DEF HeardOn, HeardSaid
<1>4. CASE ~(m[col] >= BASE)
  <2>1. /\ m[col] \in Digit /\ digits \in 0 .. 1 /\ col = i + digits
        /\ value = Number(m, i, digits) /\ calculated_xsum = SumOf(m, Least(m[2]))
    <3>1. m[col] \in Digit
      BY <1>4, NotBehind
    <3> QED BY <3>1 DEF HeardSum
  <2>2. \A j \in 3 .. col : m[j] \in Digit
    <3>1. \A j \in 3 .. col : j \in 3 .. col - 1 \/ j = col
      BY <1>2, <2>1
    <3> QED BY <2>1, <3>1 DEF Heard
  <2>3. value * BASE + m[col] = Number(m, i, digits + 1)
    BY <1>2, <2>1, DigitAdded
  <2>4. CASE digits = 0
    <3>1. digits + 1 # Width /\ digits % 2 = 0
      BY <1>1, <2>4
    <3>2. /\ pc' = pc /\ digits' = digits + 1 /\ value' = value * BASE + m[col] /\ type' = type
          /\ calculated_xsum' = calculated_xsum /\ address' = address /\ go_address' = go_address
      BY <1>1, <2>1, <3>1, DigitRead
    <3>3. ASSUME col' = col + 1 PROVE Heard(m)'
      <4>1. digits' = 1 /\ col' = i + 1 /\ value' = Number(m, i, 1)
        BY <1>2, <2>1, <2>3, <2>4, <3>2, <3>3
      <4>2. HeardSum(m)'
        BY <1>1, <2>1, <3>2, <4>1 DEF HeardSum
      <4>3. \A j \in 3 .. col' - 1 : m[j] \in Digit
        BY <1>2, <2>1, <2>2, <3>3
      <4> QED BY <1>2, <3>2, <4>2, <4>3 DEF Heard
    <3> QED BY <3>2, <3>3 DEF HeardOn, HeardSaid
  <2>5. CASE digits = 1
    <3>1. digits + 1 = Width
      BY <1>1, <2>5
    <3>2. value * BASE + m[col] = ByteOf(m, Least(m[2]) + 1)
      <4>1. 2 * (Least(m[2]) + 1) + 1 = i
        BY <1>2
      <4> QED BY <2>3, <2>5, <4>1 DEF ByteOf
    <3>3. FieldRead(ByteOf(m, Least(m[2]) + 1), FALSE)
      BY <1>1, <2>1, <3>1, <3>2, DigitRead
    <3>4. compare_xsums(ByteOf(m, Least(m[2]) + 1))
      BY <1>1, <3>3 DEF FieldRead, Count, Address, ReadData, Name
    <3>5. /\ pc' = "rest"
          /\ go_address' = go_address \/
               (go_address' = NumberOf(m) /\ ByteOf(m, Least(m[2]) + 1) = (ByteValues - 1) - SumOf(m, Least(m[2])))
      BY <1>1, <2>1, <3>4 DEF compare_xsums, Rest, XsumMatches
    <3>6. col = 4 + 2 * Least(m[2])
      BY <1>2, <2>1, <2>5
    <3> QED BY <2>2, <3>5, <3>6 DEF HeardOn, HeardSaid, Matches
  <2> QED BY <2>1, <2>4, <2>5
<1> QED BY <1>3, <1>4

LEMMA HeardGoes ==
  ASSUME NEW m, Heard(m), m[col] \in Char, Handle(m[col]), col' = col + 1
  PROVE  HeardOn(m)
BY HeardCountGoes, HeardAddressGoes, HeardSumGoes DEF Heard

LEMMA HeardTells ==
  ASSUME NEW m, Heard(m), m[col] \in Char, Handle(m[col])
  PROVE  HeardSaid(m)
<1>1. CASE HeardSum(m)
  BY <1>1, HeardSumGoes
<1>2. CASE ~HeardSum(m)
  <2>1. pc # "sum"
    BY <1>2 DEF Heard, InCount, HeardAddress
  <2> QED BY <2>1, Keeps DEF HeardSaid
<1> QED BY <1>1, <1>2

\* Line l but for the character at p, which arrives as c.
Altering(l, p, c) == [l EXCEPT ![p] = c]

\* One character of the line was altered: the first of one that is no record, or a digit of one.
AlteredOnce(l) ==
  \/ l[1] # S /\ Heard(l)
  \/ WholeRecord(l) /\ \E p \in 3 .. col - 1 : \E c \in Digit \ {l[p]} : Heard(Altering(l, p, c))

\* A termination record that has arrived whole so far may be heard as any line that begins like it.
LEMMA TrackHeard ==
  ASSUME NEW l, Formed(l), Track(l), l[2] \in Termination, NEW m, \A i \in 1 .. col - 1 : m[i] = l[i]
  PROVE  Heard(m)
<1>1. /\ CountOf(l) \in Nat /\ CountOf(l) = Least(l[2]) /\ l[2] \in Types /\ l[2] # 5
      /\ \A i \in 3 .. 4 + 2 * CountOf(l) : l[i] \in Digit
      /\ type = l[2] /\ WholeRecord(l)
  <2>1. WholeRecord(l) /\ type = l[2] /\ DataCount(l) = 0 /\ l[2] # 5
    BY DEF Track, WholeRecord, Termination
  <2> QED BY <2>1, RecordFacts, Widths
<1>2. Least(l[2]) \in {3, 4, 5} /\ AddressDigits(l[2]) = 2 * Least(l[2]) - 2 /\ AddressDigits(l[2]) \in {4, 6, 8}
  BY <1>1, Widths
<1>3. col \in 3 .. 4 + 2 * CountOf(l)
  BY <1>1, TrackInside
<1>4. m[2] = l[2] /\ \A i \in 3 .. col - 1 : m[i] = l[i] /\ m[i] \in Digit
  BY <1>1, <1>3
<1>5. CASE InCount(l)
  <2>1. Number(m, 3, digits) = Number(l, 3, digits)
    <3>1. digits \in Nat /\ \A k \in 3 .. 3 + digits - 1 : m[k] = l[k]
      BY <1>4, <1>5 DEF InCount
    <3> QED BY <3>1, NumberSame
  <2>2. InCount(m)
    BY <1>5, <2>1 DEF InCount
  <2> QED BY <1>1, <1>4, <2>2 DEF Heard
<1>6. CASE InAddress(l)
  <2>1. digits \in 0 .. 7 /\ col = 5 + digits /\ digits \in Nat
    BY <1>6 DEF InAddress
  <2>2. Number(m, 5, digits) = Number(l, 5, digits)
    <3>1. \A k \in 5 .. 5 + digits - 1 : m[k] = l[k]
      BY <1>4, <2>1
    <3> QED BY <2>1, <3>1, NumberSame
  <2>3. SumOf(m, 1 + digits \div 2) = SumOf(l, 1 + digits \div 2)
    <3> DEFINE n == 1 + digits \div 2
    <3>1. n \in Nat /\ 2 * n + 2 <= 4 + digits
      BY <2>1
    <3> HIDE DEF n
    <3>2. \A k \in 3 .. 2 * n + 2 : m[k] = l[k]
      BY <1>4, <2>1, <3>1
    <3>3. SumOf(m, n) = SumOf(l, n)
      BY <3>1, <3>2, SumSame
    <3> QED BY <3>3 DEF n
  <2>4. HeardAddress(m)
    BY <1>1, <1>4, <1>6, <2>2, <2>3 DEF InAddress, HeardAddress
  <2> QED BY <1>1, <1>4, <2>4 DEF Heard
<1>7. CASE InBytes(l)
  BY <1>7 DEF InBytes, Data, Termination
<1>8. CASE InSum(l)
  <2> DEFINE n == Least(l[2])
  <2>1. n \in {3, 4, 5} /\ digits \in 0 .. 1 /\ col = 3 + 2 * n + digits
    BY <1>1, <1>2, <1>8 DEF InSum
  <2>2. Number(m, 3 + 2 * n, digits) = Number(l, 3 + 2 * n, digits)
    <3>1. 3 + 2 * n \in Nat /\ digits \in Nat /\ \A k \in 3 + 2 * n .. 3 + 2 * n + digits - 1 : m[k] = l[k]
      BY <1>4, <2>1
    <3> QED BY <3>1, NumberSame
  <2>3. SumOf(m, n) = SumOf(l, n)
    <3>1. n \in Nat /\ \A k \in 3 .. 2 * n + 2 : m[k] = l[k]
      BY <1>4, <2>1
    <3> QED BY <3>1, SumSame
  <2>4. NumberOf(m) = NumberOf(l)
    <3> DEFINE w == AddressDigits(l[2])
    <3>1. w \in Nat /\ \A k \in 5 .. 5 + w - 1 : m[k] = l[k]
      BY <1>2, <1>4, <2>1
    <3> HIDE DEF w
    <3>2. Number(m, 5, w) = Number(l, 5, w)
      BY <3>1, NumberSame
    <3> QED BY <1>4, <3>2 DEF w, NumberOf
  <2>5. HeardSum(m)
    BY <1>1, <1>4, <1>8, <2>2, <2>3, <2>4 DEF InSum, HeardSum
  <2> QED BY <1>1, <1>4, <2>5 DEF Heard
<1> QED BY <1>5, <1>6, <1>7, <1>8 DEF Track

\* What is altered.
LEMMA AlteringIs ==
  ASSUME NEW l, l \in Seq(Char), NEW p \in 1 .. Len(l), NEW c
  PROVE  Altering(l, p, c)[p] = c /\ \A i \in 1 .. Len(l) : i # p => Altering(l, p, c)[i] = l[i]
<1>1. DOMAIN l = 1 .. Len(l)
  OBVIOUS
<1> QED BY <1>1 DEF Altering

\* An altered digit is found out.
LEMMA NoMatch ==
  ASSUME NEW l, Formed(l), WholeRecord(l), l[2] \in Termination,
         NEW p \in 3 .. 4 + 2 * Least(l[2]), NEW c \in Digit \ {l[p]}, Matches(Altering(l, p, c))
  PROVE  FALSE
<1> DEFINE n == Least(l[2])
           k == n + 1
           m == Altering(l, p, c)
<1>1. /\ CountOf(l) \in Nat /\ CountOf(l) = n /\ l[2] \in Types /\ DataCount(l) = 0
      /\ \A i \in 3 .. 4 + 2 * CountOf(l) : l[i] \in Digit
      /\ 4 + 2 * CountOf(l) < EndOf(l) /\ EndOf(l) <= Len(l) /\ Len(l) \in Nat
  <2>1. DataCount(l) = 0 /\ l[2] # 5 /\ l[2] \in Types
    BY DEF WholeRecord, Termination
  <2>2. n \in {3, 4, 5}
    BY <2>1, Widths
  <2>3. CountOf(l) = DataCount(l) + n /\ CountOf(l) \in Nat
    BY <2>1, RecordFacts
  <2> HIDE DEF n
  <2>4. CountOf(l) = n
    BY <2>1, <2>2, <2>3
  <2> QED BY <2>1, <2>4, RecordFacts
<1>2. n \in Nat
  BY <1>1
<1>3. l \in Seq(Char)
  BY DEF Formed
<1>4. m[p] = c /\ m[2] = l[2] /\ \A i \in 3 .. 4 + 2 * n : i # p => m[i] = l[i]
  <2>1. 4 + 2 * n <= Len(l) /\ 2 \in 1 .. Len(l) /\ 2 # p /\ p \in 1 .. Len(l)
    <3>1. EndOf(l) \in 2 .. Len(l)
      BY LineFacts
    <3> QED BY <1>1, <1>2, <3>1
  <2>2. m[p] = c /\ \A i \in 1 .. Len(l) : i # p => m[i] = l[i]
    BY <1>3, <2>1, AlteringIs
  <2> HIDE DEF m, n
  <2>3. \A i \in 3 .. 4 + 2 * n : i \in 1 .. Len(l)
    BY <1>1, <1>2, <2>1
  <2> QED BY <2>1, <2>2, <2>3
<1>5. /\ \A i \in 3 .. 4 + 2 * n : m[i] \in Digit
      /\ ByteOf(m, k) = (ByteValues - 1) - SumOf(m, n)
  BY <1>2, <1>4 DEF Matches
<1>6. ByteOf(l, k) = (ByteValues - 1) - SumOf(l, n)
  BY <1>1 DEF WholeRecord
<1> HIDE DEF m, n
<1>7. SumOf(l, k) = (SumOf(l, n) + ByteOf(l, k)) % ByteValues /\ SumOf(m, k) = (SumOf(m, n) + ByteOf(m, k)) % ByteValues
  BY <1>2, SumIs
<1>8. SumOf(l, n) \in Nat /\ SumOf(m, n) \in Nat
  <2>1. \A i \in 3 .. 2 * n + 2 : l[i] \in Digit /\ m[i] \in Digit
    BY <1>1, <1>2, <1>5
  <2> QED BY <1>2, <2>1, SumNat
<1>9. SumOf(l, k) = SumOf(m, k)
  <2>1. SumOf(l, n) + ByteOf(l, k) = ByteValues - 1 /\ SumOf(m, n) + ByteOf(m, k) = ByteValues - 1
    BY <1>5, <1>6, <1>8, Sizes
  <2> QED BY <1>7, <2>1
<1>10. k \in Nat /\ 2 * k + 2 = 4 + 2 * n
  BY <1>2
<1>11. p \in 3 .. 2 * k + 2 /\ \A i \in 3 .. 2 * k + 2 : l[i] \in Digit /\ m[i] \in Digit /\ (i # p => m[i] = l[i])
  BY <1>1, <1>4, <1>5, <1>10 DEF n
<1>12. m[p] # l[p]
  BY <1>4
<1> HIDE DEF k
<1> QED BY <1>9, <1>10, <1>11, <1>12, SumDiffers

-----------------------------------------------------------------------------
(* Where a damaged record can send the program.                            *)

\* The character that is read, as it was sent or altered.
ReadsOne(c) ==
  /\ c \in Char /\ Handle(c) /\ lost' = lost
  /\ \/ c = Here[col] /\ hurt' = hurt
     \/ c # Here[col] /\ line \notin hurt /\ hurt' = hurt \cup {line}

LEMMA CharacterRead == ASSUME Places, ReadChar PROVE ReadsOn /\ \E c : ReadsOne(c)
<1>1. ReadsOn /\ More /\ lost' = lost
  BY CharactersRead DEF ReadChar
<1>2. PICK c \in {file[line][col]} \cup (IF Exposed THEN Altered ELSE {}) :
        /\ Handle(c)
        /\ hurt' = IF c = file[line][col] THEN hurt ELSE hurt \cup {line}
  BY DEF ReadChar
<1>3. Here[col] \in Char
  BY <1>1, Lines, LineFacts
<1>4. CASE c = Here[col]
  BY <1>1, <1>2, <1>3, <1>4 DEF ReadsOne, Here
<1>5. CASE c # Here[col]
  <2>1. Exposed /\ c \in Char
    BY <1>2, <1>5, LoaderAssumption DEF Here
  <2> QED BY <1>1, <1>2, <1>5, <2>1 DEF ReadsOne, Here, Exposed
<1> QED BY <1>4, <1>5

\* Reading a termination record, up to its checksum.
Ending == pc \in {"count", "address", "sum"} /\ type \in Termination

\* The damaged record is given up, or has another type, or has come but for one character.
Aim(l) == (pc = "address" /\ bad) \/ type # l[2] \/ AlteredOnce(l)

\* A termination record damaged by a character altered is still read in its line, and no further.
Aimed == Reading /\ More /\ line \in hurt /\ InStep(line) /\ ~lost /\ Ending => Aim(Here)
Wrapped == Reading /\ col = 1 /\ ~lost /\ Ending => pc = "address" /\ bad

\* A type is read at its place, and in a damaged line only if its first character is what was altered.
Typed ==
  Reading /\ More /\ InStep(line) /\ ~lost /\ pc = "type" => col = 2 /\ (line \in hurt => Here[1] # S)

DataOnly == pc = "data" => type \in Data

AimInv == Aimed /\ Wrapped /\ Typed /\ DataOnly

LEMMA GoFrom ==
  ASSUME NEW c \in Char, Handle(c), go_address' # go_address
  PROVE  pc = "sum" /\ type \in Termination
<1>1. pc = "sum" /\ pc \in Fields
  BY Keeps DEF Fields
<1>2. ASSUME NEW v, NEW err, FieldRead(v, err) PROVE type \in Termination
  <2>1. compare_xsums(v)
    BY <1>1, <1>2 DEF FieldRead, Count, Address, ReadData, Name
  <2> QED BY <2>1 DEF compare_xsums
<1>3. CASE c >= BASE
  <2>1. FieldRead(0, TRUE)
    BY <1>1, <1>3, NoDigit
  <2> QED BY <1>1, <1>2, <2>1
<1>4. CASE ~(c >= BASE)
  <2>1. c \in Digit
    BY <1>4, NotBehind
  <2>2. digits + 1 = Width
    BY <1>1, <2>1, DigitRead
  <2>3. FieldRead(value * BASE + c, FALSE)
    BY <1>1, <2>1, <2>2, DigitRead
  <2> QED BY <1>1, <1>2, <2>3
<1> QED BY <1>3, <1>4

\* A count that could not be read spoils the record behind its address.
LEMMA BadGoes ==
  ASSUME NEW c \in Char, Handle(c), pc = "address", bad
  PROVE  type' = type /\ (pc' = "rest" \/ (pc' = "address" /\ bad'))
<1>1. pc \in Fields
  BY DEF Fields
<1>2. ASSUME NEW v, NEW err, FieldRead(v, err) PROVE pc' = "rest"
  <2>1. Address(v, err)
    BY <1>2 DEF FieldRead, Count, ReadData, Name, compare_xsums
  <2> QED BY <2>1 DEF Address, Rest
<1>3. CASE c >= BASE
  <2>1. FieldRead(0, TRUE) /\ type' = type
    BY <1>1, <1>3, NoDigit
  <2> QED BY <1>2, <2>1
<1>4. CASE ~(c >= BASE)
  <2>1. c \in Digit
    BY <1>4, NotBehind
  <2>2. CASE digits + 1 = Width
    <3>1. FieldRead(value * BASE + c, FALSE) /\ type' = type
      BY <1>1, <2>1, <2>2, DigitRead
    <3> QED BY <1>2, <3>1
  <2>3. CASE digits + 1 # Width
    BY <1>1, <2>1, <2>3, DigitRead
  <2> QED BY <2>2, <2>3
<1> QED BY <1>3, <1>4

LEMMA TypeFrom ==
  ASSUME NEW c \in Char, Handle(c), pc' = "type"
  PROVE  pc \in {"start", "second"} /\ c = S
<1>1. CASE pc \in Fields
  BY <1>1, FieldGoes DEF Fields
<1>2. CASE pc \notin Fields
  BY <1>2, Handlers DEF Start, Garbage, Type, SkipRest, Field, Rest
<1> QED BY <1>1, <1>2

LEMMA EndingFrom ==
  ASSUME NEW c \in Char, Handle(c), Begun, DataOnly, Ending'
  PROVE  \/ pc = "type" /\ pc' = "count" /\ type' = c /\ c \in Types /\ digits' = 0 /\ value' = 0
            /\ calculated_xsum' = 0
         \/ Ending /\ type' = type /\ pc \in Fields
<1>1. CASE pc \in Fields
  <2>1. type' = type /\ pc # "name" /\ pc # "data"
    BY <1>1, FieldGoes DEF Ending, Begun, DataOnly, Termination, Data
  <2> QED BY <1>1, <2>1 DEF Ending, Fields
<1>2. CASE pc \notin Fields
  <2>1. pc = "type"
    BY <1>2, Handlers DEF Start, Garbage, SkipRest, Ending
  <2>2. Type(c)
    BY <2>1, Handlers
  <2>3. c \in Types
    BY <2>2 DEF Type, Rest, Ending
  <2> QED BY <2>1, <2>2, <2>3 DEF Type, Field, XsumCleared
<1> QED BY <1>1, <1>2

\* What the altered record says so far, when it is one altered at col.
LEMMA AlteredHeard ==
  ASSUME NEW l, Formed(l), Track(l), l[2] \in Termination, NEW c
  PROVE  /\ WholeRecord(l) /\ col \in 3 .. 4 + 2 * Least(l[2]) /\ col \in 1 .. Len(l)
         /\ Heard(Altering(l, col, c)) /\ Altering(l, col, c)[col] = c
         /\ Altering(l, col, c)[2] = l[2]
         /\ \A i \in 1 .. Len(l) : i # col => Altering(l, col, c)[i] = l[i]
<1>1. WholeRecord(l) /\ l[2] # 5 /\ l[2] \in Types /\ CountOf(l) = Least(l[2])
  <2>1. WholeRecord(l) /\ l[2] # 5 /\ DataCount(l) = 0
    BY DEF Track, WholeRecord, Termination
  <2> QED BY <2>1, RecordFacts, Widths
<1>2. col \in 3 .. 4 + 2 * CountOf(l) /\ col < EndOf(l) /\ EndOf(l) \in 2 .. Len(l) /\ Len(l) \in Nat
      /\ CountOf(l) \in Nat
  BY <1>1, TrackInside, LineFacts, RecordFacts
<1>3. col \in 1 .. Len(l) /\ 2 \in 1 .. Len(l) /\ 2 # col /\ \A i \in 1 .. col - 1 : i \in 1 .. Len(l) /\ i # col
  BY <1>2
<1>4. l \in Seq(Char)
  BY DEF Formed
<1> DEFINE m == Altering(l, col, c)
<1>5. m[col] = c /\ \A i \in 1 .. Len(l) : i # col => m[i] = l[i]
  BY <1>3, <1>4, AlteringIs
<1> HIDE DEF m
<1>6. m[2] = l[2] /\ \A i \in 1 .. col - 1 : m[i] = l[i]
  BY <1>3, <1>5
<1>7. Heard(m)
  BY <1>6, TrackHeard
<1> QED BY <1>1, <1>2, <1>3, <1>5, <1>6, <1>7 DEF m

\* A termination record read in an undamaged line is that line's.
LEMMA EndingKnown ==
  ASSUME NEW l, Known(l), col # 1, Ending
  PROVE  Track(l) /\ l[2] \in Termination
BY DEF Known, Track, Ending, Termination

LEMMA AlteredSays ==
  ASSUME NEW l, Formed(l), Track(l), l[2] \in Termination, pc = "sum",
         NEW c \in Char, c # l[col], Handle(c), go_address' # go_address
  PROVE  go_address' = NumberOf(l)
<1> DEFINE m == Altering(l, col, c)
<1>1. /\ WholeRecord(l) /\ col \in 3 .. 4 + 2 * Least(l[2]) /\ col \in 1 .. Len(l)
      /\ Heard(m) /\ m[col] = c /\ m[2] = l[2] /\ \A i \in 1 .. Len(l) : i # col => m[i] = l[i]
  BY AlteredHeard
<1>2. Least(l[2]) \in {3, 4, 5} /\ AddressDigits(l[2]) = 2 * Least(l[2]) - 2 /\ Len(l) \in Nat
  BY <1>1, RecordFacts, Widths
<1>3. ~Matches(m)
  <2> SUFFICES ASSUME Matches(m) PROVE FALSE
    OBVIOUS
  <2>1. c \in Digit
    <3> HIDE DEF m
    <3>1. col \in 3 .. col
      BY <1>1, <1>2
    <3> QED BY <1>1, <3>1 DEF Matches
  <2> QED BY <1>1, <2>1, NoMatch
<1> HIDE DEF m
<1>4. go_address' = NumberOf(m)
  <2>1. HeardSaid(m)
    BY <1>1, HeardTells
  <2> QED BY <1>3, <2>1 DEF HeardSaid
<1>5. NumberOf(m) = NumberOf(l)
  <2> DEFINE w == AddressDigits(l[2])
  <2>1. digits \in 0 .. 1 /\ col = 3 + 2 * Least(l[2]) + digits
    BY <1>1 DEF Heard, InCount, HeardAddress, HeardSum
  <2>2. w \in Nat /\ w = 2 * Least(l[2]) - 2
    BY <1>2
  <2>3. w + 4 < col /\ col \in Nat /\ col <= Len(l) /\ Len(l) \in Nat
    BY <1>1, <1>2, <2>1, <2>2
  <2> HIDE DEF w
  <2>4. \A i \in 5 .. 5 + w - 1 : m[i] = l[i]
    <3>1. \A i \in 5 .. 5 + w - 1 : i \in 1 .. Len(l) /\ i # col
      BY <2>2, <2>3
    <3> QED BY <1>1, <3>1
  <2>5. Number(m, 5, w) = Number(l, 5, w)
    BY <2>2, <2>4, NumberSame
  <2> QED BY <1>1, <2>5 DEF w, NumberOf
<1> QED BY <1>4, <1>5

\* Nor does one that was altered before its checksum.
LEMMA AlteredOnceSays ==
  ASSUME NEW l, Formed(l), AlteredOnce(l), pc = "sum", col \in 1 .. Len(l), l[col] \in Char, Handle(l[col]),
         go_address' # go_address
  PROVE  go_address' = NumberOf(l) /\ l[2] \in Termination
<1>1. CASE Heard(l)
  <2>1. l[2] \in Termination
    BY <1>1 DEF Heard
  <2> QED BY <1>1, <2>1, HeardTells DEF HeardSaid
<1>2. CASE ~Heard(l)
  <2>1. WholeRecord(l) /\ \E p \in 3 .. col - 1 : \E c \in Digit \ {l[p]} : Heard(Altering(l, p, c))
    BY <1>2 DEF AlteredOnce
  <2>2. PICK p \in 3 .. col - 1 : \E c \in Digit \ {l[p]} : Heard(Altering(l, p, c))
    BY <2>1
  <2>3. PICK c \in Digit \ {l[p]} : Heard(Altering(l, p, c))
    BY <2>2
  <2> DEFINE m == Altering(l, p, c)
  <2>4. /\ p \in 1 .. Len(l) /\ 2 \in 1 .. Len(l) /\ 2 # p /\ col # p
        /\ l \in Seq(Char)
    BY <2>2 DEF Formed
  <2>5. m[p] = c /\ \A i \in 1 .. Len(l) : i # p => m[i] = l[i]
    BY <2>4, AlteringIs
  <2>6. Heard(m)
    BY <2>3
  <2> HIDE DEF m
  <2>7. m[2] = l[2] /\ m[col] = l[col]
    BY <2>4, <2>5
  <2>8. l[2] \in Termination /\ digits \in 0 .. 1 /\ col = 3 + 2 * Least(l[2]) + digits
    BY <2>6, <2>7 DEF Heard, InCount, HeardAddress, HeardSum
  <2>9. Least(l[2]) \in {3, 4, 5} /\ AddressDigits(l[2]) = 2 * Least(l[2]) - 2
    BY <2>1, RecordFacts, Widths
  <2>10. p \in 3 .. 4 + 2 * Least(l[2])
    BY <2>2, <2>8, <2>9
  <2>11. HeardSaid(m)
    BY <2>6, <2>7, HeardTells
  <2>12. ~Matches(m)
    BY <2>1, <2>3, <2>8, <2>10, NoMatch DEF m
  <2>13. ~(m[col] >= BASE)
    <3>1. l[2] # 5 /\ DataCount(l) = 0
      BY <2>1, <2>8 DEF WholeRecord, Termination
    <3>2. CountOf(l) = DataCount(l) + Least(l[2]) /\ \A i \in 3 .. 4 + 2 * CountOf(l) : l[i] \in Digit
      BY <2>1, <3>1, RecordFacts
    <3>3. CountOf(l) = Least(l[2]) /\ \A i \in 3 .. 4 + 2 * CountOf(l) : l[i] \in Digit
      BY <2>9, <3>1, <3>2
    <3>4. l[col] \in Digit
      BY <2>8, <2>9, <3>3
    <3>5. m[col] \in Nat /\ m[col] < BASE /\ BASE \in Nat
      BY <2>7, <3>4, Alphabet, Digits
    <3> QED BY <3>5
  <2> QED BY <2>11, <2>12, <2>13 DEF HeardSaid
<1> QED BY <1>1, <1>2

\* The step that takes an address to go to takes the one the line says.
LEMMA GoesOnly ==
  ASSUME LoaderInv, AimInv, [Next]_vars, go_address' # go_address
  PROVE  \/ Kind(line) \in Termination /\ go_address' = AddressOf(line)
         \/ line \in hurt /\ (type # Kind(line) \/ ~InStep(line))
         \/ lost
<1>1. ReadChar /\ Places /\ Begun /\ Whole
  BY DEF Next, Step, Tick, RemoteBegins, handle_load_command, ResetReturns, kchar_available, ReadTicks,
         LoseChar, vars, results, LoaderInv
<1>2. PICK c : ReadsOne(c)
  BY <1>1, CharacterRead
<1>3. pc = "sum" /\ type \in Termination
  BY <1>2, GoFrom DEF ReadsOne
<1>4. PICK l : l = Here
  OBVIOUS
<1>5. Reading /\ More /\ Formed(l) /\ col \in 1 .. Len(l) /\ l[col] \in Char
  BY <1>1, <1>4, Lines, LineFacts DEF ReadChar
<1>6. Kind(line) = l[2] /\ AddressOf(line) = NumberOf(l)
  BY <1>4 DEF Here, Kind, AddressOf
<1> SUFFICES ASSUME ~lost, line \in hurt => type = l[2] /\ InStep(line)
             PROVE  l[2] \in Termination /\ go_address' = NumberOf(l)
  BY <1>6
<1>7. col # 1 /\ Ending
  BY <1>3, <1>5 DEF AimInv, Wrapped, Ending
<1>8. CASE line \notin hurt
  <2>1. Track(l) /\ l[2] \in Termination
    <3>1. Known(l)
      BY <1>1, <1>4, <1>5, <1>8 DEF Whole
    <3> QED BY <1>7, <3>1, EndingKnown
  <2>2. CASE c = l[col]
    <3>1. Heard(l)
      BY <1>5, <2>1, TrackHeard
    <3>2. HeardSaid(l)
      BY <1>2, <1>5, <2>2, <3>1, HeardTells DEF ReadsOne
    <3> QED BY <2>1, <3>2 DEF HeardSaid
  <2>3. CASE c # l[col]
    BY <1>2, <1>3, <1>5, <2>1, <2>3, AlteredSays DEF ReadsOne
  <2> QED BY <2>2, <2>3
<1>9. CASE line \in hurt
  <2>1. c = l[col]
    BY <1>2, <1>4, <1>9 DEF ReadsOne
  <2>2. AlteredOnce(l)
    BY <1>3, <1>4, <1>5, <1>7, <1>9 DEF AimInv, Aimed, Aim
  <2> QED BY <1>2, <1>3, <1>5, <2>1, <2>2, AlteredOnceSays DEF ReadsOne
<1> QED BY <1>8, <1>9

LEMMA HeardDigits ==
  ASSUME NEW m, Heard(m)', col' = col + 1, col \in Nat, col >= 3
  PROVE  m[col] \in Digit
<1>1. col \in 3 .. col' - 1
  OBVIOUS
<1> QED BY <1>1 DEF Heard

\* The aim is taken in the record's line and is kept to its end.
LEMMA AimTaken ==
  ASSUME NEW l, Formed(l), Known(l), col \in 1 .. Len(l), Begun, DataOnly,
         NEW c \in Char, c # l[col], Handle(c), Ending', col' = col + 1,
         pc = "type" => col = 2, col = 1 /\ Ending => pc = "address" /\ bad
  PROVE  Aim(l)'
<1>1. \/ pc = "type" /\ pc' = "count" /\ type' = c
      \/ Ending /\ type' = type
  BY EndingFrom
<1>2. CASE pc = "type" /\ type' = c
  <2>1. type' # l[2]
    BY <1>2
  <2> QED BY <2>1 DEF Aim
<1>3. CASE Ending /\ type' = type /\ col = 1
  <2>1. pc' = "address" /\ bad'
    BY <1>3, BadGoes DEF Ending
  <2> QED BY <2>1 DEF Aim
<1>4. CASE Ending /\ type' = type /\ col # 1
  <2>1. Track(l) /\ l[2] \in Termination
    BY <1>4, EndingKnown
  <2> DEFINE m == Altering(l, col, c)
  <2>2. WholeRecord(l) /\ Heard(m) /\ m[col] = c /\ col \in 3 .. 4 + 2 * Least(l[2])
    BY <2>1, AlteredHeard
  <2>3. PICK k : k = m
    OBVIOUS
  <2>4. HeardOn(k)
    <3> HIDE DEF m
    <3>1. Heard(k) /\ k[col] \in Char /\ Handle(k[col])
      BY <2>2, <2>3
    <3> QED BY <3>1, HeardGoes
  <2>5. CASE Heard(k)'
    <3>1. col \in Nat /\ col >= 3
      <4>1. l[2] \in Types
        BY <2>2, RecordFacts
      <4> QED BY <2>2, <4>1, Widths
    <3>2. k[col] \in Digit
      BY <2>5, <3>1, HeardDigits
    <3>3. c \in Digit \ {l[col]}
      BY <2>2, <2>3, <3>2
    <3>4. col \in 3 .. col' - 1
      BY <3>1
    <3>5. PICK p : p = col
      OBVIOUS
    <3>6. p \in 3 .. col' - 1 /\ c \in Digit \ {l[p]} /\ k = Altering(l, p, c)
      BY <2>3, <3>3, <3>4, <3>5
    <3>7. \E q \in 3 .. col' - 1 : \E d \in Digit \ {l[q]} : Heard(Altering(l, q, d))'
      BY <2>5, <3>6
    <3> QED BY <2>2, <3>7 DEF Aim, AlteredOnce
  <2>6. CASE pc' = "address" /\ bad' = TRUE
    BY <2>6 DEF Aim
  <2>7. pc' # "rest"
    BY DEF Ending
  <2> QED BY <2>4, <2>5, <2>6, <2>7 DEF HeardOn
<1> QED BY <1>1, <1>2, <1>3, <1>4

LEMMA AimKept ==
  ASSUME NEW l, Formed(l), col \in 2 .. Len(l), Begun, DataOnly, l[col] \in Char,
         Handle(l[col]), Ending', col' = col + 1,
         pc = "type" => col = 2 /\ l[1] # S, Ending => Aim(l)
  PROVE  Aim(l)'
<1>1. \/ pc = "type" /\ pc' = "count" /\ type' = l[col] /\ digits' = 0 /\ value' = 0 /\ calculated_xsum' = 0
      \/ Ending /\ type' = type
  BY EndingFrom
<1>2. CASE pc = "type" /\ pc' = "count" /\ type' = l[col] /\ digits' = 0 /\ value' = 0 /\ calculated_xsum' = 0
  <2>1. type' = l[2] /\ l[2] \in Termination /\ l[1] # S /\ col' = 3
    BY <1>2 DEF Ending
  <2>2. InCount(l)'
    <3>1. value' = Number(l, 3, 0) /\ col' = 3 + 0
      BY <1>2, <2>1, NumberIs
    <3> QED BY <1>2, <2>1, <3>1 DEF InCount
  <2>3. \A i \in 3 .. col' - 1 : l[i] \in Digit
    BY <2>1
  <2>4. Heard(l)'
    BY <2>1, <2>2, <2>3 DEF Heard
  <2> QED BY <2>1, <2>4 DEF Aim, AlteredOnce
<1>3. CASE Ending /\ type' = type /\ pc = "address" /\ bad
  <2>1. pc' = "address" /\ bad'
    BY <1>3, BadGoes DEF Ending
  <2> QED BY <2>1 DEF Aim
<1>4. CASE type' = type /\ type # l[2]
  BY <1>4 DEF Aim
<1>5. CASE l[1] # S /\ Heard(l)
  <2>1. HeardOn(l) /\ pc' # "rest"
    BY <1>5, HeardGoes DEF Ending
  <2> QED BY <1>5, <2>1 DEF HeardOn, Aim, AlteredOnce
<1>6. ASSUME WholeRecord(l), NEW p \in 3 .. col - 1, NEW d \in Digit \ {l[p]}, Heard(Altering(l, p, d))
      PROVE  Aim(l)'
  <2> DEFINE m == Altering(l, p, d)
  <2>1. p \in 1 .. Len(l) /\ col \in 1 .. Len(l) /\ p # col /\ l \in Seq(Char) /\ p \in 3 .. col' - 1
    BY <1>6 DEF Formed
  <2>2. m[col] = l[col]
    BY <2>1, AlteringIs
  <2>3. PICK k : k = m
    OBVIOUS
  <2>4. HeardOn(k)
    <3>1. Heard(k)
      BY <1>6, <2>3
    <3> HIDE DEF m
    <3> QED BY <2>2, <2>3, <3>1, HeardGoes
  <2>5. CASE Heard(k)'
    <3>1. \E q \in 3 .. col' - 1 : \E e \in Digit \ {l[q]} : Heard(Altering(l, q, e))'
      BY <2>1, <2>3, <2>5
    <3> QED BY <1>6, <3>1 DEF Aim, AlteredOnce
  <2>6. CASE pc' = "address" /\ bad' = TRUE
    BY <2>6 DEF Aim
  <2>7. pc' # "rest"
    BY DEF Ending
  <2> QED BY <2>4, <2>5, <2>6, <2>7 DEF HeardOn
<1> QED BY <1>1, <1>2, <1>3, <1>4, <1>5, <1>6 DEF Aim, AlteredOnce

LEMMA AimedOn ==
  ASSUME LoaderInv, AimInv, ReadsOn, NEW c, ReadsOne(c)
  PROVE  Aimed'
<1>1. Places /\ Begun /\ Whole /\ Reading /\ More
  BY DEF LoaderInv, ReadsOn
<1>2. PICK l : l = Here
  OBVIOUS
<1>3. Formed(l) /\ col \in 1 .. Len(l) /\ l[col] \in Char /\ line \in Nat
  <2>1. line \in 1 .. Len(file) /\ Len(file) \in Nat
    BY <1>1, Lines
  <2> QED BY <1>1, <1>2, <2>1, Lines, LineFacts
<1> SUFFICES ASSUME line' \in hurt', InStep(line)', ~lost', Ending' PROVE Aim(Here)'
  BY DEF Aimed
<1>4. line' = line /\ col' = col + 1 /\ Here' = l
  BY <1>1, <1>2, Moves
<1>5. InStep(line) /\ ~lost
  <2>1. PICK i \in Nat : i = line
    BY <1>3
  <2>2. InStep(i)'
    BY <1>4, <2>1
  <2> QED BY <1>1, <2>1, <2>2, InStepOn DEF ReadsOne
<1>6. /\ pc = "type" => col = 2 /\ (line \in hurt => l[1] # S)
      /\ col = 1 /\ Ending => pc = "address" /\ bad
      /\ DataOnly
      /\ line \in hurt /\ Ending => Aim(l)
  BY <1>1, <1>2, <1>5 DEF AimInv, Typed, Wrapped, Aimed
<1>7. Aim(l)'
  <2>1. CASE c = l[col] /\ hurt' = hurt
    <3>1. line \in hurt /\ col # 1
      BY <1>1, <1>4, <2>1 DEF Places
    <3>2. col \in 2 .. Len(l)
      BY <1>3, <3>1
    <3> QED BY <1>1, <1>3, <1>4, <1>6, <2>1, <3>1, <3>2, AimKept DEF ReadsOne
  <2>2. CASE c # l[col] /\ line \notin hurt
    <3>1. Known(l)
      BY <1>1, <1>2, <2>2 DEF Whole
    <3> QED BY <1>1, <1>3, <1>4, <1>6, <2>2, <3>1, AimTaken DEF ReadsOne
  <2> QED BY <1>2, <2>1, <2>2 DEF ReadsOne
<1> QED BY <1>4, <1>7

LEMMA WrappedOn ==
  ASSUME LoaderInv, AimInv, ReadsOn, NEW c, ReadsOne(c)
  PROVE  Wrapped'
<1>1. Places /\ Begun /\ Whole /\ Reading /\ More /\ DataOnly /\ c \in Char /\ Handle(c)
  BY DEF LoaderInv, ReadsOn, AimInv, ReadsOne
<1>2. PICK l : l = Here
  OBVIOUS
<1>3. Formed(l) /\ l[Len(l)] >= BASE /\ Len(l) \in Nat /\ Len(l) >= 2 /\ EndOf(l) \in 2 .. Len(l)
  BY <1>1, <1>2, Lines, LineFacts
<1> SUFFICES ASSUME col' = 1, Ending' PROVE pc' = "address" /\ bad'
  BY DEF Wrapped
<1>4. col = Len(l)
  BY <1>1, <1>2, Moves
<1>5. \/ pc = "type" /\ c \in Types
      \/ Ending /\ type' = type /\ pc \in Fields
  BY <1>1, EndingFrom
<1>6. CASE c = l[col]
  <2>1. c >= BASE /\ c \notin Types
    BY <1>1, <1>3, <1>4, <1>6, Alphabet
  <2>2. Ending /\ pc \in Fields
    BY <1>5, <2>1
  <2>3. pc = "count" /\ pc' = "address"
    BY <1>1, <2>1, <2>2, CutShort DEF Ending
  <2>4. FieldRead(0, TRUE)
    BY <1>1, <2>1, <2>2, NoDigit
  <2> QED BY <2>3, <2>4 DEF FieldRead, Count, Address, ReadData, Name, compare_xsums
<1>7. CASE c # l[col] /\ line \notin hurt
  <2>1. Known(l)
    BY <1>1, <1>2, <1>7 DEF Whole
  <2>2. pc # "type"
    BY <1>3, <1>4, <2>1, NotLast
  <2>3. Track(l) /\ l[2] \in Termination
    BY <1>3, <1>4, <1>5, <2>1, <2>2, EndingKnown
  <2>4. col < EndOf(l)
    <3>1. l[2] # 5
      BY <2>3 DEF Termination
    <3> QED BY <1>3, <2>3, <3>1, TrackInside
  <2> QED BY <1>3, <1>4, <2>4
<1> QED BY <1>2, <1>6, <1>7 DEF ReadsOne

LEMMA TypedOn ==
  ASSUME LoaderInv, AimInv, ReadsOn, NEW c, ReadsOne(c)
  PROVE  Typed'
<1>1. Places /\ Begun /\ Whole /\ Reading /\ More /\ c \in Char /\ Handle(c)
  BY DEF LoaderInv, ReadsOn, ReadsOne
<1>2. PICK l : l = Here
  OBVIOUS
<1>3. /\ Formed(l) /\ col \in 1 .. Len(l) /\ Len(l) \in Nat /\ Len(l) >= 2 /\ EndOf(l) \in 2 .. Len(l)
      /\ EndOf(l) >= Len(l) - 1 /\ Len(l) # 1
  <2>1. Formed(l) /\ col \in 1 .. Len(l)
    BY <1>1, <1>2, Lines
  <2>2. PICK n : n = Len(l)
    OBVIOUS
  <2>3. PICK e : e = EndOf(l)
    OBVIOUS
  <2>4. n \in Nat /\ n >= 2 /\ e \in 2 .. n /\ (e = n \/ e = n - 1)
    BY <2>1, <2>2, <2>3, LineFacts
  <2>5. e >= n - 1 /\ n # 1
    BY <2>4
  <2> QED BY <2>1, <2>2, <2>3, <2>4, <2>5
<1>4. line \in Nat /\ line + 1 # 1
  <2>1. line \in 1 .. Len(file) /\ Len(file) \in Nat
    BY <1>1, Lines
  <2> QED BY <2>1
<1>5. SUFFICES ASSUME InStep(line)', pc' = "type" PROVE col' = 2 /\ (line' \in hurt' => Here'[1] # S)
  BY DEF Typed
<1>6. pc \in {"start", "second"} /\ c = S
  BY <1>1, <1>5, TypeFrom
<1>7. \/ line' = line /\ col' = col + 1 /\ col \in 1 .. Len(l) - 1 /\ Here' = l
      \/ line' = line + 1 /\ col = Len(l)
  BY <1>1, <1>2, Moves
<1>8. CASE c = l[col] /\ hurt' = hurt
  <2>1. col = 1
    <3>1. \A i \in 2 .. Len(l) : l[i] # S
      BY <1>1, <1>2, Lines, LineFacts
    <3> QED BY <1>3, <1>6, <1>8, <3>1
  <2>2. line \notin hurt
    BY <1>1, <2>1 DEF Places
  <2>3. line' = line /\ col' = 2
    <3>1. col # Len(l)
      BY <1>3, <2>1
    <3> QED BY <1>7, <2>1, <3>1
  <2> QED BY <1>8, <2>2, <2>3
<1>9. CASE c # l[col] /\ line \notin hurt /\ hurt' = hurt \cup {line}
  <2>1. line' = line /\ col' = col + 1 /\ col \in 1 .. Len(l) - 1 /\ Here' = l
    <3>1. line' # line + 1
      <4> SUFFICES ASSUME line' = line + 1 PROVE FALSE
        OBVIOUS
      <4>1. PICK i \in Nat : i = line + 1
        BY <1>4
      <4>2. InStep(i)'
        BY <1>5, <4>1
      <4> QED BY <1>1, <1>9, <4>1, <4>2, InStepOn
    <3> QED BY <1>7, <3>1
  <2>2. Known(l)
    BY <1>1, <1>2, <1>9 DEF Whole
  <2>3. col = 1 \/ (pc = "start" /\ col = EndOf(l) + 1)
    BY <1>6, <2>2 DEF Known, Track, InCount, InAddress, InBytes, InSum
  <2>4. col = 1
    BY <1>3, <2>1, <2>3
  <2> QED BY <1>6, <1>9, <2>1, <2>4
<1> QED BY <1>2, <1>8, <1>9 DEF ReadsOne

LEMMA DataOnlyOn ==
  ASSUME DataOnly, NEW c, ReadsOne(c)
  PROVE  DataOnly'
<1> SUFFICES ASSUME pc' = "data" PROVE type' \in Data
  BY DEF DataOnly
<1>1. c \in Char /\ Handle(c)
  BY DEF ReadsOne
<1>2. CASE pc \in Fields
  BY <1>1, <1>2, FieldGoes DEF Fields, DataOnly
<1>3. CASE pc \notin Fields
  BY <1>1, <1>3, Handlers DEF Start, Garbage, Type, SkipRest, Field, Rest
<1> QED BY <1>2, <1>3

LEMMA AimOn == ASSUME LoaderInv, AimInv, ReadChar PROVE AimInv'
<1>1. ReadsOn /\ \E c : ReadsOne(c)
  BY CharacterRead DEF LoaderInv
<1> QED BY <1>1, AimedOn, WrappedOn, TypedOn, DataOnlyOn DEF AimInv

\* Nothing else reads, and once a character is lost nothing is claimed.
LEMMA AimElse ==
  ASSUME LoaderInv, AimInv, [Next]_vars, ~ReadChar
  PROVE  AimInv'
<1>1. CASE LoseChar
  BY <1>1 DEF LoseChar, AimInv, Aimed, Wrapped, Typed, DataOnly, record
<1>2. CASE pc' \in {"idle", "reset", "poll", "ticks", "start"}
  BY <1>2 DEF AimInv, Aimed, Wrapped, Typed, DataOnly, Ending
<1>3. CASE UNCHANGED vars
  <2> USE DEF vars, timer, remote, record, results
  <2>1. Aim(Here) => Aim(Here)'
    BY <1>3 DEF Aim, AlteredOnce, Heard, InCount, HeardAddress, HeardSum, Here
  <2>2. InStep(line)' => InStep(line)
    BY <1>3 DEF InStep, IsRecord, Kind
  <2>3. Aimed'
    BY <1>3, <2>1, <2>2 DEF AimInv, Aimed, Reading, More, Ending
  <2>4. Wrapped'
    BY <1>3 DEF AimInv, Wrapped, Reading, Ending
  <2>5. Typed'
    BY <1>3, <2>2 DEF AimInv, Typed, Reading, More, Here
  <2>6. DataOnly'
    BY <1>3 DEF AimInv, DataOnly
  <2> QED BY <2>3, <2>4, <2>5, <2>6 DEF AimInv
<1>4. LoseChar \/ UNCHANGED vars \/ pc' \in {"idle", "reset", "poll", "ticks", "start"}
  BY DEF Next, Step, Tick, RemoteBegins, ResetReturns, kchar_available, ReadTicks, handle_load_command
<1> QED BY <1>1, <1>2, <1>3, <1>4

LEMMA AimAlways == Spec => []AimInv
<1>1. Init => AimInv
  BY DEF Init, AimInv, Aimed, Wrapped, Typed, DataOnly, Ending, Reading
<1>2. LoaderInv /\ AimInv /\ [Next]_vars => AimInv'
  BY AimOn, AimElse
<1> QED BY <1>1, <1>2, LoaderAlways, PTL DEF Spec

\* The go address is only ever that of a termination record of the file, unless a record was
\* altered in its type, or met in its middle, or a character was lost: whatever other character
\* of such a record is altered, the checksum finds it out.
THEOREM OnlyWhereTold == Spec => GoesWhereTold
<1>1. LoaderInv /\ AimInv /\ [Next]_vars =>
        [go_address' # go_address =>
           \/ Kind(line) \in Termination /\ go_address' = AddressOf(line)
           \/ line \in hurt /\ (type # Kind(line) \/ ~InStep(line))
           \/ lost]_vars
  BY GoesOnly
<1> QED BY <1>1, LoaderAlways, AimAlways, PTL DEF Spec, GoesWhereTold

-----------------------------------------------------------------------------
(* Types.                                                                  *)

\* How many numbers n digits make.
Room(n) ==
  CASE n = 0 -> 1
    [] n = 1 -> BASE
    [] n = 2 -> BASE * BASE
    [] n = 3 -> (BASE * BASE) * BASE
    [] n = 4 -> ((BASE * BASE) * BASE) * BASE
    [] n = 5 -> (((BASE * BASE) * BASE) * BASE) * BASE
    [] n = 6 -> ((((BASE * BASE) * BASE) * BASE) * BASE) * BASE
    [] n = 7 -> (((((BASE * BASE) * BASE) * BASE) * BASE) * BASE) * BASE
    [] n = 8 -> ((((((BASE * BASE) * BASE) * BASE) * BASE) * BASE) * BASE) * BASE

LEMMA RoomStep == \A n \in 0 .. 7 : Room(n + 1) = Room(n) * BASE
<1>1. 1 * BASE = BASE
  BY LoaderAssumption
<1>2. ASSUME NEW n \in 0 .. 7 PROVE Room(n + 1) = Room(n) * BASE
  <2>1. n \in {0, 1, 2, 3, 4, 5, 6, 7}
    OBVIOUS
  <2> QED BY <1>1, <2>1 DEF Room
<1> QED BY <1>2

LEMMA RoomGrows == ASSUME NEW r \in Nat, r >= 1 PROVE r * BASE \in Nat /\ r * BASE >= r
<1>1. ASSUME NEW b \in Nat, b >= 10 PROVE r * b \in Nat /\ r * b >= r
  <2>1. r * b = r * (b - 1) + r
    OBVIOUS
  <2>2. r * (b - 1) \in Nat /\ r * b \in Nat
    BY <1>1
  <2> QED BY <2>1, <2>2
<1> QED BY <1>1, LoaderAssumption

LEMMA RoomNat == \A n \in 0 .. 8 : Room(n) \in Nat /\ Room(n) >= 1
<1>0. Room(0) = 1
  BY DEF Room
<1>1. ASSUME NEW n \in 0 .. 7, Room(n) \in Nat, Room(n) >= 1 PROVE Room(n + 1) \in Nat /\ Room(n + 1) >= 1
  BY <1>1, RoomStep, RoomGrows
<1>2. Room(1) \in Nat /\ Room(1) >= 1
  BY <1>0, <1>1
<1>3. Room(2) \in Nat /\ Room(2) >= 1
  BY <1>1, <1>2
<1>4. Room(3) \in Nat /\ Room(3) >= 1
  BY <1>1, <1>3
<1>5. Room(4) \in Nat /\ Room(4) >= 1
  BY <1>1, <1>4
<1>6. Room(5) \in Nat /\ Room(5) >= 1
  BY <1>1, <1>5
<1>7. Room(6) \in Nat /\ Room(6) >= 1
  BY <1>1, <1>6
<1>8. Room(7) \in Nat /\ Room(7) >= 1
  BY <1>1, <1>7
<1>9. Room(8) \in Nat /\ Room(8) >= 1
  BY <1>1, <1>8
<1> QED BY <1>0, <1>2, <1>3, <1>4, <1>5, <1>6, <1>7, <1>8, <1>9

\* Two digits make a byte, eight an address, and fewer than eight no more.
LEMMA RoomEnough ==
  /\ Room(0) = 1 /\ Room(2) = ByteValues /\ Room(8) = AddressSpace
  /\ \A n \in 0 .. 8 : Room(n) <= AddressSpace
<1>1. Room(0) = 1 /\ Room(2) = ByteValues
  BY DEF Room, ByteValues
<1>2. ASSUME NEW a \in Nat, NEW b \in Nat PROVE (a * b) * b = a * (b * b)
  OBVIOUS
<1>3. ASSUME NEW n \in {2, 4, 6} PROVE Room(n + 2) = Room(n) * ByteValues
  <2>0. n \in 0 .. 7 /\ n + 1 \in 0 .. 7 /\ (n + 1) + 1 = n + 2
    OBVIOUS
  <2>1. Room(n + 1) = Room(n) * BASE /\ Room(n + 2) = Room(n + 1) * BASE
    BY <2>0, RoomStep
  <2>2. BASE \in Nat
    BY LoaderAssumption
  <2>3. Room(n) \in Nat
    <3>1. n \in 0 .. 8
      BY <2>0
    <3> QED BY <3>1, RoomNat
  <2> QED BY <1>2, <2>1, <2>2, <2>3 DEF ByteValues
<1>4. Room(4) = ByteValues * ByteValues /\ Room(6) = Room(4) * ByteValues /\ Room(8) = Room(6) * ByteValues
  BY <1>1, <1>3
<1>5. Room(8) = AddressSpace
  BY <1>4 DEF AddressSpace
<1>6. \A n \in 0 .. 7 : Room(n) <= Room(n + 1)
  BY RoomStep, RoomNat, RoomGrows
<1>7. Room(7) <= Room(8) /\ Room(6) <= Room(7) /\ Room(5) <= Room(6) /\ Room(4) <= Room(5)
      /\ Room(3) <= Room(4) /\ Room(2) <= Room(3) /\ Room(1) <= Room(2) /\ Room(0) <= Room(1)
  BY <1>6
<1>8. \A n \in 0 .. 8 : Room(n) <= Room(8)
  BY <1>7, RoomNat
<1> QED BY <1>1, <1>5, <1>8

LEMMA DigitFits ==
  ASSUME NEW n \in 0 .. 7, NEW v \in Nat, v < Room(n), NEW c \in Digit
  PROVE  v * BASE + c \in Nat /\ v * BASE + c < Room(n + 1)
<1>1. ASSUME NEW b \in Nat, b >= 10, NEW r \in Nat, v < r, c \in 0 .. b - 1
      PROVE v * b + c \in Nat /\ v * b + c < r * b
  <2>1. (v + 1) * b <= r * b
    <3>1. PICK k \in Nat : r = (v + 1) + k
      BY <1>1
    <3>2. r * b = (v + 1) * b + k * b
      BY <3>1
    <3>3. k * b \in Nat /\ (v + 1) * b \in Nat
      OBVIOUS
    <3> QED BY <3>2, <3>3
  <2>2. (v + 1) * b = v * b + b
    OBVIOUS
  <2>3. v * b \in Nat /\ r * b \in Nat
    OBVIOUS
  <2> QED BY <1>1, <2>1, <2>2, <2>3
<1>2. Room(n) \in Nat /\ Room(n + 1) = Room(n) * BASE
  BY RoomNat, RoomStep
<1> QED BY <1>1, <1>2, LoaderAssumption DEF Digit

\* What the loader keeps of the record, and what it has loaded.
RecordOK ==
  /\ pc \in {"idle", "reset", "poll", "ticks", "start", "second", "garbage", "type", "count",
             "address", "data", "name", "sum", "rest"}
  /\ type \in Char /\ digits \in 0 .. 7 /\ value \in 0 .. AddressSpace - 1
  /\ count \in Byte /\ bad \in BOOLEAN /\ address \in 0 .. AddressSpace - 1 /\ left \in Byte
  /\ name \in Seq(Byte) /\ calculated_xsum \in Byte /\ res \in {"OK", "NOT_OK", "DONE"}
  /\ \A a \in DOMAIN mem : a \in Nat /\ mem[a] \in Byte
  /\ go_address \in Nat /\ program_name \in Seq(Byte)

\* A field holds no more than its digits make, and there is something to come where it is waited for.
Fitting ==
  /\ pc \in Fields => type \in Types /\ digits < Width /\ value < Room(digits)
  /\ pc \in {"data", "name"} => left >= 1

LEMMA Bounds ==
  /\ ByteValues \in Nat /\ ByteValues >= 1 /\ AddressSpace \in Nat /\ AddressSpace >= ByteValues
  /\ 0 \in Byte /\ 0 \in 0 .. AddressSpace - 1 /\ Byte = 0 .. ByteValues - 1
<1>1. ByteValues \in Nat /\ ByteValues >= 1 /\ AddressSpace \in Nat
  BY Sizes
<1>2. AddressSpace >= ByteValues
  BY RoomEnough
<1>3. Byte = 0 .. ByteValues - 1
  BY DEF Byte
<1> HIDE DEF ByteValues, AddressSpace
<1> QED BY <1>1, <1>2, <1>3

\* A field that begins.
LEMMA FieldBegins ==
  ASSUME NEW f \in Fields, Field(f), type' = type, type \in Types, f \in {"data", "name"} => left' >= 1
  PROVE  Fitting' /\ digits' \in 0 .. 7 /\ value' \in 0 .. AddressSpace - 1 /\ pc' = f
<1>1. pc' = f /\ digits' = 0 /\ value' = 0
  BY DEF Field
<1>2. AddressDigits(type) \in {4, 6, 8}
  BY Widths
<1>3. 0 < Width'
  BY <1>1, <1>2 DEF Width
<1>4. value' < Room(digits')
  BY <1>1, RoomEnough
<1> QED BY <1>1, <1>3, <1>4, Bounds DEF Fitting

\* A record that is over, but for the rest of its line.
LEMMA RestBegins ==
  ASSUME NEW r, Rest(r), RecordOK
  PROVE  Fitting' /\ digits' \in 0 .. 7 /\ value' \in 0 .. AddressSpace - 1 /\ pc' = "rest" /\ res' = r
BY DEF Rest, RecordOK, Fitting, Fields

LEMMA FieldsTyped ==
  ASSUME RecordOK, Fitting, pc \in Fields, type' = type, calculated_xsum' \in Byte,
         NEW v \in Nat, NEW err \in BOOLEAN, v < Room(Width), FieldRead(v, err)
  PROVE  RecordOK' /\ Fitting'
<1>1. type \in Types /\ type \in Char
  BY DEF Fitting, RecordOK
<1>2. pc = "address" => v \in 0 .. AddressSpace - 1
  <2> SUFFICES ASSUME pc = "address" PROVE v \in 0 .. AddressSpace - 1
    OBVIOUS
  <2>1. Width \in 0 .. 8
    BY <1>1, Widths DEF Width
  <2>2. Room(Width) <= AddressSpace /\ Room(Width) \in Nat
    BY <2>1, RoomEnough, RoomNat
  <2> QED BY <2>2, Bounds
<1>3. pc # "address" => v \in Byte
  BY RoomEnough, Bounds DEF Width
<1>4. CASE Count(v, err)
  <2>1. pc = "count" /\ Field("address") /\ UNCHANGED <<address, left, name, res, results>>
        /\ count' = v /\ bad' = err
    BY <1>4 DEF Count
  <2>2. Fitting' /\ digits' \in 0 .. 7 /\ value' \in 0 .. AddressSpace - 1 /\ pc' = "address"
    BY <1>1, <2>1, FieldBegins DEF Fields
  <2>3. v \in Byte
    BY <1>3, <2>1
  <2> QED BY <1>1, <2>1, <2>2, <2>3 DEF RecordOK, results
<1>5. CASE Address(v, err)
  <2>1. pc = "address" /\ address' = v /\ UNCHANGED <<count, bad, name, results>>
    BY <1>5 DEF Address
  <2>2. v \in 0 .. AddressSpace - 1
    BY <1>2, <2>1
  <2>3. CASE bad \/ err \/ Refused(type, count, v)
    <3>1. Rest(Ends("NOT_OK")) /\ UNCHANGED left
      BY <1>5, <2>3 DEF Address
    <3>2. Fitting' /\ digits' \in 0 .. 7 /\ value' \in 0 .. AddressSpace - 1 /\ pc' = "rest"
          /\ res' \in {"OK", "NOT_OK", "DONE"}
      BY <3>1, RestBegins DEF Ends
    <3> QED BY <1>1, <2>1, <2>2, <3>1, <3>2 DEF RecordOK, results
  <2>4. CASE ~(bad \/ err \/ Refused(type, count, v))
    <3> DEFINE n == IF type \in Data \cup {0} THEN count - Least(type) ELSE 0
    <3>1. left' = n /\ UNCHANGED res /\ Field(IF n = 0 THEN "sum" ELSE IF type = 0 THEN "name" ELSE "data")
      BY <1>5, <2>4 DEF Address
    <3>2. n \in Byte
      <4>1. Least(type) \in {3, 4, 5} /\ (type = 0 => Least(type) = 3)
        BY <1>1, Widths DEF Least, AddressDigits
      <4>2. type \in Data \cup {0} => count >= Least(type)
        BY <2>4, <4>1 DEF Refused, Data, RecordOK, Byte
      <4>3. count \in 0 .. ByteValues - 1
        BY Bounds DEF RecordOK
      <4> QED BY <4>1, <4>2, <4>3, Bounds
    <3> HIDE DEF n
    <3>3. left' # 0 => left' >= 1
      BY <3>1, <3>2, Bounds
    <3>4. PICK f \in {"sum", "name", "data"} : Field(f) /\ (f \in {"name", "data"} => left' # 0)
      BY <3>1
    <3>5. Fitting' /\ digits' \in 0 .. 7 /\ value' \in 0 .. AddressSpace - 1 /\ pc' = f
      BY <1>1, <3>3, <3>4, FieldBegins DEF Fields
    <3> QED BY <1>1, <2>1, <2>2, <3>1, <3>2, <3>4, <3>5 DEF RecordOK, results
  <2> QED BY <2>3, <2>4
<1>6. CASE ReadData(v, err)
  <2>1. pc = "data" /\ UNCHANGED <<count, bad, name, go_address, program_name>>
    BY <1>6 DEF ReadData
  <2>2. v \in Byte /\ left >= 1
    BY <1>3, <2>1 DEF Fitting
  <2>3. CASE err
    <3>1. Rest("NOT_OK") /\ UNCHANGED <<mem, address, left>>
      BY <1>6, <2>3 DEF ReadData
    <3>2. Fitting' /\ digits' \in 0 .. 7 /\ value' \in 0 .. AddressSpace - 1 /\ pc' = "rest" /\ res' = "NOT_OK"
      BY <3>1, RestBegins
    <3> QED BY <1>1, <2>1, <3>1, <3>2 DEF RecordOK
  <2>4. CASE ~err
    <3>1. mem' = StoreAt(address, v) /\ address' = (address + 1) % AddressSpace /\ left' = left - 1
          /\ Field(IF left = 1 THEN "sum" ELSE "data") /\ UNCHANGED res
      BY <1>6, <2>4 DEF ReadData
    <3>2. left' \in Byte /\ (left # 1 => left' >= 1)
      BY <2>2, <3>1, Bounds DEF RecordOK
    <3>3. address \in Nat /\ address' \in 0 .. AddressSpace - 1
      <4>1. address \in Nat /\ AddressSpace \in Nat /\ AddressSpace >= 1
        BY Bounds DEF RecordOK
      <4> QED BY <3>1, <4>1
    <3>4. \A a \in DOMAIN mem' : a \in Nat /\ mem'[a] \in Byte
      BY <2>2, <3>1, <3>3 DEF StoreAt, RecordOK
    <3>5. PICK f \in {"sum", "data"} : Field(f) /\ (f = "data" => left # 1)
      BY <3>1
    <3>6. Fitting' /\ digits' \in 0 .. 7 /\ value' \in 0 .. AddressSpace - 1 /\ pc' = f
      BY <1>1, <3>2, <3>5, FieldBegins DEF Fields
    <3> QED BY <1>1, <2>1, <3>1, <3>2, <3>3, <3>4, <3>5, <3>6 DEF RecordOK
  <2> QED BY <2>3, <2>4
<1>7. CASE Name(v)
  <2>1. /\ pc = "name" /\ name' = Append(name, v) /\ left' = left - 1
        /\ Field(IF left = 1 THEN "sum" ELSE "name")
        /\ UNCHANGED <<count, bad, address, res, results>>
    BY <1>7 DEF Name
  <2>2. v \in Byte /\ left >= 1 /\ name \in Seq(Byte)
    BY <1>3, <2>1 DEF Fitting, RecordOK
  <2>3. left' \in Byte /\ (left # 1 => left' >= 1)
    BY <2>1, <2>2, Bounds DEF RecordOK
  <2>4. name' \in Seq(Byte)
    BY <2>1, <2>2
  <2>5. PICK f \in {"sum", "name"} : Field(f) /\ (f = "name" => left # 1)
    BY <2>1
  <2>6. Fitting' /\ digits' \in 0 .. 7 /\ value' \in 0 .. AddressSpace - 1 /\ pc' = f
    BY <1>1, <2>3, <2>5, FieldBegins DEF Fields
  <2> QED BY <1>1, <2>1, <2>3, <2>4, <2>5, <2>6 DEF RecordOK, results
<1>8. CASE compare_xsums(v)
  <2>1. /\ program_name' \in {name, program_name} /\ go_address' \in {address, go_address}
        /\ \E r \in {"OK", "NOT_OK", "DONE"} : Rest(r)
        /\ UNCHANGED <<count, bad, address, left, name, mem>>
    BY <1>8 DEF compare_xsums, Ends
  <2>2. Fitting' /\ digits' \in 0 .. 7 /\ value' \in 0 .. AddressSpace - 1 /\ pc' = "rest"
        /\ res' \in {"OK", "NOT_OK", "DONE"}
    BY <2>1, RestBegins
  <2>3. address \in Nat /\ go_address \in Nat
    BY Bounds DEF RecordOK
  <2> QED BY <1>1, <2>1, <2>2, <2>3 DEF RecordOK
<1> QED BY <1>4, <1>5, <1>6, <1>7, <1>8 DEF FieldRead

LEMMA HexTyped ==
  ASSUME RecordOK, Fitting, pc \in Fields, NEW c \in Char, Hex(c)
  PROVE  RecordOK' /\ Fitting'
<1>1. type' = type /\ type \in Types /\ digits \in 0 .. 7 /\ digits < Width /\ value \in Nat /\ value < Room(digits)
  BY Bounds DEF Hex, RecordOK, Fitting
<1>2. Width \in 1 .. 8
  BY <1>1, Widths DEF Width
<1>3. CASE c >= BASE
  <2>1. FieldRead(0, TRUE) /\ calculated_xsum' = calculated_xsum
    BY <1>3 DEF Hex
  <2>2. 0 < Room(Width)
    BY <1>2, RoomNat
  <2>3. calculated_xsum' \in Byte
    BY <2>1 DEF RecordOK
  <2> QED BY <1>1, <2>1, <2>2, <2>3, FieldsTyped
<1>4. CASE ~(c >= BASE)
  <2>1. c \in Digit /\ c \in Nat
    BY <1>4, NotBehind, Alphabet
  <2>2. calculated_xsum' \in Byte
    <3>1. value % BASE \in Nat /\ (value % BASE) * BASE \in Nat
      <4>1. value % BASE \in Nat
        BY <1>1, LoaderAssumption
      <4> QED BY <4>1, Multiple
    <3>2. calculated_xsum \in Nat /\ ByteValues \in Nat /\ ByteValues >= 1
      BY Bounds DEF RecordOK
    <3>3. ASSUME NEW s \in Nat PROVE s % ByteValues \in Byte
      BY <3>2, Bounds
    <3>4. calculated_xsum' \in {calculated_xsum, (calculated_xsum + (value % BASE) * BASE + c) % ByteValues}
      BY <1>4 DEF Hex
    <3>5. calculated_xsum + (value % BASE) * BASE + c \in Nat
      BY <2>1, <3>1, <3>2
    <3> QED BY <3>3, <3>4, <3>5 DEF RecordOK
  <2>3. value * BASE + c \in Nat /\ value * BASE + c < Room(digits + 1)
    BY <1>1, <2>1, DigitFits
  <2>4. CASE digits + 1 = Width
    <3>1. FieldRead(value * BASE + c, FALSE)
      BY <1>4, <2>4 DEF Hex
    <3> QED BY <1>1, <2>2, <2>3, <2>4, <3>1, FieldsTyped
  <2>5. CASE digits + 1 # Width
    <3>1. digits' = digits + 1 /\ value' = value * BASE + c
          /\ UNCHANGED <<pc, count, bad, address, left, name, res, results>>
      BY <1>4, <2>5 DEF Hex
    <3>2. digits' \in 0 .. 7 /\ digits' < Width
      BY <1>1, <1>2, <2>5, <3>1
    <3>3. value' \in 0 .. AddressSpace - 1
      <4>1. Room(digits + 1) <= AddressSpace /\ Room(digits + 1) \in Nat
        BY <1>1, RoomEnough, RoomNat
      <4> QED BY <2>3, <3>1, <4>1, Bounds
    <3>4. RecordOK'
      BY <1>1, <2>2, <3>1, <3>2, <3>3 DEF RecordOK, results
    <3>5. Width' = Width
      BY <1>1, <3>1 DEF Width
    <3>6. Fitting'
      BY <1>1, <2>3, <3>1, <3>2, <3>5 DEF Fitting
    <3> QED BY <3>4, <3>6
  <2> QED BY <2>4, <2>5
<1> QED BY <1>3, <1>4

LEMMA HandleTyped ==
  ASSUME RecordOK, Fitting, NEW c \in Char, Handle(c)
  PROVE  RecordOK' /\ Fitting'
<1>1. CASE pc \in Fields
  BY <1>1, FieldOnly, HexTyped
<1>2. CASE pc \in {"start", "second", "garbage"}
  <2>1. pc' \in {"start", "second", "type", "garbage"} /\ UNCHANGED <<record, results>>
    BY <1>2, Handlers DEF Start, Garbage
  <2> QED BY <2>1 DEF RecordOK, Fitting, Fields, record, results
<1>3. CASE pc = "type"
  <2>1. type' = c /\ name' = <<>> /\ bad' = FALSE /\ calculated_xsum' = 0
        /\ UNCHANGED <<count, address, left, results>>
    BY <1>3, Handlers DEF Type, XsumCleared
  <2>2. CASE c \in Types
    <3>1. Field("count") /\ UNCHANGED res
      BY <1>3, <2>2, Handlers DEF Type
    <3>2. digits' = 0 /\ value' = 0 /\ pc' = "count"
      BY <3>1 DEF Field
    <3>3. Width' = 2 /\ Room(0) = 1
      BY <3>2, RoomEnough DEF Width
    <3>4. Fitting'
      BY <2>1, <2>2, <3>2, <3>3 DEF Fitting
    <3>5. RecordOK'
      <4>1. name' \in Seq(Byte) /\ 0 \in 0 .. 7
        BY <2>1
      <4>2. value' \in 0 .. AddressSpace - 1 /\ calculated_xsum' \in Byte
        BY <2>1, <3>2, Bounds
      <4> QED BY <2>1, <3>1, <3>2, <4>1, <4>2 DEF RecordOK, results
    <3> QED BY <3>4, <3>5
  <2>3. CASE c \notin Types
    <3>1. Rest("OK")
      BY <1>3, <2>3, Handlers DEF Type
    <3>2. Fitting' /\ digits' \in 0 .. 7 /\ value' \in 0 .. AddressSpace - 1 /\ pc' = "rest" /\ res' = "OK"
      BY <3>1, RestBegins
    <3>3. name' \in Seq(Byte) /\ calculated_xsum' \in Byte
      BY <2>1, Bounds
    <3> QED BY <2>1, <3>2, <3>3 DEF RecordOK, results
  <2> QED BY <2>2, <2>3
<1>4. CASE pc = "rest"
  <2>1. pc' \in {"idle", "start", "rest"} /\ res' \in {"OK", "NOT_OK", "DONE"}
        /\ UNCHANGED <<type, digits, value, count, bad, address, left, name, calculated_xsum, results>>
    BY <1>4, Handlers DEF SkipRest, RestComesTo, RecordOK
  <2> QED BY <2>1 DEF RecordOK, Fitting, Fields, results
<1> QED BY <1>1, <1>2, <1>3, <1>4, Handlers

\* The timer's count.
WaitOK == pit_ticks \in 0 .. MaxTicks /\ timed_out \in Nat /\ loads \in 0 .. MaxLoads

\* What the remote and the line have done.
RemoteOK ==
  /\ sending \in BOOLEAN /\ lost \in BOOLEAN /\ strayed \in BOOLEAN
  /\ file \in Files \cup {<<>>} /\ line \in 1 .. Len(file) + 1 /\ col \in Nat \ {0}
  /\ hurt \subseteq 1 .. Len(file)

LEMMA TypeParts == TypeOK <=> WaitOK /\ RemoteOK /\ RecordOK
BY DEF TypeOK, WaitOK, RemoteOK, RecordOK

TypeInv == WaitOK /\ RemoteOK /\ RecordOK /\ Fitting

LEMMA TypeBegins == ASSUME Init PROVE TypeInv
<1>1. WaitOK
  BY LoaderAssumption DEF Init, WaitOK
<1>2. RemoteOK
  <2>1. Len(<<>>) = 0 /\ file = <<>> /\ line = 1 /\ col = 1 /\ hurt = {}
    BY DEF Init
  <2>2. line \in 1 .. Len(file) + 1 /\ col \in Nat \ {0} /\ hurt \subseteq 1 .. Len(file)
    BY <2>1
  <2>3. sending = FALSE /\ lost = FALSE /\ strayed = FALSE
    BY DEF Init
  <2> QED BY <2>1, <2>2, <2>3 DEF RemoteOK
<1>3. RecordOK
  <2>1. 0 \in Char /\ 0 \in 0 .. 7
    BY LoaderAssumption DEF Char, Other
  <2>2. DOMAIN mem = {}
    BY DEF Init
  <2>3. name \in Seq(Byte) /\ program_name \in Seq(Byte) /\ 0 \in Byte /\ 0 \in 0 .. AddressSpace - 1
    BY Bounds DEF Init
  <2>4. value = 0 /\ count = 0 /\ address = 0 /\ left = 0 /\ calculated_xsum = 0 /\ go_address = 0
        /\ type = 0 /\ digits = 0 /\ bad = FALSE /\ res = "OK" /\ pc = "idle"
    BY DEF Init
  <2> QED BY <2>1, <2>2, <2>3, <2>4 DEF RecordOK
<1>4. Fitting
  BY DEF Init, Fitting, Fields
<1> QED BY <1>1, <1>2, <1>3, <1>4 DEF TypeInv

LEMMA PlaceTyped ==
  ASSUME Places, Reading, More, Onward, UNCHANGED <<file, sending>>, RemoteOK,
         lost' \in BOOLEAN, hurt' \in {hurt, hurt \cup {line}}
  PROVE  RemoteOK'
<1>1. Len(file) \in Nat /\ line \in 1 .. Len(file) /\ col \in Nat \ {0}
  BY Lines DEF RemoteOK
<1>2. line' \in 1 .. Len(file) + 1 /\ col' \in Nat \ {0} /\ strayed' \in BOOLEAN
  BY <1>1 DEF Onward, RemoteOK
<1> QED BY <1>1, <1>2 DEF RemoteOK

LEMMA ReadTyped == ASSUME TypeInv, Places, ReadChar PROVE TypeInv'
<1>1. PICK c \in {file[line][col]} \cup (IF Exposed THEN Altered ELSE {}) :
        Handle(c) /\ hurt' = IF c = file[line][col] THEN hurt ELSE hurt \cup {line}
  BY DEF ReadChar
<1>2. c \in Char
  <2>1. file[line][col] \in Char
    BY Lines DEF ReadChar, Formed, Here
  <2> QED BY <1>1, <2>1, LoaderAssumption
<1>3. RecordOK' /\ Fitting'
  BY <1>1, <1>2, HandleTyped DEF TypeInv
<1>4. RemoteOK'
  BY <1>1, PlaceTyped DEF ReadChar, TypeInv, RemoteOK
<1>5. WaitOK'
  BY DEF ReadChar, TypeInv, WaitOK, timer
<1> QED BY <1>3, <1>4, <1>5 DEF TypeInv

LEMMA LossTyped == ASSUME TypeInv, Places, LoseChar PROVE TypeInv'
<1>1. RemoteOK'
  BY PlaceTyped DEF LoseChar, TypeInv
<1>2. WaitOK' /\ RecordOK' /\ Fitting'
  BY DEF LoseChar, TypeInv, WaitOK, RecordOK, Fitting, Width, timer, record, results
<1> QED BY <1>1, <1>2 DEF TypeInv

\* No character is read while the first is waited for, or a command given.
LEMMA ElseTyped ==
  ASSUME TypeInv, Tick \/ RemoteBegins \/ ResetReturns \/ kchar_available \/ ReadTicks
                  \/ (\E f \in Files : handle_load_command(f)) \/ UNCHANGED vars
  PROVE  TypeInv'
<1> USE DEF TypeInv
<1>1. CASE Tick
  <2>1. MaxTicks \in Nat /\ MaxTicks >= 1
    <3>1. ASSUME NEW a \in Nat, NEW m \in Nat, m > a + 1 PROVE m >= 1
      BY <3>1
    <3>2. SECONDS * TPS \in Nat
      BY LoaderAssumption
    <3>3. MaxTicks \in Nat /\ MaxTicks > SECONDS * TPS + 1
      BY LoaderAssumption
    <3> QED BY <3>1, <3>2, <3>3
  <2>2. WaitOK'
    BY <1>1, <2>1 DEF Tick, WaitOK
  <2> QED BY <1>1, <2>2 DEF Tick, RemoteOK, RecordOK, Fitting, Width, remote, record, results
<1>2. CASE RemoteBegins
  BY <1>2 DEF RemoteBegins, WaitOK, RemoteOK, RecordOK, Fitting, Width, timer, record, results
<1>3. CASE ResetReturns
  <2>1. timed_out' \in Nat
    <3>1. SECONDS * TPS \in Nat
      BY LoaderAssumption
    <3> QED BY <1>3, <3>1 DEF ResetReturns, WaitOK
  <2> QED BY <1>3, <2>1 DEF ResetReturns, WaitOK, RemoteOK, RecordOK, Fitting, Fields, remote, record, results
<1>4. CASE kchar_available \/ ReadTicks
  <2>1. pc' \in {"start", "ticks", "idle", "poll"} /\ UNCHANGED <<remote, record, results, loads>>
        /\ (WaitOver \/ UNCHANGED timer)
    BY <1>4 DEF kchar_available, ReadTicks
  <2>2. WaitOK'
    BY <2>1, LoaderAssumption DEF WaitOK, WaitOver, timer
  <2> QED BY <2>1, <2>2 DEF RemoteOK, RecordOK, Fitting, Fields, remote, record, results
<1>5. CASE \E f \in Files : handle_load_command(f)
  <2>1. PICK f \in Files : handle_load_command(f)
    BY <1>5
  <2>2. WaitOK'
    BY <2>1, LoaderAssumption DEF handle_load_command, WaitOK
  <2>3. RemoteOK'
    <3>1. f \in Seq(Seq(Char))
      BY LoaderAssumption
    <3>2. Len(f) \in Nat
      BY <3>1
    <3>3. file' = f /\ sending' = FALSE /\ line' = 1 /\ col' = 1 /\ hurt' = {} /\ lost' = FALSE /\ strayed' = FALSE
      BY <2>1 DEF handle_load_command
    <3>4. line' \in 1 .. Len(file') + 1 /\ col' \in Nat \ {0} /\ hurt' \subseteq 1 .. Len(file')
      BY <3>2, <3>3
    <3> QED BY <3>3, <3>4 DEF RemoteOK
  <2> QED BY <2>1, <2>2, <2>3 DEF handle_load_command, RecordOK, Fitting, Fields, record, results
<1>6. CASE UNCHANGED vars
  BY <1>6 DEF vars, WaitOK, RemoteOK, RecordOK, Fitting, Width, timer, remote, record, results
<1> QED BY <1>1, <1>2, <1>3, <1>4, <1>5, <1>6

\* Every variable has its type: an address has four bytes, a number no more than its field's
\* digits make, and no byte of data or of a name is waited for when none is left.
THEOREM TypeCorrect == Spec => []TypeOK
<1>1. TypeInv /\ LoaderInv /\ [Next]_vars => TypeInv'
  BY ReadTyped, LossTyped, ElseTyped DEF Next, Step, LoaderInv
<1>2. TypeInv => TypeOK
  BY TypeParts DEF TypeInv
<1> QED BY <1>1, <1>2, TypeBegins, LoaderAlways, PTL DEF Spec
=============================================================================
