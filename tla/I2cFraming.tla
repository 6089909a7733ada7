----------------------------- MODULE I2cFraming -----------------------------
(***************************************************************************)
(* What the lines of the I2C bus carry, whatever the width of a byte, the  *)
(* calls, the devices and what they answer: the master drives no line high,*)
(* nothing on the bus is taken for a start or a stop that is none, and     *)
(* every call leaves the bus free.                                         *)
(*                                                                         *)
(* That the latch of a driven line is low is not inductive: a line becomes *)
(* an output one access after its latch was cleared, and in between the    *)
(* other line's bit is written back.  DriveIsSafe says the latch is low    *)
(* where the next access drives the line, which the order of the accesses  *)
(* in every routine gives (Careful).                                       *)
(*                                                                         *)
(* SDA is a matter of everyone: an acknowledgement is a device that holds  *)
(* it, a byte read is what a device makes of it.  So the invariant says    *)
(* where the devices are: InPhase gives, for every access of every routine *)
(* of i2c.c, what the port drives, whether the clock is high, and how many *)
(* bits of a byte the devices have heard or sent.  Control says which      *)
(* routine serves which part of a call, and that a byte is sent bit by bit *)
(* (a device that has heard the address knows from its last bit whether it *)
(* is to send: AllTold).  A device may drop out of a call anywhere (Off).  *)
(***************************************************************************)
EXTENDS I2c, WellFoundedInduction, TLAPS

-----------------------------------------------------------------------------
(* Powers of two: Pow2 is a function because the natural numbers are well  *)
(* founded, and the bits of a number are what it leaves when it is halved.  *)

LEMMA LeastOf ==
  ASSUME NEW S \in SUBSET Nat, S # {}
  PROVE  \E m \in S : \A k \in S : m <= k
<1> DEFINE R == OpToRel(<, Nat)
<1>1. \E m \in S : \A k \in S : ~ (<<k, m>> \in R)
  <2>1. IsWellFoundedOn(R, Nat)
    BY NatLessThanWellFounded
  <2> HIDE DEF R
  <2> QED BY <2>1, WFMin
<1>2. PICK m \in S : \A k \in S : ~ (<<k, m>> \in R)
  BY <1>1
<1>3. \A k \in S : m <= k
  <2>1. \A k \in S : ~(k < m)
    BY <1>2 DEF OpToRel
  <2> QED BY <2>1
<1> QED BY <1>3

\* Induction, on the set of the numbers that have a property.
LEMMA Inductively ==
  ASSUME NEW S, 0 \in S, \A n \in Nat : n \in S => n + 1 \in S
  PROVE  Nat \subseteq S
<1> SUFFICES ASSUME ~(Nat \subseteq S) PROVE FALSE
  OBVIOUS
<1>1. PICK m \in Nat \ S : \A k \in Nat \ S : m <= k
  <2>1. Nat \ S \in SUBSET Nat /\ Nat \ S # {}
    OBVIOUS
  <2> QED BY <2>1, LeastOf
<1>2. m # 0 /\ m - 1 \in Nat /\ ~(m <= m - 1)
  BY <1>1
<1>3. m - 1 \in S
  BY <1>1, <1>2
<1>4. (m - 1) + 1 \in S
  BY <1>2, <1>3
<1>5. (m - 1) + 1 = m
  BY <1>1
<1> QED BY <1>1, <1>4, <1>5

\* g is what Pow2 is to be, up to n.
Doubles(g, n) == g \in [0 .. n -> Nat] /\ g[0] = 1 /\ \A k \in 1 .. n : g[k] = 2 * g[k - 1]

LEMMA DoublesExists == \A n \in Nat : \E g : Doubles(g, n)
<1> DEFINE S == {n \in Nat : \E g : Doubles(g, n)}
<1>1. 0 \in S
  <2> DEFINE g == [k \in 0 .. 0 |-> 1]
  <2>1. Doubles(g, 0)
    BY DEF Doubles
  <2> QED BY <2>1
<1>2. ASSUME NEW n \in Nat, n \in S PROVE n + 1 \in S
  <2>1. PICK g : Doubles(g, n)
    BY <1>2
  <2> DEFINE h == [k \in 0 .. n + 1 |-> IF k <= n THEN g[k] ELSE 2 * g[n]]
  <2>2. g \in [0 .. n -> Nat] /\ g[0] = 1 /\ \A k \in 1 .. n : g[k] = 2 * g[k - 1]
    BY <2>1 DEF Doubles
  <2>3. h \in [0 .. n + 1 -> Nat] /\ h[0] = 1
    BY <2>2
  <2>4. ASSUME NEW k \in 1 .. n + 1 PROVE h[k] = 2 * h[k - 1]
    BY <2>2
  <2> HIDE DEF h
  <2>5. Doubles(h, n + 1)
    BY <2>3, <2>4 DEF Doubles
  <2> QED BY <2>5
<1> HIDE DEF S
<1>3. Nat \subseteq S
  BY <1>1, <1>2, Inductively
<1> QED BY <1>3 DEF S

LEMMA DoublesAgree ==
  ASSUME NEW n \in Nat, NEW g, NEW h, Doubles(g, n), Doubles(h, n + 1)
  PROVE  g[n] = h[n]
<1> DEFINE S == {k \in Nat : k <= n => g[k] = h[k]}
<1>1. 0 \in S
  BY DEF Doubles
<1>2. ASSUME NEW k \in Nat, k \in S PROVE k + 1 \in S
  BY <1>2 DEF Doubles
<1> HIDE DEF S
<1>3. Nat \subseteq S
  BY <1>1, <1>2, Inductively
<1> QED BY <1>3 DEF S

\* The recursion defines a function: Pow2 is what its definition says.
LEMMA Pow2Recursion == Pow2 = [n \in Nat |-> IF n = 0 THEN 1 ELSE 2 * Pow2[n - 1]]
<1> DEFINE G(n) == CHOOSE g : Doubles(g, n)
           f == [n \in Nat |-> G(n)[n]]
<1>1. ASSUME NEW n \in Nat PROVE Doubles(G(n), n)
  BY DoublesExists
<1> HIDE DEF G
<1>2. f[0] = 1
  BY <1>1 DEF Doubles
<1>3. ASSUME NEW n \in Nat \ {0} PROVE f[n] = 2 * f[n - 1]
  <2>1. n - 1 \in Nat /\ (n - 1) + 1 = n
    OBVIOUS
  <2>2. G(n - 1)[n - 1] = G(n)[n - 1]
    BY <1>1, <2>1, DoublesAgree
  <2>3. G(n)[n] = 2 * G(n)[n - 1]
    BY <1>1 DEF Doubles
  <2> QED BY <2>1, <2>2, <2>3
<1>4. f = [n \in Nat |-> IF n = 0 THEN 1 ELSE 2 * f[n - 1]]
  BY <1>2, <1>3
<1> HIDE DEF f
<1>5. \E p : p = [n \in Nat |-> IF n = 0 THEN 1 ELSE 2 * p[n - 1]]
  BY <1>4
<1> QED BY <1>5 DEF Pow2

LEMMA Pow2Is ==
  /\ Pow2[0] = 1
  /\ \A n \in Nat : Pow2[n + 1] = 2 * Pow2[n] /\ Pow2[n] \in Nat \ {0}
<1>1. Pow2[0] = 1 /\ \A n \in Nat : Pow2[n + 1] = 2 * Pow2[n]
  BY Pow2Recursion
<1> DEFINE S == {n \in Nat : Pow2[n] \in Nat \ {0}}
<1>2. 0 \in S
  BY <1>1
<1>3. ASSUME NEW n \in Nat, n \in S PROVE n + 1 \in S
  BY <1>1, <1>3
<1> HIDE DEF S
<1>4. Nat \subseteq S
  BY <1>2, <1>3, Inductively
<1> QED BY <1>1, <1>4 DEF S

LEMMA DivisionIs ==
  ASSUME NEW m \in Nat, m > 0, NEW x \in Int, NEW q \in Int, NEW r \in Int,
         x = m * q + r, 0 <= r, r < m
  PROVE  x \div m = q /\ x % m = r
<1> DEFINE p == x \div m
           s == x % m
<1>1. p \in Int /\ s \in Int /\ x = m * p + s /\ 0 <= s /\ s < m
  OBVIOUS
<1> HIDE DEF p, s
<1>2. m * (q - p) = s - r
  BY <1>1
<1>3. CASE q - p >= 1
  <2>1. m * (q - p) >= m
    BY <1>1, <1>3
  <2> QED BY <1>1, <1>2, <2>1
<1>4. CASE q - p <= -1
  <2>1. m * (q - p) <= -m
    BY <1>1, <1>4
  <2> QED BY <1>1, <1>2, <2>1
<1>5. CASE q = p
  BY <1>1, <1>2, <1>5 DEF p, s
<1> QED BY <1>1, <1>3, <1>4, <1>5

LEMMA Halves ==
  ASSUME NEW b \in Nat, NEW j \in Nat
  PROVE  /\ b \div Pow2[j] = 2 * (b \div Pow2[j + 1]) + ((b \div Pow2[j]) % 2)
         /\ b \div Pow2[j] \in Nat /\ b \div Pow2[0] = b
         /\ b < Pow2[j] => b \div Pow2[j] = 0
<1> DEFINE m == Pow2[j]
           y == b \div m
           r == b % m
           q == y \div 2
           e == y % 2
<1>1. m \in Nat /\ m > 0 /\ Pow2[j + 1] = 2 * m /\ Pow2[0] = 1
  BY Pow2Is
<1> HIDE DEF m
<1>2. y \in Int /\ r \in Int /\ b = m * y + r /\ 0 <= r /\ r < m
  BY <1>1
<1>2a. y >= 0
  <2>1. CASE y <= -1
    <3>1. m * y <= -m
      BY <1>1, <1>2, <2>1
    <3> QED BY <1>1, <1>2, <3>1
  <2> QED BY <1>2, <2>1
<1> HIDE DEF y, r
<1>3. y = 2 * q + e /\ e \in {0, 1} /\ q \in Int
  BY <1>2
<1> HIDE DEF q, e
<1>4. b = (2 * m) * q + (m * e + r)
  BY <1>1, <1>2, <1>3
<1>5. m * e \in {0, m}
  BY <1>1, <1>3
<1>6. 0 <= m * e + r /\ m * e + r < 2 * m /\ m * e + r \in Int /\ 2 * m \in Nat /\ 2 * m > 0
  BY <1>1, <1>2, <1>5
<1>7. b \div (2 * m) = q
  BY <1>3, <1>4, <1>6, DivisionIs
<1>8. b < m => y = 0
  <2>1. ASSUME b < m PROVE b \div m = 0
    <3>1. b = m * 0 + b /\ 0 <= b /\ b \in Int /\ 0 \in Int
      BY <1>1
    <3> QED BY <1>1, <2>1, <3>1, DivisionIs
  <2> QED BY <2>1 DEF y
<1>9. b \div 1 = b
  OBVIOUS
<1> QED BY <1>1, <1>2, <1>2a, <1>3, <1>7, <1>8, <1>9 DEF m, y, q, e

\* One more, wrapping, is the same before and after reducing.
LEMMA Wraps ==
  ASSUME NEW n \in Nat, n > 0, NEW a \in Nat
  PROVE  ((a % n) + 1) % n = (a + 1) % n
<1> DEFINE q == a \div n
           r == a % n
<1>1. q \in Int /\ r \in Int /\ a = n * q + r /\ 0 <= r /\ r < n
  OBVIOUS
<1> HIDE DEF q, r
<1>2. CASE r + 1 < n
  <2>1. a + 1 = n * q + (r + 1) /\ r + 1 = n * 0 + (r + 1)
    BY <1>1
  <2>2. (a + 1) % n = r + 1
    BY <1>1, <1>2, <2>1, DivisionIs
  <2>3. (r + 1) % n = r + 1
    BY <1>1, <1>2, <2>1, DivisionIs
  <2> QED BY <2>2, <2>3 DEF r
<1>3. CASE r + 1 = n
  <2>1. a + 1 = n * (q + 1) + 0 /\ r + 1 = n * 1 + 0 /\ q + 1 \in Int
    BY <1>1, <1>3
  <2>2. (a + 1) % n = 0
    BY <1>1, <2>1, DivisionIs
  <2>3. (r + 1) % n = 0
    BY <1>1, <2>1, DivisionIs
  <2> QED BY <2>2, <2>3 DEF r
<1> QED BY <1>1, <1>2, <1>3

-----------------------------------------------------------------------------
(* The order of the accesses: no line is driven before its latch is low.   *)

Name == {"clear_SDA", "drive_SDA", "release_SDA", "sample_SDA", "clear_SCL", "drive_SCL",
         "release_SCL", "await_SCL"}

Drives(access, l) == (access = "drive_SDA" /\ l = "SDA") \/ (access = "drive_SCL" /\ l = "SCL")
Clears(access, l) == (access = "clear_SDA" /\ l = "SDA") \/ (access = "clear_SCL" /\ l = "SCL")

\* A routine drives a line only in the access behind the one that clears its latch.
Careful(s) ==
  \A i \in 1 .. Len(s), l \in Lines :
    Drives(s[i], l) => i > 1 /\ Clears(s[i - 1], l)

LEMMA CarefulConcat ==
  ASSUME NEW s \in Seq(Name), NEW t \in Seq(Name), Careful(s), Careful(t)
  PROVE  s \o t \in Seq(Name) /\ Careful(s \o t)
<1>1. s \o t \in Seq(Name) /\ Len(s \o t) = Len(s) + Len(t)
  OBVIOUS
<1>2. ASSUME NEW i \in 1 .. Len(s \o t), NEW l \in Lines, Drives((s \o t)[i], l)
      PROVE  i > 1 /\ Clears((s \o t)[i - 1], l)
  <2>1. Len(s) \in Nat /\ Len(t) \in Nat
    OBVIOUS
  <2>2. CASE i <= Len(s)
    <3>1. (s \o t)[i] = s[i] /\ i \in 1 .. Len(s)
      BY <1>1, <2>1, <2>2
    <3>2. i > 1 /\ Clears(s[i - 1], l)
      BY <1>2, <3>1 DEF Careful
    <3>3. (s \o t)[i - 1] = s[i - 1]
      BY <1>1, <2>1, <2>2, <3>2
    <3> QED BY <3>2, <3>3
  <2>3. CASE i > Len(s)
    <3>1. i - Len(s) \in 1 .. Len(t) /\ (s \o t)[i] = t[i - Len(s)]
      BY <1>1, <2>1, <2>3
    <3>2. i - Len(s) > 1 /\ Clears(t[i - Len(s) - 1], l)
      BY <1>2, <3>1 DEF Careful
    <3>3. i > 1 /\ (s \o t)[i - 1] = t[i - Len(s) - 1]
      BY <1>1, <2>1, <2>3, <3>1, <3>2
    <3> QED BY <3>2, <3>3
  <2> QED BY <2>1, <2>2, <2>3
<1> QED BY <1>1, <1>2 DEF Careful

LEMMA ShortCareful ==
  ASSUME NEW s, Len(s) \in {1, 2}, \A l \in Lines : ~Drives(s[1], l),
         Len(s) = 2 => \A l \in Lines : Drives(s[2], l) => Clears(s[1], l)
  PROVE  Careful(s)
<1>1. CASE Len(s) = 1
  BY <1>1 DEF Careful
<1>2. CASE Len(s) = 2
  <2>1. 1 .. Len(s) = {1, 2}
    BY <1>2
  <2>2. ASSUME NEW i \in 1 .. Len(s), NEW l \in Lines, Drives(s[i], l)
        PROVE  i > 1 /\ Clears(s[i - 1], l)
    <3>1. i = 2 /\ i - 1 = 1
      BY <2>1, <2>2
    <3> QED BY <1>2, <2>2, <3>1
  <2> QED BY <2>2 DEF Careful
<1> QED BY <1>1, <1>2

LEMMA PiecesCareful ==
  /\ sda_low \in Seq(Name) /\ Careful(sda_low)
  /\ scl_low \in Seq(Name) /\ Careful(scl_low)
  /\ sda_release \in Seq(Name) /\ Careful(sda_release)
  /\ scl_release \in Seq(Name) /\ Careful(scl_release)
  /\ sda_read \in Seq(Name) /\ Careful(sda_read)
<1>1. sda_low \in Seq(Name) /\ Careful(sda_low)
  <2>1. sda_low \in Seq(Name) /\ Len(sda_low) = 2
    BY DEF sda_low, Name
  <2>2. sda_low[1] = "clear_SDA" /\ sda_low[2] = "drive_SDA"
    BY DEF sda_low
  <2>3. \A l \in Lines : ~Drives(sda_low[1], l)
    BY <2>2 DEF Drives
  <2>4. \A l \in Lines : Drives(sda_low[2], l) => Clears(sda_low[1], l)
    BY <2>2 DEF Drives, Clears
  <2> QED BY <2>1, <2>3, <2>4, ShortCareful
<1>2. scl_low \in Seq(Name) /\ Careful(scl_low)
  <2>1. scl_low \in Seq(Name) /\ Len(scl_low) = 2
    BY DEF scl_low, Name
  <2>2. scl_low[1] = "clear_SCL" /\ scl_low[2] = "drive_SCL"
    BY DEF scl_low
  <2>3. \A l \in Lines : ~Drives(scl_low[1], l)
    BY <2>2 DEF Drives
  <2>4. \A l \in Lines : Drives(scl_low[2], l) => Clears(scl_low[1], l)
    BY <2>2 DEF Drives, Clears
  <2> QED BY <2>1, <2>3, <2>4, ShortCareful
<1>3. sda_release \in Seq(Name) /\ Careful(sda_release)
  <2>1. sda_release \in Seq(Name) /\ Len(sda_release) = 1
    BY DEF sda_release, Name
  <2>2. sda_release[1] = "release_SDA"
    BY DEF sda_release
  <2>3. \A l \in Lines : ~Drives(sda_release[1], l)
    BY <2>2 DEF Drives
  <2> QED BY <2>1, <2>3, ShortCareful
<1>4. scl_release \in Seq(Name) /\ Careful(scl_release)
  <2>1. scl_release \in Seq(Name) /\ Len(scl_release) = 2
    BY DEF scl_release, Name
  <2>2. scl_release[1] = "release_SCL" /\ scl_release[2] = "await_SCL"
    BY DEF scl_release
  <2>3. \A l \in Lines : ~Drives(scl_release[1], l)
    BY <2>2 DEF Drives
  <2>4. \A l \in Lines : Drives(scl_release[2], l) => Clears(scl_release[1], l)
    BY <2>2 DEF Drives, Clears
  <2> QED BY <2>1, <2>3, <2>4, ShortCareful
<1>5. sda_read \in Seq(Name) /\ Careful(sda_read)
  <2>1. sda_read \in Seq(Name) /\ Len(sda_read) = 1
    BY DEF sda_read, Name
  <2>2. sda_read[1] = "sample_SDA"
    BY DEF sda_read
  <2>3. \A l \in Lines : ~Drives(sda_read[1], l)
    BY <2>2 DEF Drives
  <2> QED BY <2>1, <2>3, ShortCareful
<1> QED BY <1>1, <1>2, <1>3, <1>4, <1>5

Good(s) == s \in Seq(Name) /\ Careful(s)

LEMMA GoodConcat == \A s, t : Good(s) /\ Good(t) => Good(s \o t)
BY CarefulConcat DEF Good

LEMMA RoutinesCareful == \A r \in Routines : Good(Accesses[r])
<1>1. Good(sda_low) /\ Good(scl_low) /\ Good(sda_release) /\ Good(scl_release) /\ Good(sda_read)
  BY PiecesCareful DEF Good
<1>2. Good(Accesses.i2c_start)
  <2>1. Good(sda_release \o scl_release)
    BY <1>1, GoodConcat
  <2>2. Good(sda_release \o scl_release \o sda_low)
    BY <1>1, <2>1, GoodConcat
  <2>3. Good(sda_release \o scl_release \o sda_low \o scl_low)
    BY <1>1, <2>2, GoodConcat
  <2> QED BY <2>3 DEF Accesses
<1>3. Good(Accesses.i2c_stop)
  <2>1. Good(sda_low \o scl_release)
    BY <1>1, GoodConcat
  <2>2. Good(sda_low \o scl_release \o sda_release)
    BY <1>1, <2>1, GoodConcat
  <2> QED BY <2>2 DEF Accesses
<1>4. Good(Accesses.write1)
  <2>1. Good(scl_low \o sda_release)
    BY <1>1, GoodConcat
  <2>2. Good(scl_low \o sda_release \o scl_release)
    BY <1>1, <2>1, GoodConcat
  <2> QED BY <2>2 DEF Accesses
<1>5. Good(Accesses.write0)
  <2>1. Good(scl_low \o sda_low)
    BY <1>1, GoodConcat
  <2>2. Good(scl_low \o sda_low \o scl_release)
    BY <1>1, <2>1, GoodConcat
  <2> QED BY <2>2 DEF Accesses
<1>6. Good(Accesses.ack)
  <2>1. Good(scl_low \o sda_release)
    BY <1>1, GoodConcat
  <2>2. Good(scl_low \o sda_release \o scl_release)
    BY <1>1, <2>1, GoodConcat
  <2>3. Good(scl_low \o sda_release \o scl_release \o sda_read)
    BY <1>1, <2>2, GoodConcat
  <2>4. Good(scl_low \o sda_release \o scl_release \o sda_read \o scl_low)
    BY <1>1, <2>3, GoodConcat
  <2> QED BY <2>4 DEF Accesses
<1>7. Good(Accesses.listen)
  BY <1>1 DEF Accesses
<1>8. Good(Accesses.read)
  <2>1. Good(scl_low \o scl_release)
    BY <1>1, GoodConcat
  <2>2. Good(scl_low \o scl_release \o sda_read)
    BY <1>1, <2>1, GoodConcat
  <2> QED BY <2>2 DEF Accesses
<1>9. Good(Accesses.more)
  <2>1. Good(scl_low \o sda_low)
    BY <1>1, GoodConcat
  <2>2. Good(scl_low \o sda_low \o scl_release)
    BY <1>1, <2>1, GoodConcat
  <2>3. Good(scl_low \o sda_low \o scl_release \o scl_low)
    BY <1>1, <2>2, GoodConcat
  <2>4. Good(scl_low \o sda_low \o scl_release \o scl_low \o sda_release)
    BY <1>1, <2>3, GoodConcat
  <2> QED BY <2>4 DEF Accesses
<1>10. Good(Accesses.last)
  <2>1. Good(scl_low \o sda_release)
    BY <1>1, GoodConcat
  <2>2. Good(scl_low \o sda_release \o scl_release)
    BY <1>1, <2>1, GoodConcat
  <2>3. Good(scl_low \o sda_release \o scl_release \o scl_low)
    BY <1>1, <2>2, GoodConcat
  <2>4. Good(scl_low \o sda_release \o scl_release \o scl_low \o sda_release)
    BY <1>1, <2>3, GoodConcat
  <2> QED BY <2>4 DEF Accesses
<1> QED BY <1>2, <1>3, <1>4, <1>5, <1>6, <1>7, <1>8, <1>9, <1>10 DEF Routines, Accesses

-----------------------------------------------------------------------------
(* The invariant.                                                          *)

PortTyped ==
  /\ ddr \in [Lines -> BOOLEAN] /\ latch \in [Lines -> BOOLEAN]
  /\ routine \in Routines \cup {"none"} /\ at \in Nat \ {0}

\* Where the next access makes a line an output, its latch is low.
DriveIsSafe ==
  routine # "none" /\ at <= Len(Accesses[routine]) =>
    \A l \in Lines : Drives(Accesses[routine][at], l) => ~latch[l]

IInv == PortTyped /\ NeverDrivesHigh /\ DriveIsSafe

\* A routine that has just begun drives nothing yet.
LEMMA RunIsSafe ==
  ASSUME IInv, NEW r \in Routines, routine' = r, at' = 1, UNCHANGED port
  PROVE  IInv'
<1>1. Careful(Accesses[r])
  BY RoutinesCareful DEF Good
<1>2. Len(Accesses[r]) \in Nat
  BY RoutinesCareful DEF Good
<1>3. 1 <= Len(Accesses[r]) => \A l \in Lines : ~Drives(Accesses[r][1], l)
  BY <1>1, <1>2 DEF Careful
<1> QED BY <1>3 DEF IInv, PortTyped, NeverDrivesHigh, DriveIsSafe, port

LEMMA AccessIsSafe ==
  ASSUME IInv, Access
  PROVE  IInv'
<1> DEFINE s == Accesses[routine]
           access == s[at]
           l == Line(access)
<1>1. /\ routine \in Routines /\ at \in 1 .. Len(s) /\ Len(s) \in Nat
      /\ routine' = routine /\ at' = at + 1
  <2>1. routine # "none" /\ at <= Len(s) /\ routine' = routine /\ at' = at + 1
    BY DEF Access
  <2>2. routine \in Routines /\ at \in Nat \ {0}
    BY <2>1 DEF IInv, PortTyped
  <2>3. Len(s) \in Nat
    BY <2>2, RoutinesCareful DEF Good
  <2> QED BY <2>1, <2>2, <2>3
<1>2. at + 1 <= Len(s) => \A k \in Lines : Drives(s[at + 1], k) => Clears(access, k)
  <2>1. Careful(s)
    BY <1>1, RoutinesCareful DEF Good
  <2>2. ASSUME at + 1 <= Len(s), NEW k \in Lines, Drives(s[at + 1], k) PROVE Clears(access, k)
    <3>1. at + 1 \in 1 .. Len(s) /\ (at + 1) - 1 = at
      BY <1>1, <2>2
    <3>2. Clears(s[(at + 1) - 1], k)
      BY <2>1, <2>2, <3>1 DEF Careful
    <3> QED BY <3>1, <3>2
  <2> QED BY <2>2
<1>3. \A k \in Lines : Drives(access, k) => ~latch[k]
  <2>1. routine # "none" /\ at <= Len(s)
    BY DEF Access
  <2> QED BY <2>1 DEF IInv, DriveIsSafe
<1>4. l \in Lines
  BY DEF Line, Lines
<1>5. \A k \in Lines : ddr[k] => LevelNow(k) = latch[k]
  BY DEF LevelNow, Level
<1>6. /\ \A k \in Lines : ddr'[k] => ~latch'[k]
      /\ \A k \in Lines : Clears(access, k) => ~latch'[k]
      /\ ddr' \in [Lines -> BOOLEAN] /\ latch' \in [Lines -> BOOLEAN]
  <2>1. CASE access \in {"clear_SDA", "clear_SCL"} /\ Clear(l)
    <3>1. ddr' = ddr /\ latch' = [k \in Lines |-> k # l /\ LevelNow(k)]
      BY <2>1 DEF Clear
    <3>2. \A k \in Lines : Clears(access, k) => k = l
      BY <2>1 DEF Clears, Line
    <3>3. \A k \in Lines : (k # l /\ LevelNow(k)) \in BOOLEAN
      OBVIOUS
    <3> HIDE DEF l, access
    <3> QED BY <1>4, <1>5, <3>1, <3>2, <3>3 DEF IInv, PortTyped, NeverDrivesHigh
  <2>2. CASE access \in {"drive_SDA", "drive_SCL"} /\ Drive(l)
    <3>1. ddr' = [ddr EXCEPT ![l] = TRUE] /\ latch' = latch
      BY <2>2 DEF Drive
    <3>2. Drives(access, l) /\ \A k \in Lines : ~Clears(access, k)
      BY <2>2 DEF Drives, Clears, Line
    <3>3. ~latch[l]
      BY <1>3, <1>4, <3>2
    <3> HIDE DEF l, access
    <3> QED BY <1>4, <3>1, <3>2, <3>3 DEF IInv, PortTyped, NeverDrivesHigh
  <2>3. CASE access \in {"release_SDA", "release_SCL"} /\ Release(l)
    <3>1. ddr' = [ddr EXCEPT ![l] = FALSE] /\ latch' = latch
      BY <2>3 DEF Release
    <3>2. \A k \in Lines : ~Clears(access, k)
      BY <2>3 DEF Clears
    <3> HIDE DEF l, access
    <3> QED BY <1>4, <3>1, <3>2 DEF IInv, PortTyped, NeverDrivesHigh
  <2>4. CASE (access = "await_SCL" /\ Await) \/ (access = "sample_SDA" /\ Sample)
    <3>1. ddr' = ddr /\ latch' = latch
      BY <2>4 DEF Await, Sample
    <3>2. \A k \in Lines : ~Clears(access, k)
      BY <2>4 DEF Clears
    <3> HIDE DEF l, access
    <3> QED BY <3>1, <3>2 DEF IInv, PortTyped, NeverDrivesHigh
  <2> QED BY <2>1, <2>2, <2>3, <2>4 DEF Access
<1>7. PortTyped' /\ NeverDrivesHigh'
  BY <1>1, <1>6 DEF PortTyped, NeverDrivesHigh, IInv
<1>8. DriveIsSafe'
  <2>1. DriveIsSafe' <=>
          (routine # "none" /\ at + 1 <= Len(s) =>
             \A k \in Lines : Drives(s[at + 1], k) => ~latch'[k])
    BY <1>1 DEF DriveIsSafe
  <2> QED BY <1>2, <1>6, <2>1
<1> QED BY <1>7, <1>8 DEF IInv

LEMMA ContinueRuns ==
  ASSUME Continue
  PROVE  UNCHANGED port /\ routine' \in Routines /\ at' = 1
<1>1. {"write0", "write1", "ack", "read", "listen", "more", "last", "i2c_stop", "i2c_start"}
        \subseteq Routines
  BY DEF Routines, Accesses
<1>2. \A b, k : WriteBit(b, k) => routine' \in Routines /\ at' = 1
  BY <1>1 DEF WriteBit, Run
<1>3. UNCHANGED port
  BY DEF Continue
<1>4. \A r \in Routines : Run(r) => routine' \in Routines /\ at' = 1
  BY DEF Run
<1>5. CASE SendOn
  <2>1. WriteBit(byte, bit) \/ Run("ack")
    BY <1>5 DEF SendOn
  <2> QED BY <1>1, <1>2, <1>3, <1>4, <2>1
<1>6. CASE ReceiveOn
  <2>1. Run("read") \/ Run("last") \/ Run("more")
    BY <1>6 DEF ReceiveOn
  <2> QED BY <1>1, <1>3, <1>4, <2>1
<1>7. CASE Received
  <2>1. Run("listen") \/ Run("i2c_stop")
    BY <1>7 DEF Received, Listen, Stop
  <2> QED BY <1>1, <1>3, <1>4, <2>1
<1>8. CASE Started
  <2>1. \E b : WriteBit(b, 0)
    BY <1>8 DEF Started, Write
  <2> QED BY <1>2, <1>3, <2>1
<1>9. CASE Sent
  <2>1. (\E b : WriteBit(b, 0)) \/ Run("listen") \/ Run("i2c_start") \/ Run("i2c_stop")
    BY <1>9 DEF Sent, Write, Listen, Stop, NextData
  <2> QED BY <1>1, <1>2, <1>3, <1>4, <2>1
<1> QED BY <1>5, <1>6, <1>7, <1>8, <1>9 DEF Continue

LEMMA Inductive ==
  ASSUME IInv, [Next]_vars
  PROVE  IInv'
<1>1. CASE Access
  BY <1>1, AccessIsSafe
<1>2. CASE Continue
  BY <1>2, ContinueRuns, RunIsSafe
<1>3. CASE Return
  BY <1>3 DEF Return, IInv, PortTyped, NeverDrivesHigh, DriveIsSafe, port
<1>4. ASSUME NEW c \in Calls, Begin(c) PROVE IInv'
  <2>1. "i2c_start" \in Routines
    BY DEF Routines, Accesses
  <2>2. routine' = "i2c_start" /\ at' = 1 /\ UNCHANGED port
    BY <1>4 DEF Begin, Run
  <2> QED BY <2>1, <2>2, RunIsSafe
<1>5. CASE UNCHANGED <<port, engine>>
  BY <1>5 DEF port, engine, IInv, PortTyped, NeverDrivesHigh, DriveIsSafe
<1>6. ASSUME NEW c \in Calls, Reject(c) PROVE IInv'
  BY <1>5, <1>6 DEF Reject
<1>7. ASSUME NEW d \in Devices, LetGo(d) PROVE IInv'
  BY <1>5, <1>7 DEF LetGo
<1>8. CASE UNCHANGED vars
  BY <1>5, <1>8 DEF vars
<1> QED BY <1>1, <1>2, <1>3, <1>4, <1>6, <1>7, <1>8 DEF Next

\* On every bus the master only ever pulls a line low or lets it go.
THEOREM DrivesLowOnly == Spec => []NeverDrivesHigh
<1>1. Init => IInv
  BY DEF Init, IInv, PortTyped, NeverDrivesHigh, DriveIsSafe
<1>2. IInv /\ [Next]_vars => IInv'
  BY Inductive
<1>3. IInv => NeverDrivesHigh
  BY DEF IInv
<1> QED BY <1>1, <1>2, <1>3, PTL DEF Spec

-----------------------------------------------------------------------------
(* What the devices are doing, pulse by pulse.                             *)

Slave == [mode : Modes, n : Nat, byte : Int, ptr : Int, sda : BOOLEAN, scl : BOOLEAN]

Scl == LevelNow("SCL")
Sda == LevelNow("SDA")

Off(s) == s.mode = "off" /\ ~s.sda

\* It holds no line, and does not send: a rising edge changes nothing that matters.
Quiet(s) == s.mode # "send" /\ ~s.sda

\* What a byte is heard as, at stage s of a call.
ForAddress == {"address"}
ForData == {"pointer", "store"}
Heard(s) == IF s \in {"address", "read_address"} THEN ForAddress ELSE ForData

\* k bits of a byte have been heard.
Hears(s, k, m) ==
  Off(s) \/ (s.mode \in m /\ s.n = k /\ ~s.sda)

\* The byte heard is being acknowledged.
Acks(s, m) ==
  Off(s) \/ (s.mode \in m /\ s.n = W + 1 /\ s.sda)

\* k bits of a byte have been sent, and SDA may be held for the next.
Sends(s, k) == Off(s) \/ (s.mode = "send" /\ s.n = k)

\* All bits have been sent, and SDA let go.
Over(s, k) == Off(s) \/ (s.mode = "send" /\ s.n = k /\ ~s.sda)

\* The last bit of an address says whether the device is to send.
Told(s, b) == s.mode = "address" => s.byte % 2 = b

\* All devices of S are doing so.
AllOff(S)        == \A d \in Devices : Off(S[d])
AllQuiet(S)      == \A d \in Devices : Quiet(S[d])
AllHear(S, k, m) == \A d \in Devices : Hears(S[d], k, m)
AllAck(S, m)     == \A d \in Devices : Acks(S[d], m)
AllSend(S, k)    == \A d \in Devices : Sends(S[d], k)
AllOver(S, k)    == \A d \in Devices : Over(S[d], k)
AllTold(S, b)    == \A d \in Devices : Told(S[d], b)

-----------------------------------------------------------------------------
(* Where a routine is, what the port drives and where the devices are.     *)

Starting ==
  /\ at <= 8
  /\ at <= 5 => AllQuiet(slave)
  /\ at <= 2 => IF stage = "restart" THEN ddr.SCL ELSE Scl /\ ~ddr.SDA
  /\ at \in 2 .. 5 => ~ddr.SDA
  /\ at \in 3 .. 7 => ~ddr.SCL
  /\ at \in 4 .. 7 => Scl
  /\ at >= 6 => AllHear(slave, 0, ForAddress)
  /\ at = 8 => ddr.SCL

Stopping ==
  /\ at <= 6
  /\ at <= 3 => ddr.SCL
  /\ at \in 3 .. 5 => ddr.SDA
  /\ at >= 4 => ~ddr.SCL
  /\ at >= 5 => Scl
  /\ at <= 5 => AllQuiet(slave)
  /\ at = 6 => ~ddr.SDA /\ AllOff(slave)

\* up is the access that waits for the clock line.
Writing(one, up) ==
  /\ at <= up + 1
  /\ at <= 2 => ddr.SCL \/ Scl
  /\ at \in 3 .. up - 1 => ddr.SCL
  /\ at >= up => ~ddr.SCL /\ (ddr.SDA <=> one = 0)
  /\ at > up => Scl
  /\ at = up - 1 => (ddr.SDA <=> one = 0)
  /\ IF at >= up /\ Scl
     THEN AllHear(slave, bit, Heard(stage)) /\ AllTold(slave, one)
     ELSE AllHear(slave, bit - 1, Heard(stage))

Acknowledged ==
  /\ at <= 9
  /\ at <= 2 => Scl /\ AllHear(slave, W, Heard(stage))
  /\ at \in 3 .. 4 => ddr.SCL
  /\ at \in 5 .. 8 => ~ddr.SCL
  /\ at >= 4 => ~ddr.SDA
  /\ at \in 6 .. 8 => Scl
  /\ at \in 3 .. 8 => AllAck(slave, Heard(stage))
  /\ at <= 8 => AllTold(slave, byte % 2)
  /\ at >= 7 /\ nack => AllOff(slave)
  /\ at = 9 => ddr.SCL /\ IF stage = "read_address" THEN AllSend(slave, 0)
                                                  ELSE AllHear(slave, 0, ForData)

Listening == at <= 2 /\ ddr.SCL /\ AllSend(slave, 0)

Reading ==
  /\ at <= 6
  /\ at <= 2 => ddr.SCL \/ Scl
  /\ at = 3 => ddr.SCL
  /\ at >= 4 => ~ddr.SCL
  /\ at >= 5 => Scl
  /\ AllSend(slave, IF at >= 4 /\ Scl THEN bit ELSE bit - 1)

GoingOn ==
  /\ at <= 10
  /\ at <= 2 => Scl /\ AllSend(slave, W)
  /\ at \in 3 .. 5 => ddr.SCL
  /\ at \in 6 .. 8 => ~ddr.SCL
  /\ at \in 5 .. 8 => ddr.SDA
  /\ at \in 7 .. 8 => Scl
  /\ at \in 3 .. 8 => AllOver(slave, IF at >= 6 /\ Scl THEN W + 1 ELSE W)
  /\ at >= 9 => ddr.SCL /\ AllSend(slave, 0)

Ending ==
  /\ at <= 9
  /\ at <= 2 => Scl /\ AllSend(slave, W)
  /\ at \in 3 .. 4 => ddr.SCL
  /\ at \in 5 .. 7 => ~ddr.SCL
  /\ at \in 4 .. 7 => ~ddr.SDA
  /\ at \in 6 .. 7 => Scl
  /\ at \in 3 .. 7 => IF at >= 5 /\ Scl THEN AllOff(slave) ELSE AllOver(slave, W)
  /\ at >= 8 => ddr.SCL /\ AllOff(slave)

Resting ==
  /\ ~ddr.SCL /\ ~ddr.SDA /\ Scl /\ AllOff(slave)

InPhase ==
  /\ routine = "none" => Resting
  /\ routine = "i2c_start" => Starting
  /\ routine = "i2c_stop" => Stopping
  /\ routine = "write1" => Writing(1, 5)
  /\ routine = "write0" => Writing(0, 6)
  /\ routine = "ack" => Acknowledged
  /\ routine = "listen" => Listening
  /\ routine = "read" => Reading
  /\ routine = "more" => GoingOn
  /\ routine = "last" => Ending

-----------------------------------------------------------------------------
(* How far the call has got, and which routine serves it.                  *)

Wanted == Clamp(call.reg, call.n)

Control ==
  /\ stage \in Stages /\ bit \in Nat /\ byte \in Nat /\ done \in Nat /\ nack \in BOOLEAN
  /\ routine = "none" <=> stage = "idle"
  /\ routine = "i2c_start" => stage \in {"start", "restart"}
  /\ routine = "i2c_stop" <=> stage = "stop"
  /\ routine \in {"write1", "write0", "ack"} =>
       stage \in {"address", "read_address", "register", "data"}
  /\ routine \in {"listen", "read", "more", "last"} <=> stage = "read"
  /\ routine \in {"write1", "write0", "read"} => bit \in 1 .. W
  /\ routine = "write1" => BitOf(byte, bit - 1) = 1
  /\ routine = "write0" => BitOf(byte, bit - 1) # 1
  /\ routine \in {"ack", "more", "last"} => bit = W
  /\ routine = "listen" => bit = 0
  /\ stage = "address" => byte % 2 = 0
  /\ stage = "read_address" => byte % 2 = 1
  /\ stage \in {"restart", "read_address", "read"} => call.fn = "ds1307_read"
  /\ stage \notin {"data", "read", "stop"} => done = 0
  /\ stage = "read" => done < Wanted
  /\ routine = "last" => done + 1 = Wanted
  /\ routine = "more" => done + 1 # Wanted
  /\ stage # "idle" => call \in Calls /\ ~OutOfRange(call)

SlavesTyped == slave \in [Devices -> Slave]

LEMMA StartSteps ==
  LET s == Accesses.i2c_start IN
  /\ Len(s) = 7
  /\ s[1] = "release_SDA" /\ s[2] = "release_SCL" /\ s[3] = "await_SCL" /\ s[4] = "clear_SDA"
  /\ s[5] = "drive_SDA" /\ s[6] = "clear_SCL" /\ s[7] = "drive_SCL"
BY DEF Accesses, scl_low, scl_release, sda_low, sda_release

LEMMA StopSteps ==
  LET s == Accesses.i2c_stop IN
  /\ Len(s) = 5
  /\ s[1] = "clear_SDA" /\ s[2] = "drive_SDA" /\ s[3] = "release_SCL" /\ s[4] = "await_SCL"
  /\ s[5] = "release_SDA"
BY DEF Accesses, scl_release, sda_low, sda_release

LEMMA Write1Steps ==
  LET s == Accesses.write1 IN
  /\ Len(s) = 5
  /\ s[1] = "clear_SCL" /\ s[2] = "drive_SCL" /\ s[3] = "release_SDA" /\ s[4] = "release_SCL"
  /\ s[5] = "await_SCL"
BY DEF Accesses, scl_low, scl_release, sda_release

LEMMA Write0Steps ==
  LET s == Accesses.write0 IN
  /\ Len(s) = 6
  /\ s[1] = "clear_SCL" /\ s[2] = "drive_SCL" /\ s[3] = "clear_SDA" /\ s[4] = "drive_SDA"
  /\ s[5] = "release_SCL" /\ s[6] = "await_SCL"
BY DEF Accesses, scl_low, scl_release, sda_low

LEMMA AckSteps ==
  LET s == Accesses.ack IN
  /\ Len(s) = 8
  /\ s[1] = "clear_SCL" /\ s[2] = "drive_SCL" /\ s[3] = "release_SDA" /\ s[4] = "release_SCL"
  /\ s[5] = "await_SCL" /\ s[6] = "sample_SDA" /\ s[7] = "clear_SCL" /\ s[8] = "drive_SCL"
BY DEF Accesses, scl_low, scl_release, sda_read, sda_release

LEMMA ListenSteps ==
  LET s == Accesses.listen IN
  /\ Len(s) = 1
  /\ s[1] = "release_SDA"
BY DEF Accesses, sda_release

LEMMA ReadSteps ==
  LET s == Accesses.read IN
  /\ Len(s) = 5
  /\ s[1] = "clear_SCL" /\ s[2] = "drive_SCL" /\ s[3] = "release_SCL" /\ s[4] = "await_SCL"
  /\ s[5] = "sample_SDA"
BY DEF Accesses, scl_low, scl_release, sda_read

LEMMA MoreSteps ==
  LET s == Accesses.more IN
  /\ Len(s) = 9
  /\ s[1] = "clear_SCL" /\ s[2] = "drive_SCL" /\ s[3] = "clear_SDA" /\ s[4] = "drive_SDA"
  /\ s[5] = "release_SCL" /\ s[6] = "await_SCL" /\ s[7] = "clear_SCL" /\ s[8] = "drive_SCL"
  /\ s[9] = "release_SDA"
BY DEF Accesses, scl_low, scl_release, sda_low, sda_release

LEMMA LastSteps ==
  LET s == Accesses.last IN
  /\ Len(s) = 8
  /\ s[1] = "clear_SCL" /\ s[2] = "drive_SCL" /\ s[3] = "release_SDA" /\ s[4] = "release_SCL"
  /\ s[5] = "await_SCL" /\ s[6] = "clear_SCL" /\ s[7] = "drive_SCL" /\ s[8] = "release_SDA"
BY DEF Accesses, scl_low, scl_release, sda_release

-----------------------------------------------------------------------------
(* What an access does to the lines, and what the devices make of it.      *)

LEMMA WidthPositive == W \in Nat /\ W >= 1
BY WidthAssumption

\* The levels after an access, with the devices as they were before it.
SclThen == Level("SCL", ddr', latch', slave)
SdaThen == Level("SDA", ddr', latch', slave)

\* A line is high when neither the port nor a device holds it.
LEMMA Levels ==
  ASSUME PortTyped, NeverDrivesHigh
  PROVE  /\ Scl <=> ~ddr.SCL /\ \A d \in Devices : ~slave[d].scl
         /\ Sda <=> ~ddr.SDA /\ \A d \in Devices : ~slave[d].sda
BY DEF PortTyped, NeverDrivesHigh, Scl, Sda, LevelNow, Level, Lines

LEMMA LevelsThen ==
  ASSUME PortTyped', NeverDrivesHigh'
  PROVE  /\ SclThen <=> ~ddr'.SCL /\ \A d \in Devices : ~slave[d].scl
         /\ SdaThen <=> ~ddr'.SDA /\ \A d \in Devices : ~slave[d].sda
BY DEF PortTyped, NeverDrivesHigh, SclThen, SdaThen, Level, Lines

AllFall == \A d \in Devices : \E f, g \in BOOLEAN : slave'[d] = Falls(d, slave[d], regs, f, g)
AllRise == \A d \in Devices : slave'[d] = Rises(slave[d], Sda)
AllBegin ==
  \A d \in Devices :
    \/ slave'[d] = [slave[d] EXCEPT !.mode = "address", !.n = 0, !.byte = 0, !.sda = FALSE]
    \/ slave'[d] = [slave[d] EXCEPT !.mode = "off", !.sda = FALSE]
AllStop == \A d \in Devices : slave'[d] = [slave[d] EXCEPT !.mode = "off", !.sda = FALSE]

LEMMA LevelTyped == \A l, d, t, s : t[l] \in BOOLEAN => Level(l, d, t, s) \in BOOLEAN
BY DEF Level

LEMMA Reaction ==
  ASSUME PortTyped, PortTyped', NEW f \in BOOLEAN, NEW g \in BOOLEAN, DevicesSee(ddr', latch', f, g)
  PROVE  /\ slave' = [d \in Devices |-> slave'[d]]
         /\ (SclThen <=> Scl) /\ ((SdaThen <=> Sda) \/ ~Scl) => \A d \in Devices : slave'[d] = slave[d]
         /\ Scl /\ ~SclThen => AllFall
         /\ ~Scl /\ SclThen /\ (SdaThen <=> Sda) => AllRise
         /\ Scl /\ SclThen /\ Sda /\ ~SdaThen => AllBegin
         /\ Scl /\ SclThen /\ ~Sda /\ SdaThen => AllStop
<1> DEFINE was == [l \in Lines |-> Level(l, ddr, latch, slave)]
           now == [l \in Lines |-> Level(l, ddr', latch', slave)]
           S(v) == Reacts(v, slave[v], was, now, regs, f /\ v = call.dev, g /\ v = call.dev)
<1>1. slave' = [v \in Devices |-> S(v)]
  BY DEF DevicesSee
<1>2. /\ was.SCL = Scl /\ was.SDA = Sda /\ now.SCL = SclThen /\ now.SDA = SdaThen
  BY DEF Lines, Scl, Sda, SclThen, SdaThen, LevelNow
<1>3. Scl \in BOOLEAN /\ Sda \in BOOLEAN /\ SclThen \in BOOLEAN /\ SdaThen \in BOOLEAN
  BY LevelTyped DEF PortTyped, Lines, Scl, Sda, SclThen, SdaThen, LevelNow
<1> HIDE DEF was, now
<1>4. ASSUME NEW v \in Devices
      PROVE  /\ (Scl <=> SclThen) /\ ((Sda <=> SdaThen) \/ ~Scl) => slave'[v] = slave[v]
             /\ Scl /\ ~SclThen => \E a, b \in BOOLEAN : slave'[v] = Falls(v, slave[v], regs, a, b)
             /\ ~Scl /\ SclThen => slave'[v] = Rises(slave[v], SdaThen)
             /\ Scl /\ SclThen /\ Sda /\ ~SdaThen =>
                  \/ slave'[v] = [slave[v] EXCEPT !.mode = "address", !.n = 0, !.byte = 0, !.sda = FALSE]
                  \/ slave'[v] = [slave[v] EXCEPT !.mode = "off", !.sda = FALSE]
             /\ Scl /\ SclThen /\ ~Sda /\ SdaThen =>
                  slave'[v] = [slave[v] EXCEPT !.mode = "off", !.sda = FALSE]
  <2> DEFINE a == f /\ v = call.dev
             b == g /\ v = call.dev
  <2>1. a \in BOOLEAN /\ b \in BOOLEAN
    OBVIOUS
  <2>2. slave'[v] = Reacts(v, slave[v], was, now, regs, a, b)
    BY <1>1
  <2> HIDE DEF a, b
  <2>3. was.SCL \in BOOLEAN /\ now.SCL \in BOOLEAN /\ was.SDA \in BOOLEAN /\ now.SDA \in BOOLEAN
    BY <1>2, <1>3
  <2> DEFINE t == Reacts(v, slave[v], was, now, regs, a, b)
  <2>4. /\ (was.SCL <=> now.SCL) /\ ((was.SDA <=> now.SDA) \/ ~was.SCL) => t = slave[v]
        /\ was.SCL /\ ~now.SCL => t = Falls(v, slave[v], regs, a, b)
        /\ ~was.SCL /\ now.SCL => t = Rises(slave[v], now.SDA)
        /\ was.SCL /\ now.SCL /\ was.SDA /\ ~now.SDA =>
             \/ t = [slave[v] EXCEPT !.mode = "address", !.n = 0, !.byte = 0, !.sda = FALSE]
             \/ t = [slave[v] EXCEPT !.mode = "off", !.sda = FALSE]
        /\ was.SCL /\ now.SCL /\ ~was.SDA /\ now.SDA =>
             t = [slave[v] EXCEPT !.mode = "off", !.sda = FALSE]
    BY ONLY <2>1, <2>3 DEF Reacts
  <2> HIDE DEF t
  <2>5. slave'[v] = t
    BY <2>2 DEF t
  <2> QED BY ONLY <1>2, <2>1, <2>4, <2>5
<1>5. SdaThen = Sda \/ ~(SdaThen <=> Sda)
  BY <1>3
<1>6. slave' = [d \in Devices |-> slave'[d]]
  BY <1>1
<1> QED BY <1>4, <1>5, <1>6 DEF AllFall, AllRise, AllBegin, AllStop

-----------------------------------------------------------------------------
(* One device at one edge.                                                 *)

LEMMA UpdateTyped ==
  ASSUME NEW s \in Slave
  PROVE  /\ \A m \in Modes : [s EXCEPT !.mode = m] \in Slave
         /\ \A n \in Nat : [s EXCEPT !.n = n] \in Slave
         /\ \A b \in Int : [s EXCEPT !.byte = b] \in Slave
         /\ \A p \in Int : [s EXCEPT !.ptr = p] \in Slave
         /\ \A x \in BOOLEAN : [s EXCEPT !.sda = x] \in Slave /\ [s EXCEPT !.scl = x] \in Slave
BY DEF Slave

LEMMA RisesTyped ==
  ASSUME NEW s \in Slave, NEW h \in BOOLEAN
  PROVE  Rises(s, h) \in Slave /\ Rises(s, h).scl = s.scl
<1> DEFINE b == 2 * s.byte + (IF h THEN 1 ELSE 0)
<1>1. s.n + 1 \in Nat /\ W + 1 \in Nat /\ b \in Int /\ "off" \in Modes
  BY WidthPositive DEF Slave, Modes
<1>2. \/ Rises(s, h) = s
      \/ Rises(s, h) = [s EXCEPT !.n = s.n + 1]
      \/ Rises(s, h) = [s EXCEPT !.mode = "off"]
      \/ Rises(s, h) = [s EXCEPT !.n = W + 1]
      \/ Rises(s, h) = [s EXCEPT !.n = s.n + 1, !.byte = b]
  BY <1>1 DEF Rises, Hearing, Slave
<1> HIDE DEF b
<1>3. [s EXCEPT !.n = s.n + 1, !.byte = b] \in Slave
  BY <1>1 DEF Slave
<1>4. /\ [s EXCEPT !.n = s.n + 1].scl = s.scl /\ [s EXCEPT !.mode = "off"].scl = s.scl
      /\ [s EXCEPT !.n = W + 1].scl = s.scl /\ [s EXCEPT !.n = s.n + 1, !.byte = b].scl = s.scl
  BY DEF Slave
<1>5. [s EXCEPT !.n = s.n + 1] \in Slave /\ [s EXCEPT !.n = W + 1] \in Slave
  BY <1>1, UpdateTyped
<1>6. [s EXCEPT !.mode = "off"] \in Slave
  BY <1>1, UpdateTyped
<1> QED BY ONLY s \in Slave, <1>2, <1>3, <1>4, <1>5, <1>6

LEMMA FallsTyped ==
  ASSUME NEW d, NEW s \in Slave, NEW r, NEW f \in BOOLEAN, NEW g \in BOOLEAN
  PROVE  Falls(d, s, r, f, g) \in Slave
<1> DEFINE t == [s EXCEPT !.scl = g /\ s.mode # "off"]
           Send(p, k) == [t EXCEPT !.mode = "send", !.ptr = p, !.n = k, !.sda = BitOf(r[p], k) = 0]
           p_ == CASE s.mode = "pointer" -> s.byte % NREG
                   [] s.mode = "store" -> After(s.ptr) [] OTHER -> s.ptr
           m_ == IF s.mode = "address" THEN "pointer" ELSE "store"
<1>1. W \in Nat /\ W >= 1 /\ NREG \in Nat /\ NREG >= 1
  BY WidthAssumption
<1>2. /\ s.ptr \in Int /\ After(s.ptr) \in Int /\ s.n \in Nat /\ s.mode \in Modes
      /\ p_ \in Int /\ m_ \in Modes
  BY <1>1 DEF Slave, After, Modes
<1>3. t \in Slave
  BY DEF Slave
<1> HIDE DEF t, p_, m_
<1>4. ASSUME NEW p \in Int, NEW k \in Nat
      PROVE  Send(p, k) \in Slave
  BY <1>3 DEF Slave, Modes
<1>5. ASSUME NEW n \in Nat, NEW p \in Int
      PROVE  [t EXCEPT !.sda = TRUE, !.n = n, !.ptr = p] \in Slave
  BY <1>3 DEF Slave
<1>6. ASSUME NEW m \in Modes
      PROVE  [t EXCEPT !.sda = FALSE, !.n = 0, !.byte = 0, !.mode = m] \in Slave
  <2> DEFINE u == [t EXCEPT !.sda = FALSE]
             v == [u EXCEPT !.n = 0]
             w == [v EXCEPT !.byte = 0]
  <2>1. u \in Slave
    BY <1>3, UpdateTyped
  <2> HIDE DEF u
  <2>2. v \in Slave
    BY <2>1, UpdateTyped
  <2> HIDE DEF v
  <2>3. w \in Slave
    BY <2>2, UpdateTyped
  <2> HIDE DEF w
  <2>4. [w EXCEPT !.mode = m] \in Slave
    BY <2>3, UpdateTyped
  <2> QED BY <2>4 DEF u, v, w
<1>7. [t EXCEPT !.mode = "off"] \in Slave /\ [t EXCEPT !.sda = FALSE] \in Slave
  BY <1>3, UpdateTyped DEF Modes
<1>8. CASE s.mode = "off"
  <2>1. Falls(d, s, r, f, g) = t
    BY <1>1, <1>2, <1>8 DEF Falls, t, Hearing
  <2> QED BY <1>3, <2>1
<1>9. CASE s.mode = "send"
  <2>1. Falls(d, s, r, f, g) \in {Send(s.ptr, s.n), [t EXCEPT !.sda = FALSE], Send(After(s.ptr), 0)}
    BY <1>1, <1>2, <1>9 DEF Falls, t, Hearing
  <2>2. Send(s.ptr, s.n) \in Slave /\ Send(After(s.ptr), 0) \in Slave
    BY <1>2, <1>4
  <2> HIDE DEF Send
  <2> QED BY <1>7, <2>1, <2>2
<1>10. CASE s.mode \in Hearing /\ s.n <= W
  <2>1. Falls(d, s, r, f, g) \in
          {[t EXCEPT !.sda = TRUE, !.n = W + 1, !.ptr = p_], [t EXCEPT !.mode = "off"], t}
    BY <1>1, <1>2, <1>10 DEF Falls, t, p_, Hearing
  <2>2. [t EXCEPT !.sda = TRUE, !.n = W + 1, !.ptr = p_] \in Slave
    <3>1. W + 1 \in Nat
      BY <1>1
    <3> QED BY <1>2, <1>5, <3>1
  <2> QED BY ONLY <1>3, <1>7, <2>1, <2>2
<1>11. CASE s.mode \in Hearing /\ s.n > W
  <2>1. Falls(d, s, r, f, g) \in
          {Send(s.ptr, 0), [t EXCEPT !.sda = FALSE, !.n = 0, !.byte = 0, !.mode = m_]}
    BY <1>1, <1>2, <1>11 DEF Falls, t, m_, Hearing
  <2>2. Send(s.ptr, 0) \in Slave
    BY <1>2, <1>4
  <2>3. [t EXCEPT !.sda = FALSE, !.n = 0, !.byte = 0, !.mode = m_] \in Slave
    BY <1>2, <1>6
  <2> HIDE DEF Send
  <2> QED BY ONLY <2>1, <2>2, <2>3
<1> QED BY <1>1, <1>2, <1>8, <1>9, <1>10, <1>11 DEF Modes, Hearing

\* What a falling edge makes of a device in each phase.
FallStep(s, t) ==
  /\ Off(s) => Off(t)
  /\ \A k \in 0 .. W - 1, m \in {ForAddress, ForData} : Hears(s, k, m) => Hears(t, k, m)
  /\ \A m \in {ForAddress, ForData} : Hears(s, W, m) => Acks(t, m)
  /\ \A m \in {ForAddress, ForData}, b \in {0, 1} : Hears(s, W, m) /\ Told(s, b) => Told(t, b)
  /\ Acks(s, ForAddress) => IF IsToSend(s) THEN Sends(t, 0) ELSE Hears(t, 0, ForData)
  /\ Acks(s, ForData) => Hears(t, 0, ForData)
  /\ \A k \in 0 .. W - 1 : Sends(s, k) => Sends(t, k)
  /\ Sends(s, W) => Over(t, W)
  /\ Over(s, W + 1) => Sends(t, 0)

LEMMA FallsFrom ==
  ASSUME NEW d, NEW s \in Slave, NEW r, NEW f \in BOOLEAN, NEW g \in BOOLEAN
  PROVE  FallStep(s, Falls(d, s, r, f, g))
<1> DEFINE t == Falls(d, s, r, f, g)
<1>1. W \in Nat /\ W >= 1 /\ s.n \in Nat /\ s.mode \in Modes
  BY WidthPositive DEF Slave
<1>2. Off(s) => Off(t)
  BY <1>1 DEF Off, Slave, Falls, Hearing
<1>3. ASSUME NEW k \in 0 .. W - 1, NEW m \in {ForAddress, ForData}, Hears(s, k, m)
      PROVE  Hears(t, k, m)
  BY <1>1, <1>2, <1>3 DEF Hears, ForAddress, ForData, Hearing, Falls, Slave
<1>4. ASSUME NEW m \in {ForAddress, ForData}, Hears(s, W, m), ~Off(s) PROVE Acks(t, m)
  <2>1. s.mode \in m /\ s.n = W /\ ~s.sda /\ s.mode \in Hearing
    BY <1>4 DEF Hears, ForAddress, ForData, Hearing
  <2>2. CASE Takes(d, s, f)
    BY <1>1, <2>1, <2>2 DEF Acks, Hearing, Falls, Slave
  <2>3. CASE ~Takes(d, s, f)
    BY <1>1, <2>1, <2>3 DEF Acks, Off, Hearing, Falls, Slave
  <2> QED BY <2>2, <2>3
<1>5. \A m : Off(s) => Acks(t, m)
  BY <1>2 DEF Acks
<1>6. ASSUME NEW m \in {ForAddress, ForData}, NEW b \in {0, 1}, Hears(s, W, m), Told(s, b)
      PROVE  Told(t, b)
  BY <1>1, <1>2, <1>6 DEF Hears, Told, ForAddress, ForData, Hearing, IsToSend, Falls, Slave, Off
<1>7. ASSUME Acks(s, ForAddress), ~Off(s)
      PROVE  IF IsToSend(s) THEN Sends(t, 0) ELSE Hears(t, 0, ForData)
  BY <1>1, <1>7 DEF Hears, Acks, Sends, ForAddress, ForData, Hearing, IsToSend, Falls, Slave
<1>8. ASSUME Acks(s, ForData), ~Off(s)
      PROVE  Hears(t, 0, ForData)
  BY <1>1, <1>8 DEF Hears, Acks, ForData, Hearing, IsToSend, Falls, Slave
<1>9. ASSUME NEW k \in 0 .. W - 1, Sends(s, k) PROVE Sends(t, k)
  BY <1>1, <1>2, <1>9 DEF Sends, Falls, Hearing, Slave
<1>10. Sends(s, W) => Over(t, W)
  BY <1>1, <1>2 DEF Sends, Over, Falls, Hearing, Slave
<1>11. Over(s, W + 1) => Sends(t, 0)
  BY <1>1, <1>2 DEF Sends, Over, Falls, Hearing, Slave
<1>12. Off(s) => Sends(t, 0) /\ Hears(t, 0, ForData)
  BY <1>2 DEF Sends, Hears
<1> HIDE DEF t
<1>13. \A m \in {ForAddress, ForData} : Hears(s, W, m) => Acks(t, m)
  BY <1>4, <1>5
<1>14. /\ Acks(s, ForAddress) => IF IsToSend(s) THEN Sends(t, 0) ELSE Hears(t, 0, ForData)
       /\ Acks(s, ForData) => Hears(t, 0, ForData)
  BY <1>7, <1>8, <1>12
<1> QED BY <1>2, <1>3, <1>6, <1>9, <1>10, <1>11, <1>13, <1>14 DEF t, FallStep

\* And a rising one, with SDA high or not.
RiseStep(s, t, h) ==
  /\ Off(s) => Off(t)
  /\ Quiet(s) => Quiet(t)
  /\ \A k \in 0 .. W - 1, m \in {ForAddress, ForData} :
       Hears(s, k, m) => Hears(t, k + 1, m) /\ Told(t, IF h THEN 1 ELSE 0)
  /\ \A m \in {ForAddress, ForData}, b \in {0, 1} :
       Acks(s, m) /\ Told(s, b) => Acks(t, m) /\ Told(t, b)
  /\ \A k \in 0 .. W - 1 : Sends(s, k) => Sends(t, k + 1)
  /\ Over(s, W) => IF h THEN Off(t) ELSE Over(t, W + 1)

LEMMA RisesFrom ==
  ASSUME NEW s \in Slave, NEW h \in BOOLEAN
  PROVE  RiseStep(s, Rises(s, h), h)
<1> DEFINE t == Rises(s, h)
<1>1. W \in Nat /\ W >= 1 /\ s.n \in Nat /\ s.mode \in Modes /\ s.byte \in Int
  BY WidthPositive DEF Slave
<1>2. (Off(s) => Off(t)) /\ (Quiet(s) => Quiet(t))
  BY <1>1 DEF Off, Quiet, Slave, Rises, Hearing
<1>3. ASSUME NEW k \in 0 .. W - 1, NEW m \in {ForAddress, ForData}, Hears(s, k, m), ~Off(s)
      PROVE  Hears(t, k + 1, m) /\ Told(t, IF h THEN 1 ELSE 0)
  <2>1. s.mode \in m /\ s.n = k /\ ~s.sda /\ s.mode \in Hearing /\ s.mode \notin {"off", "send"}
    BY <1>3 DEF Hears, ForAddress, ForData, Hearing
  <2>2. t = [s EXCEPT !.n = k + 1, !.byte = 2 * s.byte + (IF h THEN 1 ELSE 0)]
    BY <1>1, <1>3, <2>1 DEF Rises, Hearing, Slave
  <2>3. t.n = k + 1 /\ t.mode = s.mode /\ t.sda = s.sda /\ t.byte = 2 * s.byte + (IF h THEN 1 ELSE 0)
    BY <2>1, <2>2 DEF Slave
  <2>4. (2 * s.byte + (IF h THEN 1 ELSE 0)) % 2 = (IF h THEN 1 ELSE 0)
    BY <1>1
  <2> QED BY <2>1, <2>3, <2>4 DEF Hears, Told
<1>4. \A k, m, b : Off(s) => Hears(t, k, m) /\ Told(t, b) /\ Acks(t, m)
  BY <1>2 DEF Hears, Told, Acks, Off
<1>5. ASSUME NEW m \in {ForAddress, ForData}, NEW b \in {0, 1}, Acks(s, m), Told(s, b), ~Off(s)
      PROVE  Acks(t, m) /\ Told(t, b)
  <2>1. t = s
    BY <1>1, <1>5 DEF Acks, Rises
  <2> QED BY <1>5, <2>1
<1>6. \A k \in 0 .. W - 1 : Sends(s, k) => Sends(t, k + 1)
  BY <1>1, <1>2 DEF Sends, Rises, Hearing, Slave
<1>7. Over(s, W) => IF h THEN Off(t) ELSE Over(t, W + 1)
  BY <1>1, <1>2 DEF Over, Off, Rises, Hearing, Slave
<1> HIDE DEF t
<1> QED BY <1>2, <1>3, <1>4, <1>5, <1>6, <1>7 DEF t, RiseStep

-----------------------------------------------------------------------------
(* What each kind of access does.                                          *)

Same == \A d \in Devices : slave'[d] = slave[d]
NoneHolds == \A d \in Devices : ~slave[d].scl
NoneAnswers == \A d \in Devices : ~slave[d].sda

LEMMA Effects ==
  ASSUME IInv, IInv', Access
  PROVE  LET x == Accesses[routine][at] IN
         /\ slave' = [d \in Devices |-> slave'[d]]
         /\ routine # "none" /\ at <= Len(Accesses[routine])
         /\ routine' = routine /\ at' = at + 1 /\ bit' = bit /\ UNCHANGED driver
         /\ x \in {"clear_SDA", "clear_SCL", "await_SCL", "sample_SDA"} => ddr' = ddr /\ Same
         /\ x = "await_SCL" => Scl
         /\ x = "sample_SDA" => (nack' <=> Sda)
         /\ x # "sample_SDA" => nack' = nack
         /\ x # "sample_SDA" \/ routine # "read" => byte' = byte
         /\ x = "drive_SCL" => /\ ddr' = [ddr EXCEPT !["SCL"] = TRUE]
                               /\ IF Scl THEN AllFall ELSE Same
         /\ x = "release_SCL" => /\ ddr' = [ddr EXCEPT !["SCL"] = FALSE]
                                 /\ IF ddr.SCL /\ NoneHolds THEN AllRise ELSE Same
         /\ x = "drive_SDA" => /\ ddr' = [ddr EXCEPT !["SDA"] = TRUE]
                               /\ IF Scl /\ Sda THEN AllBegin ELSE Same
         /\ x = "release_SDA" => /\ ddr' = [ddr EXCEPT !["SDA"] = FALSE]
                                 /\ IF Scl /\ ddr.SDA /\ NoneAnswers THEN AllStop ELSE Same
<1> DEFINE x == Accesses[routine][at]
<1>1. PortTyped /\ NeverDrivesHigh /\ PortTyped' /\ NeverDrivesHigh'
  BY DEF IInv
<1>2. PICK f \in BOOLEAN, g \in BOOLEAN : DevicesSee(ddr', latch', f, g)
  BY DEF Access
<1>3. /\ slave' = [d \in Devices |-> slave'[d]]
      /\ (SclThen <=> Scl) /\ ((SdaThen <=> Sda) \/ ~Scl) => Same
      /\ Scl /\ ~SclThen => AllFall
      /\ ~Scl /\ SclThen /\ (SdaThen <=> Sda) => AllRise
      /\ Scl /\ SclThen /\ Sda /\ ~SdaThen => AllBegin
      /\ Scl /\ SclThen /\ ~Sda /\ SdaThen => AllStop
  BY <1>1, <1>2, Reaction DEF Same
<1>4. /\ Scl <=> ~ddr.SCL /\ NoneHolds
      /\ Sda <=> ~ddr.SDA /\ NoneAnswers
      /\ SclThen <=> ~ddr'.SCL /\ NoneHolds
      /\ SdaThen <=> ~ddr'.SDA /\ NoneAnswers
  BY <1>1, Levels, LevelsThen DEF NoneHolds, NoneAnswers
<1>5. /\ routine # "none" /\ at <= Len(Accesses[routine])
      /\ routine' = routine /\ at' = at + 1 /\ bit' = bit /\ UNCHANGED driver
  BY DEF Access
<1>6. /\ x \in {"clear_SDA", "clear_SCL", "await_SCL", "sample_SDA"} => ddr' = ddr
      /\ x = "await_SCL" => Scl
      /\ x = "sample_SDA" => (nack' <=> Sda)
      /\ x # "sample_SDA" => nack' = nack
      /\ x # "sample_SDA" \/ routine # "read" => byte' = byte
      /\ x = "drive_SCL" => ddr' = [ddr EXCEPT !["SCL"] = TRUE]
      /\ x = "release_SCL" => ddr' = [ddr EXCEPT !["SCL"] = FALSE]
      /\ x = "drive_SDA" => ddr' = [ddr EXCEPT !["SDA"] = TRUE]
      /\ x = "release_SDA" => ddr' = [ddr EXCEPT !["SDA"] = FALSE]
  <2>1. \/ x \in {"clear_SDA", "clear_SCL"} /\ Clear(Line(x))
        \/ x \in {"drive_SDA", "drive_SCL"} /\ Drive(Line(x))
        \/ x \in {"release_SDA", "release_SCL"} /\ Release(Line(x))
        \/ x = "await_SCL" /\ Await
        \/ x = "sample_SDA" /\ Sample
    BY DEF Access
  <2> HIDE DEF x
  <2> QED BY <2>1 DEF Clear, Drive, Release, Await, Sample, Line, Scl, Sda
<1> HIDE DEF x
<1>7. DOMAIN ddr = Lines /\ ddr.SCL \in BOOLEAN /\ ddr.SDA \in BOOLEAN
  BY <1>1 DEF PortTyped, Lines
<1>8. /\ x \in {"clear_SDA", "clear_SCL", "await_SCL", "sample_SDA"} => Same
      /\ x = "drive_SCL" => IF Scl THEN AllFall ELSE Same
      /\ x = "release_SCL" => IF ddr.SCL /\ NoneHolds THEN AllRise ELSE Same
      /\ x = "drive_SDA" => IF Scl /\ Sda THEN AllBegin ELSE Same
      /\ x = "release_SDA" => IF Scl /\ ddr.SDA /\ NoneAnswers THEN AllStop ELSE Same
  BY <1>3, <1>4, <1>6, <1>7 DEF Lines
<1> QED BY <1>3, <1>5, <1>6, <1>8 DEF x

LEMMA LevelsAfter ==
  ASSUME PortTyped', NeverDrivesHigh'
  PROVE  Scl' <=> ~ddr'.SCL /\ \A d \in Devices : ~slave'[d].scl
BY DEF PortTyped, NeverDrivesHigh, Scl, LevelNow, Level, Lines

LEMMA BeginsFrom ==
  ASSUME NEW s \in Slave
  PROVE  /\ [s EXCEPT !.mode = "address", !.n = 0, !.byte = 0, !.sda = FALSE] \in Slave
         /\ [s EXCEPT !.mode = "address", !.n = 0, !.byte = 0, !.sda = FALSE].scl = s.scl
         /\ Hears([s EXCEPT !.mode = "address", !.n = 0, !.byte = 0, !.sda = FALSE], 0, ForAddress)
         /\ [s EXCEPT !.mode = "off", !.sda = FALSE] \in Slave
         /\ [s EXCEPT !.mode = "off", !.sda = FALSE].scl = s.scl
         /\ Off([s EXCEPT !.mode = "off", !.sda = FALSE])
<1>1. "address" \in Modes /\ "off" \in Modes
  BY DEF Modes
<1>2. [s EXCEPT !.mode = "off", !.sda = FALSE] \in Slave
  BY <1>1 DEF Slave
<1>3. [s EXCEPT !.mode = "address", !.n = 0, !.byte = 0, !.sda = FALSE] \in Slave
  <2> DEFINE a == [s EXCEPT !.mode = "address"]
             b == [a EXCEPT !.n = 0]
             c == [b EXCEPT !.byte = 0]
  <2>1. a \in Slave
    BY <1>1, UpdateTyped
  <2> HIDE DEF a
  <2>2. b \in Slave
    BY <2>1, UpdateTyped
  <2> HIDE DEF b
  <2>3. c \in Slave
    BY <2>2, UpdateTyped
  <2> HIDE DEF c
  <2>4. [c EXCEPT !.sda = FALSE] \in Slave
    BY <2>3, UpdateTyped
  <2> QED BY <2>4 DEF a, b, c
<1> QED BY <1>2, <1>3 DEF Slave, Hears, Off, ForAddress

\* Every device stays one, whatever the edge; only a falling one may make it hold the clock.
LEMMA SlavesStay ==
  ASSUME SlavesTyped, slave' = [d \in Devices |-> slave'[d]],
         Same \/ AllFall \/ AllRise \/ AllBegin \/ AllStop, PortTyped
  PROVE  /\ SlavesTyped'
         /\ Same \/ AllRise \/ AllBegin \/ AllStop =>
              \A d \in Devices : slave'[d].scl = slave[d].scl
<1>1. ASSUME NEW d \in Devices
      PROVE  /\ slave'[d] \in Slave
             /\ Same \/ AllRise \/ AllBegin \/ AllStop => slave'[d].scl = slave[d].scl
  <2>1. slave[d] \in Slave
    BY DEF SlavesTyped
  <2>2. Sda \in BOOLEAN
    BY LevelTyped DEF PortTyped, Lines, Sda, LevelNow
  <2>3. Same => slave'[d] \in Slave /\ slave'[d].scl = slave[d].scl
    BY <2>1 DEF Same
  <2>4. AllFall => slave'[d] \in Slave
    BY <2>1, FallsTyped DEF AllFall
  <2>5. AllRise => slave'[d] \in Slave /\ slave'[d].scl = slave[d].scl
    BY <2>1, <2>2, RisesTyped DEF AllRise
  <2>6. AllBegin => slave'[d] \in Slave /\ slave'[d].scl = slave[d].scl
    BY <2>1, BeginsFrom DEF AllBegin
  <2>7. AllStop => slave'[d] \in Slave /\ slave'[d].scl = slave[d].scl
    BY <2>1, BeginsFrom DEF AllStop
  <2> QED BY <2>3, <2>4, <2>5, <2>6, <2>7
<1>2. slave' \in [Devices -> Slave]
  BY <1>1
<1> QED BY <1>1, <1>2 DEF SlavesTyped

\* No edge of either line.
Stays == Same /\ (ddr'.SCL <=> ddr.SCL) /\ (ddr'.SDA <=> ddr.SDA) /\ (Scl' <=> Scl)

ClockDriven ==
  /\ ddr'.SCL /\ (ddr'.SDA <=> ddr.SDA) /\ ~Scl'
  /\ IF Scl THEN AllFall ELSE Same

ClockLetGo ==
  /\ ~ddr'.SCL /\ (ddr'.SDA <=> ddr.SDA)
  /\ ddr.SCL => IF Scl' THEN AllRise ELSE Same
  /\ ~ddr.SCL => Same /\ (Scl' <=> Scl)

DataDriven ==
  /\ ddr'.SDA /\ (ddr'.SCL <=> ddr.SCL) /\ (Scl' <=> Scl)
  /\ IF Scl /\ Sda THEN AllBegin ELSE Same

DataLetGo ==
  /\ ~ddr'.SDA /\ (ddr'.SCL <=> ddr.SCL) /\ (Scl' <=> Scl)
  /\ IF Scl /\ ddr.SDA /\ NoneAnswers THEN AllStop ELSE Same

LEMMA Moves ==
  ASSUME IInv, IInv', SlavesTyped, Access
  PROVE  LET x == Accesses[routine][at] IN
         /\ SlavesTyped' /\ at <= Len(Accesses[routine])
         /\ routine' = routine /\ at' = at + 1 /\ bit' = bit /\ UNCHANGED driver
         /\ x = "sample_SDA" => (nack' <=> Sda)
         /\ x # "sample_SDA" => nack' = nack
         /\ x # "sample_SDA" \/ routine # "read" => byte' = byte
         /\ x = "await_SCL" => Scl
         /\ x \in {"clear_SDA", "clear_SCL", "await_SCL", "sample_SDA"} => Stays
         /\ x = "drive_SCL" => ClockDriven
         /\ x = "release_SCL" => ClockLetGo
         /\ x = "drive_SDA" => DataDriven
         /\ x = "release_SDA" => DataLetGo
<1> DEFINE x == Accesses[routine][at]
<1>1. PortTyped /\ NeverDrivesHigh /\ PortTyped' /\ NeverDrivesHigh'
  BY DEF IInv
<1>2. /\ Scl <=> ~ddr.SCL /\ \A d \in Devices : ~slave[d].scl
      /\ Scl' <=> ~ddr'.SCL /\ \A d \in Devices : ~slave'[d].scl
  BY <1>1, Levels, LevelsAfter
<1>3. DOMAIN ddr = Lines /\ ddr.SCL \in BOOLEAN /\ ddr.SDA \in BOOLEAN
  BY <1>1 DEF PortTyped, Lines
<1>4. /\ slave' = [d \in Devices |-> slave'[d]]
      /\ at <= Len(Accesses[routine])
      /\ routine' = routine /\ at' = at + 1 /\ bit' = bit /\ UNCHANGED driver
      /\ x \in {"clear_SDA", "clear_SCL", "await_SCL", "sample_SDA"} => ddr' = ddr /\ Same
      /\ x = "await_SCL" => Scl
      /\ x = "sample_SDA" => (nack' <=> Sda)
      /\ x # "sample_SDA" => nack' = nack
      /\ x # "sample_SDA" \/ routine # "read" => byte' = byte
      /\ x = "drive_SCL" => /\ ddr' = [ddr EXCEPT !["SCL"] = TRUE]
                            /\ IF Scl THEN AllFall ELSE Same
      /\ x = "release_SCL" => /\ ddr' = [ddr EXCEPT !["SCL"] = FALSE]
                              /\ IF ddr.SCL /\ NoneHolds THEN AllRise ELSE Same
      /\ x = "drive_SDA" => /\ ddr' = [ddr EXCEPT !["SDA"] = TRUE]
                            /\ IF Scl /\ Sda THEN AllBegin ELSE Same
      /\ x = "release_SDA" => /\ ddr' = [ddr EXCEPT !["SDA"] = FALSE]
                              /\ IF Scl /\ ddr.SDA /\ NoneAnswers THEN AllStop ELSE Same
  BY Effects
<1>5. x \in Name
  <2>1. routine \in Routines /\ at \in Nat \ {0}
    BY Effects DEF IInv, PortTyped
  <2>2. Accesses[routine] \in Seq(Name)
    BY <2>1, RoutinesCareful DEF Good
  <2> QED BY <1>4, <2>1, <2>2
<1> HIDE DEF x
<1>6. Same \/ AllFall \/ AllRise \/ AllBegin \/ AllStop
  BY <1>4, <1>5 DEF Name
<1>7. /\ SlavesTyped'
      /\ Same \/ AllRise \/ AllBegin \/ AllStop =>
           \A d \in Devices : slave'[d].scl = slave[d].scl
  BY <1>1, <1>4, <1>6, SlavesStay
<1>8. x \in {"clear_SDA", "clear_SCL", "await_SCL", "sample_SDA"} => Stays
  BY <1>2, <1>4, <1>7 DEF Stays
<1>9. x = "drive_SCL" => ClockDriven
  BY <1>2, <1>3, <1>4 DEF Lines, ClockDriven
<1>10. x = "release_SCL" => ClockLetGo
  BY <1>2, <1>3, <1>4, <1>7 DEF Lines, NoneHolds, ClockLetGo
<1>11. x = "drive_SDA" => DataDriven
  BY <1>2, <1>3, <1>4, <1>7 DEF Lines, DataDriven
<1>12. x = "release_SDA" => DataLetGo
  BY <1>2, <1>3, <1>4, <1>7 DEF Lines, DataLetGo
<1> QED BY <1>4, <1>7, <1>8, <1>9, <1>10, <1>11, <1>12 DEF x

-----------------------------------------------------------------------------
(* The routines, access by access.                                         *)

\* What an edge of the clock makes of all devices; T is what they become.
FallAll(S, T) ==
  /\ AllOff(S) => AllOff(T)
  /\ \A k \in 0 .. W - 1, m \in {ForAddress, ForData} : AllHear(S, k, m) => AllHear(T, k, m)
  /\ \A m \in {ForAddress, ForData} : AllHear(S, W, m) => AllAck(T, m)
  /\ \A m \in {ForAddress, ForData}, b \in {0, 1} :
       AllHear(S, W, m) /\ AllTold(S, b) => AllTold(T, b)
  /\ AllAck(S, ForAddress) /\ AllTold(S, 1) => AllSend(T, 0)
  /\ AllAck(S, ForAddress) /\ AllTold(S, 0) => AllHear(T, 0, ForData)
  /\ AllAck(S, ForData) => AllHear(T, 0, ForData)
  /\ \A k \in 0 .. W - 1 : AllSend(S, k) => AllSend(T, k)
  /\ AllSend(S, W) => AllOver(T, W)
  /\ AllOver(S, W + 1) => AllSend(T, 0)

RiseAll(S, T, h) ==
  /\ AllOff(S) => AllOff(T)
  /\ AllQuiet(S) => AllQuiet(T)
  /\ \A k \in 0 .. W - 1, m \in {ForAddress, ForData} :
       AllHear(S, k, m) => AllHear(T, k + 1, m) /\ AllTold(T, IF h THEN 1 ELSE 0)
  /\ \A m \in {ForAddress, ForData}, b \in {0, 1} :
       AllAck(S, m) /\ AllTold(S, b) => AllAck(T, m) /\ AllTold(T, b)
  /\ \A k \in 0 .. W - 1 : AllSend(S, k) => AllSend(T, k + 1)
  /\ AllOver(S, W) => IF h THEN AllOff(T) ELSE AllOver(T, W + 1)

StayAll(S, T) ==
  /\ AllOff(S) => AllOff(T)
  /\ AllQuiet(S) => AllQuiet(T)
  /\ \A k, a : AllHear(S, k, a) => AllHear(T, k, a)
  /\ \A a : AllAck(S, a) => AllAck(T, a)
  /\ \A k : AllSend(S, k) => AllSend(T, k)
  /\ \A k : AllOver(S, k) => AllOver(T, k)
  /\ \A o : AllTold(S, o) => AllTold(T, o)

LEMMA StayTogether == Same => StayAll(slave, slave')
BY DEF Same, StayAll, AllOff, AllQuiet, AllHear, AllAck, AllSend, AllOver, AllTold

LEMMA FallTogether ==
  ASSUME NEW S, NEW T, \A d \in Devices : FallStep(S[d], T[d])
  PROVE  FallAll(S, T)
<1>1. AllOff(S) => AllOff(T)
  BY DEF FallStep, AllOff
<1>2. \A k \in 0 .. W - 1, m \in {ForAddress, ForData} : AllHear(S, k, m) => AllHear(T, k, m)
  BY DEF FallStep, AllHear
<1>3. \A m \in {ForAddress, ForData} : AllHear(S, W, m) => AllAck(T, m)
  BY DEF FallStep, AllHear, AllAck
<1>4. \A m \in {ForAddress, ForData}, b \in {0, 1} :
       AllHear(S, W, m) /\ AllTold(S, b) => AllTold(T, b)
  BY DEF FallStep, AllHear, AllTold
<1>5. ASSUME NEW d \in Devices, Acks(S[d], ForAddress)
      PROVE  /\ Told(S[d], 1) => Sends(T[d], 0)
             /\ Told(S[d], 0) => Hears(T[d], 0, ForData)
  <2>1. IF IsToSend(S[d]) THEN Sends(T[d], 0) ELSE Hears(T[d], 0, ForData)
    BY <1>5 DEF FallStep
  <2>2. Off(S[d]) => Off(T[d])
    BY DEF FallStep
  <2>3. CASE Off(S[d])
    BY <2>2, <2>3 DEF Sends, Hears
  <2>4. CASE ~Off(S[d])
    BY <1>5, <2>1, <2>4 DEF Acks, IsToSend, Told, ForAddress
  <2> QED BY <2>3, <2>4
<1>6. AllAck(S, ForAddress) /\ AllTold(S, 1) => AllSend(T, 0)
  BY <1>5 DEF AllAck, AllTold, AllSend
<1>7. AllAck(S, ForAddress) /\ AllTold(S, 0) => AllHear(T, 0, ForData)
  BY <1>5 DEF AllAck, AllTold, AllHear
<1>8. AllAck(S, ForData) => AllHear(T, 0, ForData)
  BY DEF FallStep, AllAck, AllHear
<1>9. \A k \in 0 .. W - 1 : AllSend(S, k) => AllSend(T, k)
  BY DEF FallStep, AllSend
<1>10. AllSend(S, W) => AllOver(T, W)
  BY DEF FallStep, AllSend, AllOver
<1>11. AllOver(S, W + 1) => AllSend(T, 0)
  BY DEF FallStep, AllSend, AllOver
<1> QED BY <1>1, <1>2, <1>3, <1>4, <1>6, <1>7, <1>8, <1>9, <1>10, <1>11 DEF FallAll

LEMMA RiseTogether ==
  ASSUME NEW S, NEW T, NEW h \in BOOLEAN, \A d \in Devices : RiseStep(S[d], T[d], h)
  PROVE  RiseAll(S, T, h)
<1>1. AllOff(S) => AllOff(T)
  BY DEF RiseStep, AllOff
<1>2. AllQuiet(S) => AllQuiet(T)
  BY DEF RiseStep, AllQuiet
<1>3. \A k \in 0 .. W - 1, m \in {ForAddress, ForData} :
       AllHear(S, k, m) => AllHear(T, k + 1, m) /\ AllTold(T, IF h THEN 1 ELSE 0)
  BY DEF RiseStep, AllHear, AllTold
<1>4. \A m \in {ForAddress, ForData}, b \in {0, 1} :
       AllAck(S, m) /\ AllTold(S, b) => AllAck(T, m) /\ AllTold(T, b)
  BY DEF RiseStep, AllAck, AllTold
<1>5. \A k \in 0 .. W - 1 : AllSend(S, k) => AllSend(T, k + 1)
  BY DEF RiseStep, AllSend
<1>6. AllOver(S, W) => IF h THEN AllOff(T) ELSE AllOver(T, W + 1)
  BY DEF RiseStep, AllOver, AllOff
<1> QED BY <1>1, <1>2, <1>3, <1>4, <1>5, <1>6 DEF RiseAll

LEMMA Edges ==
  ASSUME SlavesTyped, PortTyped
  PROVE  /\ Same => StayAll(slave, slave')
         /\ AllFall => FallAll(slave, slave')
         /\ AllRise => RiseAll(slave, slave', Sda)
         /\ AllBegin => AllHear(slave', 0, ForAddress)
         /\ AllStop => AllOff(slave')
         /\ Sda \in BOOLEAN
<1>1. Sda \in BOOLEAN
  BY LevelTyped DEF PortTyped, Lines, Sda, LevelNow
<1>2. \A d \in Devices : slave[d] \in Slave
  BY DEF SlavesTyped
<1>3. AllFall => \A d \in Devices : FallStep(slave[d], slave'[d])
  BY <1>2, FallsFrom DEF AllFall
<1>4. AllRise => \A d \in Devices : RiseStep(slave[d], slave'[d], Sda)
  BY <1>1, <1>2, RisesFrom DEF AllRise
<1>5. \A s : Off(s) => Hears(s, 0, ForAddress)
  BY DEF Hears
<1>6. AllBegin => \A d \in Devices : Hears(slave'[d], 0, ForAddress)
  BY <1>2, <1>5, BeginsFrom DEF AllBegin
<1>7. AllStop => \A d \in Devices : Off(slave'[d])
  BY <1>2, BeginsFrom DEF AllStop
<1>8. AllFall => FallAll(slave, slave')
  BY <1>3, FallTogether
<1>9. AllRise => RiseAll(slave, slave', Sda)
  BY <1>1, <1>4, RiseTogether
<1> QED BY <1>1, <1>6, <1>7, <1>8, <1>9, StayTogether DEF AllHear, AllOff

\* What the devices leave of the level of SDA.
LEMMA SdaOf ==
  ASSUME PortTyped, NeverDrivesHigh
  PROVE  /\ ddr.SDA => ~Sda
         /\ \A k, m : ~ddr.SDA /\ AllHear(slave, k, m) => Sda
         /\ \A k : ~ddr.SDA /\ AllOver(slave, k) => Sda
         /\ ~ddr.SDA /\ (AllQuiet(slave) \/ AllOff(slave)) => Sda
         /\ \A a : AllAck(slave, a) /\ Sda => AllOff(slave)
         /\ AllQuiet(slave) \/ AllOff(slave) \/ (\E k : AllOver(slave, k)) => NoneAnswers
         /\ ddr.SCL => ~Scl
BY Levels DEF AllHear, Hears, AllOver, Over, AllQuiet, Quiet, AllOff, Off, AllAck, Acks, NoneAnswers

\* What every access leaves alone, and what it can do to the devices.
LEMMA Going ==
  ASSUME IInv, IInv', SlavesTyped, Access
  PROVE  /\ at \in Nat \ {0} /\ at <= Len(Accesses[routine])
         /\ routine' = routine /\ at' = at + 1 /\ bit' = bit /\ stage' = stage
         /\ W \in Nat /\ W >= 1
         /\ Scl \in BOOLEAN /\ Scl' \in BOOLEAN /\ Sda \in BOOLEAN /\ Sda' \in BOOLEAN
         /\ ddr.SCL \in BOOLEAN /\ ddr.SDA \in BOOLEAN /\ ddr'.SCL \in BOOLEAN /\ ddr'.SDA \in BOOLEAN
         /\ Heard(stage) \in {ForAddress, ForData}
         /\ Same => StayAll(slave, slave')
         /\ AllFall => FallAll(slave, slave')
         /\ AllRise => RiseAll(slave, slave', Sda)
         /\ AllBegin => AllHear(slave', 0, ForAddress)
         /\ AllStop => AllOff(slave')
<1>1. PortTyped /\ PortTyped'
  BY DEF IInv
<1>2. at \in Nat \ {0} /\ ddr \in [Lines -> BOOLEAN] /\ ddr' \in [Lines -> BOOLEAN]
  BY <1>1 DEF PortTyped
<1>3. ddr.SCL \in BOOLEAN /\ ddr.SDA \in BOOLEAN /\ ddr'.SCL \in BOOLEAN /\ ddr'.SDA \in BOOLEAN
  BY <1>2 DEF Lines
<1>4. Scl \in BOOLEAN /\ Sda \in BOOLEAN
  BY <1>1, LevelTyped DEF PortTyped, Lines, Sda, Scl, LevelNow
<1>5. Scl' \in BOOLEAN /\ Sda' \in BOOLEAN
  BY <1>1, LevelTyped DEF PortTyped, Lines, Sda, Scl, LevelNow
<1>6. Heard(stage) \in {ForAddress, ForData}
  BY DEF Heard
<1>7. stage' = stage /\ at <= Len(Accesses[routine]) /\ routine' = routine /\ at' = at + 1 /\ bit' = bit
  BY Moves DEF driver
<1> QED BY <1>1, <1>2, <1>3, <1>4, <1>5, <1>6, <1>7, Edges, WidthPositive

LEMMA Write1Goes ==
  ASSUME IInv, IInv', SlavesTyped, Access, routine = "write1", bit \in 1 .. W, Writing(1, 5)
  PROVE  Writing(1, 5)'
<1> DEFINE m == Heard(stage)
<1>0. at \in {1, 2, 3, 4, 5}
  <2>1. at \in Nat \ {0} /\ at <= 5
    BY Going, Write1Steps
  <2> QED BY ONLY <2>1
<1>1. /\ at' = at + 1 /\ bit' = bit /\ stage' = stage /\ m \in {ForAddress, ForData}
      /\ Scl \in BOOLEAN /\ Scl' \in BOOLEAN
      /\ ddr.SCL \in BOOLEAN /\ ddr.SDA \in BOOLEAN /\ ddr'.SCL \in BOOLEAN /\ ddr'.SDA \in BOOLEAN
  BY Going
<1>2. bit - 1 \in 0 .. W - 1 /\ (bit - 1) + 1 = bit /\ bit - 1 \in Int
  BY WidthPositive
<1>3. PortTyped /\ NeverDrivesHigh
  BY DEF IInv
<1>4. ddr.SCL => ~Scl
  BY <1>3, SdaOf
<1>5. CASE at = 1
  <2>1. Stays
    BY <1>5, Moves, Write1Steps
  <2>2. AllHear(slave, bit - 1, m) /\ (ddr.SCL \/ Scl)
    BY <1>5 DEF Writing
  <2>3. AllHear(slave', bit - 1, m)
    BY <2>1, <2>2, Going DEF Stays, StayAll
  <2> QED BY ONLY <1>1, <1>5, <2>1, <2>2, <2>3 DEF Writing, Stays
<1>6. CASE at = 2
  <2>1. ClockDriven
    BY <1>6, Moves, Write1Steps
  <2>2. AllHear(slave, bit - 1, m)
    BY <1>6 DEF Writing
  <2>3. AllHear(slave', bit - 1, m)
    BY <1>1, <1>2, <2>1, <2>2, Going DEF ClockDriven, StayAll, FallAll
  <2> QED BY ONLY <1>1, <1>6, <2>1, <2>3 DEF Writing, ClockDriven
<1>7. CASE at = 3
  <2>1. DataLetGo /\ ddr.SCL
    BY <1>7, Moves, Write1Steps DEF Writing
  <2>2. AllHear(slave, bit - 1, m)
    BY <1>7 DEF Writing
  <2>3. AllHear(slave', bit - 1, m)
    BY <1>4, <2>1, <2>2, Going DEF DataLetGo, StayAll
  <2> QED BY ONLY <1>1, <1>7, <2>1, <2>3 DEF Writing, DataLetGo
<1>8. CASE at = 4
  <2>1. ClockLetGo /\ ddr.SCL /\ ~ddr.SDA /\ AllHear(slave, bit - 1, m)
    BY <1>8, Moves, Write1Steps DEF Writing
  <2>2. Sda
    BY <1>1, <1>2, <1>3, <2>1, SdaOf
  <2>3. IF Scl' THEN AllHear(slave', bit, m) /\ AllTold(slave', 1) ELSE AllHear(slave', bit - 1, m)
    <3>1. CASE Scl'
      <4>1. RiseAll(slave, slave', TRUE)
        BY <2>1, <2>2, <3>1, Going DEF ClockLetGo
      <4> QED BY <1>1, <1>2, <2>1, <3>1, <4>1 DEF RiseAll
    <3>2. CASE ~Scl'
      BY <2>1, <3>2, Going DEF ClockLetGo, StayAll
    <3> QED BY <3>1, <3>2
  <2> QED BY ONLY <1>1, <1>8, <2>1, <2>3 DEF Writing, ClockLetGo
<1>9. CASE at = 5
  <2>1. Stays /\ Scl
    BY <1>9, Moves, Write1Steps
  <2>2. AllHear(slave, bit, m) /\ AllTold(slave, 1) /\ ~ddr.SCL /\ ~ddr.SDA
    BY ONLY Writing(1, 5), <1>9, <2>1 DEF Writing
  <2>3. AllHear(slave', bit, m) /\ AllTold(slave', 1)
    BY <2>1, <2>2, Going DEF Stays, StayAll
  <2> QED BY ONLY <1>1, <1>9, <2>1, <2>2, <2>3 DEF Writing, Stays
<1> QED BY <1>0, <1>5, <1>6, <1>7, <1>8, <1>9

LEMMA Write0Goes ==
  ASSUME IInv, IInv', SlavesTyped, Access, routine = "write0", bit \in 1 .. W, Writing(0, 6)
  PROVE  Writing(0, 6)'
<1> DEFINE m == Heard(stage)
<1>0. at \in {1, 2, 3, 4, 5, 6}
  <2>1. at \in Nat \ {0} /\ at <= 6
    BY Going, Write0Steps
  <2> QED BY ONLY <2>1
<1>1. /\ at' = at + 1 /\ bit' = bit /\ stage' = stage /\ m \in {ForAddress, ForData}
      /\ Scl \in BOOLEAN /\ Scl' \in BOOLEAN
      /\ ddr.SCL \in BOOLEAN /\ ddr.SDA \in BOOLEAN /\ ddr'.SCL \in BOOLEAN /\ ddr'.SDA \in BOOLEAN
  BY Going
<1>2. bit - 1 \in 0 .. W - 1 /\ (bit - 1) + 1 = bit
  BY WidthPositive
<1>3. PortTyped /\ NeverDrivesHigh
  BY DEF IInv
<1>4. (ddr.SCL => ~Scl) /\ (ddr.SDA => ~Sda)
  BY <1>3, SdaOf
<1>5. CASE at \in {1, 3}
  <2>1. Stays
    BY <1>5, Moves, Write0Steps
  <2>2. AllHear(slave, bit - 1, m) /\ (at = 3 => ddr.SCL) /\ (ddr.SCL \/ Scl)
    BY <1>5 DEF Writing
  <2>3. AllHear(slave', bit - 1, m)
    BY <2>1, <2>2, Going DEF Stays, StayAll
  <2> QED BY ONLY <1>1, <1>5, <2>1, <2>2, <2>3 DEF Writing, Stays
<1>6. CASE at = 2
  <2>1. ClockDriven
    BY <1>6, Moves, Write0Steps
  <2>2. AllHear(slave, bit - 1, m)
    BY <1>6 DEF Writing
  <2>3. AllHear(slave', bit - 1, m)
    BY <1>1, <1>2, <2>1, <2>2, Going DEF ClockDriven, StayAll, FallAll
  <2> QED BY ONLY <1>1, <1>6, <2>1, <2>3 DEF Writing, ClockDriven
<1>7. CASE at = 4
  <2>1. DataDriven /\ ddr.SCL
    BY <1>7, Moves, Write0Steps DEF Writing
  <2>2. AllHear(slave, bit - 1, m)
    BY <1>7 DEF Writing
  <2>3. AllHear(slave', bit - 1, m)
    BY <1>4, <2>1, <2>2, Going DEF DataDriven, StayAll
  <2> QED BY ONLY <1>1, <1>7, <2>1, <2>3 DEF Writing, DataDriven
<1>8. CASE at = 5
  <2>1. ClockLetGo /\ ddr.SCL /\ ddr.SDA /\ AllHear(slave, bit - 1, m)
    BY <1>8, Moves, Write0Steps DEF Writing
  <2>2. ~Sda
    BY <1>4, <2>1
  <2>3. IF Scl' THEN AllHear(slave', bit, m) /\ AllTold(slave', 0) ELSE AllHear(slave', bit - 1, m)
    <3>1. CASE Scl'
      <4>1. RiseAll(slave, slave', FALSE)
        BY <1>3, <2>1, <2>2, <3>1, Going DEF ClockLetGo
      <4> QED BY <1>1, <1>2, <2>1, <3>1, <4>1 DEF RiseAll
    <3>2. CASE ~Scl'
      BY <2>1, <3>2, Going DEF ClockLetGo, StayAll
    <3> QED BY <3>1, <3>2
  <2> QED BY ONLY <1>1, <1>8, <2>1, <2>3 DEF Writing, ClockLetGo
<1>9. CASE at = 6
  <2>1. Stays /\ Scl
    BY <1>9, Moves, Write0Steps
  <2>2. AllHear(slave, bit, m) /\ AllTold(slave, 0) /\ ~ddr.SCL /\ ddr.SDA
    BY ONLY Writing(0, 6), <1>9, <2>1 DEF Writing
  <2>3. AllHear(slave', bit, m) /\ AllTold(slave', 0)
    BY <2>1, <2>2, Going DEF Stays, StayAll
  <2> QED BY ONLY <1>1, <1>9, <2>1, <2>2, <2>3 DEF Writing, Stays
<1> QED BY <1>0, <1>5, <1>6, <1>7, <1>8, <1>9

LEMMA ListenGoes ==
  ASSUME IInv, IInv', SlavesTyped, Access, routine = "listen", Listening
  PROVE  Listening'
<1>1. PortTyped /\ NeverDrivesHigh
  BY DEF IInv
<1>2. at = 1
  <2>1. at \in Nat \ {0} /\ at <= 1
    BY Going, ListenSteps
  <2> QED BY ONLY <2>1
<1>3. DataLetGo /\ ddr.SCL /\ AllSend(slave, 0)
  BY <1>2, Moves, ListenSteps DEF Listening
<1>4. ~Scl
  BY <1>1, <1>3, SdaOf
<1>5. AllSend(slave', 0)
  BY <1>3, <1>4, Going DEF DataLetGo, StayAll
<1>6. at' = at + 1 /\ ddr.SCL \in BOOLEAN /\ ddr'.SCL \in BOOLEAN
  BY Going
<1> QED BY ONLY <1>2, <1>3, <1>5, <1>6 DEF Listening, DataLetGo

LEMMA ReadGoes ==
  ASSUME IInv, IInv', SlavesTyped, Access, routine = "read", bit \in 1 .. W, Reading
  PROVE  Reading'
<1>0. at \in {1, 2, 3, 4, 5}
  <2>1. at \in Nat \ {0} /\ at <= 5
    BY Going, ReadSteps
  <2> QED BY ONLY <2>1
<1>1. /\ at' = at + 1 /\ bit' = bit /\ Scl \in BOOLEAN /\ Scl' \in BOOLEAN
      /\ ddr.SCL \in BOOLEAN /\ ddr'.SCL \in BOOLEAN
  BY Going
<1>2. bit - 1 \in 0 .. W - 1 /\ (bit - 1) + 1 = bit
  BY WidthPositive
<1>3. PortTyped /\ NeverDrivesHigh
  BY DEF IInv
<1>4. ddr.SCL => ~Scl
  BY <1>3, SdaOf
<1>5. CASE at = 1
  <2>1. Stays /\ AllSend(slave, bit - 1) /\ (ddr.SCL \/ Scl)
    BY <1>5, Moves, ReadSteps DEF Reading
  <2>2. AllSend(slave', bit - 1)
    BY <2>1, Going DEF Stays, StayAll
  <2> QED BY ONLY <1>1, <1>5, <2>1, <2>2 DEF Reading, Stays
<1>6. CASE at = 2
  <2>1. ClockDriven /\ AllSend(slave, bit - 1)
    BY <1>6, Moves, ReadSteps DEF Reading
  <2>2. AllSend(slave', bit - 1)
    BY <1>1, <1>2, <2>1, Going DEF ClockDriven, StayAll, FallAll
  <2> QED BY ONLY <1>1, <1>6, <2>1, <2>2 DEF Reading, ClockDriven
<1>7. CASE at = 3
  <2>1. ClockLetGo /\ ddr.SCL /\ AllSend(slave, bit - 1)
    BY <1>7, Moves, ReadSteps DEF Reading
  <2>2. IF Scl' THEN AllSend(slave', bit) ELSE AllSend(slave', bit - 1)
    BY <1>2, <2>1, Going DEF ClockLetGo, StayAll, RiseAll
  <2> QED BY ONLY <1>1, <1>7, <2>1, <2>2 DEF Reading, ClockLetGo
<1>8. CASE at \in {4, 5}
  <2>1. Stays /\ Scl /\ ~ddr.SCL
    BY <1>8, Moves, ReadSteps DEF Reading
  <2>2. AllSend(slave, bit)
    BY <1>8, <2>1 DEF Reading
  <2>3. AllSend(slave', bit)
    BY <2>1, <2>2, Going DEF Stays, StayAll
  <2> QED BY ONLY <1>1, <1>8, <2>1, <2>3 DEF Reading, Stays
<1> QED BY <1>0, <1>5, <1>6, <1>7, <1>8

LEMMA StartGoes ==
  ASSUME IInv, IInv', SlavesTyped, Access, routine = "i2c_start", Starting
  PROVE  Starting'
<1>0. at \in {1, 2, 3, 4, 5, 6, 7}
  <2>1. at \in Nat \ {0} /\ at <= 7
    BY Going, StartSteps
  <2> QED BY ONLY <2>1
<1>1. /\ at' = at + 1 /\ stage' = stage /\ Scl \in BOOLEAN /\ Scl' \in BOOLEAN
      /\ ddr.SCL \in BOOLEAN /\ ddr.SDA \in BOOLEAN /\ ddr'.SCL \in BOOLEAN /\ ddr'.SDA \in BOOLEAN
  BY Going
<1>2. 0 \in 0 .. W - 1
  BY WidthPositive
<1>3. PortTyped /\ NeverDrivesHigh
  BY DEF IInv
<1>4. ddr.SCL => ~Scl
  BY <1>3, SdaOf
<1>5. CASE at = 1
  <2>1. DataLetGo /\ AllQuiet(slave) /\ IF stage = "restart" THEN ddr.SCL ELSE Scl /\ ~ddr.SDA
    BY <1>5, Moves, StartSteps DEF Starting
  <2>2. AllQuiet(slave')
    BY <1>4, <2>1, Going DEF DataLetGo, StayAll
  <2> QED BY ONLY <1>1, <1>5, <2>1, <2>2 DEF Starting, DataLetGo
<1>6. CASE at = 2
  <2>1. ClockLetGo /\ ~ddr.SDA /\ AllQuiet(slave)
    BY <1>6, Moves, StartSteps DEF Starting
  <2>2. AllQuiet(slave')
    BY <1>1, <2>1, Going DEF ClockLetGo, StayAll, RiseAll
  <2> QED BY ONLY <1>1, <1>6, <2>1, <2>2 DEF Starting, ClockLetGo
<1>7. CASE at \in {3, 4}
  <2>1. Stays /\ AllQuiet(slave) /\ ~ddr.SDA /\ ~ddr.SCL /\ Scl
    BY <1>7, Moves, StartSteps DEF Starting
  <2>2. AllQuiet(slave')
    BY <2>1, Going DEF Stays, StayAll
  <2> QED BY ONLY <1>1, <1>7, <2>1, <2>2 DEF Starting, Stays
<1>8. CASE at = 5
  <2>1. DataDriven /\ AllQuiet(slave) /\ ~ddr.SDA /\ ~ddr.SCL /\ Scl
    BY <1>8, Moves, StartSteps DEF Starting
  <2>2. Sda
    BY <1>3, <2>1, SdaOf
  <2>3. AllHear(slave', 0, ForAddress)
    BY <2>1, <2>2, Going DEF DataDriven
  <2> QED BY ONLY <1>1, <1>8, <2>1, <2>3 DEF Starting, DataDriven
<1>9. CASE at = 6
  <2>1. Stays /\ AllHear(slave, 0, ForAddress) /\ ~ddr.SCL /\ Scl
    BY <1>9, Moves, StartSteps DEF Starting
  <2>2. AllHear(slave', 0, ForAddress)
    BY <2>1, Going DEF Stays, StayAll
  <2> QED BY ONLY <1>1, <1>9, <2>1, <2>2 DEF Starting, Stays
<1>10. CASE at = 7
  <2>1. ClockDriven /\ AllHear(slave, 0, ForAddress) /\ Scl
    BY <1>10, Moves, StartSteps DEF Starting
  <2>2. AllHear(slave', 0, ForAddress)
    BY <1>2, <2>1, Going DEF ClockDriven, FallAll
  <2> QED BY ONLY <1>1, <1>10, <2>1, <2>2 DEF Starting, ClockDriven
<1> QED BY <1>0, <1>5, <1>6, <1>7, <1>8, <1>9, <1>10

LEMMA StopGoes ==
  ASSUME IInv, IInv', SlavesTyped, Access, routine = "i2c_stop", Stopping
  PROVE  Stopping'
<1>0. at \in {1, 2, 3, 4, 5}
  <2>1. at \in Nat \ {0} /\ at <= 5
    BY Going, StopSteps
  <2> QED BY ONLY <2>1
<1>1. /\ at' = at + 1 /\ Scl \in BOOLEAN /\ Scl' \in BOOLEAN
      /\ ddr.SCL \in BOOLEAN /\ ddr.SDA \in BOOLEAN /\ ddr'.SCL \in BOOLEAN /\ ddr'.SDA \in BOOLEAN
  BY Going
<1>2. PortTyped /\ NeverDrivesHigh
  BY DEF IInv
<1>3. ddr.SCL => ~Scl
  BY <1>2, SdaOf
<1>4. AllQuiet(slave)
  BY <1>0 DEF Stopping
<1>5. CASE at = 1
  <2>1. Stays /\ ddr.SCL
    BY <1>5, Moves, StopSteps DEF Stopping
  <2>2. AllQuiet(slave')
    BY <1>4, <2>1, Going DEF Stays, StayAll
  <2> QED BY ONLY <1>1, <1>5, <2>1, <2>2 DEF Stopping, Stays
<1>6. CASE at = 2
  <2>1. DataDriven /\ ddr.SCL
    BY <1>6, Moves, StopSteps DEF Stopping
  <2>2. AllQuiet(slave')
    BY <1>3, <1>4, <2>1, Going DEF DataDriven, StayAll
  <2> QED BY ONLY <1>1, <1>6, <2>1, <2>2 DEF Stopping, DataDriven
<1>7. CASE at = 3
  <2>1. ClockLetGo /\ ddr.SCL /\ ddr.SDA
    BY <1>7, Moves, StopSteps DEF Stopping
  <2>2. AllQuiet(slave')
    BY <1>4, <2>1, Going DEF ClockLetGo, StayAll, RiseAll
  <2> QED BY ONLY <1>1, <1>7, <2>1, <2>2 DEF Stopping, ClockLetGo
<1>8. CASE at = 4
  <2>1. Stays /\ ~ddr.SCL /\ ddr.SDA /\ Scl
    BY <1>8, Moves, StopSteps DEF Stopping
  <2>2. AllQuiet(slave')
    BY <1>4, <2>1, Going DEF Stays, StayAll
  <2> QED BY ONLY <1>1, <1>8, <2>1, <2>2 DEF Stopping, Stays
<1>9. CASE at = 5
  <2>1. DataLetGo /\ ~ddr.SCL /\ ddr.SDA /\ Scl
    BY <1>9, Moves, StopSteps DEF Stopping
  <2>2. AllOff(slave')
    BY <1>2, <1>4, <2>1, Going, SdaOf DEF DataLetGo
  <2> QED BY ONLY <1>1, <1>9, <2>1, <2>2 DEF Stopping, DataLetGo
<1> QED BY <1>0, <1>5, <1>6, <1>7, <1>8, <1>9

LEMMA AckGoes ==
  ASSUME IInv, IInv', SlavesTyped, Access, routine = "ack", Acknowledged, byte \in Nat,
         stage = "address" => byte % 2 = 0, stage = "read_address" => byte % 2 = 1
  PROVE  Acknowledged'
<1> DEFINE m == Heard(stage)
           b == byte % 2
<1>0. at \in {1, 2, 3, 4, 5, 6, 7, 8}
  <2>1. at \in Nat \ {0} /\ at <= 8
    BY Going, AckSteps
  <2> QED BY ONLY <2>1
<1>1. /\ at' = at + 1 /\ stage' = stage /\ m \in {ForAddress, ForData}
      /\ Scl \in BOOLEAN /\ Scl' \in BOOLEAN /\ byte' = byte
      /\ ddr.SCL \in BOOLEAN /\ ddr.SDA \in BOOLEAN /\ ddr'.SCL \in BOOLEAN /\ ddr'.SDA \in BOOLEAN
  BY Going, Moves
<1>2. b \in {0, 1}
  BY SMT
<1>3. PortTyped /\ NeverDrivesHigh
  BY DEF IInv
<1>4. ddr.SCL => ~Scl
  BY <1>3, SdaOf
<1>5. AllTold(slave, b)
  BY <1>0 DEF Acknowledged
<1>6. CASE at = 1
  <2>1. Stays /\ Scl /\ AllHear(slave, W, m) /\ nack' = nack
    BY <1>6, Moves, AckSteps DEF Acknowledged
  <2>2. AllHear(slave', W, m) /\ AllTold(slave', b)
    BY <1>5, <2>1, Going DEF Stays, StayAll
  <2> QED BY ONLY <1>1, <1>6, <2>1, <2>2 DEF Acknowledged, Stays
<1>7. CASE at = 2
  <2>1. ClockDriven /\ Scl /\ AllHear(slave, W, m)
    BY <1>7, Moves, AckSteps DEF Acknowledged
  <2>2. AllAck(slave', m) /\ AllTold(slave', b)
    BY <1>1, <1>2, <1>5, <2>1, Going DEF ClockDriven, FallAll
  <2> QED BY ONLY <1>1, <1>7, <2>1, <2>2 DEF Acknowledged, ClockDriven
<1>8. CASE at = 3
  <2>1. DataLetGo /\ ddr.SCL /\ AllAck(slave, m)
    BY <1>8, Moves, AckSteps DEF Acknowledged
  <2>2. AllAck(slave', m) /\ AllTold(slave', b)
    BY <1>4, <1>5, <2>1, Going DEF DataLetGo, StayAll
  <2> QED BY ONLY <1>1, <1>8, <2>1, <2>2 DEF Acknowledged, DataLetGo
<1>9. CASE at = 4
  <2>1. ClockLetGo /\ ddr.SCL /\ ~ddr.SDA /\ AllAck(slave, m)
    BY <1>9, Moves, AckSteps DEF Acknowledged
  <2>2. AllAck(slave', m) /\ AllTold(slave', b)
    BY <1>1, <1>2, <1>5, <2>1, Going DEF ClockLetGo, StayAll, RiseAll
  <2> QED BY ONLY <1>1, <1>9, <2>1, <2>2 DEF Acknowledged, ClockLetGo
<1>10. CASE at \in {5, 6, 7}
  <2>1. Stays /\ Scl /\ ~ddr.SCL /\ ~ddr.SDA /\ AllAck(slave, m)
    <3>1. Stays /\ (at = 5 => Scl)
      BY <1>10, Moves, AckSteps
    <3>2. (at # 5 => Scl) /\ ~ddr.SCL /\ ~ddr.SDA /\ AllAck(slave, m)
      BY ONLY Acknowledged, <1>10 DEF Acknowledged
    <3> QED BY <3>1, <3>2
  <2>2. AllAck(slave', m) /\ AllTold(slave', b)
    BY <1>5, <2>1, Going DEF Stays, StayAll
  <2>3. at \in {6, 7} /\ nack' => AllOff(slave)
    <3>1. CASE at = 6
      <4>1. nack' <=> Sda
        BY <3>1, Moves, AckSteps
      <4> QED BY <1>3, <2>1, <4>1, SdaOf
    <3>2. CASE at = 7
      <4>1. nack' = nack
        BY <3>2, Moves, AckSteps
      <4>2. nack => AllOff(slave)
        BY ONLY Acknowledged, <3>2 DEF Acknowledged
      <4> QED BY <4>1, <4>2
    <3> QED BY <3>1, <3>2
  <2>4. at \in {6, 7} /\ nack' => AllOff(slave')
    BY <2>1, <2>3, Going DEF Stays, StayAll
  <2> QED BY ONLY <1>1, <1>10, <2>1, <2>2, <2>4 DEF Acknowledged, Stays
<1>11. CASE at = 8
  <2>1. ClockDriven /\ Scl /\ AllAck(slave, m) /\ nack' = nack /\ (nack => AllOff(slave))
    BY <1>11, Moves, AckSteps DEF Acknowledged
  <2>2. FallAll(slave, slave')
    BY <2>1, Going DEF ClockDriven
  <2>3. nack' => AllOff(slave')
    BY <2>1, <2>2 DEF FallAll
  <2>4. stage = "read_address" => AllSend(slave', 0)
    <3>1. stage = "read_address" => m = ForAddress /\ b = 1
      BY DEF Heard
    <3> QED BY <1>5, <2>1, <2>2, <3>1 DEF FallAll
  <2>5. stage # "read_address" => AllHear(slave', 0, ForData)
    <3>1. stage # "read_address" => m = ForData \/ (m = ForAddress /\ b = 0)
      BY DEF Heard
    <3> QED BY <1>5, <2>1, <2>2, <3>1 DEF FallAll
  <2>6. ~ddr.SDA
    BY <1>11 DEF Acknowledged
  <2> QED BY ONLY <1>1, <1>11, <2>1, <2>3, <2>4, <2>5, <2>6 DEF Acknowledged, ClockDriven
<1> QED BY <1>0, <1>6, <1>7, <1>8, <1>9, <1>10, <1>11

LEMMA MoreGoes ==
  ASSUME IInv, IInv', SlavesTyped, Access, routine = "more", GoingOn
  PROVE  GoingOn'
<1>0. at \in {1, 2, 3, 4, 5, 6, 7, 8, 9}
  <2>1. at \in Nat \ {0} /\ at <= 9
    BY Going, MoreSteps
  <2> QED BY ONLY <2>1
<1>1. /\ at' = at + 1 /\ Scl \in BOOLEAN /\ Scl' \in BOOLEAN
      /\ ddr.SCL \in BOOLEAN /\ ddr.SDA \in BOOLEAN /\ ddr'.SCL \in BOOLEAN /\ ddr'.SDA \in BOOLEAN
  BY Going
<1>3. PortTyped /\ NeverDrivesHigh
  BY DEF IInv
<1>4. (ddr.SCL => ~Scl) /\ (ddr.SDA => ~Sda)
  BY <1>3, SdaOf
<1>5. CASE at = 1
  <2>1. Stays /\ Scl /\ AllSend(slave, W)
    BY <1>5, Moves, MoreSteps DEF GoingOn
  <2>2. AllSend(slave', W)
    BY <2>1, Going DEF Stays, StayAll
  <2> QED BY ONLY <1>1, <1>5, <2>1, <2>2 DEF GoingOn, Stays
<1>6. CASE at = 2
  <2>1. ClockDriven /\ Scl /\ AllSend(slave, W)
    BY <1>6, Moves, MoreSteps DEF GoingOn
  <2>2. AllOver(slave', W)
    BY <2>1, Going DEF ClockDriven, FallAll
  <2> QED BY ONLY <1>1, <1>6, <2>1, <2>2 DEF GoingOn, ClockDriven
<1>7. CASE at = 3
  <2>1. Stays /\ ddr.SCL /\ AllOver(slave, W)
    BY <1>7, Moves, MoreSteps DEF GoingOn
  <2>2. AllOver(slave', W)
    BY <2>1, Going DEF Stays, StayAll
  <2> QED BY ONLY <1>1, <1>7, <2>1, <2>2 DEF GoingOn, Stays
<1>8. CASE at = 4
  <2>1. DataDriven /\ ddr.SCL /\ AllOver(slave, W)
    BY <1>8, Moves, MoreSteps DEF GoingOn
  <2>2. AllOver(slave', W)
    BY <1>4, <2>1, Going DEF DataDriven, StayAll
  <2> QED BY ONLY <1>1, <1>8, <2>1, <2>2 DEF GoingOn, DataDriven
<1>9. CASE at = 5
  <2>1. ClockLetGo /\ ddr.SCL /\ ddr.SDA /\ AllOver(slave, W)
    BY <1>9, Moves, MoreSteps DEF GoingOn
  <2>2. ~Sda
    BY <1>4, <2>1
  <2>3. IF Scl' THEN AllOver(slave', W + 1) ELSE AllOver(slave', W)
    BY <2>1, <2>2, Going DEF ClockLetGo, StayAll, RiseAll
  <2> QED BY ONLY <1>1, <1>9, <2>1, <2>3 DEF GoingOn, ClockLetGo
<1>10. CASE at \in {6, 7}
  <2>1. Stays /\ Scl /\ ~ddr.SCL /\ ddr.SDA
    BY <1>10, Moves, MoreSteps DEF GoingOn
  <2>2. AllOver(slave, W + 1)
    BY <1>10, <2>1 DEF GoingOn
  <2>3. AllOver(slave', W + 1)
    BY <2>1, <2>2, Going DEF Stays, StayAll
  <2> QED BY ONLY <1>1, <1>10, <2>1, <2>3 DEF GoingOn, Stays
<1>11. CASE at = 8
  <2>1. ClockDriven /\ Scl
    BY <1>11, Moves, MoreSteps DEF GoingOn
  <2>2. AllOver(slave, W + 1)
    BY <1>11, <2>1 DEF GoingOn
  <2>3. AllSend(slave', 0)
    BY <2>1, <2>2, Going DEF ClockDriven, FallAll
  <2> QED BY ONLY <1>1, <1>11, <2>1, <2>3 DEF GoingOn, ClockDriven
<1>12. CASE at = 9
  <2>1. DataLetGo /\ ddr.SCL /\ AllSend(slave, 0)
    BY <1>12, Moves, MoreSteps DEF GoingOn
  <2>2. AllSend(slave', 0)
    BY <1>4, <2>1, Going DEF DataLetGo, StayAll
  <2> QED BY ONLY <1>1, <1>12, <2>1, <2>2 DEF GoingOn, DataLetGo
<1> QED BY <1>0, <1>5, <1>6, <1>7, <1>8, <1>9, <1>10, <1>11, <1>12

LEMMA LastGoes ==
  ASSUME IInv, IInv', SlavesTyped, Access, routine = "last", Ending
  PROVE  Ending'
<1>0. at \in {1, 2, 3, 4, 5, 6, 7, 8}
  <2>1. at \in Nat \ {0} /\ at <= 8
    BY Going, LastSteps
  <2> QED BY ONLY <2>1
<1>1. /\ at' = at + 1 /\ Scl \in BOOLEAN /\ Scl' \in BOOLEAN
      /\ ddr.SCL \in BOOLEAN /\ ddr.SDA \in BOOLEAN /\ ddr'.SCL \in BOOLEAN /\ ddr'.SDA \in BOOLEAN
  BY Going
<1>3. PortTyped /\ NeverDrivesHigh
  BY DEF IInv
<1>4. ddr.SCL => ~Scl
  BY <1>3, SdaOf
<1>5. CASE at = 1
  <2>1. Stays /\ Scl /\ AllSend(slave, W)
    BY <1>5, Moves, LastSteps DEF Ending
  <2>2. AllSend(slave', W)
    BY <2>1, Going DEF Stays, StayAll
  <2> QED BY ONLY <1>1, <1>5, <2>1, <2>2 DEF Ending, Stays
<1>6. CASE at = 2
  <2>1. ClockDriven /\ Scl /\ AllSend(slave, W)
    BY <1>6, Moves, LastSteps DEF Ending
  <2>2. AllOver(slave', W)
    BY <2>1, Going DEF ClockDriven, FallAll
  <2> QED BY ONLY <1>1, <1>6, <2>1, <2>2 DEF Ending, ClockDriven
<1>7. CASE at = 3
  <2>1. DataLetGo /\ ddr.SCL /\ AllOver(slave, W)
    BY <1>7, Moves, LastSteps DEF Ending
  <2>2. AllOver(slave', W)
    BY <1>4, <2>1, Going DEF DataLetGo, StayAll
  <2> QED BY ONLY <1>1, <1>7, <2>1, <2>2 DEF Ending, DataLetGo
<1>8. CASE at = 4
  <2>1. ClockLetGo /\ ddr.SCL /\ ~ddr.SDA /\ AllOver(slave, W)
    BY <1>8, Moves, LastSteps DEF Ending
  <2>2. Sda
    BY <1>3, <2>1, SdaOf
  <2>3. IF Scl' THEN AllOff(slave') ELSE AllOver(slave', W)
    BY <2>1, <2>2, Going DEF ClockLetGo, StayAll, RiseAll
  <2> QED BY ONLY <1>1, <1>8, <2>1, <2>3 DEF Ending, ClockLetGo
<1>9. CASE at \in {5, 6}
  <2>1. Stays /\ Scl /\ ~ddr.SCL /\ ~ddr.SDA
    BY <1>9, Moves, LastSteps DEF Ending
  <2>2. AllOff(slave)
    BY <1>9, <2>1 DEF Ending
  <2>3. AllOff(slave')
    BY <2>1, <2>2, Going DEF Stays, StayAll
  <2> QED BY ONLY <1>1, <1>9, <2>1, <2>3 DEF Ending, Stays
<1>10. CASE at = 7
  <2>1. ClockDriven /\ Scl
    BY <1>10, Moves, LastSteps DEF Ending
  <2>2. AllOff(slave)
    BY <1>10, <2>1 DEF Ending
  <2>3. AllOff(slave')
    BY <2>1, <2>2, Going DEF ClockDriven, FallAll
  <2> QED BY ONLY <1>1, <1>10, <2>1, <2>3 DEF Ending, ClockDriven
<1>11. CASE at = 8
  <2>1. DataLetGo /\ ddr.SCL /\ AllOff(slave)
    BY <1>11, Moves, LastSteps DEF Ending
  <2>2. AllOff(slave')
    BY <1>4, <2>1, Going DEF DataLetGo, StayAll
  <2> QED BY ONLY <1>1, <1>11, <2>1, <2>2 DEF Ending, DataLetGo
<1> QED BY <1>0, <1>5, <1>6, <1>7, <1>8, <1>9, <1>10, <1>11

-----------------------------------------------------------------------------
(* A device lets go of the clock.                                          *)

LEMMA LettingGo ==
  ASSUME IInv, SlavesTyped, NEW d \in Devices, LetGo(d)
  PROVE  /\ SlavesTyped' /\ ~Scl /\ Scl' \in BOOLEAN /\ UNCHANGED <<port, engine, driver>>
         /\ IF Scl' THEN ~ddr.SCL /\ RiseAll(slave, slave', Sda) ELSE StayAll(slave, slave')
<1> DEFINE s == [slave EXCEPT ![d].scl = FALSE]
<1>1. PortTyped /\ NeverDrivesHigh /\ PortTyped' /\ NeverDrivesHigh' /\ UNCHANGED <<port, engine, driver>>
  BY DEF LetGo, IInv, PortTyped, NeverDrivesHigh, port, engine
<1>2. /\ Scl <=> ~ddr.SCL /\ \A v \in Devices : ~slave[v].scl
      /\ Scl' <=> ~ddr'.SCL /\ \A v \in Devices : ~slave'[v].scl
  BY <1>1, Levels, LevelsAfter
<1>3. /\ slave[d].scl /\ ddr' = ddr
      /\ slave' = IF Level("SCL", ddr, latch, s) THEN [v \in Devices |-> Rises(s[v], Sda)] ELSE s
  BY DEF LetGo, port, Sda
<1>4. Sda \in BOOLEAN /\ ddr.SCL \in BOOLEAN
  BY <1>1, LevelTyped DEF PortTyped, Lines, Sda, LevelNow
<1>10. Scl' \in BOOLEAN
  BY <1>1, LevelTyped DEF PortTyped, Lines, Scl, LevelNow
<1>5. ASSUME NEW v \in Devices
      PROVE  /\ s[v] \in Slave /\ slave[v] \in Slave
             /\ s[v].mode = slave[v].mode /\ s[v].n = slave[v].n /\ s[v].byte = slave[v].byte
             /\ s[v].sda = slave[v].sda
  <2>1. slave[v] \in Slave /\ slave[d] \in Slave /\ slave \in [Devices -> Slave]
    BY DEF SlavesTyped
  <2>2. s[v] = IF v = d THEN [slave[v] EXCEPT !.scl = FALSE] ELSE slave[v]
    BY <2>1
  <2> HIDE DEF s
  <2> QED BY <2>1, <2>2 DEF Slave
<1>6. s = [v \in Devices |-> s[v]]
  BY DEF SlavesTyped
<1> HIDE DEF s
<1>7. StayAll(slave, s)
  <2>1. \A v \in Devices : /\ Off(slave[v]) => Off(s[v])
                           /\ Quiet(slave[v]) => Quiet(s[v])
                           /\ \A k, m : Hears(slave[v], k, m) => Hears(s[v], k, m)
                           /\ \A m : Acks(slave[v], m) => Acks(s[v], m)
                           /\ \A k : Sends(slave[v], k) => Sends(s[v], k)
                           /\ \A k : Over(slave[v], k) => Over(s[v], k)
                           /\ \A b : Told(slave[v], b) => Told(s[v], b)
    BY <1>5 DEF Off, Quiet, Hears, Acks, Sends, Over, Told
  <2> QED BY <2>1 DEF StayAll, AllOff, AllQuiet, AllHear, AllAck, AllSend, AllOver, AllTold
<1>8. CASE Level("SCL", ddr, latch, s)
  <2>1. \A v \in Devices : slave'[v] = Rises(s[v], Sda)
    BY <1>3, <1>8
  <2>2. \A v \in Devices : RiseStep(s[v], slave'[v], Sda) /\ slave'[v] \in Slave /\ slave'[v].scl = s[v].scl
    BY <1>4, <1>5, <2>1, RisesFrom, RisesTyped
  <2>3. RiseAll(s, slave', Sda)
    BY <1>4, <2>2, RiseTogether
  <2>4. RiseAll(slave, slave', Sda)
    BY <1>7, <2>3 DEF RiseAll, StayAll
  <2>5. ~ddr.SCL /\ \A v \in Devices : ~s[v].scl
    BY <1>1, <1>8 DEF Level, NeverDrivesHigh, Lines
  <2>6. Scl'
    BY <1>2, <1>3, <2>2, <2>5
  <2>7. slave' \in [Devices -> Slave]
    BY <1>3, <1>8, <2>2
  <2> QED BY <1>1, <1>2, <1>3, <2>4, <2>5, <2>6, <2>7 DEF SlavesTyped
<1>9. CASE ~Level("SCL", ddr, latch, s)
  <2>1. slave' = s
    BY <1>3, <1>9
  <2>2. ~Scl'
    <3>1. ddr.SCL \/ \E v \in Devices : s[v].scl
      BY <1>9 DEF Level
    <3> QED BY <1>2, <1>3, <2>1, <3>1
  <2>3. slave' \in [Devices -> Slave]
    BY <1>5, <1>6, <2>1
  <2> QED BY <1>1, <1>2, <1>3, <1>7, <1>10, <2>1, <2>2, <2>3 DEF SlavesTyped
<1> QED BY <1>8, <1>9

\* Only where the master waits for the clock does it rise; elsewhere nothing changes.
LEMMA PhaseKept ==
  ASSUME IInv, SlavesTyped, Control, InPhase, NEW d \in Devices, LetGo(d)
  PROVE  InPhase'
<1>1. /\ ~Scl /\ Scl \in BOOLEAN /\ Scl' \in BOOLEAN
      /\ IF Scl' THEN ~ddr.SCL /\ RiseAll(slave, slave', Sda) ELSE StayAll(slave, slave')
      /\ ddr' = ddr /\ at' = at /\ bit' = bit /\ byte' = byte /\ nack' = nack /\ stage' = stage
      /\ routine' = routine
  <2>1. Scl \in BOOLEAN
    BY LevelTyped DEF IInv, PortTyped, Lines, Scl, LevelNow
  <2> QED BY <2>1, LettingGo DEF port, engine, driver
<1>2. PortTyped /\ NeverDrivesHigh
  BY DEF IInv
<1>3. at \in Nat \ {0} /\ ddr.SCL \in BOOLEAN /\ ddr.SDA \in BOOLEAN /\ W \in Nat /\ W >= 1
  BY <1>2, WidthPositive DEF PortTyped, Lines
<1>4. Heard(stage) \in {ForAddress, ForData}
  BY DEF Heard
<1>5. bit \in 1 .. W => bit - 1 \in 0 .. W - 1 /\ (bit - 1) + 1 = bit
  BY <1>3
<1>6. routine # "none"
  BY <1>1 DEF InPhase, Resting
<1>7. ASSUME routine = "i2c_start" PROVE Starting'
  <2>1. Starting
    BY <1>7 DEF InPhase
  <2>2. CASE Scl'
    <3>1. at = 3 /\ AllQuiet(slave) /\ ~ddr.SDA
      BY ONLY <1>1, <1>3, <2>1, <2>2 DEF Starting
    <3>2. AllQuiet(slave')
      BY <1>1, <2>2, <3>1 DEF RiseAll
    <3> QED BY ONLY <1>1, <2>2, <3>1, <3>2 DEF Starting
  <2>3. CASE ~Scl'
    <3>1. StayAll(slave, slave')
      BY <1>1, <2>3
    <3>2. /\ AllQuiet(slave) => AllQuiet(slave')
          /\ AllHear(slave, 0, ForAddress) => AllHear(slave', 0, ForAddress)
      BY <3>1 DEF StayAll
    <3> QED BY ONLY <1>1, <1>3, <2>1, <2>3, <3>2 DEF Starting
  <2> QED BY <2>2, <2>3
<1>8. ASSUME routine = "i2c_stop" PROVE Stopping'
  <2>1. Stopping
    BY <1>8 DEF InPhase
  <2>2. CASE Scl'
    <3>1. at = 4 /\ AllQuiet(slave) /\ ddr.SDA
      BY ONLY <1>1, <1>3, <2>1, <2>2 DEF Stopping
    <3>2. AllQuiet(slave')
      BY <1>1, <2>2, <3>1 DEF RiseAll
    <3> QED BY ONLY <1>1, <2>2, <3>1, <3>2 DEF Stopping
  <2>3. CASE ~Scl'
    <3>1. StayAll(slave, slave')
      BY <1>1, <2>3
    <3>2. (AllQuiet(slave) => AllQuiet(slave')) /\ (AllOff(slave) => AllOff(slave'))
      BY <3>1 DEF StayAll
    <3> QED BY ONLY <1>1, <1>3, <2>1, <2>3, <3>2 DEF Stopping
  <2> QED BY <2>2, <2>3
<1>9. ASSUME NEW one \in {0, 1}, NEW up \in {5, 6}, bit \in 1 .. W, Writing(one, up),
             up = IF one = 1 THEN 5 ELSE 6
      PROVE  Writing(one, up)'
  <2>1. CASE Scl'
    <3>1. at = up /\ AllHear(slave, bit - 1, Heard(stage)) /\ (ddr.SDA <=> one = 0) /\ ~ddr.SCL
      BY ONLY <1>1, <1>3, <1>9, <2>1 DEF Writing
    <3>2. Sda <=> one = 1
      BY <1>2, <1>3, <1>9, <3>1, SdaOf
    <3>3. AllHear(slave', bit, Heard(stage)) /\ AllTold(slave', one)
      <4>1. AllHear(slave', (bit - 1) + 1, Heard(stage)) /\ AllTold(slave', IF Sda THEN 1 ELSE 0)
        BY <1>1, <1>4, <1>5, <1>9, <2>1, <3>1 DEF RiseAll
      <4> QED BY <1>5, <1>9, <3>2, <4>1
    <3> QED BY ONLY <1>1, <1>9, <2>1, <3>1, <3>3 DEF Writing
  <2>2. CASE ~Scl'
    <3>1. AllHear(slave, bit - 1, Heard(stage))
      BY ONLY <1>1, <1>9 DEF Writing
    <3>2. AllHear(slave', bit - 1, Heard(stage))
      BY <1>1, <2>2, <3>1 DEF StayAll
    <3> QED BY ONLY <1>1, <1>3, <1>9, <2>2, <3>2 DEF Writing
  <2> QED BY <2>1, <2>2
<1>10. ASSUME routine = "ack" PROVE Acknowledged'
  <2> DEFINE m == Heard(stage)
             b == byte % 2
  <2>1. Acknowledged /\ b \in {0, 1}
    BY <1>10 DEF InPhase, Control
  <2>2. CASE Scl'
    <3>1. at = 5 /\ AllAck(slave, m) /\ AllTold(slave, b) /\ ~ddr.SDA
      BY ONLY <1>1, <1>3, <2>1, <2>2 DEF Acknowledged
    <3>2. AllAck(slave', m) /\ AllTold(slave', b)
      BY <1>1, <1>4, <2>1, <2>2, <3>1 DEF RiseAll
    <3> QED BY ONLY <1>1, <2>2, <3>1, <3>2 DEF Acknowledged
  <2>3. CASE ~Scl'
    <3>1. StayAll(slave, slave')
      BY <1>1, <2>3
    <3>2. /\ AllAck(slave, m) => AllAck(slave', m)
          /\ AllTold(slave, b) => AllTold(slave', b)
          /\ AllOff(slave) => AllOff(slave')
          /\ AllSend(slave, 0) => AllSend(slave', 0)
          /\ AllHear(slave, 0, ForData) => AllHear(slave', 0, ForData)
      BY <3>1 DEF StayAll
    <3> QED BY ONLY <1>1, <1>3, <2>1, <2>3, <3>2 DEF Acknowledged
  <2> QED BY <2>2, <2>3
<1>11. ASSUME routine = "listen" PROVE Listening'
  <2>1. Listening
    BY <1>11 DEF InPhase
  <2>2. StayAll(slave, slave') /\ AllSend(slave, 0)
    BY <1>1, <2>1 DEF Listening
  <2>3. AllSend(slave', 0)
    BY <2>2 DEF StayAll
  <2> QED BY ONLY <1>1, <2>1, <2>3 DEF Listening
<1>12. ASSUME routine = "read", bit \in 1 .. W PROVE Reading'
  <2>1. Reading
    BY <1>12 DEF InPhase
  <2>2. AllSend(slave, bit - 1)
    BY ONLY <1>1, <2>1 DEF Reading
  <2>3. CASE Scl'
    <3>1. at = 4
      BY ONLY <1>1, <1>3, <2>1, <2>3 DEF Reading
    <3>2. AllSend(slave', bit)
      BY <1>1, <1>5, <1>12, <2>2, <2>3 DEF RiseAll
    <3> QED BY ONLY <1>1, <2>3, <3>1, <3>2, <2>1 DEF Reading
  <2>4. CASE ~Scl'
    <3>1. AllSend(slave', bit - 1)
      BY <1>1, <2>2, <2>4 DEF StayAll
    <3> QED BY ONLY <1>1, <1>3, <2>1, <2>4, <3>1 DEF Reading
  <2> QED BY <2>3, <2>4
<1>13. ASSUME routine = "more" PROVE GoingOn'
  <2>1. GoingOn
    BY <1>13 DEF InPhase
  <2>2. CASE Scl'
    <3>1. at = 6 /\ AllOver(slave, W) /\ ddr.SDA
      BY ONLY <1>1, <1>3, <2>1, <2>2 DEF GoingOn
    <3>2. AllOver(slave', W + 1)
      BY <1>1, <1>2, <2>2, <3>1, SdaOf DEF RiseAll
    <3> QED BY ONLY <1>1, <2>2, <3>1, <3>2 DEF GoingOn
  <2>3. CASE ~Scl'
    <3>1. StayAll(slave, slave')
      BY <1>1, <2>3
    <3>2. (AllOver(slave, W) => AllOver(slave', W)) /\ (AllSend(slave, 0) => AllSend(slave', 0))
      BY <3>1 DEF StayAll
    <3> QED BY ONLY <1>1, <1>3, <2>1, <2>3, <3>2 DEF GoingOn
  <2> QED BY <2>2, <2>3
<1>14. ASSUME routine = "last" PROVE Ending'
  <2>1. Ending
    BY <1>14 DEF InPhase
  <2>2. CASE Scl'
    <3>1. at = 5 /\ AllOver(slave, W) /\ ~ddr.SDA
      BY ONLY <1>1, <1>3, <2>1, <2>2 DEF Ending
    <3>2. AllOff(slave')
      BY <1>1, <1>2, <2>2, <3>1, SdaOf DEF RiseAll
    <3> QED BY ONLY <1>1, <2>2, <3>1, <3>2 DEF Ending
  <2>3. CASE ~Scl'
    <3>1. StayAll(slave, slave')
      BY <1>1, <2>3
    <3>2. (AllOver(slave, W) => AllOver(slave', W)) /\ (AllOff(slave) => AllOff(slave'))
      BY <3>1 DEF StayAll
    <3> QED BY ONLY <1>1, <1>3, <2>1, <2>3, <3>2 DEF Ending
  <2> QED BY <2>2, <2>3
<1>15. routine \in {"write0", "write1", "read"} => bit \in 1 .. W
  BY DEF Control
<1>16. /\ routine = "write1" => Writing(1, 5)'
       /\ routine = "write0" => Writing(0, 6)'
  <2>1. /\ routine = "write1" => Writing(1, 5)
        /\ routine = "write0" => Writing(0, 6)
    BY DEF InPhase
  <2>2. /\ Writing(1, 5) /\ bit \in 1 .. W => Writing(1, 5)'
        /\ Writing(0, 6) /\ bit \in 1 .. W => Writing(0, 6)'
    BY <1>9
  <2> QED BY <1>15, <2>1, <2>2
<1> QED BY ONLY <1>1, <1>6, <1>7, <1>8, <1>10, <1>11, <1>12, <1>13, <1>14, <1>15, <1>16 DEF InPhase

-----------------------------------------------------------------------------
(* The invariant holds on.                                                 *)

FInv == IInv /\ SlavesTyped /\ Control /\ InPhase

LEMMA LastBit == \A b \in Nat : BitOf(b, W - 1) = b % 2
<1>1. Pow2[W - 1 - (W - 1)] = 1
  <2>1. W - 1 - (W - 1) = 0
    BY WidthPositive
  <2>2. Pow2[0] = 1
    BY Pow2Is
  <2> QED BY <2>1, <2>2
<1>2. \A b \in Nat : b \div 1 = b
  OBVIOUS
<1> QED BY <1>1, <1>2 DEF BitOf

LEMMA SampleTyped ==
  ASSUME IInv, Access, byte \in Nat, nack \in BOOLEAN
  PROVE  byte' \in Nat /\ nack' \in BOOLEAN /\ (routine # "read" => byte' = byte)
<1>1. LevelNow("SDA") \in BOOLEAN
  BY LevelTyped DEF IInv, PortTyped, Lines, LevelNow
<1>2. 2 * byte + (IF LevelNow("SDA") THEN 1 ELSE 0) \in Nat
  OBVIOUS
<1> QED BY <1>1, <1>2 DEF Access, Clear, Drive, Release, Await, Sample

LEMMA AccessKeeps ==
  ASSUME FInv, IInv', Access
  PROVE  SlavesTyped' /\ Control' /\ InPhase'
<1>1. IInv /\ SlavesTyped /\ Control /\ InPhase
  BY DEF FInv
<1>2. SlavesTyped' /\ routine' = routine /\ bit' = bit /\ UNCHANGED driver /\ routine # "none"
  BY <1>1, Moves DEF Access
<1>3. byte' \in Nat /\ nack' \in BOOLEAN /\ (routine # "read" => byte' = byte)
  BY <1>1, SampleTyped DEF Control
<1>4. /\ stage' = stage /\ done' = done /\ call' = call
  BY <1>2 DEF driver
<1>5. Wanted' = Wanted
  BY <1>4 DEF Wanted
<1>6. Control'
  BY ONLY <1>1, <1>2, <1>3, <1>4, <1>5 DEF Control
<1>7. InPhase'
  <2>1. routine = "i2c_start" => Starting'
    BY <1>1, StartGoes DEF InPhase
  <2>2. routine = "i2c_stop" => Stopping'
    BY <1>1, StopGoes DEF InPhase
  <2>3. routine = "write1" => Writing(1, 5)'
    BY <1>1, Write1Goes DEF InPhase, Control
  <2>4. routine = "write0" => Writing(0, 6)'
    BY <1>1, Write0Goes DEF InPhase, Control
  <2>5. routine = "ack" => Acknowledged'
    BY <1>1, AckGoes DEF InPhase, Control
  <2>6. routine = "listen" => Listening'
    BY <1>1, ListenGoes DEF InPhase
  <2>7. routine = "read" => Reading'
    BY <1>1, ReadGoes DEF InPhase, Control
  <2>8. routine = "more" => GoingOn'
    BY <1>1, MoreGoes DEF InPhase
  <2>9. routine = "last" => Ending'
    BY <1>1, LastGoes DEF InPhase
  <2> QED BY ONLY <1>2, <2>1, <2>2, <2>3, <2>4, <2>5, <2>6, <2>7, <2>8, <2>9 DEF InPhase
<1> QED BY <1>2, <1>6, <1>7

LEMMA LetGoKeeps ==
  ASSUME FInv, NEW d \in Devices, LetGo(d)
  PROVE  SlavesTyped' /\ Control' /\ InPhase'
<1>1. IInv /\ SlavesTyped /\ Control /\ InPhase
  BY DEF FInv
<1>2. SlavesTyped' /\ UNCHANGED <<port, engine, driver>>
  BY <1>1, LettingGo
<1>3. Wanted' = Wanted
  BY <1>2 DEF driver, Wanted
<1>4. Control'
  BY <1>1, <1>2, <1>3 DEF engine, driver, Control
<1> QED BY <1>1, <1>2, <1>4, PhaseKept

-----------------------------------------------------------------------------
(* From one routine to the next.                                           *)

\* Between two accesses the lines and the devices are as they were.
LEMMA Between ==
  ASSUME UNCHANGED <<port, slave>>
  PROVE  /\ ddr' = ddr /\ slave' = slave /\ Scl' = Scl
         /\ SlavesTyped => SlavesTyped'
BY DEF port, Scl, LevelNow, SlavesTyped, Level

LEMMA Begins ==
  /\ \A m : AllOff(slave) => AllHear(slave, 0, m)
  /\ AllOff(slave) => AllQuiet(slave)
  /\ AllHear(slave, 0, ForAddress) => AllQuiet(slave)
  /\ AllHear(slave, 0, ForData) => AllQuiet(slave)
BY DEF AllOff, AllHear, AllQuiet, Off, Hears, Quiet, ForAddress, ForData

LEMMA WantedSome ==
  ASSUME Control, stage # "idle"
  PROVE  /\ Wanted \in Int /\ call \in Calls /\ call.reg \in Nat
         /\ call.fn = "ds1307_read" => Wanted > 0
<1>1. call \in Calls /\ ~OutOfRange(call)
  BY DEF Control
<1>2. /\ call.reg \in Byte /\ call.n \in Nat /\ NREG \in Nat
      /\ call.fn = "ds1307_read" => call.n > 0
  BY <1>1, CallsAssumption, WidthAssumption
<1>3. call.reg \in Nat
  BY <1>2 DEF Byte
<1>4. call.fn = "ds1307_read" => call.reg < NREG
  BY <1>1, <1>2, <1>3 DEF OutOfRange
<1> QED BY <1>1, <1>2, <1>3, <1>4 DEF Wanted, Clamp

\* A byte goes out: its first bit is next.
LEMMA WriteBegins ==
  ASSUME NEW b \in Nat, Write(b), UNCHANGED <<port, slave>>, ddr.SCL,
         AllHear(slave, 0, Heard(stage'))
  PROVE  /\ byte' = b /\ bit' = 1 /\ at' = 1 /\ routine' \in {"write0", "write1"}
         /\ routine' = "write1" => BitOf(b, 0) = 1
         /\ routine' = "write0" => BitOf(b, 0) # 1
         /\ InPhase'
<1>1. /\ byte' = b /\ bit' = 1 /\ at' = 1 /\ routine' \in {"write0", "write1"}
      /\ routine' = "write1" => BitOf(b, 0) = 1
      /\ routine' = "write0" => BitOf(b, 0) # 1
  BY DEF Write, WriteBit, Run
<1>2. ddr' = ddr /\ slave' = slave
  BY Between
<1>3. bit' - 1 = 0
  BY <1>1
<1>4. AllHear(slave', bit' - 1, Heard(stage'))
  BY <1>2, <1>3
<1>5. Writing(1, 5)' /\ Writing(0, 6)'
  BY ONLY <1>1, <1>2, <1>4, ddr.SCL DEF Writing
<1> QED BY ONLY <1>1, <1>5 DEF InPhase

LEMMA StopBegins ==
  ASSUME Stop, UNCHANGED <<port, slave>>, ddr.SCL, AllQuiet(slave)
  PROVE  InPhase' /\ routine' = "i2c_stop" /\ stage' = "stop" /\ byte' = byte /\ bit' = bit
<1>1. at' = 1 /\ routine' = "i2c_stop" /\ stage' = "stop" /\ byte' = byte /\ bit' = bit
  BY DEF Stop, Run
<1>2. ddr' = ddr /\ slave' = slave
  BY Between
<1>3. Stopping'
  BY ONLY <1>1, <1>2, ddr.SCL, AllQuiet(slave) DEF Stopping
<1> QED BY ONLY <1>1, <1>3 DEF InPhase

LEMMA ListenBegins ==
  ASSUME Listen, UNCHANGED <<port, slave>>, ddr.SCL, AllSend(slave, 0)
  PROVE  InPhase' /\ routine' = "listen" /\ byte' = 0 /\ bit' = 0
<1>1. at' = 1 /\ routine' = "listen" /\ byte' = 0 /\ bit' = 0
  BY DEF Listen, Run
<1>2. ddr' = ddr /\ slave' = slave
  BY Between
<1>3. Listening'
  BY ONLY <1>1, <1>2, ddr.SCL, AllSend(slave, 0) DEF Listening
<1> QED BY ONLY <1>1, <1>3 DEF InPhase

LEMMA SendOnKeeps ==
  ASSUME FInv, SendOn, UNCHANGED <<port, slave>>
  PROVE  Control' /\ InPhase'
<1> DEFINE one == IF routine = "write1" THEN 1 ELSE 0
<1>1. IInv /\ SlavesTyped /\ Control /\ InPhase
  BY DEF FInv
<1>2. /\ routine \in {"write0", "write1"} /\ bit \in 1 .. W /\ byte \in Nat /\ W \in Nat
      /\ routine = "write1" => BitOf(byte, bit - 1) = 1
      /\ routine = "write0" => BitOf(byte, bit - 1) # 1
      /\ at \in Nat
  BY <1>1, WidthPositive DEF SendOn, Control, IInv, PortTyped
<1>3. /\ ddr' = ddr /\ slave' = slave /\ Scl' = Scl /\ byte' = byte /\ nack' = nack
      /\ stage' = stage /\ done' = done /\ call' = call
  BY Between DEF SendOn, driver
<1>4. Scl /\ ~ddr.SCL /\ AllHear(slave, bit, Heard(stage)) /\ AllTold(slave, one)
  <2>1. CASE routine = "write1"
    <3>1. at > 5 /\ Writing(1, 5)
      BY <1>1, <2>1, Write1Steps DEF SendOn, Finished, InPhase
    <3> QED BY ONLY <1>2, <2>1, <3>1 DEF Writing
  <2>2. CASE routine = "write0"
    <3>1. at > 6 /\ Writing(0, 6)
      BY <1>1, <2>2, Write0Steps DEF SendOn, Finished, InPhase
    <3> QED BY ONLY <1>2, <2>2, <3>1 DEF Writing
  <2> QED BY <1>2, <2>1, <2>2
<1>5. Wanted' = Wanted
  BY <1>3 DEF Wanted
<1>6. CASE bit < W
  <2>1. WriteBit(byte, bit) /\ bit' = bit + 1
    BY <1>6 DEF SendOn, BitsLeft
  <2>2. /\ at' = 1 /\ routine' \in {"write0", "write1"}
        /\ routine' = "write1" => BitOf(byte, bit) = 1
        /\ routine' = "write0" => BitOf(byte, bit) # 1
    BY <2>1 DEF WriteBit, Run
  <2>3. bit' - 1 = bit /\ bit' \in 1 .. W
    BY <1>2, <1>6, <2>1
  <2>4. Writing(1, 5)' /\ Writing(0, 6)'
    BY ONLY <1>3, <1>4, <2>2, <2>3 DEF Writing
  <2>5. InPhase'
    BY ONLY <2>2, <2>4 DEF InPhase
  <2>7. /\ routine' = "write1" => BitOf(byte', bit' - 1) = 1
        /\ routine' = "write0" => BitOf(byte', bit' - 1) # 1
    BY ONLY <1>3, <2>2, <2>3
  <2>8. /\ stage' \in {"address", "read_address", "register", "data"}
        /\ bit' \in Nat /\ byte' \in Nat
    BY ONLY <1>1, <1>2, <1>3, <2>3 DEF Control
  <2>6. Control'
    BY ONLY <1>1, <1>3, <1>5, <2>2, <2>3, <2>7, <2>8 DEF Control
  <2> QED BY <2>5, <2>6
<1>7. CASE bit = W
  <2>1. routine' = "ack" /\ at' = 1 /\ bit' = bit
    BY <1>2, <1>7 DEF SendOn, BitsLeft, Run
  <2>2. one = byte % 2
    BY <1>2, <1>7, LastBit
  <2>3. AllHear(slave, W, Heard(stage)) /\ AllTold(slave, byte % 2)
    BY <1>4, <1>7, <2>2
  <2>4. Acknowledged'
    BY ONLY <1>3, <1>4, <2>1, <2>3 DEF Acknowledged
  <2>5. InPhase'
    BY ONLY <2>1, <2>4 DEF InPhase
  <2>6. Control'
    BY ONLY <1>1, <1>2, <1>3, <1>5, <1>7, <2>1 DEF Control
  <2> QED BY <2>5, <2>6
<1> QED BY <1>2, <1>6, <1>7

LEMMA ReceiveOnKeeps ==
  ASSUME FInv, ReceiveOn, UNCHANGED <<port, slave>>
  PROVE  Control' /\ InPhase'
<1>1. IInv /\ SlavesTyped /\ Control /\ InPhase
  BY DEF FInv
<1>2. /\ routine \in {"listen", "read"} /\ bit \in 0 .. W /\ byte \in Nat /\ W \in Nat /\ W >= 1
      /\ stage = "read"
      /\ routine = "listen" => bit = 0
      /\ at \in Nat
  BY <1>1, WidthPositive DEF ReceiveOn, Control, IInv, PortTyped
<1>3. /\ ddr' = ddr /\ slave' = slave /\ Scl' = Scl /\ byte' = byte /\ nack' = nack
      /\ stage' = stage /\ done' = done /\ call' = call
  BY Between DEF ReceiveOn, driver
<1>4. (ddr.SCL \/ Scl) /\ AllSend(slave, bit) /\ (routine = "read" => Scl)
  <2>1. CASE routine = "listen"
    <3>1. Listening /\ bit = 0
      BY <1>1, <1>2, <2>1 DEF InPhase, Control
    <3> QED BY ONLY <2>1, <3>1 DEF Listening
  <2>2. CASE routine = "read"
    <3>1. at > 5 /\ Reading
      BY <1>1, <2>2, ReadSteps DEF ReceiveOn, Finished, InPhase
    <3> QED BY ONLY <1>2, <2>2, <3>1 DEF Reading
  <2> QED BY <1>2, <2>1, <2>2
<1>5. Wanted' = Wanted
  BY <1>3 DEF Wanted
<1>6. CASE bit < W
  <2>1. routine' = "read" /\ at' = 1 /\ bit' = bit + 1
    BY <1>6 DEF ReceiveOn, BitsLeft, Run
  <2>2. bit' - 1 = bit /\ bit' \in 1 .. W
    BY <1>2, <1>6, <2>1
  <2>3. Reading'
    BY ONLY <1>3, <1>4, <2>1, <2>2 DEF Reading
  <2>4. InPhase'
    BY ONLY <2>1, <2>3 DEF InPhase
  <2>5. Control'
    BY ONLY <1>1, <1>2, <1>3, <1>5, <2>1, <2>2 DEF Control
  <2> QED BY <2>4, <2>5
<1>7. CASE bit = W
  <2>1. at' = 1 /\ bit' = bit /\ routine' = IF LastByte THEN "last" ELSE "more"
    BY <1>2, <1>7 DEF ReceiveOn, BitsLeft, Run
  <2>2. Wanted \in Int /\ done \in Nat
    BY <1>1, <1>2, WantedSome DEF Control
  <2>3. LastByte <=> done + 1 = Wanted
    BY <2>2 DEF LastByte, Wanted
  <2>4. Scl /\ AllSend(slave, W)
    BY <1>2, <1>4, <1>7
  <2>5. GoingOn' /\ Ending'
    BY ONLY <1>3, <2>1, <2>4 DEF GoingOn, Ending
  <2>6. InPhase'
    BY ONLY <2>1, <2>5 DEF InPhase
  <2>7. Control'
    BY ONLY <1>1, <1>2, <1>3, <1>5, <1>7, <2>1, <2>3 DEF Control
  <2> QED BY <2>6, <2>7
<1> QED BY <1>2, <1>6, <1>7

LEMMA ReceivedKeeps ==
  ASSUME FInv, Received, UNCHANGED <<port, slave>>
  PROVE  Control' /\ InPhase'
<1>1. IInv /\ SlavesTyped /\ Control /\ InPhase
  BY DEF FInv
<1>2. /\ routine \in {"more", "last"} /\ stage = "read" /\ done \in Nat /\ done < Wanted
      /\ routine = "last" => done + 1 = Wanted
      /\ routine = "more" => done + 1 # Wanted
      /\ byte \in Nat /\ bit \in Nat /\ nack \in BOOLEAN /\ call.fn = "ds1307_read"
  BY <1>1 DEF Received, Control
<1>3. done' = done + 1 /\ nack' = nack /\ call' = call /\ Wanted' = Wanted
  BY DEF Received, Wanted
<1>4. Wanted \in Int
  BY <1>1, <1>2, WantedSome
<1>5. CASE routine = "more"
  <2>1. at > 9 /\ GoingOn /\ at \in Nat
    BY <1>1, <1>5, MoreSteps DEF Received, Finished, InPhase, IInv, PortTyped
  <2>2. ddr.SCL /\ AllSend(slave, 0)
    BY ONLY <2>1 DEF GoingOn
  <2>3. done + 1 < Wanted
    BY <1>2, <1>4, <1>5
  <2>4. Listen /\ stage' = stage
    BY <2>3 DEF Received, Wanted
  <2>5. InPhase' /\ routine' = "listen" /\ byte' = 0 /\ bit' = 0
    BY <2>2, <2>4, ListenBegins
  <2>6. Control'
    BY ONLY <1>1, <1>2, <1>3, <2>3, <2>4, <2>5 DEF Control
  <2> QED BY <2>5, <2>6
<1>6. CASE routine = "last"
  <2>1. at > 8 /\ Ending /\ at \in Nat
    BY <1>1, <1>6, LastSteps DEF Received, Finished, InPhase, IInv, PortTyped
  <2>2. ddr.SCL /\ AllOff(slave)
    BY ONLY <2>1 DEF Ending
  <2>3. Stop
    BY <1>2, <1>4, <1>6 DEF Received, Wanted
  <2>4. InPhase' /\ routine' = "i2c_stop" /\ stage' = "stop" /\ byte' = byte /\ bit' = bit
    BY <2>2, <2>3, Begins, StopBegins
  <2>5. Control'
    BY ONLY <1>1, <1>2, <1>3, <2>4 DEF Control, Stages
  <2> QED BY <2>4, <2>5
<1> QED BY <1>2, <1>5, <1>6

\* Control, where a byte begins to go out.
LEMMA WriteControls ==
  ASSUME Control, stage # "idle", NEW b \in Nat, byte' = b, bit' = 1, W \in Nat, W >= 1,
         routine' \in {"write0", "write1"},
         routine' = "write1" => BitOf(b, 0) = 1, routine' = "write0" => BitOf(b, 0) # 1,
         stage' \in {"address", "read_address", "register", "data"},
         stage' = "address" => b % 2 = 0, stage' = "read_address" => b % 2 = 1,
         stage' = "read_address" => call.fn = "ds1307_read",
         done' \in Nat, stage' # "data" => done' = 0, nack' = nack, call' = call
  PROVE  Control'
<1>1. bit' - 1 = 0 /\ bit' \in 1 .. W /\ bit' \in Nat
  OBVIOUS
<1>2. /\ routine' = "write1" => BitOf(byte', bit' - 1) = 1
      /\ routine' = "write0" => BitOf(byte', bit' - 1) # 1
  BY <1>1
<1>3. call' \in Calls /\ ~OutOfRange(call') /\ nack' \in BOOLEAN
  BY DEF Control
<1>4. /\ stage' = "address" => byte' % 2 = 0
      /\ stage' = "read_address" => byte' % 2 = 1
      /\ stage' = "read_address" => call'.fn = "ds1307_read"
      /\ byte' \in Nat
  OBVIOUS
<1>5. stage' \in Stages
  BY DEF Stages
<1> QED
  BY ONLY <1>1, <1>2, <1>3, <1>4, <1>5, routine' \in {"write0", "write1"}, done' \in Nat,
          stage' # "data" => done' = 0, stage' \in {"address", "read_address", "register", "data"}
     DEF Control

LEMMA StartedKeeps ==
  ASSUME FInv, Started, UNCHANGED <<port, slave>>
  PROVE  Control' /\ InPhase'
<1>1. IInv /\ SlavesTyped /\ Control /\ InPhase
  BY DEF FInv
<1>2. routine = "i2c_start" /\ stage \in {"start", "restart"} /\ done = 0 /\ W \in Nat /\ W >= 1
  BY <1>1, WidthPositive DEF Started, Finished, Control
<1>3. nack' = nack /\ call' = call /\ done' = done
  BY DEF Started
<1>4. ddr.SCL /\ AllHear(slave, 0, ForAddress)
  <2>1. at > 7 /\ Starting /\ at \in Nat
    BY <1>1, <1>2, StartSteps DEF Started, Finished, InPhase, IInv, PortTyped
  <2> QED BY ONLY <2>1 DEF Starting
<1>5. 2 * Address[call.dev] \in Nat /\ 2 * Address[call.dev] + 1 \in Nat
      /\ (2 * Address[call.dev]) % 2 = 0 /\ (2 * Address[call.dev] + 1) % 2 = 1
  <2>1. call.dev \in Devices
    BY <1>1, <1>2, CallsAssumption DEF Control
  <2>2. Address[call.dev] \in 0 .. Pow2[W - 1] - 1
    BY <2>1, AddressAssumption
  <2>3. Address[call.dev] \in Nat
    BY <2>2
  <2> QED BY <2>3
<1>6. CASE stage = "start"
  <2>1. Write(2 * Address[call.dev]) /\ stage' = "address"
    BY <1>6 DEF Started
  <2>2. AllHear(slave, 0, Heard(stage'))
    BY <1>4, <2>1 DEF Heard
  <2> HIDE DEF Write
  <2>3. /\ byte' = 2 * Address[call.dev] /\ bit' = 1 /\ routine' \in {"write0", "write1"}
        /\ routine' = "write1" => BitOf(2 * Address[call.dev], 0) = 1
        /\ routine' = "write0" => BitOf(2 * Address[call.dev], 0) # 1
        /\ InPhase'
    BY <1>4, <1>5, <2>1, <2>2, WriteBegins
  <2>4. Control'
    BY <1>1, <1>2, <1>3, <1>5, <2>1, <2>3, WriteControls
  <2> QED BY <2>3, <2>4
<1>7. CASE stage = "restart"
  <2>1. Write(2 * Address[call.dev] + 1) /\ stage' = "read_address" /\ call.fn = "ds1307_read"
    BY <1>1, <1>7 DEF Started, Control
  <2>2. AllHear(slave, 0, Heard(stage'))
    BY <1>4, <2>1 DEF Heard
  <2>3. /\ byte' = 2 * Address[call.dev] + 1 /\ bit' = 1 /\ routine' \in {"write0", "write1"}
        /\ routine' = "write1" => BitOf(2 * Address[call.dev] + 1, 0) = 1
        /\ routine' = "write0" => BitOf(2 * Address[call.dev] + 1, 0) # 1
        /\ InPhase'
    BY <1>4, <1>5, <2>1, <2>2, WriteBegins
  <2>4. Control'
    BY <1>1, <1>2, <1>3, <1>5, <2>1, <2>3, WriteControls
  <2> QED BY <2>3, <2>4
<1> QED BY <1>2, <1>6, <1>7

\* Control, where the stop begins.
LEMMA StopControls ==
  ASSUME Control, stage # "idle", Stop, UNCHANGED <<nack, call, done>>
  PROVE  Control'
<1>1. routine' = "i2c_stop" /\ stage' = "stop" /\ byte' = byte /\ bit' = bit
  BY DEF Stop, Run
<1>2. /\ call' = call /\ nack' = nack /\ done' = done
      /\ call \in Calls /\ ~OutOfRange(call) /\ bit \in Nat /\ byte \in Nat /\ done \in Nat
      /\ nack \in BOOLEAN
  BY DEF Control
<1> QED BY ONLY <1>1, <1>2 DEF Control, Stages

LEMMA SentKeeps ==
  ASSUME FInv, Sent, UNCHANGED <<port, slave>>
  PROVE  Control' /\ InPhase'
<1>1. IInv /\ SlavesTyped /\ Control /\ InPhase
  BY DEF FInv
<1>2. /\ routine = "ack" /\ stage \in {"address", "read_address", "register", "data"}
      /\ W \in Nat /\ W >= 1 /\ nack' = nack /\ call' = call
      /\ stage = "read_address" => call.fn = "ds1307_read"
      /\ done \in Nat
      /\ stage # "data" => done = 0
      /\ byte \in Nat /\ bit \in Nat /\ nack \in BOOLEAN
  BY <1>1, WidthPositive DEF Sent, Finished, Control
<1>3. /\ ddr.SCL
      /\ nack => AllOff(slave)
      /\ IF stage = "read_address" THEN AllSend(slave, 0) ELSE AllHear(slave, 0, ForData)
  <2>1. at > 8 /\ Acknowledged /\ at \in Nat
    BY <1>1, <1>2, AckSteps DEF Sent, Finished, InPhase, IInv, PortTyped
  <2> QED BY ONLY <2>1 DEF Acknowledged
<1>4. call \in Calls /\ ~OutOfRange(call) /\ call.reg \in Nat
  BY <1>1, <1>2, WantedSome DEF Control
<1>5. CASE Stop /\ UNCHANGED done /\ (nack \/ stage # "read_address")
  <2>1. AllQuiet(slave)
    BY <1>3, <1>5, Begins
  <2> QED BY <1>1, <1>2, <1>3, <1>5, <2>1, StopBegins, StopControls
<1>6. ASSUME NEW b \in Nat, Write(b), stage # "read_address", stage' \in {"register", "data"},
             done' \in Nat, stage' # "data" => done' = 0
      PROVE  Control' /\ InPhase'
  <2>1. AllHear(slave, 0, Heard(stage'))
    BY <1>3, <1>6 DEF Heard
  <2>2. /\ byte' = b /\ bit' = 1 /\ routine' \in {"write0", "write1"}
        /\ routine' = "write1" => BitOf(b, 0) = 1
        /\ routine' = "write0" => BitOf(b, 0) # 1
        /\ InPhase'
    BY <1>3, <1>6, <2>1, WriteBegins
  <2>3. Control'
    BY <1>1, <1>2, <1>6, <2>2, WriteControls
  <2> QED BY <2>2, <2>3
<1>7. CASE stage = "address" /\ Write(call.reg) /\ stage' = "register" /\ UNCHANGED done
  BY <1>2, <1>4, <1>6, <1>7
<1>8. CASE /\ stage = "register" /\ call.fn = "ds1307_read" /\ UNCHANGED <<byte, bit, done>>
           /\ Run("i2c_start") /\ stage' = "restart"
  <2>1. AllQuiet(slave)
    BY <1>3, <1>8, Begins
  <2>2. /\ routine' = "i2c_start" /\ at' = 1 /\ ddr' = ddr /\ slave' = slave
        /\ byte' = byte /\ bit' = bit /\ done' = done
    BY <1>8, Between DEF Run
  <2>3. Starting'
    BY ONLY <1>3, <1>8, <2>1, <2>2 DEF Starting
  <2>4. InPhase'
    BY ONLY <2>2, <2>3 DEF InPhase
  <2>5. Control'
    BY ONLY <1>2, <1>4, <1>8, <2>2 DEF Control, Stages
  <2> QED BY <2>4, <2>5
<1>9. CASE stage = "read_address" /\ Listen /\ stage' = "read" /\ UNCHANGED done
  <2>1. InPhase' /\ routine' = "listen" /\ byte' = 0 /\ bit' = 0
    BY <1>3, <1>9, ListenBegins
  <2>2. Wanted \in Int /\ Wanted > 0 /\ Wanted' = Wanted /\ call.fn = "ds1307_read"
    BY <1>1, <1>2, <1>9, WantedSome DEF Wanted
  <2>3. done' = 0 /\ done' < Wanted'
    BY <1>2, <1>9, <2>2
  <2>4. Control'
    BY ONLY <1>2, <1>4, <1>9, <2>1, <2>2, <2>3 DEF Control, Stages
  <2> QED BY <2>1, <2>4
<1>10. CASE stage \in {"register", "data"} /\ NextData
  <2>1. CASE done < Len(call.data)
    <3>1. Write(call.data[done + 1]) /\ stage' = "data" /\ done' = done + 1
      BY <1>10, <2>1 DEF NextData
    <3>2. call.data[done + 1] \in Nat
      <4>1. call.data \in Seq(Byte)
        BY <1>4, CallsAssumption
      <4>2. call.data[done + 1] \in Byte
        BY <1>2, <2>1, <4>1
      <4> QED BY <4>2 DEF Byte
    <3> QED BY <1>2, <1>6, <1>10, <3>1, <3>2
  <2>2. CASE ~(done < Len(call.data))
    BY <1>5, <1>10, <2>2 DEF NextData
  <2> QED BY <2>1, <2>2
<1>11. \/ Stop /\ UNCHANGED done /\ (nack \/ stage # "read_address")
       \/ stage = "address" /\ Write(call.reg) /\ stage' = "register" /\ UNCHANGED done
       \/ /\ stage = "register" /\ call.fn = "ds1307_read" /\ UNCHANGED <<byte, bit, done>>
          /\ Run("i2c_start") /\ stage' = "restart"
       \/ stage = "read_address" /\ Listen /\ stage' = "read" /\ UNCHANGED done
       \/ stage \in {"register", "data"} /\ NextData
  BY <1>2 DEF Sent, Fails
<1> QED BY <1>5, <1>7, <1>8, <1>9, <1>10, <1>11

LEMMA BeginKeeps ==
  ASSUME FInv, NEW c \in Calls, Begin(c)
  PROVE  SlavesTyped' /\ Control' /\ InPhase'
<1>1. SlavesTyped /\ Control /\ InPhase
  BY DEF FInv
<1>2. /\ stage = "idle" /\ ~OutOfRange(c) /\ call' = c /\ stage' = "start"
      /\ routine' = "i2c_start" /\ at' = 1 /\ UNCHANGED <<byte, bit, nack, done>>
      /\ UNCHANGED <<port, slave>>
  BY DEF Begin, Run, bus
<1>3. ddr' = ddr /\ slave' = slave /\ Scl' = Scl /\ SlavesTyped'
  BY <1>1, <1>2, Between
<1>4. ~ddr.SDA /\ Scl /\ AllOff(slave) /\ done = 0
  BY <1>1, <1>2 DEF Control, InPhase, Resting
<1>5. AllQuiet(slave)
  BY <1>4, Begins
<1>6. Starting'
  BY ONLY <1>2, <1>3, <1>4, <1>5 DEF Starting
<1>7. InPhase'
  BY ONLY <1>2, <1>6 DEF InPhase
<1>8. byte' \in Nat /\ bit' \in Nat /\ nack' \in BOOLEAN /\ done' = 0
  BY <1>1, <1>2, <1>4 DEF Control
<1>9. Control'
  BY ONLY <1>2, <1>8, c \in Calls DEF Control, Stages
<1> QED BY <1>3, <1>7, <1>9

LEMMA ReturnKeeps ==
  ASSUME FInv, Return
  PROVE  SlavesTyped' /\ Control' /\ InPhase'
<1>1. IInv /\ SlavesTyped /\ Control /\ InPhase
  BY DEF FInv
<1>2. /\ stage' = "idle" /\ routine' = "none" /\ byte' = 0 /\ bit' = 0 /\ nack' = TRUE /\ done' = 0
      /\ UNCHANGED <<port, slave>> /\ routine = "i2c_stop"
  BY DEF Return, Finished
<1>3. ddr' = ddr /\ slave' = slave /\ Scl' = Scl /\ SlavesTyped'
  BY <1>1, <1>2, Between
<1>4. ~ddr.SCL /\ ~ddr.SDA /\ Scl /\ AllOff(slave)
  <2>1. at > 5 /\ Stopping /\ at \in Nat
    BY <1>1, <1>2, StopSteps DEF Return, Finished, InPhase, IInv, PortTyped
  <2> QED BY ONLY <2>1 DEF Stopping
<1>5. Resting'
  BY ONLY <1>3, <1>4 DEF Resting
<1>6. InPhase'
  BY ONLY <1>2, <1>5 DEF InPhase
<1>7. Control'
  BY ONLY <1>2 DEF Control, Stages
<1> QED BY <1>3, <1>6, <1>7

LEMMA RejectKeeps ==
  ASSUME FInv, UNCHANGED <<port, engine, call, stage, done, slave>>
  PROVE  SlavesTyped' /\ Control' /\ InPhase'
<1>1. SlavesTyped /\ Control /\ InPhase
  BY DEF FInv
<1>2. ddr' = ddr /\ slave' = slave /\ Scl' = Scl /\ SlavesTyped'
  BY <1>1, Between
<1>3. /\ routine' = routine /\ at' = at /\ byte' = byte /\ bit' = bit /\ nack' = nack
      /\ call' = call /\ stage' = stage /\ done' = done
  BY DEF engine
<1>4. Wanted' = Wanted
  BY <1>3 DEF Wanted
<1>5. Control'
  BY ONLY <1>1, <1>3, <1>4 DEF Control
<1>6. InPhase'
  BY ONLY <1>1, <1>2, <1>3 DEF InPhase, Resting, Starting, Stopping, Writing, Acknowledged,
                              Listening, Reading, GoingOn, Ending
<1> QED BY <1>2, <1>5, <1>6

LEMMA FramingInductive ==
  ASSUME FInv, [Next]_vars
  PROVE  FInv'
<1>1. IInv'
  BY Inductive DEF FInv
<1>2. CASE Access
  BY <1>1, <1>2, AccessKeeps DEF FInv
<1>3. CASE Continue
  <2>1. UNCHANGED <<port, slave>>
    BY <1>3 DEF Continue, bus
  <2>2. SlavesTyped'
    BY <2>1, Between DEF FInv
  <2>3. Control' /\ InPhase'
    BY <1>3, <2>1, SendOnKeeps, ReceiveOnKeeps, ReceivedKeeps, StartedKeeps, SentKeeps DEF Continue
  <2> QED BY <1>1, <2>2, <2>3 DEF FInv
<1>4. CASE Return
  BY <1>1, <1>4, ReturnKeeps DEF FInv
<1>5. ASSUME NEW c \in Calls, Begin(c) PROVE FInv'
  BY <1>1, <1>5, BeginKeeps DEF FInv
<1>6. ASSUME NEW c \in Calls, Reject(c) PROVE FInv'
  <2>1. UNCHANGED <<port, engine, call, stage, done, slave>>
    BY <1>6 DEF Reject, bus
  <2> QED BY <1>1, <2>1, RejectKeeps DEF FInv
<1>7. ASSUME NEW d \in Devices, LetGo(d) PROVE FInv'
  BY <1>1, <1>7, LetGoKeeps DEF FInv
<1>8. CASE UNCHANGED vars
  <2>1. UNCHANGED <<port, engine, call, stage, done, slave>>
    BY <1>8 DEF vars, driver, bus
  <2> QED BY <1>1, <2>1, RejectKeeps DEF FInv
<1> QED BY <1>2, <1>3, <1>4, <1>5, <1>6, <1>7, <1>8 DEF Next

LEMMA FramingStarts == Init => FInv
<1> SUFFICES ASSUME Init PROVE FInv
  OBVIOUS
<1>1. IInv
  BY DEF Init, IInv, PortTyped, NeverDrivesHigh, DriveIsSafe
<1>2. \A d \in Devices : slave[d] = [mode |-> "off", n |-> 0, byte |-> 0, ptr |-> 0,
                                     sda |-> FALSE, scl |-> FALSE]
  BY DEF Init
<1>3. SlavesTyped
  <2>1. [mode |-> "off", n |-> 0, byte |-> 0, ptr |-> 0, sda |-> FALSE, scl |-> FALSE] \in Slave
    BY DEF Slave, Modes
  <2> QED BY <2>1 DEF Init, SlavesTyped
<1>4. AllOff(slave) /\ \A d \in Devices : ~slave[d].scl
  BY <1>2 DEF AllOff, Off
<1>5. /\ ddr.SCL = FALSE /\ ddr.SDA = FALSE
      /\ routine = "none" /\ stage = "idle" /\ byte = 0 /\ bit = 0 /\ nack = TRUE /\ done = 0
  BY DEF Init, Lines
<1>6. Scl
  BY <1>1, <1>4, <1>5, Levels DEF IInv
<1>7. Resting
  BY <1>4, <1>5, <1>6 DEF Resting
<1>8. InPhase
  BY ONLY <1>5, <1>7 DEF InPhase
<1>9. Control
  BY ONLY <1>5 DEF Control, Stages
<1> QED BY <1>1, <1>3, <1>8, <1>9 DEF FInv

-----------------------------------------------------------------------------
(* Starts and stops.                                                       *)

\* SDA is driven with the clock high to make a start only.
LEMMA DrivenToStart ==
  ASSUME FInv, Access, Accesses[routine][at] = "drive_SDA", Scl
  PROVE  routine = "i2c_start"
<1>1. IInv /\ InPhase /\ PortTyped /\ NeverDrivesHigh
  BY DEF FInv, IInv
<1>2. ~ddr.SCL
  BY <1>1, SdaOf
<1>3. at \in Nat \ {0} /\ at <= Len(Accesses[routine]) /\ routine \in Routines
  BY <1>1 DEF PortTyped, Access
<1>4. routine \in {"i2c_start", "i2c_stop", "write1", "write0", "ack", "listen", "read", "more", "last"}
  BY <1>3 DEF Routines, Accesses
<1>5. ASSUME routine = "i2c_stop" PROVE FALSE
  <2>1. at \in {1, 2, 3, 4, 5}
    <3>1. at \in Nat \ {0} /\ at <= 5
      BY <1>3, <1>5, StopSteps
    <3> QED BY ONLY <3>1
  <2>2. Accesses.i2c_stop[at] = "drive_SDA"
    BY <1>5
  <2>3. at = 2
    BY ONLY <2>1, <2>2, StopSteps
  <2> QED BY <1>1, <1>2, <1>5, <2>3 DEF InPhase, Stopping
<1>6. ASSUME routine = "write1" PROVE FALSE
  <2>1. at \in {1, 2, 3, 4, 5}
    <3>1. at \in Nat \ {0} /\ at <= 5
      BY <1>3, <1>6, Write1Steps
    <3> QED BY ONLY <3>1
  <2>2. Accesses.write1[at] = "drive_SDA"
    BY <1>6
  <2> QED BY ONLY <2>1, <2>2, Write1Steps
<1>7. ASSUME routine = "write0" PROVE FALSE
  <2>1. at \in {1, 2, 3, 4, 5, 6}
    <3>1. at \in Nat \ {0} /\ at <= 6
      BY <1>3, <1>7, Write0Steps
    <3> QED BY ONLY <3>1
  <2>2. Accesses.write0[at] = "drive_SDA"
    BY <1>7
  <2>3. at = 4
    BY ONLY <2>1, <2>2, Write0Steps
  <2> QED BY <1>1, <1>2, <1>7, <2>3 DEF InPhase, Writing
<1>8. ASSUME routine = "ack" PROVE FALSE
  <2>1. at \in {1, 2, 3, 4, 5, 6, 7, 8}
    <3>1. at \in Nat \ {0} /\ at <= 8
      BY <1>3, <1>8, AckSteps
    <3> QED BY ONLY <3>1
  <2>2. Accesses.ack[at] = "drive_SDA"
    BY <1>8
  <2> QED BY ONLY <2>1, <2>2, AckSteps
<1>9. ASSUME routine = "listen" PROVE FALSE
  <2>1. at = 1
    BY <1>3, <1>9, ListenSteps
  <2>2. Accesses.listen[at] = "drive_SDA"
    BY <1>9
  <2> QED BY ONLY <2>1, <2>2, ListenSteps
<1>10. ASSUME routine = "read" PROVE FALSE
  <2>1. at \in {1, 2, 3, 4, 5}
    <3>1. at \in Nat \ {0} /\ at <= 5
      BY <1>3, <1>10, ReadSteps
    <3> QED BY ONLY <3>1
  <2>2. Accesses.read[at] = "drive_SDA"
    BY <1>10
  <2> QED BY ONLY <2>1, <2>2, ReadSteps
<1>11. ASSUME routine = "more" PROVE FALSE
  <2>1. at \in {1, 2, 3, 4, 5, 6, 7, 8, 9}
    <3>1. at \in Nat \ {0} /\ at <= 9
      BY <1>3, <1>11, MoreSteps
    <3> QED BY ONLY <3>1
  <2>2. Accesses.more[at] = "drive_SDA"
    BY <1>11
  <2>3. at = 4
    BY ONLY <2>1, <2>2, MoreSteps
  <2> QED BY <1>1, <1>2, <1>11, <2>3 DEF InPhase, GoingOn
<1>12. ASSUME routine = "last" PROVE FALSE
  <2>1. at \in {1, 2, 3, 4, 5, 6, 7, 8}
    <3>1. at \in Nat \ {0} /\ at <= 8
      BY <1>3, <1>12, LastSteps
    <3> QED BY ONLY <3>1
  <2>2. Accesses.last[at] = "drive_SDA"
    BY <1>12
  <2> QED BY ONLY <2>1, <2>2, LastSteps
<1> QED BY <1>4, <1>5, <1>6, <1>7, <1>8, <1>9, <1>10, <1>11, <1>12

\* And let go with the clock high, having been driven, to make a stop only.
LEMMA LetGoToStop ==
  ASSUME FInv, Access, Accesses[routine][at] = "release_SDA", Scl, ddr.SDA
  PROVE  routine = "i2c_stop"
<1>1. IInv /\ InPhase /\ PortTyped /\ NeverDrivesHigh
  BY DEF FInv, IInv
<1>2. ~ddr.SCL
  BY <1>1, SdaOf
<1>3. at \in Nat \ {0} /\ at <= Len(Accesses[routine]) /\ routine \in Routines
  BY <1>1 DEF PortTyped, Access
<1>4. routine \in {"i2c_start", "i2c_stop", "write1", "write0", "ack", "listen", "read", "more", "last"}
  BY <1>3 DEF Routines, Accesses
<1>5. ASSUME routine = "i2c_start" PROVE FALSE
  <2>1. at \in {1, 2, 3, 4, 5, 6, 7}
    <3>1. at \in Nat \ {0} /\ at <= 7
      BY <1>3, <1>5, StartSteps
    <3> QED BY ONLY <3>1
  <2>2. Accesses.i2c_start[at] = "release_SDA"
    BY <1>5
  <2>3. at = 1
    BY ONLY <2>1, <2>2, StartSteps
  <2> QED BY <1>1, <1>2, <1>5, <2>3 DEF InPhase, Starting
<1>6. ASSUME routine = "write1" PROVE FALSE
  <2>1. at \in {1, 2, 3, 4, 5}
    <3>1. at \in Nat \ {0} /\ at <= 5
      BY <1>3, <1>6, Write1Steps
    <3> QED BY ONLY <3>1
  <2>2. Accesses.write1[at] = "release_SDA"
    BY <1>6
  <2>3. at = 3
    BY ONLY <2>1, <2>2, Write1Steps
  <2> QED BY <1>1, <1>2, <1>6, <2>3 DEF InPhase, Writing
<1>7. ASSUME routine = "write0" PROVE FALSE
  <2>1. at \in {1, 2, 3, 4, 5, 6}
    <3>1. at \in Nat \ {0} /\ at <= 6
      BY <1>3, <1>7, Write0Steps
    <3> QED BY ONLY <3>1
  <2>2. Accesses.write0[at] = "release_SDA"
    BY <1>7
  <2> QED BY ONLY <2>1, <2>2, Write0Steps
<1>8. ASSUME routine = "ack" PROVE FALSE
  <2>1. at \in {1, 2, 3, 4, 5, 6, 7, 8}
    <3>1. at \in Nat \ {0} /\ at <= 8
      BY <1>3, <1>8, AckSteps
    <3> QED BY ONLY <3>1
  <2>2. Accesses.ack[at] = "release_SDA"
    BY <1>8
  <2>3. at = 3
    BY ONLY <2>1, <2>2, AckSteps
  <2> QED BY <1>1, <1>2, <1>8, <2>3 DEF InPhase, Acknowledged
<1>9. ASSUME routine = "listen" PROVE FALSE
  BY <1>1, <1>2, <1>9 DEF InPhase, Listening
<1>10. ASSUME routine = "read" PROVE FALSE
  <2>1. at \in {1, 2, 3, 4, 5}
    <3>1. at \in Nat \ {0} /\ at <= 5
      BY <1>3, <1>10, ReadSteps
    <3> QED BY ONLY <3>1
  <2>2. Accesses.read[at] = "release_SDA"
    BY <1>10
  <2> QED BY ONLY <2>1, <2>2, ReadSteps
<1>11. ASSUME routine = "more" PROVE FALSE
  <2>1. at \in {1, 2, 3, 4, 5, 6, 7, 8, 9}
    <3>1. at \in Nat \ {0} /\ at <= 9
      BY <1>3, <1>11, MoreSteps
    <3> QED BY ONLY <3>1
  <2>2. Accesses.more[at] = "release_SDA"
    BY <1>11
  <2>3. at = 9
    BY ONLY <2>1, <2>2, MoreSteps
  <2> QED BY <1>1, <1>2, <1>11, <2>3 DEF InPhase, GoingOn
<1>12. ASSUME routine = "last" PROVE FALSE
  <2>1. at \in {1, 2, 3, 4, 5, 6, 7, 8}
    <3>1. at \in Nat \ {0} /\ at <= 8
      BY <1>3, <1>12, LastSteps
    <3> QED BY ONLY <3>1
  <2>2. Accesses.last[at] = "release_SDA"
    BY <1>12
  <2>3. at \in {3, 8}
    BY ONLY <2>1, <2>2, LastSteps
  <2> QED BY <1>1, <1>2, <1>12, <2>3 DEF InPhase, Ending
<1> QED BY <1>4, <1>5, <1>6, <1>7, <1>8, <1>9, <1>10, <1>11, <1>12

Frames == Scl /\ Scl' /\ Sda # Sda' => routine = IF Sda' THEN "i2c_stop" ELSE "i2c_start"

LEMMA AccessFrames ==
  ASSUME FInv, FInv', Access
  PROVE  Frames
<1> DEFINE x == Accesses[routine][at]
<1>1. IInv /\ IInv' /\ SlavesTyped /\ PortTyped /\ PortTyped' /\ NeverDrivesHigh /\ NeverDrivesHigh'
  BY DEF FInv, IInv
<1>2. /\ Sda <=> ~ddr.SDA /\ NoneAnswers
      /\ Sda' <=> ~ddr'.SDA /\ \A d \in Devices : ~slave'[d].sda
      /\ ddr.SCL => ~Scl
  <2>1. Sda' <=> ~ddr'.SDA /\ \A d \in Devices : ~slave'[d].sda
    BY <1>1 DEF PortTyped, NeverDrivesHigh, Sda, LevelNow, Level, Lines
  <2> QED BY <1>1, <2>1, Levels, SdaOf DEF NoneAnswers
<1>3. Sda \in BOOLEAN /\ Sda' \in BOOLEAN
  BY <1>1, Going
<1>4. (Sda <=> Sda') => Sda = Sda'
  BY <1>3
<1>5. Same => (NoneAnswers <=> \A d \in Devices : ~slave'[d].sda)
  BY DEF Same, NoneAnswers
<1>6. x \in Name
  <2>1. routine \in Routines /\ at \in Nat \ {0} /\ at <= Len(Accesses[routine])
    BY <1>1 DEF PortTyped, Access
  <2>2. Accesses[routine] \in Seq(Name)
    BY <2>1, RoutinesCareful DEF Good
  <2> QED BY <2>1, <2>2
<1>7. /\ x \in {"clear_SDA", "clear_SCL", "await_SCL", "sample_SDA"} => Stays
      /\ x = "drive_SCL" => ClockDriven
      /\ x = "release_SCL" => ClockLetGo
      /\ x = "drive_SDA" => DataDriven
      /\ x = "release_SDA" => DataLetGo
  BY <1>1, Moves
<1>8. x = "drive_SDA" /\ Scl => routine = "i2c_start"
  BY DrivenToStart
<1>9. x = "release_SDA" /\ Scl /\ ddr.SDA => routine = "i2c_stop"
  BY LetGoToStop
<1> HIDE DEF x
<1>10. CASE Stays
  BY <1>2, <1>4, <1>5, <1>10 DEF Stays, Frames
<1>11. CASE ClockDriven
  BY <1>11 DEF ClockDriven, Frames
<1>12. CASE ClockLetGo
  BY <1>2, <1>4, <1>5, <1>12 DEF ClockLetGo, Frames
<1>13. CASE x = "drive_SDA" /\ DataDriven
  BY <1>2, <1>8, <1>13 DEF DataDriven, Frames
<1>14. CASE x = "release_SDA" /\ DataLetGo
  <2>1. CASE ddr.SDA
    BY <1>2, <1>4, <1>5, <1>9, <1>14, <2>1 DEF DataLetGo, Frames
  <2>2. CASE ~ddr.SDA
    BY <1>2, <1>4, <1>5, <1>14, <2>2 DEF DataLetGo, Frames
  <2> QED BY <2>1, <2>2
<1> QED BY <1>6, <1>7, <1>10, <1>11, <1>12, <1>13, <1>14 DEF Name

LEMMA StepFrames ==
  ASSUME FInv, FInv', Next
  PROVE  Frames
<1>1. CASE Access
  BY <1>1, AccessFrames
<1>2. CASE UNCHANGED <<port, slave>>
  <2>1. Sda' = Sda
    BY <1>2 DEF port, Sda, LevelNow, Level
  <2> QED BY <2>1 DEF Frames
<1>3. CASE Continue \/ Return
  BY <1>2, <1>3 DEF Continue, Return, bus
<1>4. CASE \E c \in Calls : Begin(c) \/ Reject(c)
  BY <1>2, <1>4 DEF Begin, Reject, bus
<1>5. CASE \E d \in Devices : LetGo(d)
  <2>1. ~Scl
    BY <1>5, LettingGo DEF FInv
  <2> QED BY <2>1 DEF Frames
<1> QED BY <1>1, <1>3, <1>4, <1>5 DEF Next

LEMMA RestsIdle == FInv => LeftIdle
<1> SUFFICES ASSUME FInv, stage = "idle"
             PROVE  /\ \A l \in Lines : ~ddr[l] /\ LevelNow(l)
                    /\ \A d \in Devices : slave[d].mode = "off"
  BY DEF LeftIdle
<1>1. PortTyped /\ NeverDrivesHigh /\ Resting
  BY DEF FInv, IInv, Control, InPhase
<1>2. ~ddr.SCL /\ ~ddr.SDA /\ Scl /\ Sda /\ AllOff(slave)
  BY <1>1, SdaOf DEF Resting
<1> QED BY <1>2 DEF Lines, Scl, Sda, AllOff, Off

\* Nothing but a start and a stop moves SDA while the clock is high, and after every call the
\* lines are free and no device is addressed: for bytes of any width, any devices, calls of any
\* length, and whatever the devices answer and wherever they stretch the clock.
THEOREM FramedAlways == Spec => Framed
<1>1. Init => FInv
  BY FramingStarts
<1>2. FInv /\ [Next]_vars => FInv'
  BY FramingInductive
<1>3. FInv => LeftIdle
  BY RestsIdle
<1>4. FInv /\ FInv' /\ Next =>
        (LevelNow("SCL") /\ LevelNow("SCL")' /\ LevelNow("SDA") # LevelNow("SDA")' =>
           routine = (IF LevelNow("SDA")' THEN "i2c_stop" ELSE "i2c_start"))
  BY StepFrames DEF Frames, Scl, Sda
<1> QED BY <1>1, <1>2, <1>3, <1>4, PTL DEF Spec, Framed
=============================================================================
