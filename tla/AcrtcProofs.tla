---------------------------- MODULE AcrtcProofs ----------------------------
(***************************************************************************)
(* Proofs about the display driver, for every size of FIFO, every limit of *)
(* its polling, every frame buffer and every set of calls with arguments   *)
(* as wide as C has them: the types of its state, that the commands the    *)
(* chip takes never slip, and, from what is left of the call's program,    *)
(* what waits in the chip and what it has already done, that the driver    *)
(* and its chip implement FrameBuffer.                                     *)
(***************************************************************************)
EXTENDS Acrtc, TLAPS, SequenceTheorems, WellFoundedInduction

-----------------------------------------------------------------------------
(* Induction on numbers, with the property as a set.                       *)

LEMMA LeastOfNats ==
  ASSUME NEW S \in SUBSET Nat, S # {}
  PROVE  \E i \in S : \A j \in S : i <= j
<1>1. IsWellFoundedOn(OpToRel(<, Nat), Nat)
  BY NatLessThanWellFounded
<1>2. \E i \in S : \A j \in S : ~(<<j, i>> \in OpToRel(<, Nat))
  BY <1>1, WFMin
<1>3. \A i, j \in Nat : ~(<<j, i>> \in OpToRel(<, Nat)) => i <= j
  BY DEF OpToRel
<1> QED
  BY <1>2, <1>3

LEMMA ByInduction ==
  ASSUME NEW T, 0 \in T, \A n \in Nat : n \in T => n + 1 \in T
  PROVE  \A n \in Nat : n \in T
<1>1. SUFFICES ASSUME Nat \ T # {} PROVE FALSE
  OBVIOUS
<1>2. PICK i \in Nat \ T : \A j \in Nat \ T : i <= j
  BY <1>1, LeastOfNats
<1>3. i # 0 /\ i - 1 \in T
  BY <1>2
<1> QED
  BY <1>2, <1>3

-----------------------------------------------------------------------------
(* The words of several commands, one after the other.                     *)

IsFlattening(f, ss, m) ==
  f = [i \in 1 .. m |-> IF i = 1 THEN ss[i] ELSE f[i - 1] \o ss[i]]

LEMMA FlatteningExists ==
  ASSUME NEW ss
  PROVE  \A m \in Nat : \E f : IsFlattening(f, ss, m)
<1> DEFINE T == {m \in Nat : \E f : IsFlattening(f, ss, m)}
<1>1. 0 \in T
  <2> DEFINE f == [i \in 1 .. 0 |-> ss[i]]
  <2>1. f = [i \in 1 .. 0 |-> IF i = 1 THEN ss[i] ELSE f[i - 1] \o ss[i]]
    OBVIOUS
  <2>2. IsFlattening(f, ss, 0)
    BY <2>1 DEF IsFlattening
  <2> QED
    BY <2>2
<1>2. ASSUME NEW m \in Nat, m \in T PROVE m + 1 \in T
  <2>1. PICK g : IsFlattening(g, ss, m)
    BY <1>2
  <2> DEFINE f == [i \in 1 .. m + 1 |-> IF i = m + 1 THEN IF i = 1 THEN ss[i] ELSE g[m] \o ss[i]
                                        ELSE g[i]]
  <2>2. \A i \in 1 .. m + 1 : f[i] = IF i = 1 THEN ss[i] ELSE f[i - 1] \o ss[i]
    <3>1. \A i \in 1 .. m : g[i] = IF i = 1 THEN ss[i] ELSE g[i - 1] \o ss[i]
      BY <2>1 DEF IsFlattening
    <3>2. \A i \in 1 .. m : f[i] = g[i]
      OBVIOUS
    <3>3. f[m + 1] = IF m + 1 = 1 THEN ss[m + 1] ELSE g[m] \o ss[m + 1]
      OBVIOUS
    <3> HIDE DEF f
    <3> QED
      BY <3>1, <3>2, <3>3
  <2>3. IsFlattening(f, ss, m + 1)
    BY <2>2 DEF IsFlattening
  <2> HIDE DEF f
  <2> QED
    BY <2>3
<1>3. \A m \in Nat : m \in T
  <2> HIDE DEF T
  <2> QED
    BY <1>1, <1>2, ByInduction
<1> QED
  BY <1>3

\* Flattened sequences over X make a sequence over X.
LEMMA FlattenTyped ==
  ASSUME NEW X, NEW ss \in Seq(Seq(X))
  PROVE  FlattenSeq(ss) \in Seq(X)
<1>1. Len(ss) \in Nat /\ \A i \in 1 .. Len(ss) : ss[i] \in Seq(X)
  BY LenProperties, ElementOfSeq
<1>2. CASE Len(ss) = 0
  <2>1. ss = <<>> /\ ss \in Seq(X)
    BY <1>2, EmptySeq
  <2> QED
    BY <2>1, <1>2 DEF FlattenSeq
<1>3. CASE Len(ss) # 0
  <2> DEFINE flat == CHOOSE f : IsFlattening(f, ss, Len(ss))
             T == {n \in Nat : n \in 1 .. Len(ss) => flat[n] \in Seq(X)}
  <2>1. FlattenSeq(ss) = flat[Len(ss)]
    BY <1>3 DEF FlattenSeq, IsFlattening
  <2>2. IsFlattening(flat, ss, Len(ss))
    BY <1>1, FlatteningExists
  <2> HIDE DEF flat
  <2>3. \A i \in 1 .. Len(ss) : flat[i] = IF i = 1 THEN ss[i] ELSE flat[i - 1] \o ss[i]
    BY <2>2 DEF IsFlattening
  <2>4. 0 \in T
    OBVIOUS
  <2>5. ASSUME NEW n \in Nat, n \in T PROVE n + 1 \in T
    <3>1. SUFFICES ASSUME n + 1 \in 1 .. Len(ss) PROVE flat[n + 1] \in Seq(X)
      OBVIOUS
    <3>2. flat[n + 1] = IF n + 1 = 1 THEN ss[n + 1] ELSE flat[n] \o ss[n + 1]
      BY <3>1, <2>3
    <3>3. ss[n + 1] \in Seq(X)
      BY <3>1, <1>1
    <3>4. CASE n = 0
      BY <3>2, <3>3, <3>4
    <3>5. CASE n # 0
      <4>1. flat[n] \in Seq(X)
        BY <2>5, <3>1, <3>5, <1>1
      <4> QED
        BY <4>1, <3>2, <3>3, <3>5, ConcatProperties
    <3> QED
      BY <3>4, <3>5
  <2>6. \A n \in Nat : n \in T
    <3> HIDE DEF T
    <3> QED
      BY <2>4, <2>5, ByInduction
  <2> QED
    BY <1>1, <1>3, <2>1, <2>6
<1> QED
  BY <1>2, <1>3

-----------------------------------------------------------------------------
(* What calls are made of.  Only the first thing a call does can be to     *)
(* abort the chip, and it is never the last: the chip is let go again.     *)

Plain == [do : {"put"}, word : Word] \cup [do : {"get", "idle", "enable", "run", "halt", "check"}]
Op == Plain \cup [do : {"abort"}]

Executable(s) ==
  /\ s \in Seq(Op) /\ s # <<>>
  /\ s[1].do = "abort" => Len(s) > 1
  /\ \A i \in 2 .. Len(s) : s[i] \in Plain

LEMMA PlainExecutable ==
  ASSUME NEW s \in Seq(Plain), s # <<>>
  PROVE  Executable(s)
<1>1. s \in Seq(Op)
  BY SeqMonotonic DEF Op
<1>2. Len(s) \in Nat \ {0}
  BY EmptySeq
<1>3. \A i \in 1 .. Len(s) : s[i] \in Plain
  BY ElementOfSeq
<1>4. s[1].do # "abort"
  BY <1>2, <1>3 DEF Plain
<1>5. \A i \in 2 .. Len(s) : s[i] \in Plain
  BY <1>2, <1>3
<1> QED
  BY <1>1, <1>4, <1>5 DEF Executable

LEMMA LongerExecutable ==
  ASSUME NEW s, Executable(s), NEW t \in Seq(Plain)
  PROVE  Executable(s \o t)
<1>1. s \in Seq(Op) /\ s # <<>> /\ t \in Seq(Op)
  BY SeqMonotonic DEF Op, Executable
<1>2. Len(s) \in Nat \ {0} /\ Len(t) \in Nat
  BY <1>1, EmptySeq, LenProperties
<1> DEFINE u == s \o t
<1>3. /\ u \in Seq(Op) /\ Len(u) = Len(s) + Len(t)
      /\ \A i \in 1 .. Len(s) + Len(t) : u[i] = IF i <= Len(s) THEN s[i] ELSE t[i - Len(s)]
  BY <1>1, ConcatProperties
<1>4. \A i \in 1 .. Len(t) : t[i] \in Plain
  BY ElementOfSeq
<1> HIDE DEF u
<1>5. u # <<>>
  BY <1>2, <1>3
<1>6. u[1] = s[1] /\ Len(u) >= Len(s)
  BY <1>2, <1>3
<1>7. ASSUME NEW i \in 2 .. Len(u) PROVE u[i] \in Plain
  <2>1. CASE i <= Len(s)
    BY <2>1, <1>2, <1>3 DEF Executable
  <2>2. CASE ~(i <= Len(s))
    <3>1. i - Len(s) \in 1 .. Len(t) /\ u[i] = t[i - Len(s)]
      BY <2>2, <1>2, <1>3
    <3> QED
      BY <3>1, <1>4
  <2> QED
    BY <2>1, <2>2
<1>8. s[1].do = "abort" => Len(u) > 1
  BY <1>2, <1>3, <1>6 DEF Executable
<1>9. Executable(u)
  BY <1>3, <1>5, <1>6, <1>7, <1>8 DEF Executable
<1> QED
  BY <1>9 DEF u

LEMMA Sizes == POLL_LIMIT \in Nat /\ POLL_LIMIT > 0 /\ FIFO_WORDS \in Nat /\ FIFO_WORDS > 0
<1>1. POLL_LIMIT \in Nat \ {0} /\ FIFO_WORDS \in Nat \ {0}
  BY SizesAssumption, Zenon
<1> QED
  BY ONLY <1>1

LEMMA InWord ==
  /\ \A n \in Int : n \in Word <=> 0 <= n /\ n <= 65535
  /\ Word \subseteq Int
<1>1. PICK m \in Int : m = 65535
  OBVIOUS
<1>2. Word = 0 .. m
  BY <1>1 DEF Word
<1>3. \A n \in Int : n \in 0 .. m <=> 0 <= n /\ n <= m
  OBVIOUS
<1>4. \A n \in Int : n \in Word <=> 0 <= n /\ n <= m
  BY ONLY <1>2, <1>3
<1>5. \A n \in Int : n <= m <=> n <= 65535
  BY ONLY <1>1
<1>6. \A n \in Int : n \in Word <=> 0 <= n /\ n <= 65535
  BY ONLY <1>4, <1>5
<1>7. Word \subseteq Int
  BY DEF Word
<1> QED
  BY <1>6, <1>7

LEMMA PutPlain ==
  ASSUME NEW w \in Word
  PROVE  Put(w) \in Plain
BY DEF Put, Plain

LEMMA Joined ==
  ASSUME NEW s \in Seq(Plain), NEW t \in Seq(Plain)
  PROVE  /\ s \o t \in Seq(Plain)
         /\ s # <<>> => s \o t # <<>>
<1>1. s \o t \in Seq(Plain) /\ Len(s \o t) = Len(s) + Len(t)
  BY ConcatProperties
<1>2. s # <<>> => Len(s) \in Nat \ {0}
  BY EmptySeq
<1>3. Len(t) \in Nat /\ (s \o t = <<>> => Len(s \o t) = 0)
  BY EmptySeq
<1> QED
  BY <1>1, <1>2, <1>3

LEMMA RegPlain ==
  ASSUME NEW r \in {"get", "idle", "enable", "run", "halt", "check"}
  PROVE  <<Reg(r)>> \in Seq(Plain) /\ <<Reg(r)>> # <<>>
<1>1. Reg(r) \in Plain
  BY DEF Plain, Reg
<1> QED
  BY <1>1

LEMMA GetIdlePlain == <<Get>> \in Seq(Plain) /\ <<Idle>> \in Seq(Plain)
<1>1. Get = Reg("get") /\ Idle = Reg("idle")
  BY DEF Get, Idle, Reg
<1> QED
  BY <1>1, RegPlain

IsPlainProgram(s) == s \in Seq(Plain) /\ s # <<>>

LEMMA JoinedPrograms ==
  ASSUME NEW s, IsPlainProgram(s), NEW t \in Seq(Plain)
  PROVE  IsPlainProgram(s \o t)
BY Joined DEF IsPlainProgram

LEMMA SendCmd ==
  ASSUME NEW w \in Word, NEW params \in Seq(Word)
  PROVE  IsPlainProgram(hd63484_send_cmd(w, params))
<1> DEFINE ps == [i \in DOMAIN params |-> Put(params[i])]
<1>1. DOMAIN params = 1 .. Len(params) /\ Len(params) \in Nat
  BY LenProperties
<1>2. \A i \in 1 .. Len(params) : Put(params[i]) \in Plain
  BY ElementOfSeq, PutPlain
<1>3. ps \in Seq(Plain)
  BY <1>1, <1>2
<1>4. <<Put(w)>> \in Seq(Plain) /\ <<Put(w)>> # <<>>
  BY PutPlain
<1> HIDE DEF ps
<1>5. IsPlainProgram(<<Put(w)>> \o ps)
  BY <1>3, <1>4, Joined DEF IsPlainProgram
<1> QED
  BY <1>5 DEF hd63484_send_cmd, ps

LEMMA Opcodes ==
  /\ CMD_ORG \in Word /\ CMD_RD \in Word /\ CMD_WT \in Word /\ CMD_CLR \in Word
  /\ \A r \in 0 .. 31 : CMD_WPR + r \in Word
  /\ \A r \in 0 .. 31 : CMD_RPR + r \in Word
<1>1. CMD_ORG \in Word /\ CMD_RD \in Word /\ CMD_WT \in Word /\ CMD_CLR \in Word
  BY InWord DEF CMD_ORG, CMD_RD, CMD_WT, CMD_CLR
<1>2. \A r \in 0 .. 31 : CMD_WPR + r \in Word
  BY InWord DEF CMD_WPR
<1>3. \A r \in 0 .. 31 : CMD_RPR + r \in Word
  BY InWord DEF CMD_RPR
<1> QED
  BY <1>1, <1>2, <1>3

LEMMA OneWord ==
  ASSUME NEW w \in Word
  PROVE  <<w>> \in Seq(Word)
OBVIOUS

LEMMA Wpr ==
  ASSUME NEW r \in 0 .. 31, NEW w \in Word
  PROVE  IsPlainProgram(hd63484_wpr(r, w))
BY Opcodes, OneWord, SendCmd DEF hd63484_wpr

LEMMA Packed ==
  ASSUME NEW dn \in Int, NEW addr \in Int, NEW dot \in Int
  PROVE  /\ pack_ptr(dn, addr, dot) \in Seq(Word)
         /\ Len(pack_ptr(dn, addr, dot)) = 2
         /\ pack_ptr(dn, addr, dot)[1] \in Word
         /\ pack_ptr(dn, addr, dot)[2] \in Word
<1> DEFINE p == ((dn % 4) * 16384) + ((addr \div 4096) % 256)
           q == ((addr % 4096) * 16) + (dot % 16)
<1>1. /\ dn % 4 \in Int /\ 0 <= dn % 4 /\ dn % 4 <= 3
      /\ (addr \div 4096) % 256 \in Int
      /\ 0 <= (addr \div 4096) % 256 /\ (addr \div 4096) % 256 <= 255
  OBVIOUS
<1>2. /\ addr % 4096 \in Int /\ 0 <= addr % 4096 /\ addr % 4096 <= 4095
      /\ dot % 16 \in Int /\ 0 <= dot % 16 /\ dot % 16 <= 15
  OBVIOUS
<1>3. p \in Int /\ 0 <= p /\ p <= 65535
  <2>1. \A a, b \in Int : 0 <= a /\ a <= 3 /\ 0 <= b /\ b <= 255 =>
          (a * 16384) + b \in Int /\ 0 <= (a * 16384) + b /\ (a * 16384) + b <= 65535
    OBVIOUS
  <2> QED
    BY <1>1, <2>1
<1>4. q \in Int /\ 0 <= q /\ q <= 65535
  <2>1. \A a, b \in Int : 0 <= a /\ a <= 4095 /\ 0 <= b /\ b <= 15 =>
          (a * 16) + b \in Int /\ 0 <= (a * 16) + b /\ (a * 16) + b <= 65535
    OBVIOUS
  <2> QED
    BY <1>2, <2>1
<1>5. pack_ptr(dn, addr, dot) = <<p, q>>
  BY DEF pack_ptr
<1> HIDE DEF p, q
<1>6. p \in Word /\ q \in Word
  BY ONLY <1>3, <1>4, InWord
<1> QED
  BY <1>5, <1>6

LEMMA SetRwp ==
  ASSUME NEW dn \in Int, NEW addr \in Int
  PROVE  IsPlainProgram(hd63484_set_rwp(dn, addr, 0))
<1> DEFINE p == pack_ptr(dn, addr, 0)
<1>1. p[1] \in Word /\ p[2] \in Word
  BY Packed
<1>2. PR_RWPH \in 0 .. 31 /\ PR_RWPL \in 0 .. 31
  BY DEF PR_RWPH, PR_RWPL
<1> HIDE DEF p
<1>3. IsPlainProgram(hd63484_wpr(PR_RWPH, p[1])) /\ IsPlainProgram(hd63484_wpr(PR_RWPL, p[2]))
  BY <1>1, <1>2, Wpr
<1>4. IsPlainProgram(hd63484_wpr(PR_RWPH, p[1]) \o hd63484_wpr(PR_RWPL, p[2]))
  BY <1>3, JoinedPrograms DEF IsPlainProgram
<1> QED
  BY <1>4 DEF hd63484_set_rwp, p

\* What stands before the words of a block, and after them.
LEMMA Blocks ==
  ASSUME NEW dn \in Int, NEW addr \in Int, NEW n \in Nat, NEW t \in Seq(Plain),
         NEW ss \in Seq(Seq(Plain))
  PROVE  /\ IsPlainProgram(hd63484_set_rwp(dn, addr, 0) \o FlattenSeq(ss))
         /\ IsPlainProgram(hd63484_set_rwp(dn, addr, 0) \o FlattenSeq(ss) \o t)
<1> DEFINE s == hd63484_set_rwp(dn, addr, 0)
           u == FlattenSeq(ss)
<1>1. IsPlainProgram(s) /\ u \in Seq(Plain)
  BY SetRwp, FlattenTyped
<1> HIDE DEF s, u
<1>2. IsPlainProgram(s \o u)
  BY <1>1, JoinedPrograms
<1>3. IsPlainProgram((s \o u) \o t)
  BY <1>2, JoinedPrograms
<1> QED
  BY <1>2, <1>3 DEF s, u

LEMMA WriteWordsPlain ==
  ASSUME NEW dn \in Int, NEW addr \in Int, NEW data \in Seq(Word)
  PROVE  IsPlainProgram(hd63484_write_words(dn, addr, data))
<1> DEFINE ss == [i \in DOMAIN data |-> hd63484_send_cmd(CMD_WT, <<data[i]>>)]
<1>1. DOMAIN data = 1 .. Len(data) /\ Len(data) \in Nat
  BY LenProperties
<1>2. \A i \in 1 .. Len(data) : hd63484_send_cmd(CMD_WT, <<data[i]>>) \in Seq(Plain)
  BY ElementOfSeq, OneWord, Opcodes, SendCmd DEF IsPlainProgram
<1>3. ss \in Seq(Seq(Plain))
  BY <1>1, <1>2
<1> HIDE DEF ss
<1>4. IsPlainProgram(hd63484_set_rwp(dn, addr, 0) \o FlattenSeq(ss) \o <<Idle>>)
  BY <1>3, Blocks, GetIdlePlain
<1> QED
  BY <1>4 DEF hd63484_write_words, ss

LEMMA ReadWordsPlain ==
  ASSUME NEW dn \in Int, NEW addr \in Int, NEW count \in Nat
  PROVE  IsPlainProgram(hd63484_read_words(dn, addr, count))
<1> DEFINE one == hd63484_send_cmd(CMD_RD, <<>>) \o <<Get>>
           ss == [i \in 1 .. count |-> one]
<1>1. one \in Seq(Plain)
  BY SendCmd, Opcodes, EmptySeq, JoinedPrograms, GetIdlePlain DEF IsPlainProgram
<1>2. ss = [i \in 1 .. count |-> hd63484_send_cmd(CMD_RD, <<>>) \o <<Get>>]
  OBVIOUS
<1> HIDE DEF one
<1>3. ss \in Seq(Seq(Plain))
  BY <1>1
<1> HIDE DEF ss
<1>4. IsPlainProgram(hd63484_set_rwp(dn, addr, 0) \o FlattenSeq(ss))
  BY <1>3, Blocks, GetIdlePlain
<1> QED
  BY <1>2, <1>4 DEF hd63484_read_words

LEMMA FillWordsPlain ==
  ASSUME NEW dn \in Int, NEW addr \in Int, NEW value \in Word, NEW count \in Nat
  PROVE  IsPlainProgram(hd63484_fill_words(dn, addr, value, count))
<1> DEFINE one == hd63484_send_cmd(CMD_WT, <<value>>)
           ss == [i \in 1 .. count |-> one]
<1>1. one \in Seq(Plain)
  BY SendCmd, Opcodes, OneWord DEF IsPlainProgram
<1>2. ss = [i \in 1 .. count |-> hd63484_send_cmd(CMD_WT, <<value>>)]
  OBVIOUS
<1> HIDE DEF one
<1>3. ss \in Seq(Seq(Plain))
  BY <1>1
<1> HIDE DEF ss
<1>4. IsPlainProgram(hd63484_set_rwp(dn, addr, 0) \o FlattenSeq(ss) \o <<Idle>>)
  BY <1>3, Blocks, GetIdlePlain
<1> QED
  BY <1>2, <1>4 DEF hd63484_fill_words

LEMMA ClearAreaPlain ==
  ASSUME NEW dn \in Int, NEW addr \in Int, NEW words \in Word, NEW lines \in Word, NEW value \in Word,
         words # 0
  PROVE  IsPlainProgram(hd63484_clear_area(dn, addr, words, lines, value))
<1> DEFINE dy == (65536 - (lines - 1)) % 65536
           dx == words - 1
           s == hd63484_set_rwp(dn, addr, 0)
<1>1. dy \in Word /\ dx \in Word
  <2>1. lines \in Int /\ words \in Int /\ 0 <= words /\ words <= 65535
    BY InWord
  <2>2. \A n \in Int : n % 65536 \in Int /\ 0 <= n % 65536 /\ n % 65536 <= 65535
    OBVIOUS
  <2>3. 65536 - (lines - 1) \in Int
    BY <2>1
  <2>4. dy \in Int /\ 0 <= dy /\ dy <= 65535
    BY <2>2, <2>3
  <2>5. dx \in Int /\ 0 <= dx /\ dx <= 65535
    BY <2>1
  <2> HIDE DEF dy, dx
  <2> QED
    BY ONLY <2>4, <2>5, InWord
<1>2. hd63484_clear_area(dn, addr, words, lines, value) =
        s \o hd63484_send_cmd(CMD_CLR, <<value, dx, dy>>) \o <<Idle>>
  BY DEF hd63484_clear_area
<1>3. IsPlainProgram(s)
  BY SetRwp
<1> HIDE DEF dy, dx, s
<1>4. <<value, dx, dy>> \in Seq(Word)
  BY <1>1
<1>5. IsPlainProgram(hd63484_send_cmd(CMD_CLR, <<value, dx, dy>>))
  BY <1>4, SendCmd, Opcodes
<1>6. IsPlainProgram(s \o hd63484_send_cmd(CMD_CLR, <<value, dx, dy>>))
  BY <1>3, <1>5, JoinedPrograms DEF IsPlainProgram
<1> QED
  BY <1>2, <1>6, JoinedPrograms, GetIdlePlain

LEMMA InitExecutable == Executable(hd63484_init)
<1> DEFINE w1 == hd63484_wpr(PR_CL0, 0)
           w2 == hd63484_wpr(PR_CL1, 65535)
           w3 == hd63484_wpr(PR_CCMP, 0)
           w4 == hd63484_wpr(PR_EDG, 0)
           w5 == hd63484_wpr(PR_MASK, 65535)
           o == hd63484_org(SCREEN_BASE, 0, 0)
           first == <<Reg("abort"), Reg("check"), Reg("halt"), Reg("enable"), Reg("run")>>
<1>1. 0 \in Word /\ 65535 \in Word
  BY InWord
<1>2. w1 \in Seq(Plain) /\ w2 \in Seq(Plain) /\ w3 \in Seq(Plain) /\ w4 \in Seq(Plain) /\ w5 \in Seq(Plain)
  BY <1>1, Wpr DEF IsPlainProgram, PR_CL0, PR_CL1, PR_CCMP, PR_EDG, PR_MASK
<1>3. o \in Seq(Plain)
  <2>1. pack_ptr(SCREEN_BASE, 0, 0) \in Seq(Word)
    BY Packed DEF SCREEN_BASE
  <2> QED
    BY <2>1, SendCmd, Opcodes DEF hd63484_org, IsPlainProgram
<1>4. Executable(first)
  <2>1. Reg("check") \in Plain /\ Reg("halt") \in Plain /\ Reg("enable") \in Plain /\ Reg("run") \in Plain
    BY DEF Reg, Plain
  <2>2. Reg("abort") \in Op
    BY DEF Reg, Op
  <2> HIDE DEF first
  <2>3. first = <<Reg("abort"), Reg("check"), Reg("halt"), Reg("enable"), Reg("run")>>
    BY DEF first
  <2>4. first \in Seq(Op)
    BY <2>1, <2>2, <2>3 DEF Op
  <2>5. first # <<>> /\ Len(first) = 5
    BY <2>3
  <2>6. \A i \in 2 .. 5 : first[i] \in Plain
    BY <2>1, <2>3
  <2> QED
    BY <2>4, <2>5, <2>6 DEF Executable
<1>5. hd63484_init = first \o w1 \o w2 \o w3 \o w4 \o w5 \o o \o <<Idle>>
  BY DEF hd63484_init
<1> HIDE DEF w1, w2, w3, w4, w5, o, first
<1>6. Executable(first \o w1 \o w2)
  BY <1>2, <1>4, LongerExecutable
<1>7. Executable(first \o w1 \o w2 \o w3 \o w4)
  BY <1>2, <1>6, LongerExecutable
<1>8. Executable(first \o w1 \o w2 \o w3 \o w4 \o w5 \o o)
  BY <1>2, <1>3, <1>7, LongerExecutable
<1> QED
  BY <1>5, <1>8, LongerExecutable, GetIdlePlain

LEMMA AbortExecutable == Executable(hd63484_abort)
<1> DEFINE s == hd63484_abort
<1>1. Reg("enable") \in Plain
  BY DEF Reg, Plain
<1>2. Reg("abort") \in Op
  BY DEF Reg, Op
<1>3. s = <<Reg("abort"), Reg("enable")>>
  BY DEF hd63484_abort
<1> HIDE DEF s
<1>4. s \in Seq(Op)
  BY <1>1, <1>2, <1>3 DEF Op
<1>5. s # <<>> /\ Len(s) = 2 /\ s[2] \in Plain
  BY <1>1, <1>3
<1>6. Executable(s)
  BY <1>4, <1>5 DEF Executable
<1> QED
  BY <1>6 DEF s

LEMMA ProgramExecutable ==
  ASSUME NEW c \in Callable, ~BadParameter(c)
  PROVE  Executable(Program(c))
<1> USE DEF IsPlainProgram
<1>1. CASE c \in [fn : {"init", "abort", "start", "stop"}]
  <2>1. c.fn \in {"init", "abort", "start", "stop"}
    BY <1>1
  <2>2. CASE c.fn = "init"
    BY <2>2, InitExecutable DEF Program
  <2>3. CASE c.fn = "abort"
    BY <2>3, AbortExecutable DEF Program
  <2>4. CASE c.fn = "start"
    BY <2>4, RegPlain, PlainExecutable DEF Program
  <2>5. CASE c.fn = "stop"
    BY <2>5, RegPlain, PlainExecutable DEF Program
  <2> QED
    BY <2>1, <2>2, <2>3, <2>4, <2>5
<1>2. CASE c \in [fn : {"wpr"}, reg : 0 .. 255, value : Word]
  <2>1. c.fn = "wpr" /\ c.reg \in 0 .. 31 /\ c.value \in Word
    BY <1>2 DEF BadParameter
  <2>2. Program(c) = hd63484_wpr(c.reg, c.value)
    BY <2>1 DEF Program
  <2> QED
    BY <2>1, <2>2, Wpr, PlainExecutable
<1>3. CASE c \in [fn : {"rpr"}, reg : 0 .. 255]
  <2>1. c.fn = "rpr" /\ c.reg \in 0 .. 31
    BY <1>3 DEF BadParameter
  <2>2. Program(c) = hd63484_send_cmd(CMD_RPR + c.reg, <<>>) \o <<Get>>
    BY <2>1 DEF Program, hd63484_rpr
  <2>3. <<>> \in Seq(Word)
    OBVIOUS
  <2>4. IsPlainProgram(hd63484_send_cmd(CMD_RPR + c.reg, <<>>))
    BY <2>1, <2>3, Opcodes, SendCmd
  <2> QED
    BY <2>2, <2>4, JoinedPrograms, GetIdlePlain, PlainExecutable
<1>4. CASE c \in [fn : {"write_words"}, dn : 0 .. 255, addr : Nat, data : Seq(Word)]
  <2>1. c.fn = "write_words" /\ c.dn \in Int /\ c.addr \in Int /\ c.data \in Seq(Word)
    <3> DEFINE D == Seq(Word)
    <3>1. c \in [fn : {"write_words"}, dn : 0 .. 255, addr : Nat, data : D]
      BY <1>4
    <3> HIDE DEF D
    <3>2. c.fn = "write_words" /\ c.dn \in Int /\ c.addr \in Int /\ c.data \in D
      BY <3>1
    <3> QED
      BY <3>2 DEF D
  <2>2. Program(c) = hd63484_write_words(c.dn, c.addr, c.data)
    BY <2>1 DEF Program
  <2> QED
    BY <2>1, <2>2, WriteWordsPlain, PlainExecutable
<1>5. CASE c \in [fn : {"read_words"}, dn : 0 .. 255, addr : Nat, count : Nat]
  <2>1. c.fn = "read_words" /\ c.dn \in Int /\ c.addr \in Int /\ c.count \in Nat
    BY <1>5
  <2>2. Program(c) = hd63484_read_words(c.dn, c.addr, c.count)
    BY <2>1 DEF Program
  <2> QED
    BY <2>1, <2>2, ReadWordsPlain, PlainExecutable
<1>6. CASE c \in [fn : {"fill_words"}, dn : 0 .. 255, addr : Nat, value : Word, count : Nat]
  <2>1. c.fn = "fill_words" /\ c.dn \in Int /\ c.addr \in Int /\ c.value \in Word /\ c.count \in Nat
    BY <1>6
  <2>2. Program(c) = hd63484_fill_words(c.dn, c.addr, c.value, c.count)
    BY <2>1 DEF Program
  <2> QED
    BY <2>1, <2>2, FillWordsPlain, PlainExecutable
<1>7. CASE c \in [fn : {"clear_area"}, dn : 0 .. 255, addr : Nat, words : Word, lines : Word, value : Word]
  <2>1. /\ c.fn = "clear_area" /\ c.dn \in Int /\ c.addr \in Int
        /\ c.words \in Word /\ c.lines \in Word /\ c.value \in Word
    BY <1>7
  <2>2. c.words # 0
    BY <2>1 DEF BadParameter
  <2>3. Program(c) = hd63484_clear_area(c.dn, c.addr, c.words, c.lines, c.value)
    BY <2>1 DEF Program
  <2> QED
    BY <2>1, <2>2, <2>3, ClearAreaPlain, PlainExecutable
<1> QED
  BY <1>1, <1>2, <1>3, <1>4, <1>5, <1>6, <1>7 DEF Callable

-----------------------------------------------------------------------------
(* The inductive invariant.  What is left of a call can be executed, what  *)
(* the chip has begun it can finish, and a status the driver has read      *)
(* still holds: the chip only ever makes room in the FIFO the driver       *)
(* writes, and only ever adds to the one it reads.                         *)

Executing == call # NoCall => Executable(ops)

Begun == command # <<>> => Len(command) <= 1 + NumParams(command[1])

StatusHolds == ready =>
  /\ call # NoCall
  /\ \/ Head(ops).do = "put" /\ Len(wfifo) < FIFO_WORDS
     \/ Head(ops).do = "get" /\ rfifo # <<>>

IInv == TypeOK /\ Executing /\ Begun /\ StatusHolds /\ NeverSlips

LEMMA InitIInv == Init => IInv
<1> SUFFICES ASSUME Init PROVE IInv
  OBVIOUS
<1>1. TypeOK
  <2>1. 0 \in Word
    BY InWord
  <2>2. /\ wfifo \in Seq(Word) /\ Len(wfifo) <= FIFO_WORDS
        /\ rfifo \in Seq(Word) /\ Len(rfifo) <= FIFO_WORDS
        /\ command \in Seq(Word) /\ Len(command) <= 4
    BY Sizes DEF Init
  <2>3. pr \in [Registers -> Word] /\ mem \in [Addresses -> Word]
    BY <2>1 DEF Init
  <2>4. polls \in 1 .. POLL_LIMIT
    BY Sizes DEF Init
  <2> QED
    BY <2>2, <2>3, <2>4 DEF Init, TypeOK
<1>2. Executing
  BY InitExecutable DEF Init, Executing
<1>3. Begun /\ StatusHolds /\ NeverSlips
  BY DEF Init, Begun, StatusHolds, NeverSlips
<1> QED
  BY <1>1, <1>2, <1>3 DEF IInv

-----------------------------------------------------------------------------
(* The chip's steps.                                                       *)

LEMMA ParamsFew == \A w : NumParams(w) \in 0 .. 3
BY DEF NumParams

LEMMA Taken ==
  ASSUME NEW s \in Seq(Word), s # <<>>
  PROVE  Head(s) \in Word /\ Tail(s) \in Seq(Word) /\ Len(Tail(s)) = Len(s) - 1 /\ Len(s) \in Nat \ {0}
BY HeadTailProperties, EmptySeq

LEMMA Added ==
  ASSUME NEW s \in Seq(Word), NEW w \in Word
  PROVE  /\ Append(s, w) \in Seq(Word) /\ Len(Append(s, w)) = Len(s) + 1 /\ Append(s, w) # <<>>
         /\ Len(s) \in Nat
         /\ s = <<>> => Append(s, w)[1] = w
         /\ s # <<>> => Append(s, w)[1] = s[1]
<1>1. Append(s, w) \in Seq(Word) /\ Len(Append(s, w)) = Len(s) + 1 /\ Len(s) \in Nat
  OBVIOUS
<1>2. Append(s, w) # <<>>
  BY <1>1
<1>3. s = <<>> => Append(s, w)[1] = w
  OBVIOUS
<1>4. s # <<>> => Append(s, w)[1] = s[1]
  <2>1. s # <<>> => Len(s) \in Nat \ {0}
    BY EmptySeq
  <2> QED
    BY <2>1, AppendProperties
<1> QED
  BY <1>1, <1>2, <1>3, <1>4

LEMMA TakeWordKeeps == IInv /\ TakeWord => IInv'
<1> SUFFICES ASSUME IInv, TakeWord PROVE IInv'
  OBVIOUS
<1>0. /\ TypeOK /\ Executing /\ Begun /\ StatusHolds /\ NeverSlips
      /\ wfifo # <<>> /\ ~Complete /\ wfifo' = Tail(wfifo)
      /\ UNCHANGED <<rfifo, pr, mem, abt, str>>
      /\ UNCHANGED <<call, ops, polls, ready, got, rc, slipped, failed, retried>>
  BY DEF IInv, TakeWord, driver
<1>1. /\ Head(wfifo) \in Word /\ wfifo' \in Seq(Word)
      /\ Len(wfifo') = Len(wfifo) - 1 /\ Len(wfifo) \in Nat \ {0} /\ Len(wfifo) <= FIFO_WORDS
  BY <1>0, Taken DEF TypeOK
<1>2. /\ command' \in Seq(Word) /\ Len(command') <= 4 /\ Begun' /\ cer' \in BOOLEAN
  <2>1. command \in Seq(Word) /\ Len(command) <= 4 /\ cer \in BOOLEAN
    BY <1>0 DEF TypeOK
  <2>2. CASE command' = command
    BY <2>1, <2>2, <1>0 DEF TakeWord, Begun
  <2>3. CASE command' = Append(command, Head(wfifo)) /\ cer' = cer
    <3>1. /\ command' \in Seq(Word) /\ Len(command') = Len(command) + 1 /\ Len(command) \in Nat
          /\ command = <<>> => command'[1] = Head(wfifo)
          /\ command # <<>> => command'[1] = command[1]
      BY <2>1, <2>3, <1>1, Added
    <3>2. CASE command = <<>>
      BY <3>1, <3>2, <2>1, <2>3, ParamsFew DEF Begun
    <3>3. CASE command # <<>>
      <4>1. Len(command) < 1 + NumParams(command[1])
        BY <3>3, <1>0, <3>1, ParamsFew DEF Begun, Complete
      <4> QED
        BY <4>1, <3>1, <3>3, <2>1, <2>3, ParamsFew DEF Begun
    <3> QED
      BY <3>2, <3>3
  <2> QED
    BY <2>2, <2>3 DEF TakeWord
<1>3. TypeOK'
  BY <1>0, <1>1, <1>2, Sizes DEF TypeOK
<1>4. Executing' /\ NeverSlips'
  BY <1>0 DEF Executing, NeverSlips
<1>5. StatusHolds'
  BY <1>0, <1>1, Sizes DEF StatusHolds
<1> QED
  BY <1>0, <1>2, <1>3, <1>4, <1>5 DEF IInv

LEMMA AdvancedTyped ==
  ASSUME pr \in [Registers -> Word]
  PROVE  Advanced \in [Registers -> Word]
<1>1. PR_RWPH \in Registers /\ PR_RWPL \in Registers
  BY DEF Registers
<1>2. pr[PR_RWPH] \in Int /\ pr[PR_RWPL] \in Int
  <2>1. pr[PR_RWPH] \in Word /\ pr[PR_RWPL] \in Word
    BY <1>1
  <2>2. Word \subseteq Int
    BY InWord
  <2> QED
    BY ONLY <2>1, <2>2
<1>3. RWP \in Int
  BY <1>2 DEF RWP
<1> DEFINE dn == pr[PR_RWPH] \div 16384
           addr == (RWP + 1) % 2^20
           dot == pr[PR_RWPL] % 16
           p == pack_ptr(dn, addr, dot)
<1>4. dn \in Int /\ addr \in Int /\ dot \in Int
  BY <1>2, <1>3
<1>5. Advanced = [pr EXCEPT ![PR_RWPH] = p[1], ![PR_RWPL] = p[2]]
  BY DEF Advanced
<1> HIDE DEF dn, addr, dot
<1>6. p[1] \in Word /\ p[2] \in Word
  BY <1>4, Packed
<1> HIDE DEF p
<1> QED
  BY <1>5, <1>6

\* Whatever the command was, what it leaves is of the chip's types, and the words to be read stay.
LEMMA ExecuteKeeps == IInv /\ Execute => IInv'
<1> SUFFICES ASSUME IInv, Execute PROVE IInv'
  OBVIOUS
<1>0. /\ TypeOK /\ Executing /\ Begun /\ StatusHolds /\ NeverSlips
      /\ Complete /\ command' = <<>>
      /\ UNCHANGED <<wfifo, cer, abt, str>>
      /\ UNCHANGED <<call, ops, polls, ready, got, rc, slipped, failed, retried>>
      /\ WriteParameter \/ ReadParameter \/ WriteWord \/ ReadWord \/ ClearArea \/ SetOrigin
  BY DEF IInv, Execute, driver
<1>1. /\ pr \in [Registers -> Word] /\ mem \in [Addresses -> Word]
      /\ rfifo \in Seq(Word) /\ Len(rfifo) <= FIFO_WORDS
      /\ command \in Seq(Word) /\ Len(command) = 1 + NumParams(command[1])
  BY <1>0 DEF TypeOK, Complete
<1>2. 0 \in Word
  BY InWord
<1>3. ASSUME NEW w \in Word, Len(rfifo) < FIFO_WORDS, rfifo' = Append(rfifo, w)
      PROVE  rfifo' \in Seq(Word) /\ Len(rfifo') <= FIFO_WORDS /\ rfifo' # <<>>
  BY <1>1, <1>3, Added, Sizes
<1> DEFINE Left == /\ rfifo' \in Seq(Word) /\ Len(rfifo') <= FIFO_WORDS /\ (rfifo # <<>> => rfifo' # <<>>)
                   /\ pr' \in [Registers -> Word] /\ mem' \in [Addresses -> Word]
<1>4. ASSUME WriteParameter PROVE Left
  <2>1. command[1] \in CMD_WPR .. CMD_WPR + 31
    BY <1>4 DEF WriteParameter
  <2>2. NumParams(command[1]) = 1
    BY <2>1 DEF NumParams, CMD_WPR, CMD_CLR, CMD_ORG, CMD_WT
  <2>3. command[2] \in Word
    <3>1. 2 \in 1 .. Len(command)
      BY <2>2, <1>1
    <3> QED
      BY <3>1, <1>1, ElementOfSeq
  <2>4. pr' \in [Registers -> Word]
    BY <1>1, <1>4, <2>3 DEF WriteParameter
  <2> QED
    BY <1>1, <1>4, <2>4 DEF WriteParameter
<1>5. ASSUME ReadParameter PROVE Left
  <2>1. \E w \in Word : rfifo' = Append(rfifo, w)
    BY <1>1, <1>2, <1>5 DEF ReadParameter
  <2> QED
    BY <2>1, <1>1, <1>3, <1>5 DEF ReadParameter
<1>6. ASSUME WriteWord PROVE Left
  <2>1. NumParams(command[1]) = 1
    BY <1>6 DEF WriteWord, NumParams, CMD_WPR, CMD_CLR, CMD_ORG, CMD_WT
  <2>2. command[2] \in Word
    <3>1. 2 \in 1 .. Len(command)
      BY <2>1, <1>1
    <3> QED
      BY <3>1, <1>1, ElementOfSeq
  <2>3. mem' \in [Addresses -> Word]
    BY <1>1, <1>6, <2>2 DEF WriteWord
  <2> QED
    BY <1>1, <1>6, <2>3, AdvancedTyped DEF WriteWord
<1>7. ASSUME ReadWord PROVE Left
  <2>1. \E w \in Word : rfifo' = Append(rfifo, w)
    BY <1>1, <1>2, <1>7 DEF ReadWord
  <2> QED
    BY <2>1, <1>1, <1>3, <1>7, AdvancedTyped DEF ReadWord
<1>8. ASSUME ClearArea PROVE Left
  <2>1. NumParams(command[1]) = 3
    BY <1>8 DEF ClearArea, NumParams, CMD_WPR, CMD_CLR, CMD_ORG, CMD_WT
  <2>2. command[2] \in Word
    <3>1. 2 \in 1 .. Len(command)
      BY <2>1, <1>1
    <3> QED
      BY <3>1, <1>1, ElementOfSeq
  <2>3. mem' \in [Addresses -> Word]
    BY <1>1, <1>8, <2>2 DEF ClearArea
  <2> QED
    BY <1>1, <1>8, <2>3 DEF ClearArea
<1>9. ASSUME SetOrigin PROVE Left
  BY <1>1, <1>9 DEF SetOrigin
<1>10. Left
  <2> HIDE DEF Left
  <2> QED
    BY <1>0, <1>4, <1>5, <1>6, <1>7, <1>8, <1>9
<1>11. TypeOK'
  BY <1>0, <1>10 DEF TypeOK
<1>12. Executing' /\ Begun' /\ StatusHolds' /\ NeverSlips'
  BY <1>0, <1>10 DEF Executing, Begun, StatusHolds, NeverSlips
<1> QED
  BY <1>11, <1>12 DEF IInv

-----------------------------------------------------------------------------
(* The driver's steps.                                                     *)

\* What a step says of the driver's own variables: it goes on, or returns.
DriverSound ==
  /\ call \in Calls \cup {NoCall, [fn |-> "init"]} /\ polls \in 1 .. POLL_LIMIT
  /\ rc \in {"OK", "PARAM", "TIMEOUT", "NO_DEVICE", "CMD"}
  /\ ready \in BOOLEAN /\ Executing

LEMMA ReturnSound ==
  ASSUME NEW code \in {"OK", "TIMEOUT", "NO_DEVICE", "CMD"}, Return(code)
  PROVE  DriverSound' /\ ready' = FALSE
<1>1. polls' \in 1 .. POLL_LIMIT
  BY Sizes DEF Return
<1> QED
  BY <1>1 DEF Return, DriverSound, Executing

LEMMA TailExecutable ==
  ASSUME NEW s, Executable(s), Len(s) # 1
  PROVE  Executable(Tail(s))
<1>1. s \in Seq(Op) /\ s # <<>> /\ \A i \in 2 .. Len(s) : s[i] \in Plain
  BY DEF Executable
<1>2. Len(s) \in Nat /\ Len(s) > 1
  <2>1. Len(s) \in Nat \ {0} /\ Len(s) # 1
    BY <1>1, EmptySeq
  <2>2. \A n \in Nat \ {0} : n # 1 => n > 1
    OBVIOUS
  <2> QED
    BY ONLY <2>1, <2>2
<1> DEFINE t == Tail(s)
<1>3. Len(t) = Len(s) - 1 /\ t \in Seq(Op) /\ \A i \in 1 .. Len(t) : t[i] = s[i + 1]
  BY <1>1, HeadTailProperties
<1> HIDE DEF t
<1>4. \A i \in 1 .. Len(t) : t[i] \in Plain
  BY <1>1, <1>2, <1>3
<1>5. t # <<>>
  BY <1>2, <1>3
<1>6. t \in Seq(Plain)
  <2>1. t = [i \in 1 .. Len(t) |-> t[i]]
    BY <1>3
  <2>2. Len(t) \in Nat
    BY <1>2, <1>3
  <2> QED
    BY <2>1, <2>2, <1>4
<1>7. Executable(t)
  BY <1>5, <1>6, PlainExecutable
<1> QED
  BY <1>7 DEF t

LEMMA ProceedSound ==
  ASSUME DriverSound, call # NoCall, Proceed
  PROVE  DriverSound' /\ ready' = FALSE
<1>1. CASE Len(ops) = 1
  BY <1>1, ReturnSound DEF Proceed
<1>2. CASE Len(ops) # 1
  <2>1. /\ ops' = Tail(ops) /\ polls' = POLL_LIMIT /\ ready' = FALSE
        /\ UNCHANGED <<call, rc, failed, retried>>
    BY <1>2 DEF Proceed
  <2>2. Executable(ops')
    BY <1>2, <2>1, TailExecutable DEF DriverSound, Executing
  <2>3. polls' \in 1 .. POLL_LIMIT
    BY <2>1, Sizes
  <2> QED
    BY <2>1, <2>2, <2>3 DEF DriverSound, Executing
<1> QED
  BY <1>1, <1>2

LEMMA PolledSound ==
  ASSUME DriverSound, Polled, ready = FALSE
  PROVE  DriverSound' /\ ready' = FALSE
<1>1. CASE polls = 1
  BY <1>1, ReturnSound DEF Polled
<1>2. CASE polls # 1
  <2>1. polls' = polls - 1 /\ UNCHANGED <<call, ops, ready, rc, failed, retried>>
    BY <1>2 DEF Polled
  <2>2. polls' \in 1 .. POLL_LIMIT
    BY <1>2, <2>1, Sizes DEF DriverSound
  <2> QED
    BY <2>1, <2>2 DEF DriverSound, Executing
<1> QED
  BY <1>1, <1>2

\* A step that leaves the chip's registers and memory alone keeps the invariant when what it does to
\* the driver is sound, what it does to the FIFOs is of their type, and it neither slips nor leaves a
\* status behind.
LEMMA StepSound ==
  ASSUME IInv, DriverSound', ready' = FALSE, slipped' = slipped,
         pr' = pr, mem' = mem, cer' \in BOOLEAN, abt' \in BOOLEAN, str' \in BOOLEAN,
         wfifo' \in Seq(Word), Len(wfifo') <= FIFO_WORDS,
         rfifo' \in Seq(Word), Len(rfifo') <= FIFO_WORDS,
         command' = command \/ command' = <<>>
  PROVE  IInv'
<1>1. TypeOK /\ Begun /\ NeverSlips
  BY DEF IInv
<1>2. /\ command' \in Seq(Word) /\ Len(command') <= 4
  <2>1. command \in Seq(Word) /\ Len(command) <= 4
    BY <1>1 DEF TypeOK
  <2>2. <<>> \in Seq(Word) /\ Len(<<>>) <= 4
    OBVIOUS
  <2> QED
    BY <2>1, <2>2
<1>3. slipped' \in BOOLEAN /\ ready' \in BOOLEAN
  BY <1>1 DEF TypeOK
<1>4. /\ call' \in Calls \cup {NoCall, [fn |-> "init"]} /\ polls' \in 1 .. POLL_LIMIT
      /\ rc' \in {"OK", "PARAM", "TIMEOUT", "NO_DEVICE", "CMD"} /\ Executing'
  BY DEF DriverSound
<1>5. pr' \in [Registers -> Word] /\ mem' \in [Addresses -> Word]
  BY <1>1 DEF TypeOK
<1>6. TypeOK'
  BY <1>2, <1>3, <1>4, <1>5 DEF TypeOK
<1>7. Begun'
  BY <1>1 DEF Begun
<1>8. StatusHolds' /\ NeverSlips'
  BY <1>1 DEF StatusHolds, NeverSlips
<1> QED
  BY <1>4, <1>6, <1>7, <1>8 DEF IInv

LEMMA Typed ==
  ASSUME IInv
  PROVE  /\ DriverSound /\ cer \in BOOLEAN /\ abt \in BOOLEAN /\ str \in BOOLEAN
         /\ wfifo \in Seq(Word) /\ Len(wfifo) <= FIFO_WORDS
         /\ rfifo \in Seq(Word) /\ Len(rfifo) <= FIFO_WORDS
BY DEF IInv, TypeOK, DriverSound

LEMMA InitCallable == [fn |-> "init"] \in Callable /\ [fn |-> "init"] # NoCall
<1>1. [fn |-> "init"] \in Callable
  BY DEF Callable
<1> QED
  BY <1>1, CallsAssumption

\* A call is taken when none is under way, so no status has been read for it.
LEMMA CallKeeps == ASSUME NEW c \in Calls, IInv, Call(c) PROVE IInv'
<1>1. /\ call = NoCall /\ slipped' = slipped /\ ready' = ready
      /\ UNCHANGED <<wfifo, rfifo, command, pr, mem, cer, abt, str>>
  BY DEF Call, chip
<1>2. ready' = FALSE
  BY <1>1 DEF IInv, TypeOK, StatusHolds
<1>3. DriverSound'
  <2>1. CASE BadParameter(c)
    BY <1>1, <1>2, <2>1, Typed DEF Call, DriverSound, Executing
  <2>2. CASE ~BadParameter(c)
    <3>1. call' = c /\ ops' = Program(c) /\ polls' = POLL_LIMIT /\ rc' = rc
      BY <2>2 DEF Call
    <3>2. Executable(ops')
      BY <3>1, <2>2, ProgramExecutable, CallsAssumption
    <3>3. polls' \in 1 .. POLL_LIMIT
      BY <3>1, Sizes
    <3> QED
      BY <1>2, <3>1, <3>2, <3>3, Typed DEF DriverSound, Executing
  <2> QED
    BY <2>1, <2>2
<1> QED
  BY <1>1, <1>2, <1>3, Typed, StepSound

\* The status is kept when it has the bit, and one reading is spent when it has not.
LEMMA WaitKeeps ==
  ASSUME IInv, wait_sr("put", WFR) \/ wait_sr("get", RFR)
  PROVE  IInv'
<1>1. /\ call # NoCall /\ ready = FALSE /\ slipped' = slipped
      /\ UNCHANGED <<wfifo, rfifo, command, pr, mem, cer, abt, str>>
  BY DEF wait_sr, Doing, chip, IInv, TypeOK
<1>2. CASE Polled
  BY <1>1, <1>2, Typed, PolledSound, StepSound
<1>3. CASE /\ ready' = TRUE /\ UNCHANGED <<call, ops, polls, rc, failed, retried>>
           /\ (Doing("put") /\ WFR) \/ (Doing("get") /\ RFR)
  <2>1. StatusHolds'
    BY <1>1, <1>3 DEF StatusHolds, Doing, WFR, RFR
  <2>2. TypeOK'
    BY <1>1, <1>3 DEF IInv, TypeOK
  <2>3. Executing' /\ Begun' /\ NeverSlips'
    BY <1>1, <1>3 DEF IInv, Executing, Begun, NeverSlips
  <2> QED
    BY <2>1, <2>2, <2>3 DEF IInv
<1>4. CASE wait_sr("put", WFR)
  <2>1. CASE WFR
    <3>1. Doing("put") /\ ready' = TRUE /\ UNCHANGED <<call, ops, polls, rc, failed, retried>>
      BY <1>4, <2>1 DEF wait_sr
    <3> QED
      BY <3>1, <2>1, <1>3
  <2>2. CASE ~WFR
    BY <1>2, <1>4, <2>2 DEF wait_sr
  <2> QED
    BY <2>1, <2>2
<1>5. CASE wait_sr("get", RFR)
  <2>1. CASE RFR
    <3>1. Doing("get") /\ ready' = TRUE /\ UNCHANGED <<call, ops, polls, rc, failed, retried>>
      BY <1>5, <2>1 DEF wait_sr
    <3> QED
      BY <3>1, <2>1, <1>3
  <2>2. CASE ~RFR
    BY <1>2, <1>5, <2>2 DEF wait_sr
  <2> QED
    BY <2>1, <2>2
<1> QED
  BY <1>4, <1>5

\* The room the driver saw is still there: the chip only takes words out.
LEMMA WriteKeeps == ASSUME IInv, fifo_write_word PROVE IInv'
<1>1. /\ call # NoCall /\ Head(ops).do = "put" /\ ready /\ Proceed
      /\ UNCHANGED <<rfifo, command, pr, mem, cer, abt, str>>
  BY DEF fifo_write_word, Doing
<1>2. Len(wfifo) < FIFO_WORDS
  BY <1>1 DEF IInv, StatusHolds
<1>3. wfifo' = Append(wfifo, Head(ops).word) /\ slipped' = slipped
  BY <1>2 DEF fifo_write_word
<1>4. Head(ops).word \in Word
  <2>1. Head(ops) \in Op
    BY <1>1, HeadTailProperties DEF IInv, Executing, Executable
  <2>2. Head(ops) \in [do : {"put"}, word : Word]
    BY <2>1, <1>1 DEF Op, Plain
  <2> QED
    BY <2>2
<1>5. wfifo' \in Seq(Word) /\ Len(wfifo') <= FIFO_WORDS
  BY <1>2, <1>3, <1>4, Typed, Added, Sizes
<1>6. DriverSound' /\ ready' = FALSE
  BY <1>1, Typed, ProceedSound
<1> QED
  BY <1>1, <1>3, <1>5, <1>6, Typed, StepSound

\* The word the driver saw is still there: only the driver takes it.
LEMMA ReadKeeps == ASSUME IInv, fifo_read_word PROVE IInv'
<1>1. /\ call # NoCall /\ Head(ops).do = "get" /\ ready /\ Proceed
      /\ UNCHANGED <<wfifo, command, pr, mem, cer, abt, str>>
  BY DEF fifo_read_word, Doing
<1>2. rfifo # <<>>
  BY <1>1 DEF IInv, StatusHolds
<1>3. rfifo' = Tail(rfifo) /\ slipped' = slipped
  BY <1>2 DEF fifo_read_word
<1>4. rfifo' \in Seq(Word) /\ Len(rfifo') <= FIFO_WORDS
  BY <1>2, <1>3, Typed, Taken, Sizes
<1>5. DriverSound' /\ ready' = FALSE
  BY <1>1, Typed, ProceedSound
<1> QED
  BY <1>1, <1>3, <1>4, <1>5, Typed, StepSound

LEMMA IdleKeeps == ASSUME IInv, hd63484_wait_idle PROVE IInv'
<1>1. /\ call # NoCall /\ Head(ops).do = "idle" /\ slipped' = slipped
      /\ UNCHANGED <<wfifo, rfifo, command, pr, mem, cer, abt, str>>
      /\ Return("CMD") \/ Proceed \/ Polled
  BY DEF hd63484_wait_idle, Doing, chip
<1>2. ready = FALSE
  BY <1>1 DEF IInv, TypeOK, StatusHolds
<1>3. DriverSound' /\ ready' = FALSE
  BY <1>1, <1>2, Typed, ReturnSound, ProceedSound, PolledSound
<1> QED
  BY <1>1, <1>3, Typed, StepSound

\* After the abort, which empties the FIFOs under the driver, no status it read before is used.
LEMMA CcrKeeps == ASSUME IInv, WriteCcr PROVE IInv'
<1>1. CASE Doing("abort") /\ Aborts /\ ops' = Tail(ops) /\ UNCHANGED <<call, polls, ready, got, rc, slipped>>
  <2>1. call # NoCall /\ Head(ops).do = "abort" /\ Executable(ops)
    BY <1>1 DEF Doing, IInv, Executing
  <2>2. Len(ops) # 1
    <3>1. Head(ops) = ops[1]
      OBVIOUS
    <3> QED
      BY <2>1, <3>1 DEF Executable
  <2>3. Executable(ops')
    BY <1>1, <2>1, <2>2, TailExecutable
  <2>4. ready = FALSE
    BY <2>1 DEF IInv, TypeOK, StatusHolds
  <2>5. DriverSound'
    BY <1>1, <2>3, <2>4, Typed DEF DriverSound, Executing
  <2>6. /\ wfifo' = <<>> /\ rfifo' = <<>> /\ command' = <<>>
        /\ cer' = FALSE /\ abt' = TRUE /\ UNCHANGED <<pr, mem, str>>
    BY <1>1 DEF Aborts
  <2>7. wfifo' \in Seq(Word) /\ rfifo' \in Seq(Word) /\ Len(wfifo') <= FIFO_WORDS /\ Len(rfifo') <= FIFO_WORDS
    BY <2>6, Sizes
  <2> QED
    BY <1>1, <2>4, <2>5, <2>6, <2>7, Typed, StepSound
<1>2. CASE /\ Doing("enable") /\ abt' = FALSE /\ Proceed
           /\ UNCHANGED <<wfifo, rfifo, command, pr, mem, cer, str, got, slipped>>
  <2>1. DriverSound' /\ ready' = FALSE
    BY <1>2, Typed, ProceedSound DEF Doing
  <2> QED
    BY <1>2, <2>1, Typed, StepSound
<1> QED
  BY <1>1, <1>2 DEF WriteCcr

LEMMA OmrKeeps == ASSUME IInv, WriteOmr PROVE IInv'
<1>1. /\ call # NoCall /\ Proceed /\ str' \in BOOLEAN
      /\ UNCHANGED <<wfifo, rfifo, command, pr, mem, cer, abt, got, slipped>>
  BY DEF WriteOmr, Doing
<1>2. DriverSound' /\ ready' = FALSE
  BY <1>1, Typed, ProceedSound
<1> QED
  BY <1>1, <1>2, Typed, StepSound

LEMMA CheckKeeps == ASSUME IInv, CheckPresence PROVE IInv'
<1>1. /\ call # NoCall /\ slipped' = slipped
      /\ UNCHANGED <<wfifo, rfifo, command, pr, mem, cer, abt, str>>
      /\ Return("NO_DEVICE") \/ Proceed
  BY DEF CheckPresence, Doing, chip
<1>2. DriverSound' /\ ready' = FALSE
  BY <1>1, Typed, ReturnSound, ProceedSound
<1> QED
  BY <1>1, <1>2, Typed, StepSound

LEMMA StutterKeeps == IInv /\ UNCHANGED vars => IInv'
<1> SUFFICES ASSUME IInv, UNCHANGED vars PROVE IInv'
  OBVIOUS
<1>1. /\ UNCHANGED <<wfifo, rfifo, command, pr, mem, cer, abt, str>>
      /\ UNCHANGED <<call, ops, polls, ready, rc, slipped>>
  BY DEF vars, chip, driver
<1> QED
  BY <1>1 DEF IInv, TypeOK, Executing, Begun, StatusHolds, NeverSlips

LEMMA NextKeeps == IInv /\ [Next]_vars => IInv'
<1> SUFFICES ASSUME IInv, [Next]_vars PROVE IInv'
  OBVIOUS
<1>1. ASSUME NEW c \in Calls, Call(c) PROVE IInv'
  BY <1>1, CallKeeps
<1>2. CASE Execution
  BY <1>2, WaitKeeps, WriteKeeps, ReadKeeps, IdleKeeps, CcrKeeps, OmrKeeps, CheckKeeps DEF Execution
<1> QED
  BY <1>1, <1>2, TakeWordKeeps, ExecuteKeeps, StutterKeeps DEF Next

\* The invariant holds in every reachable state, whatever the chip does between two of the driver's
\* accesses (hd63484.c's polling of the status register and the accesses after it).
THEOREM Inductive == Spec => []IInv
BY InitIInv, NextKeeps, PTL DEF Spec

\* The FIFOs hold no more words than they have room for, and every word, register and cell of the
\* frame buffer stays within sixteen bits.
THEOREM TypeCorrect == Spec => []TypeOK
<1>1. IInv => TypeOK
  BY DEF IInv
<1> QED
  BY <1>1, Inductive, PTL

\* No word is written to a full FIFO or read from an empty one: what the driver saw in the status
\* register still holds when it makes the access, although the chip has gone on meanwhile.
THEOREM SlipsNever == Spec => []NeverSlips
<1>1. IInv => NeverSlips
  BY DEF IInv
<1> QED
  BY <1>1, Inductive, PTL
-----------------------------------------------------------------------------
(* Numbers and opcodes.                                                    *)

AddressSpace == 1048576

LEMMA AddressBound == AddressSpace \in Nat /\ AddressSpace = 2^20
BY SMT DEF AddressSpace

\* An address is put together again from the two words it was taken apart into.
LEMMA Unpacked ==
  ASSUME NEW dn \in Int, NEW addr \in Nat, addr < AddressSpace, NEW dot \in Int
  PROVE  LET p == pack_ptr(dn, addr, dot)
         IN  ((p[1] % 256) * 4096) + (p[2] \div 16) = addr
<1>1. /\ (addr \div 4096) % 256 \in 0 .. 255 /\ (addr \div 4096) % 256 = addr \div 4096
      /\ addr % 4096 \in Nat /\ addr % 4096 < 4096 /\ dot % 16 \in 0 .. 15 /\ dn % 4 \in Int
  BY SMT DEF AddressSpace
<1>2. addr = ((addr \div 4096) * 4096) + (addr % 4096)
  BY SMT
<1>3. ((dn % 4) * 16384 + ((addr \div 4096) % 256)) % 256 = (addr \div 4096) % 256
  <2>1. \A a \in Int, b \in 0 .. 255 : (a * 16384 + b) % 256 = b
    BY SMT
  <2> QED BY <1>1, <2>1, SMT
<1>4. ((addr % 4096) * 16 + (dot % 16)) \div 16 = addr % 4096
  <2>1. \A a \in Nat, b \in 0 .. 15 : (a * 16 + b) \div 16 = a
    BY SMT
  <2> QED BY <1>1, <2>1, SMT
<1>5. pack_ptr(dn, addr, dot) = <<((dn % 4) * 16384) + ((addr \div 4096) % 256), ((addr % 4096) * 16) + (dot % 16)>>
  BY DEF pack_ptr
<1> QED BY <1>1, <1>2, <1>3, <1>4, <1>5, SMT

WPRs == CMD_WPR .. CMD_WPR + 31
RPRs == CMD_RPR .. CMD_RPR + 31

\* How many words each command has, and that none is taken for another.
LEMMA CommandWords ==
  /\ CMD_WPR \in Nat /\ CMD_RPR \in Nat
  /\ \A w \in WPRs : NumParams(w) = 1 /\ IsOpcode(w) /\ w \notin RPRs
                     /\ w # CMD_WT /\ w # CMD_RD /\ w # CMD_CLR /\ w # CMD_ORG
  /\ \A w \in RPRs : NumParams(w) = 0 /\ IsOpcode(w) /\ w \notin WPRs
                     /\ w # CMD_WT /\ w # CMD_RD /\ w # CMD_CLR /\ w # CMD_ORG
  /\ NumParams(CMD_WT) = 1 /\ NumParams(CMD_RD) = 0 /\ NumParams(CMD_CLR) = 3 /\ NumParams(CMD_ORG) = 2
  /\ IsOpcode(CMD_WT) /\ IsOpcode(CMD_RD) /\ IsOpcode(CMD_CLR) /\ IsOpcode(CMD_ORG)
  /\ {CMD_WT, CMD_RD, CMD_CLR, CMD_ORG} \cap (WPRs \cup RPRs) = {}
  /\ CMD_WT # CMD_RD /\ CMD_WT # CMD_CLR /\ CMD_WT # CMD_ORG /\ CMD_RD # CMD_CLR /\ CMD_RD # CMD_ORG
  /\ CMD_CLR # CMD_ORG
BY SMT DEF CMD_WPR, CMD_RPR, CMD_WT, CMD_RD, CMD_CLR, CMD_ORG, NumParams, IsOpcode, WPRs, RPRs

LEMMA RegisterNumbers ==
  /\ PR_CL0 = 0 /\ PR_RWPH = 12 /\ PR_RWPL = 13 /\ PR_CL1 = 1 /\ PR_CCMP = 2 /\ PR_EDG = 3 /\ PR_MASK = 4
  /\ Registers = {0, 12, 13}
BY SMT DEF PR_CL0, PR_RWPH, PR_RWPL, PR_CL1, PR_CCMP, PR_EDG, PR_MASK, Registers

-----------------------------------------------------------------------------
(* What each call puts into the FIFO.  Most commands are of two words; a   *)
(* call has pairs of words first, then at most one command of another      *)
(* length, but for the reading commands, which are of one word each.       *)

Ptr(c) == pack_ptr(c.dn, c.addr, 0)

Accessing == {"write_words", "read_words", "fill_words", "clear_area"}

\* Operations of a call before its first word.
Lead(c) ==
  CASE c.fn = "init" -> 5
    [] c.fn = "abort" -> 2
    [] c.fn \in {"start", "stop"} -> 1
    [] OTHER -> 0

Pairs(c) ==
  CASE c.fn = "wpr" -> 1
    [] c.fn = "write_words" -> 2 + Len(c.data)
    [] c.fn = "fill_words" -> 2 + c.count
    [] c.fn \in {"read_words", "clear_area"} -> 2
    [] c.fn = "init" -> 5
    [] OTHER -> 0

PairOp(c, k) ==
  CASE c.fn = "wpr" -> CMD_WPR + c.reg
    [] c.fn = "init" -> CMD_WPR + (k - 1)
    [] OTHER -> IF k = 1 THEN CMD_WPR + PR_RWPH ELSE IF k = 2 THEN CMD_WPR + PR_RWPL ELSE CMD_WT

PairValue(c, k) ==
  CASE c.fn = "wpr" -> c.value
    [] c.fn = "init" -> IF k \in {2, 5} THEN 65535 ELSE 0
    [] OTHER -> IF k <= 2 THEN Ptr(c)[k] ELSE IF c.fn = "write_words" THEN c.data[k - 2] ELSE c.value

Rest(c) ==
  CASE c.fn = "rpr" -> <<CMD_RPR + c.reg>>
    [] c.fn = "read_words" -> <<CMD_RD>>
    [] c.fn = "clear_area" -> <<CMD_CLR, c.value, c.words - 1, (65536 - (c.lines - 1)) % 65536>>
    [] c.fn = "init" -> <<CMD_ORG, pack_ptr(SCREEN_BASE, 0, 0)[1], pack_ptr(SCREEN_BASE, 0, 0)[2]>>
    [] OTHER -> <<>>

Good(c) == c \in Callable /\ ~BadParameter(c)

LEMMA Arguments ==
  ASSUME NEW c, Good(c)
  PROVE  /\ c.fn \in {"init", "abort", "start", "stop", "wpr", "rpr"} \cup Accessing
         /\ c.fn = "wpr" => c.reg \in 0 .. 31 /\ c.value \in Word
         /\ c.fn = "rpr" => c.reg \in 0 .. 31
         /\ c.fn \in Accessing => c.dn \in Nat /\ c.addr \in Nat /\ c.addr < AddressSpace
         /\ c.fn = "write_words" => c.data \in Seq(Word)
         /\ c.fn \in {"read_words", "fill_words"} => c.count \in Nat
         /\ c.fn \in {"fill_words", "clear_area"} => c.value \in Word
         /\ c.fn = "clear_area" => c.words \in Word /\ c.words # 0 /\ c.lines \in Word /\ c.lines # 0
<1> DEFINE D == Seq(Word)
           R == Word
<1>1. CASE c \in [fn : {"init", "abort", "start", "stop"}]
  <2>1. c.fn \in {"init", "abort", "start", "stop"}
    BY <1>1
  <2> QED BY <2>1, SMT DEF Accessing
<1>2. CASE c \in [fn : {"wpr"}, reg : 0 .. 255, value : R]
  <2> HIDE DEF R
  <2>1. c.fn = "wpr" /\ c.reg \in 0 .. 255 /\ c.value \in R /\ ~(c.reg > 31)
    BY <1>2, SMT DEF BadParameter, Good
  <2> QED BY <2>1, SMT DEF Accessing, R
<1>3. CASE c \in [fn : {"rpr"}, reg : 0 .. 255]
  <2>1. c.fn = "rpr" /\ c.reg \in 0 .. 255 /\ ~(c.reg > 31)
    BY <1>3, SMT DEF BadParameter, Good
  <2> QED BY <2>1, SMT DEF Accessing
<1>4. ASSUME c.fn \in Accessing, c.dn \in 0 .. 255, c.addr \in Nat
      PROVE  c.dn \in Nat /\ c.addr \in Nat /\ c.addr < AddressSpace
  <2>1. ~(c.addr > 2^20 - 1)
    BY <1>4, SMT DEF Good, BadParameter, Accessing
  <2> QED BY <1>4, <2>1, AddressBound, SMT
<1>5. CASE c \in [fn : {"write_words"}, dn : 0 .. 255, addr : Nat, data : D]
  <2> HIDE DEF D
  <2>1. c.fn = "write_words" /\ c.dn \in 0 .. 255 /\ c.addr \in Nat /\ c.data \in D
    BY <1>5, SMT
  <2> QED BY <2>1, <1>4, SMT DEF D, Accessing
<1>6. CASE c \in [fn : {"read_words"}, dn : 0 .. 255, addr : Nat, count : Nat]
  <2>1. c.fn = "read_words" /\ c.dn \in 0 .. 255 /\ c.addr \in Nat /\ c.count \in Nat
    BY <1>6, SMT
  <2> QED BY <2>1, <1>4, SMT DEF Accessing
<1>7. CASE c \in [fn : {"fill_words"}, dn : 0 .. 255, addr : Nat, value : R, count : Nat]
  <2> HIDE DEF R
  <2>1. c.fn = "fill_words" /\ c.dn \in 0 .. 255 /\ c.addr \in Nat /\ c.count \in Nat /\ c.value \in R
    BY <1>7, SMT
  <2> QED BY <2>1, <1>4, SMT DEF Accessing, R
<1>8. CASE c \in [fn : {"clear_area"}, dn : 0 .. 255, addr : Nat, words : R, lines : R, value : R]
  <2> HIDE DEF R
  <2>1. /\ c.fn = "clear_area" /\ c.dn \in 0 .. 255 /\ c.addr \in Nat
        /\ c.words \in R /\ c.lines \in R /\ c.value \in R
    BY <1>8, SMT
  <2>2. c.words # 0 /\ c.lines # 0
    BY <2>1, SMT DEF Good, BadParameter
  <2> QED BY <2>1, <2>2, <1>4, SMT DEF Accessing, R
<1> QED BY <1>1, <1>2, <1>3, <1>5, <1>6, <1>7, <1>8, SMT DEF Good, Callable

\* Pieces of two, joined.
LEMMA FlattenPairs ==
  ASSUME NEW X, NEW ss \in Seq(Seq(X)), \A i \in 1 .. Len(ss) : Len(ss[i]) = 2
  PROVE  /\ FlattenSeq(ss) \in Seq(X) /\ Len(FlattenSeq(ss)) = 2 * Len(ss)
         /\ \A i \in 1 .. Len(ss) : /\ FlattenSeq(ss)[2 * i - 1] = ss[i][1]
                                    /\ FlattenSeq(ss)[2 * i] = ss[i][2]
<1>1. Len(ss) \in Nat /\ \A i \in 1 .. Len(ss) : ss[i] \in Seq(X)
  BY LenProperties, ElementOfSeq
<1>2. CASE Len(ss) = 0
  <2>1. ss = <<>> /\ FlattenSeq(ss) = ss
    BY <1>2, EmptySeq DEF FlattenSeq
  <2>2. FlattenSeq(ss) = <<>>
    BY <2>1
  <2> QED BY <1>2, <2>2
<1>3. CASE Len(ss) # 0
  <2> DEFINE flat == CHOOSE f : IsFlattening(f, ss, Len(ss))
             Right(n) == /\ flat[n] \in Seq(X) /\ Len(flat[n]) = 2 * n
                         /\ \A i \in 1 .. n : flat[n][2 * i - 1] = ss[i][1] /\ flat[n][2 * i] = ss[i][2]
             T == {n \in Nat : n \in 1 .. Len(ss) => Right(n)}
  <2>1. FlattenSeq(ss) = flat[Len(ss)]
    BY <1>3 DEF FlattenSeq, IsFlattening
  <2>2. IsFlattening(flat, ss, Len(ss))
    BY <1>1, FlatteningExists
  <2> HIDE DEF flat
  <2>3. \A i \in 1 .. Len(ss) : flat[i] = IF i = 1 THEN ss[i] ELSE flat[i - 1] \o ss[i]
    BY <2>2 DEF IsFlattening
  <2>4. 0 \in T
    OBVIOUS
  <2>5. ASSUME NEW n \in Nat, n \in T PROVE n + 1 \in T
    <3>1. SUFFICES ASSUME n + 1 \in 1 .. Len(ss) PROVE Right(n + 1)
      OBVIOUS
    <3>2. flat[n + 1] = IF n + 1 = 1 THEN ss[n + 1] ELSE flat[n] \o ss[n + 1]
      BY <3>1, <2>3
    <3>3. ss[n + 1] \in Seq(X) /\ Len(ss[n + 1]) = 2
      BY <3>1, <1>1
    <3>4. CASE n = 0
      <4>1. flat[1] = ss[1]
        BY <3>2, <3>4
      <4>2. \A i \in 1 .. 1 : i = 1
        OBVIOUS
      <4> QED BY <3>3, <3>4, <4>1, <4>2
    <3>5. CASE n # 0
      <4>1. Right(n)
        BY <2>5, <3>1, <3>5, <1>1
      <4> DEFINE u == flat[n]
                 v == ss[n + 1]
                 w == u \o v
      <4>2. /\ w \in Seq(X) /\ Len(w) = Len(u) + Len(v)
            /\ \A i \in 1 .. Len(u) + Len(v) : w[i] = IF i <= Len(u) THEN u[i] ELSE v[i - Len(u)]
        BY <4>1, <3>3, ConcatProperties
      <4>3. flat[n + 1] = w
        <5>1. n + 1 # 1
          BY <3>5
        <5> QED BY <3>2, <5>1
      <4>3a. u \in Seq(X) /\ Len(u) = 2 * n /\ Len(v) = 2
        BY <3>3, <4>1
      <4>3b. \A i \in 1 .. n : u[2 * i - 1] = ss[i][1] /\ u[2 * i] = ss[i][2]
        BY <4>1
      <4> HIDE DEF w
      <4>4. ASSUME NEW i \in 1 .. n + 1 PROVE w[2 * i - 1] = ss[i][1] /\ w[2 * i] = ss[i][2]
        <5>1. CASE i <= n
          <6>1. 2 * i - 1 \in 1 .. Len(u) + Len(v) /\ 2 * i \in 1 .. Len(u) + Len(v) /\ 2 * i <= Len(u)
            BY <5>1, <4>3a
          <6>2. w[2 * i - 1] = u[2 * i - 1] /\ w[2 * i] = u[2 * i]
            BY <6>1, <4>2, <4>3a, SMTT(60)
          <6>3. i \in 1 .. n
            BY <5>1
          <6> QED BY <6>2, <6>3, <4>3b
        <5>2. CASE i = n + 1
          <6>1. /\ 2 * i - 1 \in 1 .. Len(u) + Len(v) /\ 2 * i \in 1 .. Len(u) + Len(v)
                /\ ~(2 * i - 1 <= Len(u)) /\ ~(2 * i <= Len(u))
                /\ 2 * i - 1 - Len(u) = 1 /\ 2 * i - Len(u) = 2
            BY <5>2, <4>3a
          <6>2. w[2 * i - 1] = v[1] /\ w[2 * i] = v[2]
            BY <6>1, <4>2
          <6> QED BY <5>2, <6>2
        <5> QED BY <5>1, <5>2
      <4>5. w \in Seq(X) /\ Len(w) = 2 * (n + 1)
        BY <4>2, <4>3a
      <4> HIDE DEF u, v
      <4> QED BY <4>3, <4>4, <4>5
    <3> QED BY <3>4, <3>5
  <2>6. \A n \in Nat : n \in T
    <3> HIDE DEF T
    <3> QED BY <2>4, <2>5, ByInduction
  <2>7. Right(Len(ss))
    BY <1>1, <1>3, <2>6
  <2> QED BY <2>1, <2>7
<1> QED BY <1>2, <1>3

LEMMA JoinIs ==
  ASSUME NEW X, NEW s \in Seq(X), NEW t \in Seq(X)
  PROVE  /\ s \o t \in Seq(X) /\ Len(s \o t) = Len(s) + Len(t) /\ Len(s) \in Nat /\ Len(t) \in Nat
         /\ \A i \in 1 .. Len(s) : (s \o t)[i] = s[i]
         /\ \A i \in 1 .. Len(t) : (s \o t)[Len(s) + i] = t[i]
<1> DEFINE w == s \o t
<1>1. /\ w \in Seq(X) /\ Len(w) = Len(s) + Len(t)
      /\ \A i \in 1 .. Len(s) + Len(t) : w[i] = IF i <= Len(s) THEN s[i] ELSE t[i - Len(s)]
  BY ConcatProperties
<1>2. Len(s) \in Nat /\ Len(t) \in Nat
  BY LenProperties
<1> HIDE DEF w
<1>3. \A i \in 1 .. Len(s) : w[i] = s[i]
  BY <1>1, <1>2
<1>4. \A i \in 1 .. Len(t) : w[Len(s) + i] = t[i]
  <2> TAKE i \in 1 .. Len(t)
  <2>1. /\ Len(s) + i \in 1 .. Len(s) + Len(t) /\ ~(Len(s) + i <= Len(s))
        /\ (Len(s) + i) - Len(s) = i
    BY <1>2
  <2> QED BY <1>1, <2>1
<1> QED BY <1>1, <1>2, <1>3, <1>4 DEF w

LEMMA SendIs ==
  ASSUME NEW op \in Word, NEW ps \in Seq(Word)
  PROVE  LET s == hd63484_send_cmd(op, ps) IN
         /\ s \in Seq(Plain) /\ Len(s) = 1 + Len(ps) /\ s[1] = Put(op)
         /\ \A i \in 1 .. Len(ps) : s[1 + i] = Put(ps[i])
<1> DEFINE a == <<Put(op)>>
           b == [i \in DOMAIN ps |-> Put(ps[i])]
<1>1. DOMAIN ps = 1 .. Len(ps) /\ Len(ps) \in Nat /\ \A i \in 1 .. Len(ps) : ps[i] \in Word
  BY LenProperties, ElementOfSeq
<1>2. a \in Seq(Plain) /\ Len(a) = 1 /\ a[1] = Put(op)
  BY PutPlain
<1>3. b \in Seq(Plain) /\ Len(b) = Len(ps) /\ \A i \in 1 .. Len(ps) : b[i] = Put(ps[i])
  BY <1>1, PutPlain
<1> HIDE DEF a, b
<1>4. 1 \in 1 .. Len(a)
  BY <1>2
<1>5. hd63484_send_cmd(op, ps) = a \o b
  BY DEF hd63484_send_cmd, a, b
<1> DEFINE s == hd63484_send_cmd(op, ps)
<1>6. /\ s \in Seq(Plain) /\ Len(s) = Len(a) + Len(b)
      /\ \A i \in 1 .. Len(a) : s[i] = a[i]
      /\ \A i \in 1 .. Len(b) : s[Len(a) + i] = b[i]
  <2>1. a \in Seq(Plain) /\ b \in Seq(Plain)
    BY <1>2, <1>3
  <2>2. /\ a \o b \in Seq(Plain) /\ Len(a \o b) = Len(a) + Len(b)
        /\ \A i \in 1 .. Len(a) : (a \o b)[i] = a[i]
        /\ \A i \in 1 .. Len(b) : (a \o b)[Len(a) + i] = b[i]
    BY <2>1, JoinIs
  <2> QED BY <2>2, <1>5
<1> HIDE DEF s
<1>7. s \in Seq(Plain) /\ Len(s) = 1 + Len(ps) /\ s[1] = Put(op)
  BY <1>2, <1>3, <1>4, <1>6
<1>8. \A i \in 1 .. Len(ps) : s[1 + i] = Put(ps[i])
  BY <1>2, <1>3, <1>6
<1> QED BY <1>7, <1>8 DEF s

LEMMA WprIs ==
  ASSUME NEW r \in 0 .. 31, NEW w \in Word
  PROVE  LET s == hd63484_wpr(r, w) IN
         s \in Seq(Plain) /\ Len(s) = 2 /\ s[1] = Put(CMD_WPR + r) /\ s[2] = Put(w)
<1>1. <<w>> \in Seq(Word) /\ Len(<<w>>) = 1 /\ <<w>>[1] = w /\ 1 \in 1 .. 1 /\ 1 + 1 = 2
  OBVIOUS
<1>2. CMD_WPR + r \in Word
  BY Opcodes
<1> DEFINE s == hd63484_wpr(r, w)
           ps == <<w>>
<1>3. s = hd63484_send_cmd(CMD_WPR + r, ps)
  BY DEF hd63484_wpr
<1>4. ps \in Seq(Word) /\ Len(ps) = 1 /\ ps[1] = w
  BY <1>1
<1> HIDE DEF s, ps
<1>5. /\ s \in Seq(Plain) /\ Len(s) = 1 + Len(ps) /\ s[1] = Put(CMD_WPR + r)
      /\ \A i \in 1 .. Len(ps) : s[1 + i] = Put(ps[i])
  BY <1>2, <1>3, <1>4, SendIs, Zenon
<1>6. s[1 + 1] = Put(ps[1])
  BY <1>4, <1>5
<1> QED BY <1>4, <1>5, <1>6 DEF s

LEMMA PtrTyped ==
  ASSUME NEW c, Good(c), c.fn \in Accessing
  PROVE  Ptr(c) \in Seq(Word) /\ Ptr(c)[1] \in Word /\ Ptr(c)[2] \in Word
<1>1. c.dn \in Int /\ c.addr \in Int /\ 0 \in Int
  BY Arguments
<1> QED BY <1>1, Packed, Zenon DEF Ptr

LEMMA SetRwpIs ==
  ASSUME NEW c, Good(c), c.fn \in Accessing
  PROVE  LET s == hd63484_set_rwp(c.dn, c.addr, 0) IN
         /\ s \in Seq(Plain) /\ Len(s) = 4
         /\ s[1] = Put(CMD_WPR + PR_RWPH) /\ s[2] = Put(Ptr(c)[1])
         /\ s[3] = Put(CMD_WPR + PR_RWPL) /\ s[4] = Put(Ptr(c)[2])
<1> DEFINE a == hd63484_wpr(PR_RWPH, Ptr(c)[1])
           b == hd63484_wpr(PR_RWPL, Ptr(c)[2])
<1>1. PR_RWPH \in 0 .. 31 /\ PR_RWPL \in 0 .. 31
  BY DEF PR_RWPH, PR_RWPL
<1>2. /\ a \in Seq(Plain) /\ Len(a) = 2 /\ a[1] = Put(CMD_WPR + PR_RWPH) /\ a[2] = Put(Ptr(c)[1])
      /\ b \in Seq(Plain) /\ Len(b) = 2 /\ b[1] = Put(CMD_WPR + PR_RWPL) /\ b[2] = Put(Ptr(c)[2])
  BY <1>1, PtrTyped, WprIs
<1>3. hd63484_set_rwp(c.dn, c.addr, 0) = a \o b
  BY DEF hd63484_set_rwp, Ptr
<1> HIDE DEF a, b
<1> DEFINE s == a \o b
<1>4. /\ s \in Seq(Plain) /\ Len(s) = Len(a) + Len(b)
      /\ \A i \in 1 .. Len(a) : s[i] = a[i]
      /\ \A i \in 1 .. Len(b) : s[Len(a) + i] = b[i]
  <2>1. a \in Seq(Plain) /\ b \in Seq(Plain)
    BY <1>2
  <2> QED BY <2>1, JoinIs
<1> HIDE DEF s
<1>5. Len(s) = 4 /\ s[1] = a[1] /\ s[2] = a[2] /\ s[3] = b[1] /\ s[4] = b[2]
  <2>1. 1 \in 1 .. Len(a) /\ 2 \in 1 .. Len(a) /\ 1 \in 1 .. Len(b) /\ 2 \in 1 .. Len(b)
        /\ Len(a) + 1 = 3 /\ Len(a) + 2 = 4
    BY <1>2
  <2>2. s[3] = b[1] /\ s[4] = b[2]
    BY <1>4, <2>1
  <2> QED BY <1>2, <1>4, <2>1, <2>2
<1> QED BY <1>2, <1>3, <1>4, <1>5 DEF s

\* The address, then pieces of two operations each.
LEMMA PiecesIs ==
  ASSUME NEW c, Good(c), c.fn \in Accessing, NEW ss \in Seq(Seq(Plain)),
         \A i \in 1 .. Len(ss) : Len(ss[i]) = 2
  PROVE  LET s == hd63484_set_rwp(c.dn, c.addr, 0) \o FlattenSeq(ss) IN
         /\ s \in Seq(Plain) /\ Len(s) = 4 + 2 * Len(ss) /\ Len(ss) \in Nat
         /\ s[1] = Put(CMD_WPR + PR_RWPH) /\ s[2] = Put(Ptr(c)[1])
         /\ s[3] = Put(CMD_WPR + PR_RWPL) /\ s[4] = Put(Ptr(c)[2])
         /\ \A i \in 1 .. Len(ss) : s[4 + 2 * i - 1] = ss[i][1] /\ s[4 + 2 * i] = ss[i][2]
<1> DEFINE a == hd63484_set_rwp(c.dn, c.addr, 0)
           b == FlattenSeq(ss)
<1>1. /\ a \in Seq(Plain) /\ Len(a) = 4
      /\ a[1] = Put(CMD_WPR + PR_RWPH) /\ a[2] = Put(Ptr(c)[1])
      /\ a[3] = Put(CMD_WPR + PR_RWPL) /\ a[4] = Put(Ptr(c)[2])
  BY SetRwpIs
<1>2. /\ b \in Seq(Plain) /\ Len(b) = 2 * Len(ss)
      /\ \A i \in 1 .. Len(ss) : b[2 * i - 1] = ss[i][1] /\ b[2 * i] = ss[i][2]
  BY FlattenPairs
<1>3. Len(ss) \in Nat
  BY LenProperties
<1> HIDE DEF a, b
<1> DEFINE s == a \o b
<1>4. /\ s \in Seq(Plain) /\ Len(s) = Len(a) + Len(b)
      /\ \A i \in 1 .. Len(a) : s[i] = a[i]
      /\ \A i \in 1 .. Len(b) : s[Len(a) + i] = b[i]
  <2>1. a \in Seq(Plain) /\ b \in Seq(Plain)
    BY <1>1, <1>2
  <2> QED BY <2>1, JoinIs
<1> HIDE DEF s
<1>5. Len(s) = 4 + 2 * Len(ss) /\ s[1] = a[1] /\ s[2] = a[2] /\ s[3] = a[3] /\ s[4] = a[4]
  BY <1>1, <1>2, <1>3, <1>4
<1>6. ASSUME NEW i \in 1 .. Len(ss) PROVE s[4 + 2 * i - 1] = ss[i][1] /\ s[4 + 2 * i] = ss[i][2]
  <2>1. /\ 2 * i - 1 \in 1 .. Len(b) /\ 2 * i \in 1 .. Len(b)
        /\ 4 + (2 * i - 1) = 4 + 2 * i - 1
    BY <1>2, <1>3
  <2>2. s[4 + (2 * i - 1)] = b[2 * i - 1] /\ s[4 + 2 * i] = b[2 * i]
    BY <1>1, <1>4, <2>1
  <2> QED BY <1>2, <2>1, <2>2
<1> QED BY <1>1, <1>3, <1>4, <1>5, <1>6 DEF s, a, b

\* ... and a wait behind them.
LEMMA IdleIs ==
  ASSUME NEW s \in Seq(Plain)
  PROVE  LET p == s \o <<Idle>> IN
         /\ Len(p) = Len(s) + 1 /\ Len(s) \in Nat
         /\ \A i \in 1 .. Len(s) : p[i] = s[i]
         /\ p[Len(s) + 1] = Idle
<1> DEFINE t == <<Idle>>
           p == s \o t
<1>1. t \in Seq(Plain) /\ Len(t) = 1 /\ t[1] = Idle /\ 1 \in 1 .. 1
  BY GetIdlePlain
<1> HIDE DEF t
<1>2. /\ Len(p) = Len(s) + Len(t) /\ Len(s) \in Nat
      /\ \A i \in 1 .. Len(s) : p[i] = s[i]
      /\ \A i \in 1 .. Len(t) : p[Len(s) + i] = t[i]
  BY <1>1, JoinIs, SMTT(60)
<1> HIDE DEF p
<1>3. p[Len(s) + 1] = Idle
  BY <1>1, <1>2
<1> QED BY <1>1, <1>2, <1>3 DEF p, t

WritesWords(c, p, n) ==
  /\ Len(p) = 2 * n + 5
  /\ p[1] = Put(CMD_WPR + PR_RWPH) /\ p[2] = Put(Ptr(c)[1])
  /\ p[3] = Put(CMD_WPR + PR_RWPL) /\ p[4] = Put(Ptr(c)[2])
  /\ p[2 * n + 5] = Idle

LEMMA WordIs ==
  ASSUME NEW w \in Word
  PROVE  LET s == hd63484_send_cmd(CMD_WT, <<w>>) IN
         s \in Seq(Plain) /\ Len(s) = 2 /\ s[1] = Put(CMD_WT) /\ s[2] = Put(w)
<1> DEFINE ps == <<w>>
           s == hd63484_send_cmd(CMD_WT, ps)
<1>1. ps \in Seq(Word) /\ Len(ps) = 1 /\ ps[1] = w /\ CMD_WT \in Word
  BY Opcodes
<1> HIDE DEF ps
<1>2. /\ s \in Seq(Plain) /\ Len(s) = 1 + Len(ps) /\ s[1] = Put(CMD_WT)
      /\ \A j \in 1 .. Len(ps) : s[1 + j] = Put(ps[j])
  BY <1>1, SendIs
<1> HIDE DEF s
<1>3. s[1 + 1] = Put(ps[1])
  BY <1>1, <1>2
<1> QED BY <1>1, <1>2, <1>3 DEF s, ps

\* The program p of call c writes the words of v, one command each.
Block(c, v, ss, p) ==
  /\ Good(c) /\ c.fn \in Accessing /\ ss \in Seq(Seq(Plain))
  /\ \A i \in 1 .. Len(ss) : v[i] \in Word /\ ss[i] = hd63484_send_cmd(CMD_WT, <<v[i]>>)
  /\ p = hd63484_set_rwp(c.dn, c.addr, 0) \o FlattenSeq(ss) \o <<Idle>>

BlockWrites(v, ss, p) ==
  \A i \in 1 .. Len(ss) : p[4 + 2 * i - 1] = Put(CMD_WT) /\ p[4 + 2 * i] = Put(v[i])

LEMMA BlockIs ==
  ASSUME NEW c, NEW v, NEW ss, NEW p, Block(c, v, ss, p)
  PROVE  WritesWords(c, p, Len(ss)) /\ BlockWrites(v, ss, p)
<1> USE DEF Block
<1>1. \A i \in 1 .. Len(ss) : Len(ss[i]) = 2 /\ ss[i][1] = Put(CMD_WT) /\ ss[i][2] = Put(v[i])
  BY WordIs
<1>2. Len(ss) \in Nat
  BY LenProperties
<1> DEFINE s == hd63484_set_rwp(c.dn, c.addr, 0) \o FlattenSeq(ss)
<1>2a. p = s \o <<Idle>>
  OBVIOUS
<1>3. /\ s \in Seq(Plain) /\ Len(s) = 4 + 2 * Len(ss)
      /\ s[1] = Put(CMD_WPR + PR_RWPH) /\ s[2] = Put(Ptr(c)[1])
      /\ s[3] = Put(CMD_WPR + PR_RWPL) /\ s[4] = Put(Ptr(c)[2])
      /\ \A i \in 1 .. Len(ss) : s[4 + 2 * i - 1] = ss[i][1] /\ s[4 + 2 * i] = ss[i][2]
  BY <1>1, PiecesIs
<1> HIDE DEF s
<1>4. /\ Len(p) = Len(s) + 1 /\ \A i \in 1 .. Len(s) : p[i] = s[i]
      /\ p[Len(s) + 1] = Idle
  BY <1>2a, <1>3, IdleIs
<1>5. WritesWords(c, p, Len(ss))
  <2>1. /\ 1 \in 1 .. Len(s) /\ 2 \in 1 .. Len(s) /\ 3 \in 1 .. Len(s) /\ 4 \in 1 .. Len(s)
        /\ Len(s) + 1 = 2 * Len(ss) + 5
    BY <1>2, <1>3
  <2> QED BY <1>3, <1>4, <2>1 DEF WritesWords
<1>6. ASSUME NEW i \in 1 .. Len(ss) PROVE p[4 + 2 * i - 1] = Put(CMD_WT) /\ p[4 + 2 * i] = Put(v[i])
  <2>1. 4 + 2 * i - 1 \in 1 .. Len(s) /\ 4 + 2 * i \in 1 .. Len(s)
    BY <1>2, <1>3
  <2> QED BY <1>1, <1>3, <1>4, <2>1
<1> QED BY <1>5, <1>6 DEF BlockWrites

PairsAre(c, p) ==
  \A k \in 1 .. Pairs(c) : p[Lead(c) + 2 * k - 1] = Put(PairOp(c, k)) /\ p[Lead(c) + 2 * k] = Put(PairValue(c, k))

\* Two pairs for the address.
LEMMA AddressPairs ==
  ASSUME NEW c, c.fn \in Accessing
  PROVE  /\ Lead(c) = 0
         /\ PairOp(c, 1) = CMD_WPR + PR_RWPH /\ PairValue(c, 1) = Ptr(c)[1]
         /\ PairOp(c, 2) = CMD_WPR + PR_RWPL /\ PairValue(c, 2) = Ptr(c)[2]
BY DEF Lead, PairOp, PairValue, Accessing

LEMMA WriteProgram ==
  ASSUME NEW c, Good(c), c.fn = "write_words"
  PROVE  LET p == Program(c) IN PairsAre(c, p) /\ Len(p) = 2 * Pairs(c) + 1 /\ p[2 * Pairs(c) + 1] = Idle
<1> DEFINE n == Len(c.data)
           v == c.data
           p == Program(c)
<1>1. n \in Nat /\ \A i \in 1 .. n : v[i] \in Word
  BY Arguments, LenProperties, ElementOfSeq
<1>2. c.fn \in Accessing /\ Pairs(c) = 2 + n
  BY DEF Accessing, Pairs
<1>3. p = hd63484_set_rwp(c.dn, c.addr, 0) \o
          FlattenSeq([i \in 1 .. n |-> hd63484_send_cmd(CMD_WT, <<v[i]>>)]) \o <<Idle>>
  <2>1. DOMAIN c.data = 1 .. n
    BY Arguments, LenProperties
  <2> QED BY <2>1 DEF Program, hd63484_write_words
<1> HIDE DEF p
<1>4. WritesWords(c, p, n) /\ \A i \in 1 .. n : p[4 + 2 * i - 1] = Put(CMD_WT) /\ p[4 + 2 * i] = Put(v[i])
  <2> HIDE DEF n, v
  <2> DEFINE ss == [i \in 1 .. n |-> hd63484_send_cmd(CMD_WT, <<v[i]>>)]
             q == hd63484_set_rwp(c.dn, c.addr, 0) \o FlattenSeq(ss) \o <<Idle>>
  <2>1. WritesWords(c, q, n) /\ \A i \in 1 .. n : q[4 + 2 * i - 1] = Put(CMD_WT) /\ q[4 + 2 * i] = Put(v[i])
    <3>1. n \in Nat /\ c.fn \in Accessing /\ \A i \in 1 .. n : v[i] \in Word
      BY <1>1, <1>2
    <3>2. \A i \in 1 .. n : hd63484_send_cmd(CMD_WT, <<v[i]>>) \in Seq(Plain)
      BY <3>1, WordIs
    <3>3. ss \in Seq(Seq(Plain)) /\ Len(ss) = n /\ \A i \in 1 .. n : ss[i] = hd63484_send_cmd(CMD_WT, <<v[i]>>)
      BY <3>1, <3>2
    <3> HIDE DEF ss
    <3>4. \A i \in 1 .. Len(ss) : v[i] \in Word /\ ss[i] = hd63484_send_cmd(CMD_WT, <<v[i]>>)
      BY <3>1, <3>3
    <3>5. q = hd63484_set_rwp(c.dn, c.addr, 0) \o FlattenSeq(ss) \o <<Idle>>
      OBVIOUS
    <3> HIDE DEF q
    <3>6. Block(c, v, ss, q)
      BY <3>1, <3>3, <3>4, <3>5 DEF Block
    <3> QED BY <3>3, <3>6, BlockIs DEF BlockWrites
  <2>2. p = q
    BY <1>3
  <2> HIDE DEF q
  <2> QED BY <2>1, <2>2
<1>5. ASSUME NEW k \in 1 .. 2 + n
      PROVE  p[Lead(c) + 2 * k - 1] = Put(PairOp(c, k)) /\ p[Lead(c) + 2 * k] = Put(PairValue(c, k))
  <2>1. CASE k <= 2
    <3>1. k = 1 \/ k = 2
      BY <2>1
    <3> QED BY <3>1, <1>2, <1>4, AddressPairs DEF WritesWords
  <2>2. CASE k > 2
    <3>1. k - 2 \in 1 .. n /\ 4 + 2 * (k - 2) - 1 = 2 * k - 1 /\ 4 + 2 * (k - 2) = 2 * k
      BY <2>2, <1>1
    <3>2. PairOp(c, k) = CMD_WT /\ PairValue(c, k) = v[k - 2] /\ Lead(c) = 0
      BY <2>2, <1>2, AddressPairs DEF PairOp, PairValue
    <3>3. p[2 * k - 1] = Put(CMD_WT) /\ p[2 * k] = Put(v[k - 2])
      BY <3>1, <1>4
    <3> QED BY <3>2, <3>3
  <2> QED BY <2>1, <2>2, <1>1
<1> HIDE DEF n
<1> QED BY <1>1, <1>2, <1>4, <1>5 DEF WritesWords, PairsAre, p

LEMMA FillProgram ==
  ASSUME NEW c, Good(c), c.fn = "fill_words"
  PROVE  LET p == Program(c) IN PairsAre(c, p) /\ Len(p) = 2 * Pairs(c) + 1 /\ p[2 * Pairs(c) + 1] = Idle
<1> DEFINE n == c.count
           v == [i \in 1 .. n |-> c.value]
           p == Program(c)
<1>1. n \in Nat /\ \A i \in 1 .. n : v[i] \in Word /\ v[i] = c.value
  BY Arguments
<1>2. c.fn \in Accessing /\ Pairs(c) = 2 + n
  BY DEF Accessing, Pairs
<1>3. p = hd63484_set_rwp(c.dn, c.addr, 0) \o
          FlattenSeq([i \in 1 .. n |-> hd63484_send_cmd(CMD_WT, <<v[i]>>)]) \o <<Idle>>
  <2>1. [i \in 1 .. n |-> hd63484_send_cmd(CMD_WT, <<v[i]>>)] =
          [i \in 1 .. c.count |-> hd63484_send_cmd(CMD_WT, <<c.value>>)]
    BY <1>1
  <2> QED BY <2>1 DEF Program, hd63484_fill_words
<1> HIDE DEF p
<1>4. WritesWords(c, p, n) /\ \A i \in 1 .. n : p[4 + 2 * i - 1] = Put(CMD_WT) /\ p[4 + 2 * i] = Put(v[i])
  <2> HIDE DEF n, v
  <2> DEFINE ss == [i \in 1 .. n |-> hd63484_send_cmd(CMD_WT, <<v[i]>>)]
             q == hd63484_set_rwp(c.dn, c.addr, 0) \o FlattenSeq(ss) \o <<Idle>>
  <2>1. WritesWords(c, q, n) /\ \A i \in 1 .. n : q[4 + 2 * i - 1] = Put(CMD_WT) /\ q[4 + 2 * i] = Put(v[i])
    <3>1. n \in Nat /\ c.fn \in Accessing /\ \A i \in 1 .. n : v[i] \in Word
      BY <1>1, <1>2
    <3>2. \A i \in 1 .. n : hd63484_send_cmd(CMD_WT, <<v[i]>>) \in Seq(Plain)
      BY <3>1, WordIs
    <3>3. ss \in Seq(Seq(Plain)) /\ Len(ss) = n /\ \A i \in 1 .. n : ss[i] = hd63484_send_cmd(CMD_WT, <<v[i]>>)
      BY <3>1, <3>2
    <3> HIDE DEF ss
    <3>4. \A i \in 1 .. Len(ss) : v[i] \in Word /\ ss[i] = hd63484_send_cmd(CMD_WT, <<v[i]>>)
      BY <3>1, <3>3
    <3>5. q = hd63484_set_rwp(c.dn, c.addr, 0) \o FlattenSeq(ss) \o <<Idle>>
      OBVIOUS
    <3> HIDE DEF q
    <3>6. Block(c, v, ss, q)
      BY <3>1, <3>3, <3>4, <3>5 DEF Block
    <3> QED BY <3>3, <3>6, BlockIs DEF BlockWrites
  <2>2. p = q
    BY <1>3
  <2> HIDE DEF q
  <2> QED BY <2>1, <2>2
<1> HIDE DEF v
<1>5. ASSUME NEW k \in 1 .. 2 + n
      PROVE  p[Lead(c) + 2 * k - 1] = Put(PairOp(c, k)) /\ p[Lead(c) + 2 * k] = Put(PairValue(c, k))
  <2>1. CASE k <= 2
    <3>1. k = 1 \/ k = 2
      BY <2>1
    <3> QED BY <3>1, <1>2, <1>4, AddressPairs DEF WritesWords
  <2>2. CASE k > 2
    <3>1. k - 2 \in 1 .. n /\ 4 + 2 * (k - 2) - 1 = 2 * k - 1 /\ 4 + 2 * (k - 2) = 2 * k
      BY <2>2, <1>1
    <3>2. PairOp(c, k) = CMD_WT /\ PairValue(c, k) = c.value /\ Lead(c) = 0
      BY <2>2, <1>2, AddressPairs DEF PairOp, PairValue
    <3>3. p[2 * k - 1] = Put(CMD_WT) /\ p[2 * k] = Put(v[k - 2])
      BY <3>1, <1>4
    <3> QED BY <3>1, <3>2, <3>3, <1>1
  <2> QED BY <2>1, <2>2, <1>1
<1> HIDE DEF n
<1> QED BY <1>1, <1>2, <1>4, <1>5 DEF WritesWords, PairsAre, p

LEMMA ReadProgram ==
  ASSUME NEW c, Good(c), c.fn = "read_words"
  PROVE  LET p == Program(c) IN
         /\ PairsAre(c, p) /\ Len(p) = 4 + 2 * c.count
         /\ \A j \in 1 .. c.count : p[4 + 2 * j - 1] = Put(Rest(c)[1]) /\ p[4 + 2 * j] = Get
<1> DEFINE n == c.count
           piece == hd63484_send_cmd(CMD_RD, <<>>) \o <<Get>>
           ss == [i \in 1 .. n |-> piece]
           p == Program(c)
<1>1. n \in Nat /\ c.fn \in Accessing /\ Pairs(c) = 2 /\ Rest(c) = <<CMD_RD>>
  BY Arguments DEF Accessing, Pairs, Rest
<1>2. piece \in Seq(Plain) /\ Len(piece) = 2 /\ piece[1] = Put(CMD_RD) /\ piece[2] = Get
  <2> DEFINE a == hd63484_send_cmd(CMD_RD, <<>>)
             b == <<Get>>
  <2>1. a \in Seq(Plain) /\ Len(a) = 1 /\ a[1] = Put(CMD_RD)
    <3> DEFINE ps == <<>>
    <3>1. ps \in Seq(Word) /\ Len(ps) = 0 /\ CMD_RD \in Word
      BY Opcodes
    <3> HIDE DEF ps
    <3> DEFINE s == hd63484_send_cmd(CMD_RD, ps)
    <3>2. s \in Seq(Plain) /\ Len(s) = 1 + Len(ps) /\ s[1] = Put(CMD_RD)
      BY <3>1, SendIs
    <3> HIDE DEF s
    <3>3. s \in Seq(Plain) /\ Len(s) = 1 /\ s[1] = Put(CMD_RD)
      BY <3>1, <3>2
    <3> QED BY <3>3 DEF s, ps
  <2>2. b \in Seq(Plain) /\ Len(b) = 1 /\ b[1] = Get
    BY GetIdlePlain
  <2> HIDE DEF a, b
  <2> DEFINE s == a \o b
  <2>3. /\ s \in Seq(Plain) /\ Len(s) = Len(a) + Len(b)
        /\ \A i \in 1 .. Len(a) : s[i] = a[i]
        /\ \A i \in 1 .. Len(b) : s[Len(a) + i] = b[i]
    BY <2>1, <2>2, JoinIs
  <2> HIDE DEF s
  <2>4. s[1] = a[1] /\ s[1 + 1] = b[1]
    BY <2>1, <2>2, <2>3
  <2> QED BY <2>1, <2>2, <2>3, <2>4 DEF s, a, b
<1> HIDE DEF piece
<1>3. ss \in Seq(Seq(Plain)) /\ Len(ss) = n /\ \A i \in 1 .. n : ss[i] = piece
  BY <1>1, <1>2
<1>4. p = hd63484_set_rwp(c.dn, c.addr, 0) \o FlattenSeq(ss)
  BY DEF Program, hd63484_read_words, piece
<1> HIDE DEF p, ss
<1>5. /\ Len(p) = 4 + 2 * Len(ss)
      /\ p[1] = Put(CMD_WPR + PR_RWPH) /\ p[2] = Put(Ptr(c)[1])
      /\ p[3] = Put(CMD_WPR + PR_RWPL) /\ p[4] = Put(Ptr(c)[2])
      /\ \A i \in 1 .. Len(ss) : p[4 + 2 * i - 1] = ss[i][1] /\ p[4 + 2 * i] = ss[i][2]
  <2> DEFINE q == hd63484_set_rwp(c.dn, c.addr, 0) \o FlattenSeq(ss)
  <2>1. ss \in Seq(Seq(Plain)) /\ c.fn \in Accessing /\ \A i \in 1 .. Len(ss) : Len(ss[i]) = 2
    BY <1>1, <1>2, <1>3
  <2>2. /\ Len(q) = 4 + 2 * Len(ss)
        /\ q[1] = Put(CMD_WPR + PR_RWPH) /\ q[2] = Put(Ptr(c)[1])
        /\ q[3] = Put(CMD_WPR + PR_RWPL) /\ q[4] = Put(Ptr(c)[2])
        /\ \A i \in 1 .. Len(ss) : q[4 + 2 * i - 1] = ss[i][1] /\ q[4 + 2 * i] = ss[i][2]
    BY <2>1, PiecesIs
  <2> HIDE DEF q
  <2>3. p = q
    BY <1>4 DEF q
  <2> QED BY <2>2, <2>3
<1>6. PairsAre(c, p)
  <2>1. \A k \in 1 .. 2 : k = 1 \/ k = 2
    OBVIOUS
  <2> QED BY <1>1, <1>5, <2>1, AddressPairs DEF PairsAre
<1>7. \A j \in 1 .. c.count : p[4 + 2 * j - 1] = Put(Rest(c)[1]) /\ p[4 + 2 * j] = Get
  <2> TAKE j \in 1 .. c.count
  <2>1. j \in 1 .. Len(ss) /\ ss[j] = piece /\ Rest(c)[1] = CMD_RD
    BY <1>1, <1>3
  <2> QED BY <1>2, <1>5, <2>1
<1> QED BY <1>1, <1>3, <1>5, <1>6, <1>7 DEF p

LEMMA WprProgram ==
  ASSUME NEW c, Good(c), c.fn = "wpr"
  PROVE  PairsAre(c, Program(c)) /\ Len(Program(c)) = 2 /\ Pairs(c) = 1 /\ Lead(c) = 0
<1> DEFINE p == Program(c)
<1>1. c.reg \in 0 .. 31 /\ c.value \in Word
  BY Arguments
<1>2. p = hd63484_wpr(c.reg, c.value)
  BY DEF Program
<1> HIDE DEF p
<1>3. Len(p) = 2 /\ p[1] = Put(CMD_WPR + c.reg) /\ p[2] = Put(c.value)
  <2> DEFINE s == hd63484_wpr(c.reg, c.value)
  <2>1. Len(s) = 2 /\ s[1] = Put(CMD_WPR + c.reg) /\ s[2] = Put(c.value)
    BY <1>1, WprIs
  <2> HIDE DEF s
  <2>2. p = s
    BY <1>2 DEF s
  <2> QED BY <2>1, <2>2
<1>4. /\ Pairs(c) = 1 /\ Lead(c) = 0 /\ PairOp(c, 1) = CMD_WPR + c.reg /\ PairValue(c, 1) = c.value
  BY DEF Pairs, Lead, PairOp, PairValue
<1>5. \A k \in 1 .. 1 : k = 1
  OBVIOUS
<1> QED BY <1>3, <1>4, <1>5 DEF PairsAre, p

LEMMA RprProgram ==
  ASSUME NEW c, Good(c), c.fn = "rpr"
  PROVE  LET p == Program(c) IN
         /\ Len(p) = 2 /\ p[1] = Put(Rest(c)[1]) /\ p[2] = Get
         /\ Pairs(c) = 0 /\ Lead(c) = 0 /\ Len(Rest(c)) = 1 /\ PairsAre(c, p)
<1> DEFINE p == Program(c)
           a == hd63484_send_cmd(CMD_RPR + c.reg, <<>>)
           b == <<Get>>
<1>1. CMD_RPR + c.reg \in Word
  BY Arguments, Opcodes
<1>2. p = a \o b
  BY DEF Program, hd63484_rpr
<1>3. a \in Seq(Plain) /\ Len(a) = 1 /\ a[1] = Put(CMD_RPR + c.reg)
  <2> DEFINE ps == <<>>
  <2>1. ps \in Seq(Word) /\ Len(ps) = 0
    OBVIOUS
  <2> HIDE DEF ps
  <2> DEFINE s == hd63484_send_cmd(CMD_RPR + c.reg, ps)
  <2>2. s \in Seq(Plain) /\ Len(s) = 1 + Len(ps) /\ s[1] = Put(CMD_RPR + c.reg)
    BY <1>1, <2>1, SendIs
  <2> HIDE DEF s
  <2>3. s \in Seq(Plain) /\ Len(s) = 1 /\ s[1] = Put(CMD_RPR + c.reg)
    BY <2>1, <2>2
  <2> QED BY <2>3 DEF s, ps
<1>4. b \in Seq(Plain) /\ Len(b) = 1 /\ b[1] = Get
  BY GetIdlePlain
<1> HIDE DEF p, a, b
<1> DEFINE s == a \o b
<1>5. /\ Len(s) = Len(a) + Len(b)
      /\ \A i \in 1 .. Len(a) : s[i] = a[i]
      /\ \A i \in 1 .. Len(b) : s[Len(a) + i] = b[i]
  <2>1. a \in Seq(Plain) /\ b \in Seq(Plain)
    BY <1>3, <1>4
  <2> QED BY <2>1, JoinIs
<1> HIDE DEF s
<1>6. Len(s) = 2 /\ s[1] = a[1] /\ s[1 + 1] = b[1]
  BY <1>3, <1>4, <1>5
<1>7. p = s
  BY <1>2 DEF s
<1>8. Rest(c) = <<CMD_RPR + c.reg>> /\ Pairs(c) = 0 /\ Lead(c) = 0
  BY DEF Rest, Pairs, Lead
<1> QED BY <1>3, <1>4, <1>6, <1>7, <1>8 DEF PairsAre, p

LEMMA ClearProgram ==
  ASSUME NEW c, Good(c), c.fn = "clear_area"
  PROVE  LET p == Program(c) IN
         /\ Len(p) = 9 /\ PairsAre(c, p) /\ Pairs(c) = 2 /\ Lead(c) = 0 /\ Len(Rest(c)) = 4
         /\ \A i \in 1 .. 4 : p[4 + i] = Put(Rest(c)[i])
         /\ p[9] = Idle
<1> DEFINE p == Program(c)
           dx == c.words - 1
           dy == (65536 - (c.lines - 1)) % 65536
           ps == <<c.value, dx, dy>>
           a == hd63484_set_rwp(c.dn, c.addr, 0)
           b == hd63484_send_cmd(CMD_CLR, ps)
<1>1. /\ c.fn \in Accessing /\ c.value \in Word /\ c.words \in Word /\ c.words # 0 /\ c.lines \in Word
  BY Arguments DEF Accessing
<1>2. dx \in Word /\ dy \in Word
  <2>1. \A l \in Int : LET y == (65536 - (l - 1)) % 65536 IN y \in Int /\ 0 <= y /\ y <= 65535
    BY SMT
  <2>2. \A m \in Int : 0 <= m /\ m <= 65535 /\ m # 0 => m - 1 \in Int /\ 0 <= m - 1 /\ m - 1 <= 65535
    BY SMT
  <2>3. c.words \in Int /\ 0 <= c.words /\ c.words <= 65535 /\ c.lines \in Int
    <3> DEFINE v == c.words
               w == c.lines
    <3>1. v \in Word /\ w \in Word
      BY <1>1
    <3> HIDE DEF v, w
    <3>2. v \in Int /\ 0 <= v /\ v <= 65535 /\ w \in Int
      BY <3>1, InWord, SMT
    <3> QED BY <3>2, SMT DEF v, w
  <2>4. dy \in Int /\ 0 <= dy /\ dy <= 65535
    BY <2>1, <2>3, SMT
  <2>5. dx \in Int /\ 0 <= dx /\ dx <= 65535
    BY <1>1, <2>2, <2>3, SMT
  <2> HIDE DEF dx, dy
  <2> QED BY <2>4, <2>5, InWord, SMT
<1>3. p = (a \o b) \o <<Idle>>
  BY DEF Program, hd63484_clear_area
<1>4. Rest(c) = <<CMD_CLR, c.value, dx, dy>> /\ Pairs(c) = 2 /\ Lead(c) = 0
  BY DEF Rest, Pairs, Lead
<1> HIDE DEF dx, dy
<1>5. ps \in Seq(Word) /\ Len(ps) = 3 /\ ps[1] = c.value /\ ps[2] = dx /\ ps[3] = dy
  BY <1>1, <1>2
<1>6. Len(Rest(c)) = 4 /\ Rest(c)[1] = CMD_CLR /\ \A i \in 1 .. 3 : Rest(c)[1 + i] = ps[i]
  <2>1. Len(Rest(c)) = 4 /\ Rest(c)[1] = CMD_CLR /\ Rest(c)[2] = c.value /\ Rest(c)[3] = dx /\ Rest(c)[4] = dy
    BY <1>4
  <2>2. \A i \in 1 .. 3 : i = 1 \/ i = 2 \/ i = 3
    OBVIOUS
  <2> QED BY <2>1, <2>2, <1>5
<1> HIDE DEF p, ps
<1>7. /\ b \in Seq(Plain) /\ Len(b) = 1 + Len(ps) /\ b[1] = Put(CMD_CLR)
      /\ \A i \in 1 .. Len(ps) : b[1 + i] = Put(ps[i])
  BY <1>5, SendIs, Opcodes
<1>8. /\ a \in Seq(Plain) /\ Len(a) = 4
      /\ a[1] = Put(CMD_WPR + PR_RWPH) /\ a[2] = Put(Ptr(c)[1])
      /\ a[3] = Put(CMD_WPR + PR_RWPL) /\ a[4] = Put(Ptr(c)[2])
  BY <1>1, SetRwpIs
<1> HIDE DEF a, b
<1>9. \A i \in 1 .. 4 : b[i] = Put(Rest(c)[i])
  <2> TAKE i \in 1 .. 4
  <2>1. CASE i = 1
    BY <2>1, <1>6, <1>7
  <2>2. CASE i # 1
    <3>1. i - 1 \in 1 .. 3 /\ 1 + (i - 1) = i
      BY <2>2
    <3>2. b[1 + (i - 1)] = Put(ps[i - 1]) /\ Rest(c)[1 + (i - 1)] = ps[i - 1]
      BY <3>1, <1>5, <1>6, <1>7
    <3> QED BY <3>1, <3>2
  <2> QED BY <2>1, <2>2
<1> DEFINE s == a \o b
           q == s \o <<Idle>>
<1>10. /\ s \in Seq(Plain) /\ Len(s) = Len(a) + Len(b)
       /\ \A i \in 1 .. Len(a) : s[i] = a[i]
       /\ \A i \in 1 .. Len(b) : s[Len(a) + i] = b[i]
  <2>1. a \in Seq(Plain) /\ b \in Seq(Plain)
    BY <1>7, <1>8
  <2> QED BY <2>1, JoinIs
<1> HIDE DEF s
<1>11. Len(q) = Len(s) + 1 /\ (\A i \in 1 .. Len(s) : q[i] = s[i]) /\ q[Len(s) + 1] = Idle
  BY <1>10, IdleIs
<1>12. p = q
  BY <1>3 DEF s
<1> HIDE DEF q
<1>13. Len(a) = 4 /\ Len(b) = 4 /\ Len(s) = 8
  BY <1>5, <1>7, <1>8, <1>10
<1>14. \A i \in 1 .. 4 : p[i] = a[i] /\ p[4 + i] = b[i]
  BY <1>10, <1>11, <1>12, <1>13
<1>15. p[1] = a[1] /\ p[2] = a[2] /\ p[3] = a[3] /\ p[4] = a[4] /\ Len(p) = 9 /\ p[9] = Idle
  BY <1>11, <1>12, <1>13, <1>14
<1>16. PairsAre(c, p)
  <2>1. \A k \in 1 .. 2 : k = 1 \/ k = 2
    OBVIOUS
  <2> QED BY <1>1, <1>4, <1>8, <1>15, <2>1, AddressPairs DEF PairsAre
<1> QED BY <1>4, <1>6, <1>9, <1>14, <1>15, <1>16 DEF p

LEMMA PlainOps == Seq(Plain) \subseteq Seq(Op)
<1>1. Plain \subseteq Op
  BY DEF Op
<1> QED BY <1>1, SeqMonotonic

\* A register written behind other operations.
LEMMA WprBehind ==
  ASSUME NEW s \in Seq(Op), NEW r \in 0 .. 31, NEW w \in Word
  PROVE  LET u == s \o hd63484_wpr(r, w) IN
         /\ u \in Seq(Op) /\ Len(u) = Len(s) + 2
         /\ \A i \in 1 .. Len(s) : u[i] = s[i]
         /\ u[Len(s) + 1] = Put(CMD_WPR + r) /\ u[Len(s) + 2] = Put(w)
<1> DEFINE t == hd63484_wpr(r, w)
           u == s \o t
<1>1. t \in Seq(Plain) /\ Len(t) = 2 /\ t[1] = Put(CMD_WPR + r) /\ t[2] = Put(w)
  BY WprIs
<1> HIDE DEF t
<1>3. t \in Seq(Op) /\ s \in Seq(Op)
  BY <1>1, PlainOps
<1>4. /\ u \in Seq(Op) /\ Len(u) = Len(s) + Len(t)
      /\ \A i \in 1 .. Len(s) : u[i] = s[i]
      /\ \A i \in 1 .. Len(t) : u[Len(s) + i] = t[i]
  BY ONLY <1>3, JoinIs
<1> HIDE DEF u
<1>5. 1 \in 1 .. Len(t) /\ 2 \in 1 .. Len(t)
  BY <1>1
<1> QED BY <1>1, <1>4, <1>5 DEF u, t

LEMMA InitProgram ==
  LET p == hd63484_init
      c == [fn |-> "init"]
  IN  /\ Len(p) = 19
      /\ p[1] = Reg("abort") /\ p[2] = Reg("check") /\ p[3] = Reg("halt")
      /\ p[4] = Reg("enable") /\ p[5] = Reg("run")
      /\ p[6] = Put(CMD_WPR + 0) /\ p[7] = Put(0) /\ p[8] = Put(CMD_WPR + 1) /\ p[9] = Put(65535)
      /\ p[10] = Put(CMD_WPR + 2) /\ p[11] = Put(0) /\ p[12] = Put(CMD_WPR + 3) /\ p[13] = Put(0)
      /\ p[14] = Put(CMD_WPR + 4) /\ p[15] = Put(65535)
      /\ p[16] = Put(CMD_ORG) /\ p[17] = Put(pack_ptr(SCREEN_BASE, 0, 0)[1])
      /\ p[18] = Put(pack_ptr(SCREEN_BASE, 0, 0)[2])
      /\ p[19] = Idle
<1> DEFINE z == 0
           h == 65535
           first == <<Reg("abort"), Reg("check"), Reg("halt"), Reg("enable"), Reg("run")>>
           w1 == first \o hd63484_wpr(0, z)
           w2 == w1 \o hd63484_wpr(1, h)
           w3 == w2 \o hd63484_wpr(2, z)
           w4 == w3 \o hd63484_wpr(3, z)
           w5 == w4 \o hd63484_wpr(4, h)
           ps == pack_ptr(SCREEN_BASE, 0, 0)
           o == hd63484_send_cmd(CMD_ORG, ps)
           w6 == w5 \o o
           idle == <<Idle>>
           w7 == w6 \o idle
<1>1. z \in Word /\ h \in Word
  BY InWord
<1>2. hd63484_init = w7
  BY SMT DEF hd63484_init, hd63484_org, PR_CL0, PR_CL1, PR_CCMP, PR_EDG, PR_MASK
<1>3. ps \in Seq(Word) /\ Len(ps) = 2
  <2>1. SCREEN_BASE \in Int /\ 0 \in Int
    BY DEF SCREEN_BASE
  <2> QED BY <2>1, Packed, Zenon
<1>4. /\ first \in Seq(Op) /\ Len(first) = 5
      /\ first[1] = Reg("abort") /\ first[2] = Reg("check") /\ first[3] = Reg("halt")
      /\ first[4] = Reg("enable") /\ first[5] = Reg("run")
  <2>1. /\ Reg("check") \in Op /\ Reg("halt") \in Op /\ Reg("enable") \in Op /\ Reg("run") \in Op
        /\ Reg("abort") \in Op
    BY DEF Reg, Plain, Op
  <2> QED BY <2>1
<1>5. idle \in Seq(Op) /\ Len(idle) = 1 /\ idle[1] = Idle
  BY GetIdlePlain, PlainOps
<1> HIDE DEF ps
<1>6. /\ o \in Seq(Op) /\ Len(o) = 3
      /\ o[1] = Put(CMD_ORG) /\ o[2] = Put(ps[1]) /\ o[3] = Put(ps[2])
  <2>1. o \in Seq(Plain) /\ Len(o) = 1 + Len(ps) /\ o[1] = Put(CMD_ORG) /\ \A i \in 1 .. Len(ps) : o[1 + i] = Put(ps[i])
    BY <1>3, SendIs, Opcodes
  <2> HIDE DEF o
  <2>2. 1 \in 1 .. Len(ps) /\ 2 \in 1 .. Len(ps) /\ 1 + 1 = 2 /\ 1 + 2 = 3
    BY <1>3
  <2>3. o[2] = Put(ps[1]) /\ o[3] = Put(ps[2])
    BY <2>1, <2>2
  <2> QED BY <1>3, <2>1, <2>3, PlainOps
<1> HIDE DEF z, h, first, w1, w2, w3, w4, w5, w6, w7, o, idle
<1>7. /\ w1 \in Seq(Op) /\ Len(w1) = 7 /\ \A i \in 1 .. 5 : w1[i] = first[i]
      /\ w1[6] = Put(CMD_WPR + 0) /\ w1[7] = Put(z)
  <2>1. 0 \in 0 .. 31
    OBVIOUS
  <2>2. w1 = first \o hd63484_wpr(0, z)
    BY DEF w1
  <2>3. /\ w1 \in Seq(Op) /\ Len(w1) = Len(first) + 2
        /\ \A i \in 1 .. Len(first) : w1[i] = first[i]
        /\ w1[Len(first) + 1] = Put(CMD_WPR + 0) /\ w1[Len(first) + 2] = Put(z)
    <3>1. first \in Seq(Op) /\ z \in Word
      BY <1>1, <1>4
    <3> DEFINE u == first \o hd63484_wpr(0, z)
    <3>2. /\ u \in Seq(Op) /\ Len(u) = Len(first) + 2
          /\ \A i \in 1 .. Len(first) : u[i] = first[i]
          /\ u[Len(first) + 1] = Put(CMD_WPR + 0) /\ u[Len(first) + 2] = Put(z)
      BY ONLY <3>1, <2>1, WprBehind
    <3>3. w1 = u
      BY <2>2
    <3> HIDE DEF u
    <3> QED BY ONLY <3>2, <3>3
  <2> QED BY <1>4, <2>3
<1>8. /\ w2 \in Seq(Op) /\ Len(w2) = 9 /\ \A i \in 1 .. 7 : w2[i] = w1[i]
      /\ w2[8] = Put(CMD_WPR + 1) /\ w2[9] = Put(h)
  <2>1. 1 \in 0 .. 31
    OBVIOUS
  <2>2. w2 = w1 \o hd63484_wpr(1, h)
    BY DEF w2
  <2>3. /\ w2 \in Seq(Op) /\ Len(w2) = Len(w1) + 2
        /\ \A i \in 1 .. Len(w1) : w2[i] = w1[i]
        /\ w2[Len(w1) + 1] = Put(CMD_WPR + 1) /\ w2[Len(w1) + 2] = Put(h)
    <3>1. w1 \in Seq(Op) /\ h \in Word
      BY <1>1, <1>7
    <3> DEFINE u == w1 \o hd63484_wpr(1, h)
    <3>2. /\ u \in Seq(Op) /\ Len(u) = Len(w1) + 2
          /\ \A i \in 1 .. Len(w1) : u[i] = w1[i]
          /\ u[Len(w1) + 1] = Put(CMD_WPR + 1) /\ u[Len(w1) + 2] = Put(h)
      BY ONLY <3>1, <2>1, WprBehind
    <3>3. w2 = u
      BY <2>2
    <3> HIDE DEF u
    <3> QED BY ONLY <3>2, <3>3
  <2> QED BY <1>7, <2>3
<1>9. /\ w3 \in Seq(Op) /\ Len(w3) = 11 /\ \A i \in 1 .. 9 : w3[i] = w2[i]
      /\ w3[10] = Put(CMD_WPR + 2) /\ w3[11] = Put(z)
  <2>1. 2 \in 0 .. 31
    OBVIOUS
  <2>2. w3 = w2 \o hd63484_wpr(2, z)
    BY DEF w3
  <2>3. /\ w3 \in Seq(Op) /\ Len(w3) = Len(w2) + 2
        /\ \A i \in 1 .. Len(w2) : w3[i] = w2[i]
        /\ w3[Len(w2) + 1] = Put(CMD_WPR + 2) /\ w3[Len(w2) + 2] = Put(z)
    <3>1. w2 \in Seq(Op) /\ z \in Word
      BY <1>1, <1>8
    <3> DEFINE u == w2 \o hd63484_wpr(2, z)
    <3>2. /\ u \in Seq(Op) /\ Len(u) = Len(w2) + 2
          /\ \A i \in 1 .. Len(w2) : u[i] = w2[i]
          /\ u[Len(w2) + 1] = Put(CMD_WPR + 2) /\ u[Len(w2) + 2] = Put(z)
      BY ONLY <3>1, <2>1, WprBehind
    <3>3. w3 = u
      BY <2>2
    <3> HIDE DEF u
    <3> QED BY ONLY <3>2, <3>3
  <2> QED BY <1>8, <2>3
<1>10. /\ w4 \in Seq(Op) /\ Len(w4) = 13 /\ \A i \in 1 .. 11 : w4[i] = w3[i]
       /\ w4[12] = Put(CMD_WPR + 3) /\ w4[13] = Put(z)
  <2>1. 3 \in 0 .. 31
    OBVIOUS
  <2>2. w4 = w3 \o hd63484_wpr(3, z)
    BY DEF w4
  <2>3. /\ w4 \in Seq(Op) /\ Len(w4) = Len(w3) + 2
        /\ \A i \in 1 .. Len(w3) : w4[i] = w3[i]
        /\ w4[Len(w3) + 1] = Put(CMD_WPR + 3) /\ w4[Len(w3) + 2] = Put(z)
    <3>1. w3 \in Seq(Op) /\ z \in Word
      BY <1>1, <1>9
    <3> DEFINE u == w3 \o hd63484_wpr(3, z)
    <3>2. /\ u \in Seq(Op) /\ Len(u) = Len(w3) + 2
          /\ \A i \in 1 .. Len(w3) : u[i] = w3[i]
          /\ u[Len(w3) + 1] = Put(CMD_WPR + 3) /\ u[Len(w3) + 2] = Put(z)
      BY ONLY <3>1, <2>1, WprBehind
    <3>3. w4 = u
      BY <2>2
    <3> HIDE DEF u
    <3> QED BY ONLY <3>2, <3>3
  <2> QED BY <1>9, <2>3
<1>11. /\ w5 \in Seq(Op) /\ Len(w5) = 15 /\ \A i \in 1 .. 13 : w5[i] = w4[i]
       /\ w5[14] = Put(CMD_WPR + 4) /\ w5[15] = Put(h)
  <2>1. 4 \in 0 .. 31
    OBVIOUS
  <2>2. w5 = w4 \o hd63484_wpr(4, h)
    BY DEF w5
  <2>3. /\ w5 \in Seq(Op) /\ Len(w5) = Len(w4) + 2
        /\ \A i \in 1 .. Len(w4) : w5[i] = w4[i]
        /\ w5[Len(w4) + 1] = Put(CMD_WPR + 4) /\ w5[Len(w4) + 2] = Put(h)
    <3>1. w4 \in Seq(Op) /\ h \in Word
      BY <1>1, <1>10
    <3> DEFINE u == w4 \o hd63484_wpr(4, h)
    <3>2. /\ u \in Seq(Op) /\ Len(u) = Len(w4) + 2
          /\ \A i \in 1 .. Len(w4) : u[i] = w4[i]
          /\ u[Len(w4) + 1] = Put(CMD_WPR + 4) /\ u[Len(w4) + 2] = Put(h)
      BY ONLY <3>1, <2>1, WprBehind
    <3>3. w5 = u
      BY <2>2
    <3> HIDE DEF u
    <3> QED BY ONLY <3>2, <3>3
  <2> QED BY <1>10, <2>3
<1>12. /\ w6 \in Seq(Op) /\ Len(w6) = 18 /\ \A i \in 1 .. 15 : w6[i] = w5[i]
       /\ w6[16] = Put(CMD_ORG) /\ w6[17] = Put(ps[1]) /\ w6[18] = Put(ps[2])
  <2>1. /\ w6 \in Seq(Op) /\ Len(w6) = Len(w5) + Len(o)
        /\ \A i \in 1 .. Len(w5) : w6[i] = w5[i]
        /\ \A i \in 1 .. Len(o) : w6[Len(w5) + i] = o[i]
    <3>1. w5 \in Seq(Op) /\ o \in Seq(Op)
      BY <1>6, <1>11
    <3> QED BY <3>1, JoinIs DEF w6
  <2>2. w6[15 + 1] = o[1] /\ w6[15 + 2] = o[2] /\ w6[15 + 3] = o[3]
    BY <1>6, <1>11, <2>1
  <2> QED BY <1>6, <1>11, <2>1, <2>2
<1>13. Len(w7) = 19 /\ (\A i \in 1 .. 18 : w7[i] = w6[i]) /\ w7[19] = Idle
  <2>1. /\ Len(w7) = Len(w6) + Len(idle)
        /\ \A i \in 1 .. Len(w6) : w7[i] = w6[i]
        /\ \A i \in 1 .. Len(idle) : w7[Len(w6) + i] = idle[i]
    <3>1. w6 \in Seq(Op) /\ idle \in Seq(Op)
      BY <1>5, <1>12
    <3> QED BY <3>1, JoinIs DEF w7
  <2>2. w7[18 + 1] = idle[1]
    BY <1>5, <1>12, <2>1
  <2> QED BY <1>5, <1>12, <2>1, <2>2
<1> DEFINE p == hd63484_init
<1>14. p = w7
  BY <1>2
<1> HIDE DEF p
<1>14a. 1 .. 5 \subseteq 1 .. 7 /\ 1 .. 7 \subseteq 1 .. 9 /\ 1 .. 9 \subseteq 1 .. 11 /\ 1 .. 11 \subseteq 1 .. 13
        /\ 1 .. 13 \subseteq 1 .. 15 /\ 1 .. 15 \subseteq 1 .. 18
  OBVIOUS
<1>15. /\ p[1] = first[1] /\ p[2] = first[2] /\ p[3] = first[3] /\ p[4] = first[4] /\ p[5] = first[5]
  <2>1. \A i \in 1 .. 5 : w4[i] = first[i]
    BY <1>7, <1>8, <1>9, <1>10, <1>14a, ZenonT(60)
  <2>2. \A i \in 1 .. 5 : p[i] = w4[i]
    BY <1>11, <1>12, <1>13, <1>14, <1>14a, Zenon
  <2>3. \A i \in 1 .. 5 : p[i] = first[i]
    BY <2>1, <2>2
  <2> QED BY <2>3
<1>16. p[6] = w1[6] /\ p[7] = w1[7] /\ p[8] = w2[8] /\ p[9] = w2[9]
  BY <1>8, <1>9, <1>10, <1>11, <1>12, <1>13, <1>14, SMTT(60)
<1>17. p[10] = w3[10] /\ p[11] = w3[11] /\ p[12] = w4[12] /\ p[13] = w4[13] /\ p[14] = w5[14] /\ p[15] = w5[15]
  BY <1>10, <1>11, <1>12, <1>13, <1>14
<1>18. p[16] = w6[16] /\ p[17] = w6[17] /\ p[18] = w6[18] /\ p[19] = w7[19] /\ Len(p) = 19
  BY <1>13, <1>14
<1>19. /\ p[6] = Put(CMD_WPR + 0) /\ p[7] = Put(z) /\ p[8] = Put(CMD_WPR + 1) /\ p[9] = Put(h)
       /\ p[10] = Put(CMD_WPR + 2) /\ p[11] = Put(z) /\ p[12] = Put(CMD_WPR + 3) /\ p[13] = Put(z)
       /\ p[14] = Put(CMD_WPR + 4) /\ p[15] = Put(h)
  BY <1>7, <1>8, <1>9, <1>10, <1>11, <1>16, <1>17, Zenon
<1>20. p[16] = Put(CMD_ORG) /\ p[17] = Put(ps[1]) /\ p[18] = Put(ps[2]) /\ p[19] = Idle
  BY <1>12, <1>13, <1>18, Zenon
<1> QED BY <1>4, <1>15, <1>18, <1>19, <1>20, SMT DEF p, z, h, ps

LEMMA InitPairs ==
  ASSUME NEW c, c.fn = "init"
  PROVE  LET p == Program(c) IN
         /\ Len(p) = 19 /\ Lead(c) = 5 /\ Pairs(c) = 5 /\ Len(Rest(c)) = 3
         /\ p[1] = Reg("abort") /\ p[2] = Reg("check") /\ p[3] = Reg("halt")
         /\ p[4] = Reg("enable") /\ p[5] = Reg("run")
         /\ PairsAre(c, p)
         /\ \A i \in 1 .. 3 : p[15 + i] = Put(Rest(c)[i])
         /\ p[19] = Idle
<1> DEFINE p == Program(c)
           z == 0
           h == 65535
           ps == pack_ptr(SCREEN_BASE, 0, 0)
<1>1. p = hd63484_init
  BY DEF Program
<1>2. Lead(c) = 5 /\ Pairs(c) = 5 /\ Rest(c) = <<CMD_ORG, ps[1], ps[2]>>
  BY DEF Lead, Pairs, Rest
<1>3. \A k \in 1 .. 5 : PairOp(c, k) = CMD_WPR + (k - 1) /\ PairValue(c, k) = IF k \in {2, 5} THEN h ELSE z
  BY SMT DEF PairOp, PairValue
<1> HIDE DEF p, z, h, ps
<1>4. /\ Len(p) = 19
      /\ p[1] = Reg("abort") /\ p[2] = Reg("check") /\ p[3] = Reg("halt")
      /\ p[4] = Reg("enable") /\ p[5] = Reg("run")
      /\ p[6] = Put(CMD_WPR + 0) /\ p[7] = Put(z) /\ p[8] = Put(CMD_WPR + 1) /\ p[9] = Put(h)
      /\ p[10] = Put(CMD_WPR + 2) /\ p[11] = Put(z) /\ p[12] = Put(CMD_WPR + 3) /\ p[13] = Put(z)
      /\ p[14] = Put(CMD_WPR + 4) /\ p[15] = Put(h)
      /\ p[16] = Put(CMD_ORG) /\ p[17] = Put(ps[1]) /\ p[18] = Put(ps[2]) /\ p[19] = Idle
  BY <1>1, InitProgram, SMT DEF z, h, ps
<1>5. Len(Rest(c)) = 3 /\ Rest(c)[1] = CMD_ORG /\ Rest(c)[2] = ps[1] /\ Rest(c)[3] = ps[2]
  BY <1>2
<1>6. \A i \in 1 .. 3 : p[15 + i] = Put(Rest(c)[i])
  <2>1. \A i \in 1 .. 3 : i = 1 \/ i = 2 \/ i = 3
    OBVIOUS
  <2> QED BY <2>1, <1>4, <1>5
<1>7. PairsAre(c, p)
  <2> SUFFICES ASSUME NEW k \in 1 .. 5
               PROVE  p[5 + 2 * k - 1] = Put(PairOp(c, k)) /\ p[5 + 2 * k] = Put(PairValue(c, k))
    BY <1>2 DEF PairsAre
  <2>1. k = 1 \/ k = 2 \/ k = 3 \/ k = 4 \/ k = 5
    OBVIOUS
  <2>2. CASE k = 1
    <3>1. PairOp(c, k) = CMD_WPR + 0 /\ PairValue(c, k) = z /\ 5 + 2 * k - 1 = 6 /\ 5 + 2 * k = 7
      BY <1>3, <2>2
    <3> QED BY <3>1, <1>4
  <2>3. CASE k = 2
    <3>1. PairOp(c, k) = CMD_WPR + 1 /\ PairValue(c, k) = h /\ 5 + 2 * k - 1 = 8 /\ 5 + 2 * k = 9
      BY <1>3, <2>3
    <3> QED BY <3>1, <1>4
  <2>4. CASE k = 3
    <3>1. PairOp(c, k) = CMD_WPR + 2 /\ PairValue(c, k) = z /\ 5 + 2 * k - 1 = 10 /\ 5 + 2 * k = 11
      BY <1>3, <2>4
    <3> QED BY <3>1, <1>4
  <2>5. CASE k = 4
    <3>1. PairOp(c, k) = CMD_WPR + 3 /\ PairValue(c, k) = z /\ 5 + 2 * k - 1 = 12 /\ 5 + 2 * k = 13
      BY <1>3, <2>5
    <3> QED BY <3>1, <1>4
  <2>6. CASE k = 5
    <3>1. PairOp(c, k) = CMD_WPR + 4 /\ PairValue(c, k) = h /\ 5 + 2 * k - 1 = 14 /\ 5 + 2 * k = 15
      BY <1>3, <2>6
    <3> QED BY <3>1, <1>4
  <2> QED BY <2>1, <2>2, <2>3, <2>4, <2>5, <2>6
<1> QED BY <1>2, <1>4, <1>5, <1>6, <1>7 DEF p

LEMMA ControlPrograms ==
  ASSUME NEW c, c.fn \in {"abort", "start", "stop"}
  PROVE  /\ Len(Program(c)) = Lead(c) /\ Pairs(c) = 0 /\ Rest(c) = <<>>
         /\ c.fn = "abort" => Lead(c) = 2 /\ Program(c)[1] = Reg("abort") /\ Program(c)[2] = Reg("enable")
         /\ c.fn = "start" => Lead(c) = 1 /\ Program(c)[1] = Reg("run")
         /\ c.fn = "stop" => Lead(c) = 1 /\ Program(c)[1] = Reg("halt")
BY DEF Program, Lead, Pairs, Rest, hd63484_abort

-----------------------------------------------------------------------------
(* How far a call has come: d operations are done, g words are read, s     *)
(* words of pairs and t words of the command behind them are written.      *)

PairWord(c, i) == IF i % 2 = 1 THEN PairOp(c, (i + 1) \div 2) ELSE PairValue(c, i \div 2)

Progress(c, d, g, s, t) ==
  /\ d \in Nat /\ g \in Nat /\ s \in Nat /\ t \in Nat
  /\ s <= 2 * Pairs(c) /\ t <= Len(Rest(c)) /\ (t > 0 => s = 2 * Pairs(c))
  /\ IF c.fn = "read_words"
       THEN d = s + t + 2 * g /\ (g > 0 => s = 2 * Pairs(c))
       ELSE g = 0 /\ (d = Lead(c) + s + t \/ (d < Lead(c) /\ s = 0 /\ t = 0))

\* What the operation behind the first d can be.
Leads(c, d, g, s, t, op) ==
  /\ c.fn \in {"init", "abort", "start", "stop"} /\ d < Lead(c) /\ s = 0 /\ t = 0 /\ g = 0
  /\ op \in {Reg("abort"), Reg("check"), Reg("halt"), Reg("enable"), Reg("run")}
  /\ op = Reg("abort") <=> (c.fn \in Resets /\ d = 0)
  /\ op = Reg("check") => c.fn = "init" /\ d = 1
  /\ Progress(c, d + 1, 0, 0, 0)
  /\ d + 1 = Len(Program(c)) <=> (c.fn # "init" /\ d + 1 = Lead(c))

PutsPair(c, d, g, s, t, op) ==
  /\ s < 2 * Pairs(c) /\ t = 0 /\ g = 0 /\ d >= Lead(c)
  /\ op = Put(PairWord(c, s + 1))
  /\ Progress(c, d + 1, g, s + 1, 0)
  /\ d + 1 = Len(Program(c)) =>
       s + 1 = 2 * Pairs(c) /\ (c.fn = "wpr" \/ (c.fn = "read_words" /\ c.count = 0))

PutsRest(c, d, g, s, t, op) ==
  /\ s = 2 * Pairs(c) /\ t < Len(Rest(c)) /\ d >= Lead(c)
  /\ op = Put(Rest(c)[t + 1])
  /\ Progress(c, d + 1, g, s, t + 1)
  /\ d + 1 # Len(Program(c))

Gets(c, d, g, s, t, op) ==
  /\ s = 2 * Pairs(c) /\ t = 1 /\ Len(Rest(c)) = 1 /\ op = Get
  /\ \/ c.fn = "rpr" /\ g = 0 /\ d + 1 = Len(Program(c))
     \/ /\ c.fn = "read_words" /\ g < c.count
        /\ Progress(c, d + 1, g + 1, s, 0)
        /\ d + 1 = Len(Program(c)) <=> g + 1 = c.count

Idles(c, d, g, s, t, op) ==
  /\ s = 2 * Pairs(c) /\ t = Len(Rest(c)) /\ g = 0 /\ op = Idle /\ d + 1 = Len(Program(c))
  /\ c.fn \in {"write_words", "fill_words", "clear_area", "init"}

\* A word of a pair is to be written.
LEMMA PairNext ==
  ASSUME NEW c, NEW p, PairsAre(c, p), Pairs(c) \in Nat, Lead(c) \in Nat,
         NEW s \in Nat, s < 2 * Pairs(c)
  PROVE  p[Lead(c) + s + 1] = Put(PairWord(c, s + 1))
<1>1. CASE s % 2 = 0
  <2> DEFINE k == (s + 2) \div 2
  <2>1. k \in 1 .. Pairs(c) /\ (s + 1) % 2 = 1 /\ ((s + 1) + 1) \div 2 = k /\ Lead(c) + 2 * k - 1 = Lead(c) + s + 1
    BY <1>1
  <2> HIDE DEF k
  <2>2. p[Lead(c) + 2 * k - 1] = Put(PairOp(c, k))
    BY <2>1 DEF PairsAre
  <2> QED BY <2>1, <2>2 DEF PairWord
<1>2. CASE s % 2 = 1
  <2> DEFINE k == (s + 1) \div 2
  <2>1. k \in 1 .. Pairs(c) /\ (s + 1) % 2 # 1 /\ (s + 1) \div 2 = k /\ Lead(c) + 2 * k = Lead(c) + s + 1
    BY <1>2
  <2> HIDE DEF k
  <2>2. p[Lead(c) + 2 * k] = Put(PairValue(c, k))
    BY <2>1 DEF PairsAre
  <2> QED BY <2>1, <2>2 DEF PairWord
<1> QED BY <1>1, <1>2

NextIs(c, d, g, s, t, op) ==
  \/ Leads(c, d, g, s, t, op)
  \/ PutsPair(c, d, g, s, t, op)
  \/ PutsRest(c, d, g, s, t, op)
  \/ Gets(c, d, g, s, t, op)
  \/ Idles(c, d, g, s, t, op)

LEMMA NextOfWpr ==
  ASSUME NEW c, Good(c), c.fn = "wpr", NEW d, NEW g, NEW s, NEW t,
         Progress(c, d, g, s, t), d < Len(Program(c))
  PROVE  NextIs(c, d, g, s, t, Program(c)[d + 1])
<1> DEFINE p == Program(c)
<1>1. PairsAre(c, p) /\ Len(p) = 2 /\ Pairs(c) = 1 /\ Lead(c) = 0 /\ Len(Rest(c)) = 0
  <2>1. Rest(c) = <<>>
    BY DEF Rest
  <2> QED BY <2>1, WprProgram
<1> HIDE DEF p
<1>2. s \in Nat /\ t = 0 /\ g = 0 /\ d = s /\ s < 2 /\ s <= 2
  BY <1>1 DEF Progress, p
<1>3. p[Lead(c) + s + 1] = Put(PairWord(c, s + 1))
  BY <1>1, <1>2, PairNext
<1>4. Progress(c, d + 1, g, s + 1, 0)
  BY <1>1, <1>2 DEF Progress
<1>5. PutsPair(c, d, g, s, t, p[d + 1])
  BY <1>1, <1>2, <1>3, <1>4 DEF PutsPair, p
<1> QED BY <1>5 DEF NextIs, p

LEMMA NextOfRpr ==
  ASSUME NEW c, Good(c), c.fn = "rpr", NEW d, NEW g, NEW s, NEW t,
         Progress(c, d, g, s, t), d < Len(Program(c))
  PROVE  NextIs(c, d, g, s, t, Program(c)[d + 1])
<1> DEFINE p == Program(c)
<1>1. Len(p) = 2 /\ p[1] = Put(Rest(c)[1]) /\ p[2] = Get /\ Pairs(c) = 0 /\ Lead(c) = 0 /\ Len(Rest(c)) = 1
  BY RprProgram
<1> HIDE DEF p
<1>2. s = 0 /\ g = 0 /\ d = t /\ t \in Nat /\ t < 2
  BY <1>1 DEF Progress, p
<1>3. CASE t = 0
  <2>1. Progress(c, d + 1, g, s, t + 1)
    BY <1>1, <1>2, <1>3 DEF Progress
  <2>2. PutsRest(c, d, g, s, t, p[d + 1])
    BY <1>1, <1>2, <1>3, <2>1 DEF PutsRest, p
  <2> QED BY <2>2 DEF NextIs, p
<1>4. CASE t = 1
  <2>1. Gets(c, d, g, s, t, p[d + 1])
    BY <1>1, <1>2, <1>4 DEF Gets, p
  <2> QED BY <2>1 DEF NextIs, p
<1> QED BY <1>2, <1>3, <1>4

\* Calls that write words end with a wait.
LEMMA NextOfWrite ==
  ASSUME NEW c, Good(c), c.fn \in {"write_words", "fill_words"}, NEW d, NEW g, NEW s, NEW t,
         Progress(c, d, g, s, t), d < Len(Program(c))
  PROVE  NextIs(c, d, g, s, t, Program(c)[d + 1])
<1> DEFINE p == Program(c)
<1>1. PairsAre(c, p) /\ Len(p) = 2 * Pairs(c) + 1 /\ p[2 * Pairs(c) + 1] = Idle
  BY WriteProgram, FillProgram
<1>2. Pairs(c) \in Nat /\ Lead(c) = 0 /\ Len(Rest(c)) = 0
  <2>1. Rest(c) = <<>> /\ Lead(c) = 0 /\ c.fn \in Accessing
    BY DEF Rest, Lead, Accessing
  <2>2. Pairs(c) \in Nat
    <3>1. CASE c.fn = "write_words"
      <4>1. c.data \in Seq(Word)
        BY <3>1, Arguments
      <4>2. Len(c.data) \in Nat
        BY <4>1, LenProperties
      <4>3. Pairs(c) = 2 + Len(c.data)
        BY <3>1 DEF Pairs
      <4> QED BY <4>2, <4>3
    <3>2. CASE c.fn = "fill_words"
      <4>1. c.count \in Nat
        BY <3>2, Arguments
      <4>2. Pairs(c) = 2 + c.count
        BY <3>2 DEF Pairs
      <4> QED BY <4>1, <4>2
    <3> QED BY <3>1, <3>2
  <2> QED BY <2>1, <2>2
<1> HIDE DEF p
<1>3. s \in Nat /\ t = 0 /\ g = 0 /\ d = s /\ s <= 2 * Pairs(c)
  BY <1>1, <1>2 DEF Progress, p
<1>4. CASE s < 2 * Pairs(c)
  <2>1. p[Lead(c) + s + 1] = Put(PairWord(c, s + 1))
    BY <1>1, <1>2, <1>3, <1>4, PairNext
  <2>2. Progress(c, d + 1, g, s + 1, 0)
    BY <1>2, <1>3, <1>4 DEF Progress
  <2>3. PutsPair(c, d, g, s, t, p[d + 1])
    BY <1>1, <1>2, <1>3, <1>4, <2>1, <2>2 DEF PutsPair, p
  <2> QED BY <2>3 DEF NextIs, p
<1>5. CASE s = 2 * Pairs(c)
  <2>1. Idles(c, d, g, s, t, p[d + 1])
    BY <1>1, <1>2, <1>3, <1>5 DEF Idles, p
  <2> QED BY <2>1 DEF NextIs, p
<1> QED BY <1>2, <1>3, <1>4, <1>5

LEMMA NextOfRead ==
  ASSUME NEW c, Good(c), c.fn = "read_words", NEW d, NEW g, NEW s, NEW t,
         Progress(c, d, g, s, t), d < Len(Program(c))
  PROVE  NextIs(c, d, g, s, t, Program(c)[d + 1])
<1> DEFINE p == Program(c)
<1>1. /\ PairsAre(c, p) /\ Len(p) = 4 + 2 * c.count /\ c.count \in Nat
      /\ \A j \in 1 .. c.count : p[4 + 2 * j - 1] = Put(Rest(c)[1]) /\ p[4 + 2 * j] = Get
  BY ReadProgram, Arguments
<1>2. Pairs(c) = 2 /\ Lead(c) = 0 /\ Len(Rest(c)) = 1
  <2>1. Rest(c) = <<CMD_RD>> /\ Lead(c) = 0 /\ Pairs(c) = 2
    BY DEF Rest, Lead, Pairs
  <2> QED BY <2>1
<1> HIDE DEF p
<1>3. /\ s \in Nat /\ t \in Nat /\ g \in Nat /\ d = s + t + 2 * g /\ s <= 4 /\ t <= 1
      /\ (t > 0 => s = 4) /\ (g > 0 => s = 4) /\ d < 4 + 2 * c.count
  BY <1>1, <1>2 DEF Progress, p
<1>4. CASE s < 4
  <2>1. p[Lead(c) + s + 1] = Put(PairWord(c, s + 1))
    <3>1. PairsAre(c, p) /\ Pairs(c) \in Nat /\ Lead(c) \in Nat /\ s \in Nat /\ s < 2 * Pairs(c)
      BY <1>1, <1>2, <1>3, <1>4
    <3> QED BY <3>1, PairNext
  <2>2. Progress(c, d + 1, g, s + 1, 0)
    BY <1>2, <1>3, <1>4 DEF Progress
  <2>3. t = 0 /\ g = 0 /\ d = s /\ s < 2 * Pairs(c)
    BY <1>2, <1>3, <1>4
  <2>4. d + 1 = Len(p) => s + 1 = 4 /\ c.count = 0
    <3>1. c.count \in Nat /\ s \in Nat /\ Len(p) = 4 + 2 * c.count
      BY <1>1, <1>3
    <3> QED BY <3>1, <2>3, <1>4
  <2>5. PutsPair(c, d, g, s, t, p[d + 1])
    BY <1>2, <1>3, <2>1, <2>2, <2>3, <2>4 DEF PutsPair, p
  <2> QED BY <2>5 DEF NextIs, p
<1>5. CASE s = 4 /\ t = 0
  <2>1. g + 1 \in 1 .. c.count /\ d + 1 = 4 + 2 * (g + 1) - 1
    BY <1>1, <1>3, <1>5
  <2>2. p[d + 1] = Put(Rest(c)[1])
    BY <2>1, <1>1
  <2>3. Progress(c, d + 1, g, s, t + 1)
    BY <1>2, <1>3, <1>5 DEF Progress
  <2>4. d + 1 # Len(p)
    BY <2>1, <1>1
  <2>5. PutsRest(c, d, g, s, t, p[d + 1])
    BY <1>2, <1>3, <1>5, <2>2, <2>3, <2>4 DEF PutsRest, p
  <2> QED BY <2>5 DEF NextIs, p
<1>6. CASE s = 4 /\ t = 1
  <2>1. g + 1 \in 1 .. c.count /\ d + 1 = 4 + 2 * (g + 1) /\ g < c.count
    BY <1>1, <1>3, <1>6
  <2>2. p[d + 1] = Get
    BY <2>1, <1>1
  <2>3. Progress(c, d + 1, g + 1, s, 0)
    BY <1>2, <1>3, <1>6 DEF Progress
  <2>4. d + 1 = Len(p) <=> g + 1 = c.count
    BY <2>1, <1>1
  <2>5. Gets(c, d, g, s, t, p[d + 1])
    BY <1>2, <1>3, <1>6, <2>1, <2>2, <2>3, <2>4 DEF Gets, p
  <2> QED BY <2>5 DEF NextIs, p
<1> QED BY <1>3, <1>4, <1>5, <1>6

LEMMA NextOfClear ==
  ASSUME NEW c, Good(c), c.fn = "clear_area", NEW d, NEW g, NEW s, NEW t,
         Progress(c, d, g, s, t), d < Len(Program(c))
  PROVE  NextIs(c, d, g, s, t, Program(c)[d + 1])
<1> DEFINE p == Program(c)
<1>1. /\ Len(p) = 9 /\ PairsAre(c, p) /\ Pairs(c) = 2 /\ Lead(c) = 0 /\ Len(Rest(c)) = 4
      /\ \A i \in 1 .. 4 : p[4 + i] = Put(Rest(c)[i])
      /\ p[9] = Idle
  BY ClearProgram
<1> HIDE DEF p
<1>2. s \in Nat /\ t \in Nat /\ g = 0 /\ d = s + t /\ s <= 4 /\ t <= 4 /\ (t > 0 => s = 4)
  BY <1>1 DEF Progress, p
<1>3. CASE s < 4
  <2>1. p[Lead(c) + s + 1] = Put(PairWord(c, s + 1))
    BY <1>1, <1>2, <1>3, PairNext
  <2>2. Progress(c, d + 1, g, s + 1, 0)
    BY <1>1, <1>2, <1>3 DEF Progress
  <2>3. PutsPair(c, d, g, s, t, p[d + 1])
    BY <1>1, <1>2, <1>3, <2>1, <2>2 DEF PutsPair, p
  <2> QED BY <2>3 DEF NextIs, p
<1>4. CASE s = 4 /\ t < 4
  <2>1. t + 1 \in 1 .. 4 /\ d + 1 = 4 + (t + 1)
    BY <1>2, <1>4
  <2>2. p[d + 1] = Put(Rest(c)[t + 1])
    BY <1>1, <2>1
  <2>3. Progress(c, d + 1, g, s, t + 1)
    BY <1>1, <1>2, <1>4 DEF Progress
  <2>4. PutsRest(c, d, g, s, t, p[d + 1])
    BY <1>1, <1>2, <1>4, <2>1, <2>2, <2>3 DEF PutsRest, p
  <2> QED BY <2>4 DEF NextIs, p
<1>5. CASE s = 4 /\ t = 4
  <2>1. Idles(c, d, g, s, t, p[d + 1])
    BY <1>1, <1>2, <1>5 DEF Idles, p
  <2> QED BY <2>1 DEF NextIs, p
<1> QED BY <1>2, <1>3, <1>4, <1>5

LEMMA NextOfInit ==
  ASSUME NEW c, Good(c), c.fn = "init", NEW d, NEW g, NEW s, NEW t,
         Progress(c, d, g, s, t), d < Len(Program(c))
  PROVE  NextIs(c, d, g, s, t, Program(c)[d + 1])
<1> DEFINE p == Program(c)
<1>1. /\ Len(p) = 19 /\ Lead(c) = 5 /\ Pairs(c) = 5 /\ Len(Rest(c)) = 3
      /\ p[1] = Reg("abort") /\ p[2] = Reg("check") /\ p[3] = Reg("halt")
      /\ p[4] = Reg("enable") /\ p[5] = Reg("run")
      /\ PairsAre(c, p)
      /\ \A i \in 1 .. 3 : p[15 + i] = Put(Rest(c)[i])
      /\ p[19] = Idle
  BY InitPairs
<1> HIDE DEF p
<1>2. /\ s \in Nat /\ t \in Nat /\ d \in Nat /\ g = 0 /\ s <= 10 /\ t <= 3 /\ (t > 0 => s = 10)
      /\ (d = 5 + s + t \/ (d < 5 /\ s = 0 /\ t = 0))
  BY <1>1 DEF Progress, p
<1>3. CASE d < 5
  <2>1. s = 0 /\ t = 0 /\ d \in 0 .. 4
    BY <1>2, <1>3
  <2>2. Progress(c, d + 1, 0, 0, 0)
    BY <1>1, <1>2, <1>3, <2>1 DEF Progress
  <2>3. /\ p[d + 1] \in {Reg("abort"), Reg("check"), Reg("halt"), Reg("enable"), Reg("run")}
        /\ p[d + 1] = Reg("abort") <=> d = 0
        /\ p[d + 1] = Reg("check") <=> d = 1
    <3>1. d = 0 \/ d = 1 \/ d = 2 \/ d = 3 \/ d = 4
      BY <2>1
    <3>2. /\ Reg("abort") # Reg("check") /\ Reg("abort") # Reg("halt") /\ Reg("abort") # Reg("enable")
          /\ Reg("abort") # Reg("run") /\ Reg("check") # Reg("halt") /\ Reg("check") # Reg("enable")
          /\ Reg("check") # Reg("run")
      BY DEF Reg
    <3> QED BY <1>1, <3>1, <3>2
  <2>4. d + 1 # Len(p) /\ c.fn \in Resets
    BY <1>1, <2>1 DEF Resets
  <2>5. Leads(c, d, g, s, t, p[d + 1])
    BY <1>1, <1>2, <1>3, <2>1, <2>2, <2>3, <2>4 DEF Leads, p
  <2> QED BY <2>5 DEF NextIs, p
<1>4. CASE d >= 5 /\ s < 10
  <2>1. p[Lead(c) + s + 1] = Put(PairWord(c, s + 1))
    BY <1>1, <1>2, <1>4, PairNext, SMTT(60)
  <2>2. d = 5 + s /\ t = 0
    BY <1>2, <1>4
  <2>3. Progress(c, d + 1, g, s + 1, 0)
    BY <1>1, <1>2, <1>4, <2>2 DEF Progress
  <2>4. PutsPair(c, d, g, s, t, p[d + 1])
    BY <1>1, <1>2, <1>4, <2>1, <2>2, <2>3 DEF PutsPair, p
  <2> QED BY <2>4 DEF NextIs, p
<1>5. CASE d >= 5 /\ s = 10 /\ t < 3
  <2>1. t + 1 \in 1 .. 3 /\ d + 1 = 15 + (t + 1)
    BY <1>2, <1>5
  <2>2. p[d + 1] = Put(Rest(c)[t + 1])
    BY <1>1, <2>1
  <2>3. Progress(c, d + 1, g, s, t + 1)
    BY <1>1, <1>2, <1>5, <2>1 DEF Progress
  <2>4. PutsRest(c, d, g, s, t, p[d + 1])
    BY <1>1, <1>2, <1>5, <2>1, <2>2, <2>3 DEF PutsRest, p
  <2> QED BY <2>4 DEF NextIs, p
<1>6. CASE d >= 5 /\ s = 10 /\ t = 3
  <2>1. Idles(c, d, g, s, t, p[d + 1])
    BY <1>1, <1>2, <1>6 DEF Idles, p
  <2> QED BY <2>1 DEF NextIs, p
<1> QED BY <1>2, <1>3, <1>4, <1>5, <1>6

LEMMA NextOfControl ==
  ASSUME NEW c, c.fn \in {"abort", "start", "stop"}, NEW d, NEW g, NEW s, NEW t,
         Progress(c, d, g, s, t), d < Len(Program(c))
  PROVE  NextIs(c, d, g, s, t, Program(c)[d + 1])
<1> DEFINE p == Program(c)
<1>1. /\ Len(p) = Lead(c) /\ Pairs(c) = 0 /\ Len(Rest(c)) = 0
      /\ c.fn = "abort" => Lead(c) = 2 /\ p[1] = Reg("abort") /\ p[2] = Reg("enable")
      /\ c.fn = "start" => Lead(c) = 1 /\ p[1] = Reg("run")
      /\ c.fn = "stop" => Lead(c) = 1 /\ p[1] = Reg("halt")
  <2>1. Rest(c) = <<>>
    BY ControlPrograms
  <2> QED BY <2>1, ControlPrograms
<1> HIDE DEF p
<1>2. s = 0 /\ t = 0 /\ g = 0 /\ d \in Nat /\ d < Lead(c) /\ Lead(c) \in {1, 2}
  BY <1>1 DEF Progress, p
<1>3. Progress(c, d + 1, 0, 0, 0)
  BY <1>1, <1>2 DEF Progress
<1>4. /\ p[d + 1] \in {Reg("abort"), Reg("check"), Reg("halt"), Reg("enable"), Reg("run")}
      /\ p[d + 1] = Reg("abort") <=> (c.fn \in Resets /\ d = 0)
      /\ p[d + 1] # Reg("check")
  <2>1. d = 0 \/ (d = 1 /\ Lead(c) = 2)
    BY <1>2
  <2>2. /\ Reg("abort") # Reg("enable") /\ Reg("abort") # Reg("run") /\ Reg("abort") # Reg("halt")
        /\ Reg("check") # Reg("abort") /\ Reg("check") # Reg("enable") /\ Reg("check") # Reg("run")
        /\ Reg("check") # Reg("halt")
    BY DEF Reg
  <2>3. CASE c.fn = "abort"
    BY <1>1, <2>1, <2>2, <2>3 DEF Resets
  <2>4. CASE c.fn = "start"
    BY <1>1, <2>1, <2>2, <2>4 DEF Resets
  <2>5. CASE c.fn = "stop"
    BY <1>1, <2>1, <2>2, <2>5 DEF Resets
  <2> QED BY <2>3, <2>4, <2>5
<1>5. Leads(c, d, g, s, t, p[d + 1])
  BY <1>1, <1>2, <1>3, <1>4 DEF Leads, p
<1> QED BY <1>5 DEF NextIs, p

\* So it is in every call.
LEMMA NextOperation ==
  ASSUME NEW c, Good(c), NEW d, NEW g, NEW s, NEW t,
         Progress(c, d, g, s, t), d < Len(Program(c))
  PROVE  NextIs(c, d, g, s, t, Program(c)[d + 1])
<1>1. c.fn \in {"init", "abort", "start", "stop", "wpr", "rpr"} \cup Accessing
  BY Arguments
<1> QED BY <1>1, NextOfWpr, NextOfRpr, NextOfWrite, NextOfRead, NextOfClear, NextOfInit, NextOfControl
        DEF Accessing

-----------------------------------------------------------------------------
(* What the register CL0 will hold when the chip has taken all the words   *)
(* that wait, as a function of those words and of what it holds.           *)

ClearsTo == CMD_WPR + PR_CL0

WritesIn(w) ==
  {k \in 1 .. Len(w) \div 2 : w[2 * k - 1] = ClearsTo /\ \A j \in 1 .. k : NumParams(w[2 * j - 1]) = 1}

SettledIn(w, v) ==
  IF WritesIn(w) = {} THEN v ELSE w[2 * (CHOOSE k \in WritesIn(w) : \A j \in WritesIn(w) : j <= k)]

LEMMA SettledIs == Settled = SettledIn(Waiting, pr[PR_CL0])
BY DEF Settled, SettledIn, Writes, WritesIn, ClearsTo

LEMMA WritesNumbers ==
  ASSUME NEW w, Len(w) \in Nat
  PROVE  WritesIn(w) \subseteq Nat /\ \A k \in WritesIn(w) : k >= 1 /\ 2 * k <= Len(w)
BY DEF WritesIn

LEMMA LastWrite ==
  ASSUME NEW w, Len(w) \in Nat, WritesIn(w) # {}
  PROVE  \E k \in WritesIn(w) : \A j \in WritesIn(w) : j <= k
<1> DEFINE S == WritesIn(w)
           T == {Len(w) - k : k \in S}
<1>1. \A k \in S : k \in Nat /\ 1 <= k /\ 2 * k <= Len(w)
  BY WritesNumbers
<1> HIDE DEF S
<1>2. T \in SUBSET Nat /\ T # {}
  BY <1>1 DEF S
<1>3. PICK i \in T : \A j \in T : i <= j
  BY <1>2, LeastOfNats
<1>4. PICK k \in S : i = Len(w) - k
  BY <1>3
<1>5. ASSUME NEW j \in S PROVE j <= k
  <2>1. Len(w) - j \in T
    OBVIOUS
  <2>2. i <= Len(w) - j
    BY <1>3, <2>1
  <2> HIDE DEF T
  <2> QED BY <1>1, <1>4, <2>2
<1>6. \E l \in S : \A j \in S : j <= l
  BY <1>5
<1> QED BY <1>6 DEF S

LEMMA SettledLast ==
  ASSUME NEW w, Len(w) \in Nat, NEW v, NEW k \in WritesIn(w), \A j \in WritesIn(w) : j <= k
  PROVE  SettledIn(w, v) = w[2 * k]
<1> DEFINE S == WritesIn(w)
           l == CHOOSE i \in S : \A j \in S : j <= i
<1>1. S \subseteq Nat /\ k \in S /\ \A j \in S : j <= k
  BY WritesNumbers
<1>2. SettledIn(w, v) = w[2 * l]
  BY <1>1 DEF SettledIn
<1> HIDE DEF S
<1>3. l \in S /\ \A j \in S : j <= l
  BY <1>1
<1> HIDE DEF l
<1>4. l = k
  BY <1>1, <1>3
<1> QED BY <1>2, <1>4

LEMMA SettledSame ==
  ASSUME NEW w, NEW u, NEW v, WritesIn(u) = WritesIn(w), \A k \in WritesIn(w) : u[2 * k] = w[2 * k],
         Len(w) \in Nat
  PROVE  SettledIn(u, v) = SettledIn(w, v)
<1> DEFINE S == WritesIn(w)
           l == CHOOSE i \in S : \A j \in S : j <= i
<1>1. CASE S = {}
  BY <1>1 DEF SettledIn
<1>2. CASE S # {}
  <2>1. \E k \in S : \A j \in S : j <= k
    BY <1>2, LastWrite
  <2>2. SettledIn(u, v) = u[2 * l] /\ SettledIn(w, v) = w[2 * l]
    BY <1>2 DEF SettledIn
  <2>3. \A k \in S : u[2 * k] = w[2 * k]
    OBVIOUS
  <2> HIDE DEF S
  <2>4. l \in S
    BY <2>1
  <2> HIDE DEF l
  <2> QED BY <2>2, <2>3, <2>4
<1> QED BY <1>1, <1>2

OneMore(w, u) == Len(w) \in Nat /\ Len(u) = Len(w) + 1 /\ \A i \in 1 .. Len(w) : u[i] = w[i]

\* A word behind the others changes nothing, unless it is the second of a pair that writes CL0.
LEMMA SettledOpcode ==
  ASSUME NEW w, NEW u, NEW v, OneMore(w, u), Len(w) % 2 = 0
  PROVE  SettledIn(u, v) = SettledIn(w, v)
<1>1. Len(w) \in Nat /\ Len(u) \div 2 = Len(w) \div 2
  BY DEF OneMore
<1>2. \A k \in 1 .. Len(w) \div 2 : u[2 * k - 1] = w[2 * k - 1] /\ u[2 * k] = w[2 * k]
  <2> TAKE k \in 1 .. Len(w) \div 2
  <2>1. 2 * k - 1 \in 1 .. Len(w) /\ 2 * k \in 1 .. Len(w)
    BY <1>1
  <2> QED BY <2>1 DEF OneMore
<1>3. \A k \in 1 .. Len(w) \div 2 : \A j \in 1 .. k : u[2 * j - 1] = w[2 * j - 1]
  <2> TAKE k \in 1 .. Len(w) \div 2
  <2> TAKE j \in 1 .. k
  <2>1. j \in 1 .. Len(w) \div 2
    BY <1>1
  <2> QED BY <2>1, <1>2
<1>4. WritesIn(u) = WritesIn(w)
  BY <1>1, <1>2, <1>3 DEF WritesIn
<1>5. \A k \in WritesIn(w) : u[2 * k] = w[2 * k]
  BY <1>2 DEF WritesIn
<1> QED BY <1>1, <1>4, <1>5, SettledSame

LEMMA SettledOther ==
  ASSUME NEW w, NEW u, NEW v, OneMore(w, u), Len(w) % 2 = 1,
         \/ w[Len(w)] # ClearsTo
         \/ \E n \in Nat : n % 2 = 0 /\ n < Len(w) /\ NumParams(w[n + 1]) # 1
  PROVE  SettledIn(u, v) = SettledIn(w, v)
<1> DEFINE m == (Len(w) + 1) \div 2
<1>1. Len(w) \in Nat /\ Len(w) = 2 * m - 1 /\ m \in Nat /\ m >= 1 /\ Len(w) \div 2 = m - 1 /\ Len(u) \div 2 = m
  BY DEF OneMore
<1> HIDE DEF m
<1>2. \A k \in 1 .. m : u[2 * k - 1] = w[2 * k - 1]
  <2> TAKE k \in 1 .. m
  <2>1. 2 * k - 1 \in 1 .. Len(w)
    BY <1>1
  <2> QED BY <2>1 DEF OneMore
<1>3. \A k \in 1 .. m - 1 : u[2 * k] = w[2 * k]
  <2> TAKE k \in 1 .. m - 1
  <2>1. 2 * k \in 1 .. Len(w)
    BY <1>1
  <2> QED BY <2>1 DEF OneMore
<1>4. m \notin WritesIn(u)
  <2>1. CASE w[Len(w)] # ClearsTo
    <3>1. u[2 * m - 1] = w[Len(w)]
      BY <1>1, <1>2
    <3> QED BY <3>1, <2>1 DEF WritesIn
  <2>2. CASE \E n \in Nat : n % 2 = 0 /\ n < Len(w) /\ NumParams(w[n + 1]) # 1
    <3>1. PICK n \in Nat : n % 2 = 0 /\ n < Len(w) /\ NumParams(w[n + 1]) # 1
      BY <2>2
    <3> DEFINE j == (n + 2) \div 2
    <3>2. j \in 1 .. m /\ 2 * j - 1 = n + 1
      BY <3>1, <1>1
    <3> HIDE DEF j
    <3>3. NumParams(u[2 * j - 1]) # 1
      BY <3>1, <3>2, <1>2
    <3> QED BY <3>2, <3>3 DEF WritesIn
  <2> QED BY <2>1, <2>2
<1>5. \A k \in 1 .. m - 1 : k \in WritesIn(u) <=> k \in WritesIn(w)
  <2> TAKE k \in 1 .. m - 1
  <2>1. k \in 1 .. m /\ \A j \in 1 .. k : j \in 1 .. m
    BY <1>1
  <2>2. u[2 * k - 1] = w[2 * k - 1] /\ \A j \in 1 .. k : u[2 * j - 1] = w[2 * j - 1]
    BY <2>1, <1>2
  <2> QED BY <1>1, <2>1, <2>2 DEF WritesIn
<1>6. WritesIn(u) \subseteq 1 .. m /\ WritesIn(w) \subseteq 1 .. m - 1
  BY <1>1 DEF WritesIn
<1>7. WritesIn(u) = WritesIn(w)
  <2>1. \A k \in 1 .. m : k = m \/ k \in 1 .. m - 1
    BY <1>1
  <2> QED BY <2>1, <1>4, <1>5, <1>6
<1>8. \A k \in WritesIn(w) : u[2 * k] = w[2 * k]
  BY <1>3, <1>6
<1> QED BY <1>1, <1>7, <1>8, SettledSame

LEMMA SettledWrite ==
  ASSUME NEW w, NEW u, NEW v, OneMore(w, u), Len(w) % 2 = 1, w[Len(w)] = ClearsTo,
         \A j \in 1 .. (Len(w) + 1) \div 2 : NumParams(w[2 * j - 1]) = 1
  PROVE  SettledIn(u, v) = u[Len(w) + 1]
<1> DEFINE m == (Len(w) + 1) \div 2
<1>1. Len(w) \in Nat /\ Len(w) = 2 * m - 1 /\ m \in Nat /\ m >= 1 /\ Len(u) \div 2 = m /\ 2 * m = Len(w) + 1
  <2>1. Len(w) \in Nat /\ Len(u) = Len(w) + 1 /\ Len(w) % 2 = 1
    BY DEF OneMore
  <2> QED BY ONLY <2>1
<1>2. \A j \in 1 .. m : NumParams(w[2 * j - 1]) = 1
  OBVIOUS
<1> HIDE DEF m
<1>3. \A k \in 1 .. m : u[2 * k - 1] = w[2 * k - 1]
  <2> TAKE k \in 1 .. m
  <2>1. 2 * k - 1 \in 1 .. Len(w)
    BY <1>1
  <2> QED BY <2>1 DEF OneMore
<1>4. m \in WritesIn(u) /\ \A j \in WritesIn(u) : j <= m
  <2>1. m \in 1 .. m /\ 2 * m - 1 = Len(w)
    BY <1>1
  <2>2. u[2 * m - 1] = ClearsTo
    BY <2>1, <1>3
  <2>3. \A j \in 1 .. m : NumParams(u[2 * j - 1]) = 1
    BY <1>2, <1>3
  <2> QED BY <1>1, <2>1, <2>2, <2>3 DEF WritesIn
<1>5. Len(u) \in Nat
  BY DEF OneMore
<1> QED BY <1>1, <1>4, <1>5, SettledLast

TwoLess(w, u) == Len(w) \in Nat /\ Len(w) >= 2 /\ Len(u) = Len(w) - 2 /\ \A i \in 1 .. Len(u) : u[i] = w[i + 2]

\* A pair has been taken and executed.
LEMMA SettledTaken ==
  ASSUME NEW w, NEW u, NEW v, NEW x, TwoLess(w, u), NumParams(w[1]) = 1,
         x = IF w[1] = ClearsTo THEN w[2] ELSE v
  PROVE  SettledIn(u, x) = SettledIn(w, v)
<1> DEFINE m == Len(w) \div 2
<1>1. Len(w) \in Nat /\ Len(u) \in Nat /\ m \in Nat /\ m >= 1 /\ Len(u) \div 2 = m - 1
      /\ 2 * m <= Len(w) /\ 2 * (m - 1) <= Len(u)
  <2>1. Len(w) \in Nat /\ Len(w) >= 2 /\ Len(u) = Len(w) - 2
    BY DEF TwoLess
  <2> QED BY ONLY <2>1
<1>2. WritesIn(w) \subseteq 1 .. m
  BY DEF WritesIn
<1>2a. WritesIn(u) \subseteq 1 .. m - 1
  BY <1>1 DEF WritesIn
<1> HIDE DEF m
<1>3. \A k \in 1 .. m - 1 : u[2 * k - 1] = w[2 * (k + 1) - 1] /\ u[2 * k] = w[2 * (k + 1)]
  <2> TAKE k \in 1 .. m - 1
  <2>1. 2 * k - 1 \in 1 .. Len(u) /\ 2 * k \in 1 .. Len(u)
        /\ (2 * k - 1) + 2 = 2 * (k + 1) - 1 /\ 2 * k + 2 = 2 * (k + 1)
    BY <1>1
  <2>2. u[2 * k - 1] = w[(2 * k - 1) + 2] /\ u[2 * k] = w[2 * k + 2]
    BY <2>1 DEF TwoLess
  <2> QED BY <2>1, <2>2
<1>4. \A k \in 1 .. m - 1 : k \in WritesIn(u) <=> k + 1 \in WritesIn(w)
  <2> TAKE k \in 1 .. m - 1
  <2>1. k + 1 \in 1 .. Len(w) \div 2 /\ k \in 1 .. Len(u) \div 2
    BY <1>1 DEF m
  <2>2. u[2 * k - 1] = w[2 * (k + 1) - 1]
    BY <1>3
  <2>3. (\A j \in 1 .. k : NumParams(u[2 * j - 1]) = 1) => \A j \in 1 .. k + 1 : NumParams(w[2 * j - 1]) = 1
    <3> SUFFICES ASSUME \A j \in 1 .. k : NumParams(u[2 * j - 1]) = 1, NEW j \in 1 .. k + 1
                 PROVE  NumParams(w[2 * j - 1]) = 1
      OBVIOUS
    <3>1. CASE j = 1
      BY <3>1
    <3>2. CASE j # 1
      <4>1. j - 1 \in 1 .. k /\ j - 1 \in 1 .. m - 1 /\ 2 * ((j - 1) + 1) - 1 = 2 * j - 1
        BY <1>1, <3>2
      <4>2. u[2 * (j - 1) - 1] = w[2 * j - 1]
        BY <4>1, <1>3
      <4> QED BY <4>1, <4>2
    <3> QED BY <3>1, <3>2
  <2>4. (\A j \in 1 .. k + 1 : NumParams(w[2 * j - 1]) = 1) => \A j \in 1 .. k : NumParams(u[2 * j - 1]) = 1
    <3> SUFFICES ASSUME \A j \in 1 .. k + 1 : NumParams(w[2 * j - 1]) = 1, NEW j \in 1 .. k
                 PROVE  NumParams(u[2 * j - 1]) = 1
      OBVIOUS
    <3>1. j + 1 \in 1 .. k + 1 /\ j \in 1 .. m - 1
      BY <1>1
    <3>2. u[2 * j - 1] = w[2 * (j + 1) - 1]
      BY <3>1, <1>3
    <3> QED BY <3>1, <3>2
  <2> QED BY <2>1, <2>2, <2>3, <2>4 DEF WritesIn
<1>5. 1 \in WritesIn(w) <=> w[1] = ClearsTo
  <2>1. 1 \in 1 .. Len(w) \div 2 /\ 2 * 1 - 1 = 1 /\ \A j \in 1 .. 1 : j = 1
    BY <1>1 DEF m
  <2> QED BY <2>1 DEF WritesIn
<1>6. CASE WritesIn(w) = {}
  <2>1. \A k \in 1 .. m - 1 : k \notin WritesIn(u)
    BY <1>4, <1>6
  <2>2. WritesIn(u) = {}
    BY <2>1, <1>2a
  <2> QED BY <1>5, <1>6, <2>2 DEF SettledIn
<1>7. CASE WritesIn(w) # {}
  <2>1. PICK k \in WritesIn(w) : \A j \in WritesIn(w) : j <= k
    BY <1>1, <1>7, LastWrite
  <2>2. SettledIn(w, v) = w[2 * k]
    BY <1>1, <2>1, SettledLast
  <2>3. CASE k = 1
    <3>1. \A i \in 1 .. m - 1 : i \notin WritesIn(u)
      <4> TAKE i \in 1 .. m - 1
      <4>1. ~(i + 1 <= k)
        BY <1>1, <2>3
      <4> QED BY <4>1, <1>4, <2>1
    <3>2. WritesIn(u) = {}
      BY <3>1, <1>2a
    <3> QED BY <1>5, <2>2, <2>3, <3>2 DEF SettledIn
  <2>4. CASE k # 1
    <3>1. k - 1 \in 1 .. m - 1 /\ (k - 1) + 1 = k
      BY <1>1, <1>2, <2>1, <2>4
    <3>2. k - 1 \in WritesIn(u)
      BY <3>1, <1>4, <2>1
    <3>3. \A i \in WritesIn(u) : i <= k - 1
      <4> TAKE i \in WritesIn(u)
      <4>1. i \in 1 .. m - 1
        BY <1>2a
      <4>2. i + 1 <= k
        BY <4>1, <1>4, <2>1
      <4> QED BY <3>1, <4>1, <4>2
    <3>4. SettledIn(u, x) = u[2 * (k - 1)]
      BY <1>1, <3>2, <3>3, SettledLast
    <3>5. u[2 * (k - 1)] = w[2 * k]
      BY <3>1, <1>3
    <3> QED BY <2>2, <3>4, <3>5
  <2> QED BY <2>3, <2>4
<1> QED BY <1>6, <1>7

\* Behind a command of another length there are no writes; when nothing waits there are none.
LEMMA SettledNow ==
  ASSUME NEW w, NEW v, Len(w) \in Nat, Len(w) = 0 \/ NumParams(w[1]) # 1
  PROVE  SettledIn(w, v) = v
<1>1. CASE Len(w) = 0
  <2>1. Len(w) \div 2 = 0
    BY <1>1
  <2>2. WritesIn(w) = {}
    BY <2>1 DEF WritesIn
  <2> QED BY <2>2 DEF SettledIn
<1>2. CASE NumParams(w[1]) # 1
  <2>1. ASSUME NEW k \in WritesIn(w) PROVE FALSE
    <3>1. k \in Nat /\ k >= 1
      BY <2>1, WritesNumbers
    <3>2. 1 \in 1 .. k /\ 2 * 1 - 1 = 1
      BY <3>1
    <3> QED BY <1>2, <2>1, <3>2 DEF WritesIn
  <2>2. WritesIn(w) = {}
    BY <2>1
  <2> QED BY <2>2 DEF SettledIn
<1> QED BY <1>1, <1>2

-----------------------------------------------------------------------------
(* The pointer and the rectangle.                                          *)

LEMMA QuotientIs ==
  ASSUME NEW m \in Nat, m > 0, NEW x \in Int, NEW q \in Int, NEW r \in Int,
         x = m * q + r, 0 <= r, r < m
  PROVE  x \div m = q /\ x % m = r
<1> DEFINE p == x \div m
           s == x % m
<1>1. p \in Int /\ s \in Int /\ x = m * p + s /\ 0 <= s /\ s < m
  OBVIOUS
<1> HIDE DEF p, s
<1>2. m * (q - p) = s - r
  BY <1>1
<1>3. CASE q - p >= 1
  <2>1. m * (q - p) >= m
    BY <1>1, <1>3
  <2> QED BY <1>1, <1>2, <2>1
<1>4. CASE q - p <= -1
  <2>1. m * (q - p) <= -m
    BY <1>1, <1>4
  <2> QED BY <1>1, <1>2, <2>1
<1>5. CASE q = p
  BY <1>1, <1>2, <1>5 DEF p, s
<1> QED BY <1>1, <1>3, <1>4, <1>5

LEMMA AddressesAre == Addresses \subseteq Nat /\ \A a \in Addresses : a < AddressSpace
<1>1. Addresses \subseteq 0 .. 2^20 - 1
  BY SizesAssumption, Zenon
<1>2. Addresses \subseteq 0 .. AddressSpace - 1
  BY <1>1, AddressBound, Zenon
<1>3. AddressSpace \in Nat
  BY AddressBound, Zenon
<1> QED BY <1>2, <1>3

LEMMA Width == MEM_WIDTH \in Nat /\ MEM_WIDTH > 0
<1>1. MEM_WIDTH \in Nat \ {0}
  BY SizesAssumption, Zenon
<1> QED BY ONLY <1>1

\* The pointer after its second word has been written.
LEMMA PointerIs ==
  ASSUME NEW c, Good(c), c.fn \in Accessing
  PROVE  ((Ptr(c)[1] % 256) * 4096) + (Ptr(c)[2] \div 16) = c.addr
<1>1. c.dn \in Int /\ c.addr \in Nat /\ c.addr < AddressSpace /\ 0 \in Int
  BY Arguments
<1> DEFINE p == pack_ptr(c.dn, c.addr, 0)
<1>2. ((p[1] % 256) * 4096) + (p[2] \div 16) = c.addr
  BY <1>1, Unpacked
<1>3. p = Ptr(c)
  BY DEF Ptr
<1> HIDE DEF p
<1> QED BY <1>2, <1>3

LEMMA PointerMoves ==
  ASSUME pr \in [Registers -> Word], NEW a \in Nat, RWP = a, a + 1 < AddressSpace, pr' = Advanced
  PROVE  RWP' = a + 1
<1> DEFINE dn == pr[PR_RWPH] \div 16384
           next == (RWP + 1) % 2^20
           dot == pr[PR_RWPL] % 16
           p == pack_ptr(dn, next, dot)
<1>1. Advanced = [pr EXCEPT ![PR_RWPH] = p[1], ![PR_RWPL] = p[2]]
  BY DEF Advanced
<1>2. PR_RWPH \in Registers /\ PR_RWPL \in Registers /\ PR_RWPH # PR_RWPL
  BY RegisterNumbers
<1>3. dn \in Int /\ dot \in Int
  <2>1. pr[PR_RWPH] \in Word /\ pr[PR_RWPL] \in Word
    BY <1>2
  <2>2. Word \subseteq Int
    BY InWord
  <2>3. pr[PR_RWPH] \in Int /\ pr[PR_RWPL] \in Int
    BY ONLY <2>1, <2>2
  <2> QED BY <2>3
<1>4. (a + 1) % AddressSpace = a + 1
  <2>1. AddressSpace \in Nat /\ AddressSpace > 0
    BY AddressBound, SMT
  <2>2. a + 1 = AddressSpace * 0 + (a + 1)
    BY <2>1
  <2> QED BY <2>1, <2>2, QuotientIs
<1>5. next = a + 1
  BY <1>4, AddressBound, Zenon
<1> HIDE DEF dn, next, dot
<1>6. ((p[1] % 256) * 4096) + (p[2] \div 16) = next
  BY <1>3, <1>5, Unpacked
<1> HIDE DEF p
<1>7. pr'[PR_RWPH] = p[1] /\ pr'[PR_RWPL] = p[2]
  BY <1>1, <1>2
<1> QED BY <1>5, <1>6, <1>7 DEF RWP

LEMMA PointerOnly ==
  ASSUME pr \in [Registers -> Word], pr' = Advanced
  PROVE  pr'[PR_CL0] = pr[PR_CL0]
<1>1. PR_CL0 \in Registers /\ PR_RWPH # PR_CL0 /\ PR_RWPL # PR_CL0
  BY RegisterNumbers
<1> QED BY <1>1 DEF Advanced

\* A rectangle is as many words of as many lines as were asked for.
LEMMA RectangleIs ==
  ASSUME NEW c, Good(c), c.fn = "clear_area", RWP = c.addr
  PROVE  Rectangle(c.words - 1, (65536 - (c.lines - 1)) % 65536) = Buffer!Covered(c) \cap Addresses
<1> DEFINE dx == c.words - 1
           dy == (65536 - (c.lines - 1)) % 65536
           n == 1 + ((65536 - dy) % 65536)
           C == {c.addr + MEM_WIDTH * i + j : i \in 0 .. c.lines - 1, j \in 0 .. c.words - 1}
           r == c.addr
           M == MEM_WIDTH
           l == c.lines
           w == c.words
<1>1. l \in Word /\ w \in Word /\ l # 0 /\ w # 0 /\ r \in Nat
  BY Arguments DEF Accessing
<1>2. n = l
  <2>1. \A x \in Int : 1 <= x /\ x <= 65535 =>
          1 + ((65536 - ((65536 - (x - 1)) % 65536)) % 65536) = x
    BY SMT
  <2> HIDE DEF l, w, r
  <2>2. l \in Int /\ 1 <= l /\ l <= 65535
    BY <1>1, InWord, SMT
  <2> QED BY <2>1, <2>2, SMT DEF l
<1>3. l \in Nat /\ l > 0 /\ w \in Nat /\ w > 0
  <2> HIDE DEF l, w, r
  <2> QED BY <1>1, InWord, SMT
<1>4. Buffer!Covered(c) = C
  BY DEF Buffer!Covered
<1>5. Rectangle(dx, dy) =
        {a \in Addresses : \E j \in 0 .. a : /\ a >= RWP + j /\ j <= dx
                                             /\ (a - RWP - j) % MEM_WIDTH = 0
                                             /\ (a - RWP - j) \div MEM_WIDTH < n}
  BY DEF Rectangle
<1>6. M \in Nat /\ M > 0
  BY Width
<1>7. dx = w - 1
  OBVIOUS
<1> HIDE DEF dx, dy, n
<1>8. Rectangle(dx, dy) =
        {a \in Addresses : \E j \in 0 .. a : /\ a >= r + j /\ j <= w - 1
                                             /\ (a - r - j) % M = 0 /\ (a - r - j) \div M < l}
  BY <1>2, <1>5, <1>7
<1>9. C = {r + M * i + j : i \in 0 .. l - 1, j \in 0 .. w - 1}
  OBVIOUS
<1> HIDE DEF C, r, M, l, w
<1>10. ASSUME NEW a \in Addresses, NEW j \in 0 .. a, a >= r + j, j <= w - 1,
              (a - r - j) % M = 0, (a - r - j) \div M < l
       PROVE  a \in C
  <2> DEFINE x == a - r - j
             i == x \div M
  <2>1. a \in Nat /\ x \in Nat /\ j \in 0 .. w - 1
    BY <1>1, <1>3, <1>10, AddressesAre
  <2>2. x = M * i /\ i \in Int /\ i < l
    <3>1. x % M = 0 /\ x \div M < l
      BY <1>10
    <3> HIDE DEF x
    <3> QED BY <1>6, <2>1, <3>1
  <2> HIDE DEF i
  <2>3. i >= 0
    <3>1. CASE i <= -1
      <4>1. M * i <= -M
        BY <1>6, <2>2, <3>1
      <4> QED BY <1>6, <2>1, <2>2, <4>1
    <3> QED BY <2>2, <3>1
  <2>4. i \in 0 .. l - 1
    BY <2>2, <2>3, <1>3
  <2>5. M * i \in Nat
    BY <2>1, <2>2
  <2>6. a = r + M * i + j
    BY <1>1, <2>1, <2>2, <2>5
  <2> QED BY <1>9, <2>1, <2>4, <2>6
<1>11. ASSUME NEW a \in Addresses, a \in C
       PROVE  \E j \in 0 .. a : /\ a >= r + j /\ j <= w - 1
                                /\ (a - r - j) % M = 0 /\ (a - r - j) \div M < l
  <2>1. PICK i \in 0 .. l - 1, j \in 0 .. w - 1 : a = r + M * i + j
    BY <1>9, <1>11
  <2>2. i \in Nat /\ j \in Nat /\ j <= w - 1 /\ i < l
    BY <1>3
  <2> DEFINE x == M * i
  <2>3. x \in Nat /\ x = M * i + 0
    BY <1>6, <2>2
  <2>4. x \div M = i /\ x % M = 0
    BY <1>6, <2>2, <2>3, QuotientIs
  <2>5. a = r + x + j
    BY <2>1
  <2> HIDE DEF x
  <2>6. a - r - j = x /\ j \in 0 .. a /\ a >= r + j
    BY <1>1, <2>2, <2>3, <2>5
  <2> QED BY <2>2, <2>4, <2>6
<1>12. Rectangle(dx, dy) = C \cap Addresses
  BY <1>8, <1>10, <1>11
<1> QED BY <1>4, <1>12 DEF dx, dy

-----------------------------------------------------------------------------
(* The words that wait: of s words of pairs, those of the first y pairs    *)
(* have been executed (a negative y counts pairs of earlier calls that     *)
(* were not); behind the rest of them, q words of the last command.        *)

Left(s, y) == s - 2 * y

Queue(c, s, t, y, q, w) ==
  /\ s \in Nat /\ t \in Nat /\ y \in Int /\ q \in Nat /\ Left(s, y) >= 0
  /\ q = t \/ (q = 0 /\ Left(s, y) = 0 /\ t = Len(Rest(c)))
  /\ Len(w) = Left(s, y) + q
  /\ \A k \in 1 .. Left(s, y) :
       2 * k - 1 <= Left(s, y) => IF k + y >= 1 THEN w[2 * k - 1] = PairOp(c, k + y) ELSE w[2 * k - 1] \in WPRs
  /\ \A k \in 1 .. Left(s, y) : 2 * k <= Left(s, y) /\ k + y >= 1 => w[2 * k] = PairValue(c, k + y)
  /\ \A i \in 1 .. q : w[Left(s, y) + i] = Rest(c)[i]

\* How far a call is, as far as its words go.
Written(c, s, t) ==
  /\ s <= 2 * Pairs(c) /\ t <= Len(Rest(c)) /\ (t > 0 => s = 2 * Pairs(c))
  /\ Pairs(c) \in Nat /\ Len(Rest(c)) \in Nat

LEMMA PairOps ==
  ASSUME NEW c, Good(c), NEW k \in 1 .. Pairs(c)
  PROVE  /\ PairOp(c, k) \in WPRs \cup {CMD_WT}
         /\ c.fn \in {"write_words", "fill_words"} \/ PairOp(c, k) \in WPRs
         /\ c.fn \in Accessing /\ k <= 2 => PairOp(c, k) \in WPRs
         /\ PairOp(c, k) = ClearsTo => (c.fn = "wpr" /\ c.reg = PR_CL0) \/ c.fn = "init"
<1>1. \A r \in 0 .. 31 : CMD_WPR + r \in WPRs /\ (CMD_WPR + r = ClearsTo <=> r = 0)
  BY CommandWords, RegisterNumbers DEF WPRs, ClearsTo
<1>2. CMD_WT # ClearsTo /\ PR_CL0 = 0 /\ PR_RWPH = 12 /\ PR_RWPL = 13
  <2>1. ClearsTo \in WPRs /\ CMD_WT \notin WPRs
    BY CommandWords, RegisterNumbers DEF WPRs, ClearsTo
  <2> QED BY <2>1, RegisterNumbers
<1>3. CASE c.fn = "wpr"
  <2>1. PairOp(c, k) = CMD_WPR + c.reg /\ c.reg \in 0 .. 31
    BY <1>3, Arguments DEF PairOp
  <2> QED BY <1>1, <1>2, <1>3, <2>1 DEF Accessing
<1>4. CASE c.fn = "init"
  <2>1. PairOp(c, k) = CMD_WPR + (k - 1) /\ Pairs(c) = 5
    BY <1>4 DEF PairOp, Pairs
  <2>2. k - 1 \in 0 .. 31
    BY <2>1
  <2> QED BY <1>1, <1>4, <2>1, <2>2 DEF Accessing
<1>5. CASE c.fn \in Accessing
  <2>1. PairOp(c, k) = IF k = 1 THEN CMD_WPR + PR_RWPH ELSE IF k = 2 THEN CMD_WPR + PR_RWPL ELSE CMD_WT
    BY <1>5 DEF PairOp, Accessing
  <2>2. CASE k <= 2
    <3>1. k = 1 \/ k = 2
      BY <2>2
    <3>2. PR_RWPH \in 0 .. 31 /\ PR_RWPL \in 0 .. 31 /\ PR_RWPH # 0 /\ PR_RWPL # 0
      BY <1>2
    <3>3. PairOp(c, k) \in WPRs /\ PairOp(c, k) # ClearsTo
      BY <1>1, <2>1, <3>1, <3>2
    <3> QED BY <3>3
  <2>3. CASE k > 2
    <3>1. PairOp(c, k) = CMD_WT
      BY <2>1, <2>3
    <3>2. c.fn \in {"write_words", "fill_words"}
      BY <1>5, <2>3 DEF Accessing, Pairs
    <3> QED BY <1>2, <2>3, <3>1, <3>2
  <2> QED BY <2>2, <2>3
<1>6. c.fn \in {"wpr", "init"} \cup Accessing
  <2>1. ~(c.fn \in {"abort", "start", "stop", "rpr"})
    BY DEF Pairs
  <2> QED BY <2>1, Arguments
<1> QED BY <1>3, <1>4, <1>5, <1>6

LEMMA PairsTaken ==
  ASSUME NEW c, Good(c), NEW k \in 1 .. Pairs(c)
  PROVE  NumParams(PairOp(c, k)) = 1 /\ IsOpcode(PairOp(c, k))
BY PairOps, CommandWords

LEMMA RestTaken ==
  ASSUME NEW c, Good(c), Len(Rest(c)) > 0
  PROVE  /\ NumParams(Rest(c)[1]) = Len(Rest(c)) - 1 /\ IsOpcode(Rest(c)[1]) /\ NumParams(Rest(c)[1]) # 1
         /\ c.fn \in {"rpr", "read_words", "clear_area", "init"}
<1>1. CASE c.fn = "rpr"
  <2>0. c.reg \in 0 .. 31
    BY <1>1, Arguments
  <2>1. Rest(c) = <<CMD_RPR + c.reg>> /\ c.reg \in 0 .. 31
    BY <1>1, <2>0 DEF Rest
  <2>2. Len(Rest(c)) = 1 /\ Rest(c)[1] = CMD_RPR + c.reg
    BY <2>1
  <2>3. Rest(c)[1] \in RPRs
    BY <2>1, <2>2, CommandWords DEF RPRs
  <2> QED BY <1>1, <2>2, <2>3, CommandWords
<1>2. CASE c.fn = "read_words"
  <2>1. Rest(c) = <<CMD_RD>>
    BY <1>2 DEF Rest
  <2>2. Len(Rest(c)) = 1 /\ Rest(c)[1] = CMD_RD
    BY <2>1
  <2> QED BY <1>2, <2>2, CommandWords
<1>3. CASE c.fn = "clear_area"
  <2>1. Len(Rest(c)) = 4 /\ Rest(c)[1] = CMD_CLR
    BY <1>3 DEF Rest
  <2> QED BY <1>3, <2>1, CommandWords
<1>4. CASE c.fn = "init"
  <2>1. Len(Rest(c)) = 3 /\ Rest(c)[1] = CMD_ORG
    BY <1>4 DEF Rest
  <2> QED BY <1>4, <2>1, CommandWords
<1>5. CASE ~(c.fn \in {"rpr", "read_words", "clear_area", "init"})
  <2>1. Rest(c) = <<>>
    BY <1>5 DEF Rest
  <2> QED BY <2>1
<1> QED BY <1>1, <1>2, <1>3, <1>4, <1>5

\* Each first word of a pair is an opcode with one parameter.
LEMMA QueueOpcodes ==
  ASSUME NEW c, NEW s, NEW t, NEW y, NEW q, NEW w, Queue(c, s, t, y, q, w), Written(c, s, t),
         Good(c) \/ s = 0, NEW k \in Nat, k >= 1, 2 * k - 1 <= Left(s, y)
  PROVE  NumParams(w[2 * k - 1]) = 1 /\ IsOpcode(w[2 * k - 1])
<1>1. Left(s, y) = s - 2 * y /\ s \in Nat /\ y \in Int /\ s <= 2 * Pairs(c) /\ Pairs(c) \in Nat
  BY DEF Queue, Left, Written
<1>2. k \in 1 .. Left(s, y)
  BY <1>1
<1>3. IF k + y >= 1 THEN w[2 * k - 1] = PairOp(c, k + y) ELSE w[2 * k - 1] \in WPRs
  BY <1>2 DEF Queue
<1>4. CASE k + y >= 1
  <2>1. k + y \in 1 .. Pairs(c) /\ s # 0
    BY <1>1, <1>4
  <2> QED BY <1>3, <1>4, <2>1, PairsTaken
<1>5. CASE ~(k + y >= 1)
  BY <1>3, <1>5, CommandWords
<1> QED BY <1>4, <1>5

LEMMA QueueHead ==
  ASSUME NEW c, NEW s, NEW t, NEW y, NEW q, NEW w, Queue(c, s, t, y, q, w), Written(c, s, t),
         Good(c) \/ (s = 0 /\ t = 0), Len(w) > 0
  PROVE  /\ IsOpcode(w[1])
         /\ Left(s, y) > 0 => NumParams(w[1]) = 1
         /\ Left(s, y) = 0 => q = t /\ t > 0 /\ w[1] = Rest(c)[1]
         /\ t > 0 => Left(s, y) % 2 = 0
         /\ Left(s, y) \in Nat
<1>1. /\ Left(s, y) = s - 2 * y /\ s \in Nat /\ t \in Nat /\ y \in Int /\ q \in Nat /\ Pairs(c) \in Nat
      /\ Left(s, y) >= 0 /\ t <= Len(Rest(c)) /\ Len(Rest(c)) \in Nat
      /\ (q = t \/ q = 0) /\ Len(w) = Left(s, y) + q /\ (t > 0 => s = 2 * Pairs(c))
  BY DEF Queue, Left, Written
<1>2. t > 0 => Left(s, y) % 2 = 0
  <2>1. t > 0 => Left(s, y) = 2 * (Pairs(c) - y)
    BY <1>1
  <2>2. Pairs(c) - y \in Int
    BY <1>1
  <2>3. \A i \in Int : (2 * i) % 2 = 0
    OBVIOUS
  <2> QED BY <2>1, <2>2, <2>3
<1>3. CASE Left(s, y) > 0
  <2>1. 1 \in Nat /\ 1 >= 1 /\ 2 * 1 - 1 <= Left(s, y) /\ 2 * 1 - 1 = 1
    BY <1>1, <1>3
  <2>2. NumParams(w[2 * 1 - 1]) = 1 /\ IsOpcode(w[2 * 1 - 1])
    BY <2>1, QueueOpcodes
  <2> QED BY <1>1, <1>2, <1>3, <2>1, <2>2
<1>4. CASE Left(s, y) = 0
  <2>1. q > 0 /\ q = t /\ t > 0
    BY <1>1, <1>4
  <2>2. 1 \in 1 .. q /\ Left(s, y) + 1 = 1
    <3>1. q \in Nat /\ q > 0 /\ Left(s, y) = 0
      BY <1>1, <1>4, <2>1
    <3> QED BY ONLY <3>1
  <2>3. w[1] = Rest(c)[1]
    BY <2>2 DEF Queue
  <2>4. Good(c) /\ Len(Rest(c)) > 0
    BY <1>1, <2>1
  <2>5. IsOpcode(Rest(c)[1])
    BY <2>4, RestTaken
  <2> QED BY <1>1, <1>2, <1>4, <2>1, <2>3, <2>5
<1> QED BY <1>1, <1>3, <1>4

\* The command the chip has complete is a pair, or it is the last one and all that waits.
LEMMA QueueComplete ==
  ASSUME NEW c, NEW s, NEW t, NEW y, NEW q, NEW w, Queue(c, s, t, y, q, w), Written(c, s, t),
         Good(c) \/ (s = 0 /\ t = 0),
         NEW m \in Nat, m > 0, m = 1 + NumParams(w[1]), m <= Len(w)
  PROVE  \/ m = 2 /\ Left(s, y) >= 2 /\ NumParams(w[1]) = 1
         \/ Left(s, y) = 0 /\ q = t /\ t > 0 /\ t = Len(Rest(c)) /\ m = t /\ Len(w) = t /\ w[1] = Rest(c)[1]
<1>1. /\ t \in Nat /\ q \in Nat /\ t <= Len(Rest(c)) /\ Len(Rest(c)) \in Nat
      /\ (q = t \/ q = 0) /\ Len(w) = Left(s, y) + q
  BY DEF Queue, Written
<1>2. Left(s, y) \in Nat /\ Len(w) > 0
  BY <1>1 DEF Queue, Left
<1>3. /\ Left(s, y) > 0 => NumParams(w[1]) = 1
      /\ Left(s, y) = 0 => q = t /\ t > 0 /\ w[1] = Rest(c)[1]
      /\ t > 0 => Left(s, y) % 2 = 0
  BY <1>2, QueueHead
<1>4. CASE Left(s, y) > 0
  <2>1. m = 2 /\ NumParams(w[1]) = 1
    BY <1>3, <1>4
  <2>2. Left(s, y) # 1
    <3>1. ASSUME Left(s, y) = 1 PROVE FALSE
      <4>1. t = 0
        BY <1>1, <1>3, <3>1
      <4>2. Len(w) = 1
        BY <1>1, <3>1, <4>1
      <4> QED BY <2>1, <4>2
    <3> QED BY <3>1
  <2> QED BY <1>2, <1>4, <2>1, <2>2
<1>5. CASE Left(s, y) = 0
  <2>1. q = t /\ t > 0 /\ w[1] = Rest(c)[1]
    BY <1>3, <1>5
  <2>2. Good(c) /\ Len(Rest(c)) > 0
    BY <1>1, <2>1
  <2>3. NumParams(w[1]) = Len(Rest(c)) - 1
    BY <2>1, <2>2, RestTaken
  <2>4. m = Len(Rest(c))
    BY <1>1, <2>3
  <2>5. Len(w) = q
    <3>1. q \in Nat /\ Len(w) = 0 + q
      BY <1>1, <1>5
    <3> QED BY ONLY <3>1
  <2>6. m = t /\ t = Len(Rest(c)) /\ Len(w) = t
    <3>1. m <= t /\ t <= m /\ m \in Nat /\ t \in Nat
      BY <1>1, <2>1, <2>4, <2>5
    <3>2. m = t
      BY ONLY <3>1
    <3> QED BY <2>1, <2>4, <2>5, <3>2
  <2> QED BY <1>5, <2>1, <2>6
<1> QED BY <1>2, <1>4, <1>5

LEMMA QueuePairTaken ==
  ASSUME NEW c, NEW s, NEW t, NEW y, NEW q, NEW w, NEW u, Queue(c, s, t, y, q, w),
         Left(s, y) >= 2, TwoLess(w, u)
  PROVE  Queue(c, s, t, y + 1, q, u) /\ Left(s, y + 1) = Left(s, y) - 2
<1>1. /\ Left(s, y) = s - 2 * y /\ s \in Nat /\ t \in Nat /\ y \in Int /\ q \in Nat
      /\ (q = t \/ (q = 0 /\ Left(s, y) = 0 /\ t = Len(Rest(c))))
      /\ Len(w) = Left(s, y) + q /\ Left(s, y) \in Nat /\ Len(u) = Len(w) - 2
  BY DEF Queue, Left, TwoLess
<1>2. Left(s, y + 1) = Left(s, y) - 2 /\ y + 1 \in Int
  BY <1>1 DEF Left
<1>3. ASSUME NEW k \in 1 .. Left(s, y + 1), 2 * k - 1 <= Left(s, y + 1)
      PROVE  IF k + (y + 1) >= 1 THEN u[2 * k - 1] = PairOp(c, k + (y + 1)) ELSE u[2 * k - 1] \in WPRs
  <2>1. k + 1 \in 1 .. Left(s, y) /\ 2 * (k + 1) - 1 <= Left(s, y) /\ (k + 1) + y = k + (y + 1)
    BY <1>1, <1>2, <1>3
  <2>2. IF (k + 1) + y >= 1 THEN w[2 * (k + 1) - 1] = PairOp(c, (k + 1) + y) ELSE w[2 * (k + 1) - 1] \in WPRs
    BY <2>1 DEF Queue
  <2>3. 2 * k - 1 \in 1 .. Len(u) /\ (2 * k - 1) + 2 = 2 * (k + 1) - 1
    BY <1>1, <1>2, <1>3
  <2>4. u[2 * k - 1] = w[2 * (k + 1) - 1]
    BY <2>3 DEF TwoLess
  <2> QED BY <2>1, <2>2, <2>4
<1>4. ASSUME NEW k \in 1 .. Left(s, y + 1), 2 * k <= Left(s, y + 1), k + (y + 1) >= 1
      PROVE  u[2 * k] = PairValue(c, k + (y + 1))
  <2>1. k + 1 \in 1 .. Left(s, y) /\ 2 * (k + 1) <= Left(s, y) /\ (k + 1) + y = k + (y + 1)
    BY <1>1, <1>2, <1>4
  <2>2. w[2 * (k + 1)] = PairValue(c, (k + 1) + y)
    BY <1>4, <2>1 DEF Queue
  <2>3. 2 * k \in 1 .. Len(u) /\ 2 * k + 2 = 2 * (k + 1)
    BY <1>1, <1>2, <1>4
  <2>4. u[2 * k] = w[2 * (k + 1)]
    BY <2>3 DEF TwoLess
  <2> QED BY <2>1, <2>2, <2>4
<1>5. ASSUME NEW i \in 1 .. q PROVE u[Left(s, y + 1) + i] = Rest(c)[i]
  <2>1. Left(s, y + 1) + i \in 1 .. Len(u) /\ (Left(s, y + 1) + i) + 2 = Left(s, y) + i
    BY <1>1, <1>2
  <2>2. u[Left(s, y + 1) + i] = w[Left(s, y) + i]
    BY <2>1 DEF TwoLess
  <2> QED BY <2>2 DEF Queue
<1>6. Left(s, y + 1) >= 0 /\ Len(u) = Left(s, y + 1) + q /\ q = t
  BY <1>1, <1>2
<1> QED BY <1>1, <1>2, <1>3, <1>4, <1>5, <1>6 DEF Queue

LEMMA QueueRestTaken ==
  ASSUME NEW c, NEW s, NEW t, NEW y, NEW q, NEW w, NEW u, Queue(c, s, t, y, q, w),
         Left(s, y) = 0, t = Len(Rest(c)), Len(u) = 0
  PROVE  Queue(c, s, t, y, 0, u)
<1>1. \A k \in 1 .. 0 : FALSE
  OBVIOUS
<1>2. s \in Nat /\ t \in Nat /\ y \in Int
  BY DEF Queue
<1> QED BY <1>1, <1>2 DEF Queue

\* Words are put behind the others.
LEMMA QueuePairWord ==
  ASSUME NEW c, NEW s, NEW y, NEW q, NEW w, NEW u, Queue(c, s, 0, y, q, w), OneMore(w, u),
         u[Len(w) + 1] = PairWord(c, s + 1)
  PROVE  Queue(c, s + 1, 0, y, 0, u)
<1> DEFINE n == Left(s, y)
<1>1. /\ n = s - 2 * y /\ s \in Nat /\ y \in Int /\ n \in Nat /\ q = 0 /\ Len(w) = n /\ Len(u) = n + 1
  BY DEF Queue, Left, OneMore
<1>2. Left(s + 1, y) = n + 1
  BY <1>1 DEF Left
<1> HIDE DEF n
<1>3. ASSUME NEW k \in 1 .. n + 1, 2 * k - 1 <= n + 1
      PROVE  IF k + y >= 1 THEN u[2 * k - 1] = PairOp(c, k + y) ELSE u[2 * k - 1] \in WPRs
  <2>1. CASE 2 * k - 1 <= n
    <3>1. k \in 1 .. n /\ 2 * k - 1 \in 1 .. Len(w)
      BY <1>1, <2>1
    <3>2. u[2 * k - 1] = w[2 * k - 1]
      BY <3>1 DEF OneMore
    <3> QED BY <2>1, <3>1, <3>2 DEF Queue, n
  <2>2. CASE 2 * k - 1 = n + 1
    <3>1. k + y >= 1 /\ (s + 1) % 2 = 1 /\ ((s + 1) + 1) \div 2 = k + y
      BY <1>1, <2>2
    <3>2. u[2 * k - 1] = PairWord(c, s + 1)
      BY <1>1, <2>2
    <3> QED BY <3>1, <3>2 DEF PairWord
  <2> QED BY <1>1, <1>3, <2>1, <2>2
<1>4. ASSUME NEW k \in 1 .. n + 1, 2 * k <= n + 1, k + y >= 1 PROVE u[2 * k] = PairValue(c, k + y)
  <2>1. CASE 2 * k <= n
    <3>1. k \in 1 .. n /\ 2 * k \in 1 .. Len(w)
      BY <1>1, <2>1
    <3>2. u[2 * k] = w[2 * k]
      BY <3>1 DEF OneMore
    <3> QED BY <1>4, <2>1, <3>1, <3>2 DEF Queue, n
  <2>2. CASE 2 * k = n + 1
    <3>1. (s + 1) % 2 # 1 /\ (s + 1) \div 2 = k + y
      BY <1>1, <2>2
    <3>2. u[2 * k] = PairWord(c, s + 1)
      BY <1>1, <2>2
    <3> QED BY <3>1, <3>2 DEF PairWord
  <2> QED BY <1>1, <1>4, <2>1, <2>2
<1>5. \A i \in 1 .. 0 : FALSE
  OBVIOUS
<1> QED BY <1>1, <1>2, <1>3, <1>4, <1>5 DEF Queue

LEMMA QueueRestWord ==
  ASSUME NEW c, NEW s, NEW t, NEW y, NEW q, NEW w, NEW u, Queue(c, s, t, y, q, w), OneMore(w, u),
         t # Len(Rest(c)), u[Len(w) + 1] = Rest(c)[t + 1]
  PROVE  Queue(c, s, t + 1, y, q + 1, u) /\ q = t
<1> DEFINE n == Left(s, y)
<1>1. /\ s \in Nat /\ y \in Int /\ n \in Nat /\ t \in Nat /\ q = t /\ Len(w) = n + q /\ Len(u) = n + q + 1
  BY DEF Queue, Left, OneMore
<1> HIDE DEF n
<1>2. ASSUME NEW k \in 1 .. n, 2 * k - 1 <= n
      PROVE  IF k + y >= 1 THEN u[2 * k - 1] = PairOp(c, k + y) ELSE u[2 * k - 1] \in WPRs
  <2>1. 2 * k - 1 \in 1 .. Len(w)
    BY <1>1, <1>2
  <2>2. u[2 * k - 1] = w[2 * k - 1]
    BY <2>1 DEF OneMore
  <2> QED BY <1>2, <2>2 DEF Queue, n
<1>3. ASSUME NEW k \in 1 .. n, 2 * k <= n, k + y >= 1 PROVE u[2 * k] = PairValue(c, k + y)
  <2>1. 2 * k \in 1 .. Len(w)
    BY <1>1, <1>3
  <2>2. u[2 * k] = w[2 * k]
    BY <2>1 DEF OneMore
  <2> QED BY <1>3, <2>2 DEF Queue, n
<1>4. ASSUME NEW i \in 1 .. q + 1 PROVE u[n + i] = Rest(c)[i]
  <2>1. CASE i <= q
    <3>1. i \in 1 .. q /\ n + i \in 1 .. Len(w)
      BY <1>1, <2>1
    <3>2. u[n + i] = w[n + i]
      BY <3>1 DEF OneMore
    <3> QED BY <3>1, <3>2 DEF Queue, n
  <2>2. CASE i = q + 1
    <3>1. n + i = Len(w) + 1 /\ i = t + 1
      BY <1>1, <2>2
    <3> QED BY <3>1
  <2> QED BY <1>1, <2>1, <2>2
<1>5. n = Left(s, y) /\ n >= 0 /\ Len(u) = n + (q + 1) /\ q + 1 = t + 1 /\ q + 1 \in Nat /\ t + 1 \in Nat
  BY <1>1 DEF n
<1> QED BY <1>1, <1>2, <1>3, <1>4, <1>5 DEF Queue, n

\* Pairs that write registers can be left behind by a call that does not wait for them.
Leftover(z, w) == z \in Nat /\ Len(w) = 2 * z /\ \A k \in 1 .. z : w[2 * k - 1] \in WPRs

LEMMA QueueStarts ==
  ASSUME NEW c, NEW z, NEW w, Leftover(z, w)
  PROVE  Queue(c, 0, 0, -z, 0, w)
<1>1. z \in Nat /\ Len(w) = 2 * z /\ Left(0, -z) = 2 * z /\ -z \in Int
  BY DEF Leftover, Left
<1>2. ASSUME NEW k \in 1 .. 2 * z, 2 * k - 1 <= 2 * z PROVE ~(k + (-z) >= 1) /\ w[2 * k - 1] \in WPRs
  <2>1. k \in 1 .. z /\ ~(k + (-z) >= 1)
    BY <1>1, <1>2
  <2> QED BY <2>1 DEF Leftover
<1>3. ASSUME NEW k \in 1 .. 2 * z, 2 * k <= 2 * z, k + (-z) >= 1 PROVE FALSE
  BY <1>1, <1>3
<1>4. \A i \in 1 .. 0 : FALSE
  OBVIOUS
<1> QED BY <1>1, <1>2, <1>3, <1>4 DEF Queue

LEMMA QueueIsLeft ==
  ASSUME NEW c, NEW s, NEW y, NEW w, Queue(c, s, 0, y, 0, w), s = 2 * Pairs(c), Pairs(c) \in Nat,
         \/ s = 0
         \/ Good(c) /\ c.fn \in {"wpr", "read_words"}
  PROVE  Leftover(Pairs(c) - y, w)
<1>1. Left(s, y) = 2 * (Pairs(c) - y) /\ Left(s, y) >= 0 /\ y \in Int /\ Len(w) = Left(s, y)
  BY DEF Queue, Left
<1>2. ASSUME NEW k \in 1 .. Pairs(c) - y PROVE w[2 * k - 1] \in WPRs
  <2>1. k \in 1 .. Left(s, y) /\ 2 * k - 1 <= Left(s, y)
    <3> DEFINE N == Pairs(c) - y
    <3>1. N \in Int /\ Left(s, y) = 2 * N /\ k \in 1 .. N
      BY <1>1
    <3> HIDE DEF N
    <3> QED BY ONLY <3>1
  <2>2. IF k + y >= 1 THEN w[2 * k - 1] = PairOp(c, k + y) ELSE w[2 * k - 1] \in WPRs
    BY <2>1 DEF Queue
  <2>3. CASE k + y >= 1
    <3>1. k + y \in 1 .. Pairs(c) /\ s # 0
      BY <1>1, <2>3
    <3>2. PairOp(c, k + y) \in WPRs
      BY <3>1, PairOps
    <3> QED BY <2>2, <2>3, <3>2
  <2> QED BY <2>2, <2>3
<1>3. Pairs(c) - y \in Nat /\ Len(w) = 2 * (Pairs(c) - y)
  BY <1>1, SMTT(60)
<1> QED BY <1>2, <1>3 DEF Leftover

LEMMA QueueGone ==
  ASSUME NEW c, NEW s, NEW t, NEW y, NEW q, NEW w, Queue(c, s, t, y, q, w), Len(w) = 0
  PROVE  Left(s, y) = 0 /\ s = 2 * y /\ q = 0 /\ Leftover(0, w)
<1>1. Left(s, y) = s - 2 * y /\ s \in Nat /\ y \in Int /\ q \in Nat /\ Left(s, y) >= 0 /\ Len(w) = Left(s, y) + q
  BY DEF Queue, Left
<1>2. \A k \in 1 .. 0 : FALSE
  OBVIOUS
<1> QED BY <1>1, <1>2 DEF Leftover

-----------------------------------------------------------------------------
(* Steps of the abstract frame buffer.                                     *)

Allowed == Buffer!Next \/ UNCHANGED Buffer!vars

LEMMA Stutters ==
  ASSUME mem' = mem, Settled' = Settled, call' = call, Answer' = Answer, (failed # NoCall)' = (failed # NoCall)
  PROVE  Allowed
BY DEF Allowed, Buffer!vars

LEMMA Drifts ==
  ASSUME failed # NoCall, failed' # NoCall
  PROVE  Allowed
BY DEF Allowed, Buffer!Next, Buffer!Drift

Asked ==
  /\ call # NoCall /\ failed = NoCall
  /\ \A a \in Addresses : mem'[a] # mem[a] => a \in Buffer!Covered(call) /\ mem'[a] = Buffer!Wanted(call, a)
  /\ \/ Settled' = Settled
     \/ call.fn \in Resets
     \/ call.fn = "wpr" /\ call.reg = PR_CL0 /\ Settled' = call.value

LEMMA Asks == Asked => Buffer!OnlyAsAsked
BY DEF Asked, Buffer!OnlyAsAsked, Buffer!Resets, Resets

LEMMA Works ==
  ASSUME Asked, call' = call, failed' = NoCall
  PROVE  Allowed
<1>1. Answer' = Answer
  BY DEF Answer, Asked
<1> QED BY <1>1, Asks DEF Asked, Allowed, Buffer!Next, Buffer!Work

LEMMA GivesUp ==
  ASSUME Asked, call' = NoCall, failed' # NoCall, rc' = "TIMEOUT"
  PROVE  Allowed
<1>1. Answer'.rc = "TIMEOUT"
  BY DEF Answer
<1> QED BY <1>1, Asks DEF Asked, Allowed, Buffer!Next, Buffer!GiveUp

\* What a call that is answered "OK" has done.
Served ==
  /\ \A a \in Buffer!Covered(call) : mem'[a] = Buffer!Wanted(call, a)
  /\ call.fn = "wpr" /\ call.reg = PR_CL0 => Settled' = call.value
  /\ call.fn = "init" => Settled' = 0
  /\ IF call.fn = "read_words" THEN got' = [i \in 1 .. call.count |-> mem'[call.addr + i - 1]]
     ELSE IF call.fn = "rpr" THEN call.reg = PR_CL0 => got' = <<Settled'>>
     ELSE got' = <<>>

LEMMA Succeeds ==
  ASSUME Asked, call' = NoCall, failed' = NoCall, rc' = "OK", Served
  PROVE  Allowed
<1>1. Answer' = [rc |-> "OK", data |-> got']
  BY DEF Answer
<1>2. Answer'.rc = "OK" /\ Answer'.data = got'
  BY <1>1
<1>3. PICK c \in {call} : c = call
  OBVIOUS
<1>4. Buffer!Done(c)'
  BY <1>3 DEF Served, Buffer!Done, Buffer!Covered, Buffer!Wanted
<1>5. Buffer!Replied(c)'
  BY <1>2, <1>3 DEF Served, Buffer!Replied
<1>6. \E b \in {call} : Buffer!Done(b)' /\ Buffer!Replied(b)'
  BY <1>4, <1>5
<1> QED BY <1>2, <1>6, Asks DEF Asked, Allowed, Buffer!Next, Buffer!Succeed

LEMMA Recovers ==
  ASSUME failed # NoCall, failed' = NoCall, call # NoCall, call.fn \in Resets, mem' = mem, call' = call
  PROVE  Allowed
<1>1. Answer' = Answer
  BY DEF Answer
<1> QED BY <1>1 DEF Allowed, Buffer!Next, Buffer!Recover, Buffer!Resets, Resets

-----------------------------------------------------------------------------
(* The inductive invariant.  What is left of a call is the end of what the *)
(* call does; and as long as no call has failed, the words that wait are   *)
(* the ones the call has written and the chip has not executed, and what   *)
(* the chip has executed has had its effect.                               *)

Known(c) == Good(c) /\ Within(c)

DoneOps == Len(Program(call)) - Len(ops)

Content ==
  call # NoCall =>
    /\ Known(call)
    /\ Len(Program(call)) \in Nat /\ Len(ops) \in 1 .. Len(Program(call))
    /\ \A i \in 1 .. Len(ops) : ops[i] = Program(call)[DoneOps + i]
    /\ DoneOps = 0 => got = <<>>

Count(c) ==
  CASE c.fn = "write_words" -> Len(c.data)
    [] c.fn \in {"fill_words", "read_words"} -> c.count
    [] OTHER -> 1

\* An answer waits to be read.
Answered(c, t, q) == t > q /\ c.fn \in {"rpr", "read_words"}

\* How far the pointer has moved from the address of the call.
Moved(c, t, y, q) == (y - 2) + Len(got) + (IF c.fn = "read_words" THEN t - q ELSE 0)

Effects(c, s, t, y, q) ==
  /\ IF Answered(c, t, q) THEN Len(rfifo) = 1 ELSE rfifo = <<>>
  /\ Answered(c, t, q) /\ c.fn = "rpr" /\ c.reg = PR_CL0 => rfifo[1] = pr[PR_CL0]
  /\ c.fn = "read_words" =>
       /\ Answered(c, t, q) => rfifo[1] = mem[c.addr + Len(got)]
       /\ \A i \in 1 .. Len(got) : got[i] = mem[c.addr + i - 1]
       /\ Len(got) > 0 => Left(s, y) = 0
  /\ c.fn \in Accessing /\ y = 1 => pr[PR_RWPH] = Ptr(c)[1]
  /\ c.fn \in Accessing /\ y >= 2 /\ Moved(c, t, y, q) < Count(c) => RWP = c.addr + Moved(c, t, y, q)
  /\ c.fn \in {"write_words", "fill_words"} =>
       \A i \in 0 .. y - 3 : mem[c.addr + i] = Buffer!Wanted(c, c.addr + i)
  /\ c.fn = "clear_area" /\ t > q => \A a \in Buffer!Covered(c) : mem[a] = c.value
  /\ c.fn = "init" /\ y >= 1 => pr[PR_CL0] = 0

Stage(s, t, y, q) ==
  /\ Progress(call, DoneOps, Len(got), s, t)
  /\ Queue(call, s, t, y, q, Waiting)
  /\ Effects(call, s, t, y, q)
  /\ call.fn = "init" /\ DoneOps >= 1 => y >= 0

Mirror ==
  IF call = NoCall THEN rfifo = <<>> /\ \E z : Leftover(z, Waiting)
                   ELSE \E s, t, y, q : Stage(s, t, y, q)

RInv ==
  /\ IInv /\ got \in Seq(Word) /\ Content
  /\ failed = NoCall => ~cer /\ Mirror

LEMMA Amounts ==
  ASSUME NEW c, Good(c)
  PROVE  Pairs(c) \in Nat /\ Len(Rest(c)) \in Nat /\ Lead(c) \in Nat
<1>1. Pairs(c) \in Nat
  <2>1. c.fn = "write_words" => Len(c.data) \in Nat
    BY Arguments, LenProperties
  <2>2. c.fn = "fill_words" => c.count \in Nat
    BY Arguments
  <2>3. CASE c.fn = "write_words"
    <3>1. Pairs(c) = 2 + Len(c.data)
      BY <2>3 DEF Pairs
    <3> QED BY <2>1, <2>3, <3>1
  <2>4. CASE c.fn = "fill_words"
    <3>1. Pairs(c) = 2 + c.count
      BY <2>4 DEF Pairs
    <3> QED BY <2>2, <2>4, <3>1
  <2>5. CASE ~(c.fn \in {"write_words", "fill_words"})
    BY <2>5 DEF Pairs
  <2> QED BY <2>3, <2>4, <2>5
<1>2. Len(Rest(c)) \in Nat
  <2>1. CASE c.fn = "rpr"
    <3>1. Rest(c) = <<CMD_RPR + c.reg>>
      BY <2>1 DEF Rest
    <3> QED BY <3>1
  <2>2. CASE c.fn = "read_words"
    <3>1. Rest(c) = <<CMD_RD>>
      BY <2>2 DEF Rest
    <3> QED BY <3>1
  <2>3. CASE c.fn = "clear_area"
    <3>1. Len(Rest(c)) = 4
      BY <2>3 DEF Rest
    <3> QED BY <3>1
  <2>4. CASE c.fn = "init"
    <3>1. Len(Rest(c)) = 3
      BY <2>4 DEF Rest
    <3> QED BY <3>1
  <2>5. CASE ~(c.fn \in {"rpr", "read_words", "clear_area", "init"})
    <3>1. Rest(c) = <<>>
      BY <2>5 DEF Rest
    <3> QED BY <3>1
  <2> QED BY <2>1, <2>2, <2>3, <2>4, <2>5
<1>3. Lead(c) \in Nat
  BY DEF Lead
<1> QED BY <1>1, <1>2, <1>3

LEMMA WrittenIs ==
  ASSUME NEW c, Good(c), NEW d, NEW g, NEW s, NEW t, Progress(c, d, g, s, t)
  PROVE  Written(c, s, t)
BY Amounts DEF Written, Progress

LEMMA CallOps ==
  ASSUME RInv, call # NoCall
  PROVE  /\ ops \in Seq(Op) /\ Len(ops) \in Nat /\ Len(ops) >= 1 /\ DoneOps \in Nat
         /\ DoneOps < Len(Program(call)) /\ Len(Program(call)) \in Nat
         /\ Head(ops) = Program(call)[DoneOps + 1]
         /\ Len(ops) = 1 <=> DoneOps + 1 = Len(Program(call))
         /\ Good(call) /\ Within(call)
<1>1. Executable(ops)
  BY DEF RInv, IInv, Executing
<1>2. /\ Known(call)
      /\ Len(Program(call)) \in Nat /\ Len(ops) \in 1 .. Len(Program(call))
      /\ \A i \in 1 .. Len(ops) : ops[i] = Program(call)[DoneOps + i]
  BY DEF RInv, Content
<1>3. ops \in Seq(Op)
  BY <1>1 DEF Executable
<1>4. Head(ops) = ops[1]
  BY <1>3
<1>5. DoneOps = Len(Program(call)) - Len(ops)
  BY DEF DoneOps
<1> DEFINE n == Len(ops)
           m == Len(Program(call))
           d == DoneOps
<1>6. m \in Nat /\ n \in 1 .. m /\ d = m - n
  BY <1>2, <1>5
<1>7. Head(ops) = Program(call)[d + 1]
  <2>1. 1 \in 1 .. n
    <3> HIDE DEF n, m, d
    <3> QED BY ONLY <1>6
  <2> QED BY <1>2, <1>4, <2>1
<1>8. Good(call) /\ Within(call)
  BY <1>2 DEF Known
<1>9. n \in Nat /\ n >= 1 /\ d \in Nat /\ d < m /\ (n = 1 <=> d + 1 = m)
  <2> HIDE DEF n, m, d
  <2> QED BY ONLY <1>6
<1> QED BY <1>3, <1>6, <1>7, <1>8, <1>9

\* One operation more is done.
LEMMA Proceeded ==
  ASSUME RInv, call # NoCall, Len(ops) # 1, ops' = Tail(ops), call' = call
  PROVE  Content' /\ DoneOps' = DoneOps + 1
<1>1. /\ ops \in Seq(Op) /\ Len(ops) \in Nat /\ Len(ops) >= 1 /\ Len(Program(call)) \in Nat
  BY CallOps
<1>2. /\ Known(call) /\ Len(ops) \in 1 .. Len(Program(call))
      /\ \A i \in 1 .. Len(ops) : ops[i] = Program(call)[DoneOps + i]
  BY DEF RInv, Content
<1>3. Len(ops') = Len(ops) - 1 /\ \A i \in 1 .. Len(ops') : ops'[i] = ops[i + 1]
  BY <1>1
<1>4. DoneOps = Len(Program(call)) - Len(ops) /\ DoneOps' = Len(Program(call)) - Len(ops')
  BY DEF DoneOps
<1>5. DoneOps' = DoneOps + 1 /\ DoneOps \in Nat
  BY <1>1, <1>2, <1>3, <1>4
<1>6. ASSUME NEW i \in 1 .. Len(ops') PROVE ops'[i] = Program(call)[DoneOps' + i]
  <2>1. i + 1 \in 1 .. Len(ops) /\ DoneOps + (i + 1) = DoneOps' + i
    BY <1>1, <1>3, <1>5
  <2> QED BY <1>2, <1>3, <2>1
<1>7. Len(ops') \in 1 .. Len(Program(call))
  <2> DEFINE n == Len(ops)
             m == Len(Program(call))
  <2>1. m \in Nat /\ n \in 1 .. m /\ n # 1 /\ Len(ops') = n - 1
    BY <1>1, <1>2, <1>3
  <2> HIDE DEF n
  <2>2. n - 1 \in 1 .. m
    <3> HIDE DEF m
    <3> QED BY ONLY <2>1
  <2> QED BY <2>1, <2>2
<1>8. Known(call)'
  BY <1>2 DEF Known, Good, Within
<1> QED BY <1>1, <1>5, <1>6, <1>7, <1>8 DEF Content

-----------------------------------------------------------------------------
(* The words that wait, as the driver and the chip move them.              *)

LEMMA WaitingIs ==
  ASSUME IInv
  PROVE  /\ command \in Seq(Word) /\ wfifo \in Seq(Word) /\ Waiting \in Seq(Word)
         /\ Len(command) \in Nat /\ Len(wfifo) \in Nat /\ Len(Waiting) \in Nat
         /\ Len(Waiting) = Len(command) + Len(wfifo)
         /\ \A i \in 1 .. Len(command) : Waiting[i] = command[i]
         /\ \A i \in 1 .. Len(wfifo) : Waiting[Len(command) + i] = wfifo[i]
<1>1. command \in Seq(Word) /\ wfifo \in Seq(Word)
  BY DEF IInv, TypeOK
<1>2. Waiting = command \o wfifo
  BY DEF Waiting
<1>3. Waiting \in Seq(Word) /\ Len(Waiting) \in Nat
  BY <1>1, <1>2, JoinIs, LenProperties
<1> QED BY <1>1, <1>2, <1>3, JoinIs

LEMMA MovedOn ==
  ASSUME NEW a \in Seq(Word), NEW b \in Seq(Word), b # <<>>
  PROVE  Append(a, Head(b)) \o Tail(b) = a \o b
<1> DEFINE c == Append(a, Head(b))
           d == Tail(b)
           u == c \o d
           v == a \o b
<1>1. /\ Head(b) \in Word /\ d \in Seq(Word) /\ Len(d) = Len(b) - 1 /\ Head(b) = b[1]
      /\ Len(b) \in Nat /\ Len(b) > 0 /\ \A i \in 1 .. Len(d) : d[i] = b[i + 1]
  BY HeadTailProperties, EmptySeq, LenProperties
<1>2. c \in Seq(Word) /\ Len(c) = Len(a) + 1 /\ Len(a) \in Nat
      /\ (\A i \in 1 .. Len(a) : c[i] = a[i]) /\ c[Len(a) + 1] = b[1]
  BY <1>1, AppendProperties, LenProperties
<1> HIDE DEF c, d
<1>3. /\ u \in Seq(Word) /\ Len(u) = Len(c) + Len(d)
      /\ \A i \in 1 .. Len(c) : u[i] = c[i]
      /\ \A i \in 1 .. Len(d) : u[Len(c) + i] = d[i]
  <2>1. c \in Seq(Word) /\ d \in Seq(Word)
    BY <1>1, <1>2
  <2> QED BY <2>1, JoinIs
<1>4. /\ v \in Seq(Word) /\ Len(v) = Len(a) + Len(b)
      /\ \A i \in 1 .. Len(a) : v[i] = a[i]
      /\ \A i \in 1 .. Len(b) : v[Len(a) + i] = b[i]
  BY JoinIs
<1> HIDE DEF u, v
<1>5. Len(u) = Len(v) /\ Len(u) \in Nat
  BY <1>1, <1>2, <1>3, <1>4
<1>6. ASSUME NEW i \in 1 .. Len(u) PROVE u[i] = v[i]
  <2>1. CASE i <= Len(a)
    <3>1. i \in 1 .. Len(c) /\ i \in 1 .. Len(a)
      BY <1>2, <2>1
    <3> QED BY <1>2, <1>3, <1>4, <3>1
  <2>2. CASE i = Len(a) + 1
    <3>1. i \in 1 .. Len(c) /\ 1 \in 1 .. Len(b)
      BY <1>1, <1>2, <2>2
    <3> QED BY <1>2, <1>3, <1>4, <2>2, <3>1
  <2>3. CASE i > Len(a) + 1
    <3> DEFINE j == i - (Len(a) + 1)
    <3>1. /\ j \in 1 .. Len(d) /\ j + 1 \in 1 .. Len(b)
          /\ i = Len(c) + j /\ i = Len(a) + (j + 1)
      BY <1>1, <1>2, <1>3, <2>3
    <3> HIDE DEF j
    <3>2. u[i] = d[j]
      BY <1>3, <3>1
    <3>3. v[i] = b[j + 1]
      BY <1>4, <3>1
    <3> QED BY <1>1, <3>1, <3>2, <3>3
  <2> QED BY <1>2, <1>5, <2>1, <2>2, <2>3
<1>7. u = v
  BY <1>3, <1>4, <1>5, <1>6, SeqEqual
<1> QED BY <1>7 DEF u, v, c, d

LEMMA WordPut ==
  ASSUME IInv, NEW w \in Word, command' = command, wfifo' = Append(wfifo, w)
  PROVE  OneMore(Waiting, Waiting') /\ Waiting'[Len(Waiting) + 1] = w
<1> DEFINE f == Append(wfifo, w)
           u == command \o f
<1>1. /\ command \in Seq(Word) /\ wfifo \in Seq(Word)
      /\ Len(command) \in Nat /\ Len(wfifo) \in Nat /\ Len(Waiting) \in Nat
      /\ Len(Waiting) = Len(command) + Len(wfifo)
      /\ \A i \in 1 .. Len(command) : Waiting[i] = command[i]
      /\ \A i \in 1 .. Len(wfifo) : Waiting[Len(command) + i] = wfifo[i]
  BY WaitingIs
<1>2. /\ f \in Seq(Word) /\ Len(f) = Len(wfifo) + 1 /\ f[Len(wfifo) + 1] = w
      /\ \A i \in 1 .. Len(wfifo) : f[i] = wfifo[i]
  BY <1>1, AppendProperties
<1>3. Waiting' = u
  BY DEF Waiting
<1> HIDE DEF f
<1>4. /\ u \in Seq(Word) /\ Len(u) = Len(command) + Len(f)
      /\ \A i \in 1 .. Len(command) : u[i] = command[i]
      /\ \A i \in 1 .. Len(f) : u[Len(command) + i] = f[i]
  BY <1>1, <1>2, JoinIs
<1> HIDE DEF u
<1>5. ASSUME NEW i \in 1 .. Len(Waiting) PROVE u[i] = Waiting[i]
  <2>1. CASE i <= Len(command)
    <3>1. i \in 1 .. Len(command)
      BY <1>1, <2>1
    <3> QED BY <1>1, <1>4, <3>1
  <2>2. CASE i > Len(command)
    <3> DEFINE j == i - Len(command)
    <3>1. j \in 1 .. Len(wfifo) /\ j \in 1 .. Len(f) /\ i = Len(command) + j
      BY <1>1, <1>2, <2>2
    <3> HIDE DEF j
    <3> QED BY <1>1, <1>2, <1>4, <3>1
  <2> QED BY <1>1, <2>1, <2>2
<1>6. u[Len(Waiting) + 1] = w
  <2>1. Len(wfifo) + 1 \in 1 .. Len(f) /\ Len(Waiting) + 1 = Len(command) + (Len(wfifo) + 1)
    BY <1>1, <1>2
  <2>2. u[Len(command) + (Len(wfifo) + 1)] = f[Len(wfifo) + 1]
    BY <1>4, <2>1
  <2> QED BY <1>2, <2>1, <2>2
<1>7. Len(u) = Len(Waiting) + 1
  BY <1>1, <1>2, <1>4
<1> QED BY <1>1, <1>3, <1>5, <1>6, <1>7 DEF OneMore

LEMMA WordsTaken ==
  ASSUME IInv, command' = <<>>, wfifo' = wfifo
  PROVE  /\ Waiting' = wfifo /\ Len(Waiting') = Len(Waiting) - Len(command)
         /\ \A i \in 1 .. Len(Waiting') : Waiting'[i] = Waiting[i + Len(command)]
<1>1. /\ command \in Seq(Word) /\ wfifo \in Seq(Word)
      /\ Len(command) \in Nat /\ Len(wfifo) \in Nat /\ Len(Waiting) \in Nat
      /\ Len(Waiting) = Len(command) + Len(wfifo)
      /\ \A i \in 1 .. Len(wfifo) : Waiting[Len(command) + i] = wfifo[i]
  BY WaitingIs
<1>2. Waiting' = wfifo
  BY <1>1 DEF Waiting
<1>3. ASSUME NEW i \in 1 .. Len(wfifo) PROVE wfifo[i] = Waiting[i + Len(command)]
  <2>1. i + Len(command) = Len(command) + i
    BY <1>1
  <2> QED BY <1>1, <2>1
<1> QED BY <1>1, <1>2, <1>3

-----------------------------------------------------------------------------
(* What no step disturbs, and what a call that has failed leaves open.     *)

LEMMA Lost ==
  ASSUME IInv', got' \in Seq(Word), Content', failed # NoCall, failed' # NoCall
  PROVE  RInv' /\ Allowed
<1>1. (failed = NoCall => ~cer /\ Mirror)'
  OBVIOUS
<1> QED BY <1>1, Drifts DEF RInv

LEMMA Returned == ASSUME call' = NoCall PROVE Content'
BY DEF Content

LEMMA SameContent ==
  ASSUME RInv, call' = call, ops' = ops, got' = got
  PROVE  Content' /\ got' \in Seq(Word) /\ DoneOps' = DoneOps
<1>1. DoneOps' = DoneOps
  BY DEF DoneOps
<1>2. Known(call)' <=> Known(call)
  BY DEF Known, Good, Within
<1>3. Content' <=> Content
  BY <1>1, <1>2 DEF Content
<1> QED BY <1>1, <1>3 DEF RInv

LEMMA SameEffects ==
  ASSUME call' = call, got' = got, rfifo' = rfifo, pr' = pr, mem' = mem,
         NEW s, NEW t, NEW y, NEW q
  PROVE  Effects(call, s, t, y, q)' <=> Effects(call, s, t, y, q)
<1>1. RWP' = RWP
  BY DEF RWP
<1> QED BY <1>1 DEF Effects, Moved, Answered, Buffer!Wanted, Buffer!Covered

LEMMA SameMirror ==
  ASSUME call' = call, ops' = ops, got' = got, rfifo' = rfifo, pr' = pr, mem' = mem, Waiting' = Waiting
  PROVE  (Mirror' <=> Mirror) /\ (Answer' = Answer \/ rc' # rc) /\ Settled' = Settled
<1>1. DoneOps' = DoneOps /\ RWP' = RWP
  BY DEF DoneOps, RWP
<1>2. Settled' = Settled
  <2>1. Writes' = Writes
    BY DEF Writes
  <2> QED BY <2>1 DEF Settled
<1>3. Answer' = Answer \/ rc' # rc
  BY DEF Answer
<1>4. ASSUME NEW s, NEW t, NEW y, NEW q PROVE Effects(call, s, t, y, q)' <=> Effects(call, s, t, y, q)
  BY SameEffects
<1>5. ASSUME NEW s, NEW t, NEW y, NEW q PROVE Stage(s, t, y, q)' <=> Stage(s, t, y, q)
  BY <1>1, <1>4 DEF Stage
<1> QED BY <1>2, <1>3, <1>5 DEF Mirror

LEMMA StageIs ==
  ASSUME RInv, failed = NoCall, call # NoCall
  PROVE  \E s, t, y, q :
           /\ Stage(s, t, y, q) /\ Progress(call, DoneOps, Len(got), s, t) /\ Written(call, s, t)
           /\ Queue(call, s, t, y, q, Waiting) /\ Effects(call, s, t, y, q) /\ Good(call)
           /\ NextIs(call, DoneOps, Len(got), s, t, Head(ops))
<1>1. PICK s, t, y, q : Stage(s, t, y, q)
  BY DEF RInv, Mirror
<1>2. Good(call) /\ DoneOps < Len(Program(call)) /\ Head(ops) = Program(call)[DoneOps + 1]
  BY CallOps
<1>3. /\ Progress(call, DoneOps, Len(got), s, t) /\ Queue(call, s, t, y, q, Waiting)
      /\ Effects(call, s, t, y, q)
  BY <1>1 DEF Stage
<1>4. Written(call, s, t)
  BY <1>2, <1>3, WrittenIs
<1>5. NextIs(call, DoneOps, Len(got), s, t, Head(ops))
  BY <1>2, <1>3, NextOperation
<1> QED BY <1>1, <1>2, <1>3, <1>4, <1>5

LEMMA OpcodeFirst ==
  ASSUME RInv, failed = NoCall, Len(Waiting) > 0
  PROVE  IsOpcode(Waiting[1])
<1>1. CASE call = NoCall
  <2>1. PICK z : Leftover(z, Waiting)
    BY <1>1 DEF RInv, Mirror
  <2>2. z \in Nat /\ Len(Waiting) = 2 * z
    BY <2>1 DEF Leftover
  <2>3. 1 \in 1 .. z /\ 2 * 1 - 1 = 1
    BY <2>2
  <2>4. Waiting[1] \in WPRs
    BY <2>1, <2>3 DEF Leftover
  <2> QED BY <2>4, CommandWords
<1>2. CASE call # NoCall
  <2>1. PICK s, t, y, q : /\ Written(call, s, t) /\ Queue(call, s, t, y, q, Waiting) /\ Good(call)
    BY <1>2, StageIs
  <2> DEFINE c == call
             w == Waiting
  <2>2. Written(c, s, t) /\ Queue(c, s, t, y, q, w) /\ Good(c) /\ Len(w) > 0
    BY <2>1
  <2> HIDE DEF c, w
  <2>3. IsOpcode(w[1])
    BY <2>2, QueueHead
  <2> QED BY <2>3 DEF w
<1> QED BY <1>1, <1>2

\* The chip takes a word, which is an opcode when it needs one.
LEMMA TakeWordRefines == ASSUME RInv, IInv', TakeWord PROVE RInv' /\ Allowed
<1>1. call' = call /\ ops' = ops /\ got' = got /\ failed' = failed /\ rc' = rc /\ rfifo' = rfifo /\ pr' = pr /\ mem' = mem
  BY DEF TakeWord, driver
<1>2. Content' /\ got' \in Seq(Word)
  BY <1>1, SameContent
<1>3. CASE failed # NoCall
  BY <1>1, <1>2, <1>3, Lost
<1>4. CASE failed = NoCall
  <2>1. IInv /\ wfifo # <<>>
    BY DEF RInv, TakeWord
  <2>2. /\ command \in Seq(Word) /\ wfifo \in Seq(Word)
        /\ Len(command) \in Nat /\ Len(wfifo) \in Nat /\ Len(Waiting) = Len(command) + Len(wfifo)
        /\ \A i \in 1 .. Len(wfifo) : Waiting[Len(command) + i] = wfifo[i]
    BY <2>1, WaitingIs
  <2>3. Len(wfifo) > 0 /\ Head(wfifo) = wfifo[1]
    BY <2>1, <2>2, EmptySeq
  <2>4. ASSUME command = <<>> PROVE IsOpcode(Head(wfifo))
    <3>1. Len(command) = 0 /\ 1 \in 1 .. Len(wfifo) /\ 0 + 1 = 1
      BY <2>2, <2>3, <2>4
    <3>2. Waiting[1] = wfifo[1]
      BY <2>2, <3>1
    <3>3. Len(Waiting) > 0
      BY <2>2, <2>3, <3>1
    <3> QED BY <1>4, <2>3, <3>2, <3>3, OpcodeFirst
  <2>5. command' = Append(command, Head(wfifo)) /\ cer' = cer /\ wfifo' = Tail(wfifo)
    BY <2>4 DEF TakeWord
  <2>6. Waiting' = Waiting
    <3>1. Append(command, Head(wfifo)) \o Tail(wfifo) = command \o wfifo
      BY <2>1, <2>2, MovedOn
    <3> QED BY <2>5, <3>1 DEF Waiting
  <2>7. (Mirror' <=> Mirror) /\ Answer' = Answer /\ Settled' = Settled
    BY <1>1, <2>6, SameMirror
  <2>8. Mirror /\ ~cer
    BY <1>4 DEF RInv
  <2>9. RInv'
    BY <1>1, <1>2, <1>4, <2>5, <2>7, <2>8 DEF RInv
  <2>10. (failed # NoCall)' = (failed # NoCall)
    BY <1>1
  <2> QED BY <1>1, <2>7, <2>9, <2>10, Stutters
<1> QED BY <1>3, <1>4

-----------------------------------------------------------------------------
(* Waiting, and giving up.                                                 *)

LEMMA ChipSame ==
  ASSUME UNCHANGED chip
  PROVE  /\ Waiting' = Waiting /\ Settled' = Settled
         /\ rfifo' = rfifo /\ pr' = pr /\ mem' = mem /\ cer' = cer
<1>1. rfifo' = rfifo /\ pr' = pr /\ mem' = mem /\ cer' = cer /\ wfifo' = wfifo /\ command' = command
  BY DEF chip
<1>2. Waiting' = Waiting
  BY <1>1 DEF Waiting
<1>3. Writes' = Writes
  BY <1>2 DEF Writes
<1> QED BY <1>1, <1>2, <1>3 DEF Settled

LEMMA NothingDone ==
  ASSUME RInv, IInv', UNCHANGED chip, call' = call, ops' = ops, got' = got, failed' = failed, rc' = rc
  PROVE  RInv' /\ Allowed
<1>1. Content' /\ got' \in Seq(Word)
  BY SameContent
<1>2. CASE failed # NoCall
  BY <1>1, <1>2, Lost
<1>3. CASE failed = NoCall
  <2>1. /\ Waiting' = Waiting /\ Settled' = Settled
        /\ rfifo' = rfifo /\ pr' = pr /\ mem' = mem /\ cer' = cer
    BY ChipSame
  <2>2. (Mirror' <=> Mirror) /\ Answer' = Answer
    BY <2>1, SameMirror
  <2>3. RInv'
    BY <1>1, <1>3, <2>1, <2>2 DEF RInv
  <2>4. (failed # NoCall)' = (failed # NoCall)
    OBVIOUS
  <2> QED BY <2>1, <2>2, <2>3, <2>4, Stutters
<1> QED BY <1>2, <1>3

LEMMA TimedOut ==
  ASSUME RInv, IInv', UNCHANGED chip, got' = got, call # NoCall, Return("TIMEOUT")
  PROVE  RInv' /\ Allowed
<1>1. /\ call' = NoCall /\ rc' = "TIMEOUT" /\ got' \in Seq(Word)
      /\ failed = NoCall => failed' = call
      /\ failed # NoCall => failed' = failed
  BY DEF Return, RInv
<1>2. Content'
  BY <1>1, Returned
<1>3. CASE failed # NoCall
  BY <1>1, <1>2, <1>3, Lost
<1>4. CASE failed = NoCall
  <2>1. mem' = mem /\ Settled' = Settled
    BY ChipSame
  <2>2. Asked
    BY <1>4, <2>1 DEF Asked
  <2>3. failed' # NoCall
    BY <1>1, <1>4
  <2>4. RInv'
    BY <1>1, <1>2, <2>3 DEF RInv
  <2> QED BY <1>1, <2>2, <2>3, <2>4, GivesUp
<1> QED BY <1>3, <1>4

LEMMA PolledRefines ==
  ASSUME RInv, IInv', UNCHANGED chip, got' = got, call # NoCall, Polled
  PROVE  RInv' /\ Allowed
<1>1. CASE polls = 1
  BY <1>1, TimedOut DEF Polled
<1>2. CASE polls # 1
  BY <1>2, NothingDone DEF Polled
<1> QED BY <1>1, <1>2

LEMMA WaitRefines ==
  ASSUME RInv, IInv', wait_sr("put", WFR) \/ wait_sr("get", RFR)
  PROVE  RInv' /\ Allowed
<1>1. PICK op, bit : wait_sr(op, bit)
  OBVIOUS
<1>2. call # NoCall /\ UNCHANGED chip /\ got' = got
  BY <1>1 DEF wait_sr, Doing
<1>3. \/ UNCHANGED <<call, ops, polls, rc, failed, retried>>
      \/ Polled
  BY <1>1 DEF wait_sr
<1>4. CASE Polled
  BY <1>2, <1>4, PolledRefines
<1>5. CASE UNCHANGED <<call, ops, polls, rc, failed, retried>>
  BY <1>2, <1>5, NothingDone
<1> QED BY <1>3, <1>4, <1>5

LEMMA StutterRefines ==
  ASSUME RInv, IInv', UNCHANGED vars
  PROVE  RInv' /\ Allowed
BY NothingDone DEF vars, driver

\* No call is being served: words that write registers may wait, and nothing else.
LEMMA Resting ==
  ASSUME RInv, failed = NoCall, call = NoCall
  PROVE  ~cer /\ rfifo = <<>> /\ \E z : Leftover(z, Waiting)
BY DEF RInv, Mirror

\* The program makes a call.
LEMMA CallRefines ==
  ASSUME RInv, IInv', NEW c \in Calls, Call(c)
  PROVE  RInv' /\ Allowed
<1>1. call = NoCall /\ UNCHANGED chip /\ failed' = failed /\ got' = <<>>
  BY DEF Call
<1>2. got' \in Seq(Word)
  BY <1>1
<1>3. /\ Waiting' = Waiting /\ Settled' = Settled
      /\ rfifo' = rfifo /\ pr' = pr /\ mem' = mem /\ cer' = cer
  BY <1>1, ChipSame
<1>4. CASE BadParameter(c)
  <2>1. call' = NoCall /\ rc' = "PARAM"
    BY <1>1, <1>4 DEF Call
  <2>2. Content'
    BY <2>1, Returned
  <2>3. CASE failed # NoCall
    BY <1>1, <1>2, <2>2, <2>3, Lost
  <2>4. CASE failed = NoCall
    <3>1. Mirror'
      BY <1>1, <1>3, <2>1, <2>4, Resting DEF Mirror
    <3>2. RInv'
      BY <1>2, <1>3, <2>2, <2>4, <3>1, <1>1, Resting DEF RInv
    <3>3. Answer' = [rc |-> "PARAM", data |-> <<>>]
      BY <1>1, <2>1 DEF Answer
    <3>4. Buffer!Refuse
      BY <1>1, <1>3, <2>1, <3>3 DEF Buffer!Refuse
    <3> QED BY <3>2, <3>4 DEF Allowed, Buffer!Next
  <2> QED BY <2>3, <2>4
<1>5. CASE ~BadParameter(c)
  <2>1. call' = c /\ ops' = Program(c)
    BY <1>5 DEF Call
  <2>2. c \in Callable /\ c # NoCall
    BY CallsAssumption
  <2>3. Known(c)
    BY <1>5, <2>2, WithinAssumption DEF Known, Good
  <2>4. Executable(Program(c))
    BY <1>5, <2>2, ProgramExecutable
  <2>5. Len(Program(c)) \in Nat /\ Len(Program(c)) >= 1
    BY <2>4, LenProperties, EmptySeq DEF Executable
  <2>6. DoneOps' = 0
    BY <2>1, <2>5 DEF DoneOps
  <2>7. Content'
    <3>1. Known(call)'
      BY <2>1, <2>3 DEF Known, Good, Within
    <3>2. \A i \in 1 .. Len(ops') : ops'[i] = Program(call')[DoneOps' + i]
      BY <2>1, <2>5, <2>6
    <3> QED BY <1>1, <2>1, <2>5, <3>1, <3>2 DEF Content
  <2>8. CASE failed # NoCall
    BY <1>1, <1>2, <2>7, <2>8, Lost
  <2>9. CASE failed = NoCall
    <3>1. PICK z : Leftover(z, Waiting)
      BY <1>1, <2>9, Resting
    <3>2. Queue(c, 0, 0, -z, 0, Waiting') /\ z \in Nat
      BY <1>3, <3>1, QueueStarts DEF Leftover
    <3>3. Good(c)
      BY <2>3 DEF Known
    <3>4. Progress(c, 0, 0, 0, 0)
      BY <3>3, Amounts DEF Progress
    <3>5. Effects(c, 0, 0, -z, 0)'
      <4>1. got' = <<>> /\ Len(got') = 0 /\ rfifo' = <<>> /\ z \in Nat
        BY <1>1, <1>3, <2>9, <3>2, Resting
      <4>2. ~Answered(c, 0, 0)
        BY DEF Answered
      <4>3. ~(-z = 1) /\ ~(-z >= 2) /\ ~(-z >= 1) /\ \A i \in 0 .. -z - 3 : FALSE
        BY <4>1
      <4> QED BY <4>1, <4>2, <4>3 DEF Effects, Answered
    <3>6. Stage(0, 0, -z, 0)'
      <4>1. Len(got') = 0
        BY <1>1
      <4> QED BY <4>1, <1>1, <2>1, <2>6, <3>2, <3>4, <3>5 DEF Stage
    <3>7. Mirror' /\ ~cer'
      BY <1>1, <1>3, <2>1, <2>2, <2>9, <3>6, Resting DEF Mirror
    <3>8. RInv'
      BY <1>2, <2>7, <3>7 DEF RInv
    <3>9. Buffer!Ask
      <4>1. Answer' = [rc |-> "none", data |-> <<>>]
        BY <2>1, <2>2 DEF Answer
      <4> QED BY <1>1, <1>3, <2>1, <2>2, <4>1 DEF Buffer!Ask
    <3> QED BY <3>8, <3>9 DEF Allowed, Buffer!Next
  <2> QED BY <2>8, <2>9
<1> QED BY <1>4, <1>5

-----------------------------------------------------------------------------
(* The control registers.                                                  *)

LEMMA Proceeds ==
  ASSUME RInv, call # NoCall, Proceed
  PROVE  /\ Content'
         /\ Len(ops) = 1 => call' = NoCall /\ rc' = "OK" /\ failed' = failed
         /\ Len(ops) # 1 => call' = call /\ failed' = failed /\ rc' = rc /\ DoneOps' = DoneOps + 1
<1>1. CASE Len(ops) = 1
  <2>1. call' = NoCall /\ rc' = "OK" /\ failed' = failed
    BY <1>1 DEF Proceed, Return
  <2> QED BY <1>1, <2>1, Returned
<1>2. CASE Len(ops) # 1
  <2>1. ops' = Tail(ops) /\ call' = call /\ failed' = failed /\ rc' = rc
    BY <1>2 DEF Proceed
  <2> QED BY <1>2, <2>1, Proceeded
<1> QED BY <1>1, <1>2

LEMMA LostProceeds ==
  ASSUME RInv, IInv', call # NoCall, Proceed, failed # NoCall, got' \in Seq(Word)
  PROVE  RInv' /\ Allowed
<1>1. Content' /\ failed' = failed
  BY Proceeds
<1> QED BY <1>1, Lost

LEMMA Parts ==
  ASSUME NEW c, NEW s, NEW t, NEW y, NEW q, NEW w, Queue(c, s, t, y, q, w)
  PROVE  /\ s \in Nat /\ t \in Nat /\ y \in Int /\ q \in Nat /\ Left(s, y) = s - 2 * y /\ Left(s, y) \in Nat
         /\ (q = t \/ q = 0) /\ Len(w) = Left(s, y) + q
BY DEF Queue, Left

\* An operation that leaves the words and the memory as they are.
LEMMA ControlProceeds ==
  ASSUME RInv, IInv', call # NoCall, Proceed, got' = got, cer' = cer,
         wfifo' = wfifo, rfifo' = rfifo, command' = command, pr' = pr, mem' = mem,
         Head(ops).do \in {"enable", "run", "halt", "check"}
  PROVE  RInv' /\ Allowed
<1>1. got \in Seq(Word) /\ got' \in Seq(Word)
  BY DEF RInv
<1>2. CASE failed # NoCall
  BY <1>1, <1>2, LostProceeds
<1>3. CASE failed = NoCall
  <2>1. PICK s, t, y, q : /\ Stage(s, t, y, q) /\ Queue(call, s, t, y, q, Waiting)
                          /\ Effects(call, s, t, y, q) /\ Good(call)
                          /\ NextIs(call, DoneOps, Len(got), s, t, Head(ops))
    BY <1>3, StageIs
  <2> DEFINE c == call
             d == DoneOps
             op == Head(ops)
  <2>2. Leads(c, d, Len(got), s, t, op)
    <3>1. op.do # "put" /\ op.do # "get" /\ op.do # "idle"
      OBVIOUS
    <3>2. ~PutsPair(c, d, Len(got), s, t, op) /\ ~PutsRest(c, d, Len(got), s, t, op)
      BY <3>1 DEF PutsPair, PutsRest, Put
    <3>3. ~Gets(c, d, Len(got), s, t, op) /\ ~Idles(c, d, Len(got), s, t, op)
      BY <3>1 DEF Gets, Idles, Get, Idle
    <3> QED BY <2>1, <3>2, <3>3 DEF NextIs
  <2>3. s = 0 /\ t = 0 /\ Len(got) = 0 /\ got = <<>>
    BY <1>1, <2>2, EmptySeq DEF Leads
  <2>4. y \in Int /\ q = 0
    BY <2>1, <2>3, Parts
  <2>5. ~Answered(c, t, q) /\ rfifo = <<>>
    BY <2>1, <2>3, <2>4 DEF Answered, Effects
  <2>6. Waiting' = Waiting
    BY DEF Waiting
  <2>7. Settled' = Settled
    <3>1. Writes' = Writes
      BY <2>6 DEF Writes
    <3> QED BY <2>6, <3>1 DEF Settled
  <2>8. ~cer'
    BY <1>3 DEF RInv
  <2>9. CASE Len(ops) = 1
    <3>1. Content' /\ call' = NoCall /\ rc' = "OK" /\ failed' = NoCall
      BY <1>3, <2>9, Proceeds
    <3>2. d + 1 = Len(Program(c))
      BY <2>9, CallOps
    <3>3. c.fn \in {"abort", "start", "stop"}
      BY <2>2, <3>2 DEF Leads
    <3>4. Pairs(c) = 0
      BY <3>3, ControlPrograms
    <3>5. Leftover(0 - y, Waiting)
      <4> DEFINE w == Waiting
      <4>1. Queue(c, s, 0, y, 0, w) /\ s = 2 * Pairs(c) /\ Pairs(c) \in Nat /\ s = 0
        BY <2>1, <2>3, <2>4, <3>4
      <4> HIDE DEF w, c
      <4>2. Leftover(Pairs(c) - y, w)
        BY <4>1, QueueIsLeft
      <4> QED BY <3>4, <4>2 DEF w
    <3>6. RInv'
      BY <1>1, <2>5, <2>6, <2>8, <3>1, <3>5 DEF RInv, Mirror
    <3>7. Asked
      BY <1>3, <2>7 DEF Asked
    <3>8. Served
      BY <2>3, <3>3 DEF Served, Buffer!Covered
    <3> QED BY <3>1, <3>6, <3>7, <3>8, Succeeds
  <2>10. CASE Len(ops) # 1
    <3>1. Content' /\ call' = call /\ rc' = rc /\ failed' = NoCall /\ DoneOps' = d + 1
      BY <1>3, <2>10, Proceeds
    <3>2. Progress(c, d + 1, 0, 0, 0)
      BY <2>2 DEF Leads
    <3>3. Effects(call, s, t, y, q)'
      BY <2>1, <3>1, SameEffects
    <3>4. c.fn = "init" => y >= 0
      <4>1. op # Reg("abort")
        BY DEF Reg
      <4>2. c.fn = "init" => d # 0
        BY <2>2, <4>1 DEF Leads, Resets
      <4>3. d \in Nat
        BY CallOps
      <4>4. c.fn = "init" => d >= 1
        BY <4>2, <4>3
      <4> QED BY <2>1, <4>4 DEF Stage
    <3>5. Stage(s, t, y, q)'
      <4>1. Len(got') = 0
        BY <2>3
      <4> QED BY <2>1, <2>3, <2>6, <3>1, <3>2, <3>3, <3>4, <4>1 DEF Stage
    <3>6. RInv'
      BY <1>1, <2>8, <3>1, <3>5 DEF RInv, Mirror
    <3>7. Answer' = Answer
      BY <3>1 DEF Answer
    <3>8. (failed # NoCall)' = (failed # NoCall)
      BY <1>3, <3>1
    <3> QED BY <2>7, <3>1, <3>6, <3>7, <3>8, Stutters
  <2> QED BY <2>9, <2>10
<1> QED BY <1>2, <1>3

LEMMA OmrRefines == ASSUME RInv, IInv', WriteOmr PROVE RInv' /\ Allowed
BY ControlProceeds DEF WriteOmr, Doing

\* The chip is at rest when the initialisation looks whether it is there.
LEMMA CheckRefines == ASSUME RInv, IInv', CheckPresence PROVE RInv' /\ Allowed
<1>1. call # NoCall /\ Head(ops).do = "check" /\ UNCHANGED chip /\ got' = got /\ got \in Seq(Word)
  BY DEF CheckPresence, Doing, RInv
<1>2. CASE Proceed
  BY <1>1, <1>2, ControlProceeds DEF chip
<1>3. CASE ~Proceed
  <2>1. Return("NO_DEVICE") /\ ~(CED /\ WFR /\ WFE)
    BY <1>3 DEF CheckPresence
  <2>2. CASE failed # NoCall
    <3>1. call' = NoCall /\ failed' = failed
      BY <2>1, <2>2 DEF Return
    <3> QED BY <1>1, <2>2, <3>1, Lost, Returned
  <2>3. CASE failed = NoCall
    <3>1. PICK s, t, y, q : /\ Stage(s, t, y, q) /\ Queue(call, s, t, y, q, Waiting)
                            /\ NextIs(call, DoneOps, Len(got), s, t, Head(ops))
      BY <1>1, <2>3, StageIs
    <3>2. Leads(call, DoneOps, Len(got), s, t, Head(ops))
      <4>1. Head(ops).do # "put" /\ Head(ops).do # "get" /\ Head(ops).do # "idle"
        BY <1>1
      <4>2. ~PutsPair(call, DoneOps, Len(got), s, t, Head(ops)) /\ ~PutsRest(call, DoneOps, Len(got), s, t, Head(ops))
        BY <4>1 DEF PutsPair, PutsRest, Put
      <4>3. ~Gets(call, DoneOps, Len(got), s, t, Head(ops)) /\ ~Idles(call, DoneOps, Len(got), s, t, Head(ops))
        BY <4>1 DEF Gets, Idles, Get, Idle
      <4> QED BY <3>1, <4>2, <4>3 DEF NextIs
    <3>3. s = 0 /\ t = 0 /\ call.fn = "init" /\ DoneOps = 1
      <4>1. Head(ops) = Reg("check")
        BY <1>1, <3>2 DEF Leads, Reg
      <4> QED BY <3>2, <4>1 DEF Leads
    <3>4. y >= 0
      BY <3>1, <3>3 DEF Stage
    <3>5. Len(Waiting) = 0
      <4>1. y \in Int /\ q = 0 /\ Left(s, y) = 0 - 2 * y /\ Left(s, y) \in Nat /\ Len(Waiting) = Left(s, y) + q
        BY <3>1, <3>3, Parts
      <4> QED BY <3>4, <4>1
    <3>6. Len(command) = 0 /\ Len(wfifo) = 0 /\ command = <<>> /\ wfifo = <<>>
      <4>1. /\ command \in Seq(Word) /\ wfifo \in Seq(Word) /\ Len(command) \in Nat /\ Len(wfifo) \in Nat
            /\ Len(Waiting) = Len(command) + Len(wfifo)
        BY WaitingIs DEF RInv
      <4>2. Len(command) = 0 /\ Len(wfifo) = 0
        BY <3>5, <4>1, SMTT(60)
      <4> QED BY <4>1, <4>2, EmptySeq
    <3>7. CED /\ WFR /\ WFE
      BY <3>6, Sizes DEF CED, WFR, WFE
    <3> QED BY <2>1, <3>7
  <2> QED BY <2>2, <2>3
<1> QED BY <1>2, <1>3

\* Aborting empties everything; the frame buffer can be relied upon again.
LEMMA CcrRefines == ASSUME RInv, IInv', WriteCcr PROVE RInv' /\ Allowed
<1>1. CASE Doing("enable") /\ Proceed /\ UNCHANGED <<wfifo, rfifo, command, pr, mem, cer, str, got, slipped>>
  BY <1>1, ControlProceeds DEF Doing
<1>2. CASE /\ Doing("abort") /\ Aborts
           /\ ops' = Tail(ops) /\ failed' = NoCall /\ retried' = 0
           /\ UNCHANGED <<call, polls, ready, got, rc, slipped>>
  <2>1. /\ call # NoCall /\ Head(ops).do = "abort" /\ call' = call /\ got' = got /\ failed' = NoCall /\ rc' = rc
        /\ wfifo' = <<>> /\ rfifo' = <<>> /\ command' = <<>> /\ ~cer' /\ mem' = mem /\ ops' = Tail(ops)
    BY <1>2 DEF Doing, Aborts
  <2>2. /\ Good(call) /\ DoneOps \in Nat /\ DoneOps < Len(Program(call))
        /\ Head(ops) = Program(call)[DoneOps + 1] /\ Len(Program(call)) \in Nat
    BY <2>1, CallOps
  <2>3. Executable(Program(call)) /\ Executable(ops)
    BY <2>1, <2>2, ProgramExecutable DEF Good, RInv, IInv, Executing
  <2>4. DoneOps = 0
    <3>1. ASSUME DoneOps # 0 PROVE FALSE
      <4>1. DoneOps + 1 \in 2 .. Len(Program(call))
        BY <2>2, <3>1
      <4>2. Program(call)[DoneOps + 1] \in Plain
        BY <2>3, <4>1 DEF Executable
      <4>3. \A o \in Plain : o.do # "abort"
        BY DEF Plain
      <4> QED BY <2>1, <2>2, <4>2, <4>3
    <3> QED BY <3>1
  <2>5. got = <<>> /\ Len(got) = 0 /\ got' \in Seq(Word)
    BY <2>1, <2>4 DEF RInv, Content
  <2>6. Len(ops) # 1
    <3>1. Head(ops) = ops[1]
      BY <2>3, EmptySeq DEF Executable
    <3> QED BY <2>1, <2>3, <3>1 DEF Executable
  <2>7. Content' /\ DoneOps' = 1
    BY <2>1, <2>4, <2>6, Proceeded
  <2>8. Progress(call, 0, 0, 0, 0)
    BY <2>2, Amounts DEF Progress
  <2>9. NextIs(call, 0, 0, 0, 0, Head(ops))
    BY <2>2, <2>4, <2>8, NextOperation
  <2>10. Leads(call, 0, 0, 0, 0, Head(ops))
    <3>1. Head(ops).do # "put" /\ Head(ops).do # "get" /\ Head(ops).do # "idle"
      BY <2>1
    <3>2. ~PutsPair(call, 0, 0, 0, 0, Head(ops)) /\ ~PutsRest(call, 0, 0, 0, 0, Head(ops))
      BY <3>1 DEF PutsPair, PutsRest, Put
    <3>3. ~Gets(call, 0, 0, 0, 0, Head(ops)) /\ ~Idles(call, 0, 0, 0, 0, Head(ops))
      BY <3>1 DEF Gets, Idles, Get, Idle
    <3> QED BY <2>9, <3>2, <3>3 DEF NextIs
  <2>11. call.fn \in Resets /\ Progress(call, 1, 0, 0, 0)
    <3>1. Head(ops) = Reg("abort")
      BY <2>1, <2>10 DEF Leads, Reg
    <3> QED BY <2>10, <3>1 DEF Leads
  <2>12. Waiting' = <<>>
    BY <2>1 DEF Waiting
  <2>13. Queue(call, 0, 0, 0, 0, Waiting')
    <3>1. \A k \in 1 .. 0 : FALSE
      OBVIOUS
    <3>2. Left(0, 0) = 0
      BY DEF Left
    <3> QED BY <2>12, <3>1, <3>2 DEF Queue
  <2>14. Effects(call, 0, 0, 0, 0)'
    <3>1. ~Answered(call', 0, 0) /\ \A i \in 0 .. 0 - 3 : FALSE
      BY DEF Answered
    <3> QED BY <2>1, <2>5, <3>1 DEF Effects, Answered
  <2>15. Stage(0, 0, 0, 0)'
    <3>1. Len(got') = 0
      BY <2>1, <2>5
    <3> QED BY <2>1, <2>7, <2>11, <2>13, <2>14, <3>1 DEF Stage
  <2>16. RInv'
    BY <2>1, <2>5, <2>7, <2>15 DEF RInv, Mirror
  <2>17. CASE failed # NoCall
    BY <2>1, <2>11, <2>16, <2>17, Recovers
  <2>18. CASE failed = NoCall
    <3>1. Asked
      BY <2>1, <2>11, <2>18 DEF Asked
    <3> QED BY <2>1, <2>16, <3>1, Works
  <2> QED BY <2>17, <2>18
<1> QED BY <1>1, <1>2 DEF WriteCcr

-----------------------------------------------------------------------------
(* The end of a call that waits for the chip.                              *)

\* When every word has been executed, so has the call.
LEMMA AllDone ==
  ASSUME NEW c, Good(c), NEW s, NEW t, NEW y, NEW q, Effects(c, s, t, y, q), y = Pairs(c), t = Len(Rest(c)), q = 0,
         c.fn \in {"write_words", "fill_words", "clear_area", "init"}
  PROVE  /\ \A a \in Buffer!Covered(c) : mem[a] = Buffer!Wanted(c, a)
         /\ c.fn = "init" => pr[PR_CL0] = 0
         /\ rfifo = <<>>
<1>1. rfifo = <<>>
  BY DEF Effects, Answered
<1>2. ASSUME c.fn \in {"write_words", "fill_words"}, NEW a \in Buffer!Covered(c) PROVE mem[a] = Buffer!Wanted(c, a)
  <2>1. c.addr \in Nat
    BY <1>2, Arguments DEF Accessing
  <2>2. a \in c.addr .. c.addr + (y - 2) - 1 /\ y \in Int
    <3>1. CASE c.fn = "write_words"
      <4>1. Pairs(c) = 2 + Len(c.data) /\ Len(c.data) \in Nat
        BY <3>1, Arguments, LenProperties DEF Pairs
      <4>2. a \in c.addr .. c.addr + Len(c.data) - 1
        BY <1>2, <3>1 DEF Buffer!Covered
      <4>3. Len(c.data) = y - 2 /\ y \in Int
        BY <4>1
      <4> QED BY <4>2, <4>3
    <3>2. CASE c.fn = "fill_words"
      <4>1. Pairs(c) = 2 + c.count /\ c.count \in Nat
        BY <3>2, Arguments DEF Pairs
      <4>2. a \in c.addr .. c.addr + c.count - 1
        BY <1>2, <3>2 DEF Buffer!Covered
      <4>3. c.count = y - 2 /\ y \in Int
        BY <4>1
      <4> QED BY <4>2, <4>3
    <3> QED BY <1>2, <3>1, <3>2
  <2>3. a - c.addr \in 0 .. y - 3 /\ c.addr + (a - c.addr) = a
    BY <2>1, <2>2
  <2>4. mem[c.addr + (a - c.addr)] = Buffer!Wanted(c, c.addr + (a - c.addr))
    BY <1>2, <2>3 DEF Effects
  <2> QED BY <2>3, <2>4
<1>3. ASSUME c.fn = "clear_area", NEW a \in Buffer!Covered(c) PROVE mem[a] = Buffer!Wanted(c, a)
  <2>1. Len(Rest(c)) = 4
    BY <1>3, ClearProgram
  <2>2. t > q
    BY <2>1
  <2> QED BY <1>3, <2>2 DEF Effects, Buffer!Wanted
<1>4. c.fn = "init" => pr[PR_CL0] = 0
  BY DEF Effects, Pairs
<1>5. c.fn = "init" => Buffer!Covered(c) = {}
  BY DEF Buffer!Covered
<1> QED BY <1>1, <1>2, <1>3, <1>4, <1>5

LEMMA IdleRefines == ASSUME RInv, IInv', hd63484_wait_idle PROVE RInv' /\ Allowed
<1>1. call # NoCall /\ Head(ops).do = "idle" /\ UNCHANGED chip /\ got' = got /\ got \in Seq(Word)
  BY DEF hd63484_wait_idle, Doing, RInv
<1>2. /\ Waiting' = Waiting /\ Settled' = Settled
      /\ rfifo' = rfifo /\ pr' = pr /\ mem' = mem /\ cer' = cer
  BY <1>1, ChipSame
<1>3. CASE cer
  <2>1. failed # NoCall
    BY <1>3 DEF RInv
  <2>2. call' = NoCall /\ failed' = failed
    BY <1>3, <2>1 DEF hd63484_wait_idle, Return
  <2> QED BY <1>1, <2>1, <2>2, Lost, Returned
<1>4. CASE ~cer /\ ~AtRest
  BY <1>1, <1>4, PolledRefines DEF hd63484_wait_idle
<1>5. CASE ~cer /\ AtRest
  <2>1. Proceed
    BY <1>5 DEF hd63484_wait_idle
  <2>2. CASE failed # NoCall
    BY <1>1, <2>1, <2>2, LostProceeds
  <2>3. CASE failed = NoCall
    <3>1. PICK s, t, y, q : /\ Queue(call, s, t, y, q, Waiting) /\ Effects(call, s, t, y, q) /\ Good(call)
                            /\ NextIs(call, DoneOps, Len(got), s, t, Head(ops))
      BY <1>1, <2>3, StageIs
    <3>2. Idles(call, DoneOps, Len(got), s, t, Head(ops))
      <4>1. Head(ops).do # "put" /\ Head(ops).do # "get" /\ Head(ops).do \notin {"abort", "check", "halt", "enable", "run"}
        BY <1>1
      <4>2. ~PutsPair(call, DoneOps, Len(got), s, t, Head(ops)) /\ ~PutsRest(call, DoneOps, Len(got), s, t, Head(ops))
        BY <4>1 DEF PutsPair, PutsRest, Put
      <4>3. ~Gets(call, DoneOps, Len(got), s, t, Head(ops)) /\ ~Leads(call, DoneOps, Len(got), s, t, Head(ops))
        BY <4>1 DEF Gets, Leads, Get, Reg
      <4> QED BY <3>1, <4>2, <4>3 DEF NextIs
    <3>3. /\ s = 2 * Pairs(call) /\ t = Len(Rest(call)) /\ Len(got) = 0 /\ DoneOps + 1 = Len(Program(call))
          /\ call.fn \in {"write_words", "fill_words", "clear_area", "init"}
      BY <3>2 DEF Idles
    <3>4. Waiting = <<>> /\ Len(Waiting) = 0
      BY <1>5 DEF AtRest, WFE, CED, Waiting
    <3>5. s = 2 * y /\ q = 0 /\ Leftover(0, Waiting)
      <4> DEFINE w == Waiting
      <4>1. Queue(call, s, t, y, q, w) /\ Len(w) = 0
        BY <3>1, <3>4
      <4> HIDE DEF w
      <4>2. s = 2 * y /\ q = 0 /\ Leftover(0, w)
        BY <4>1, QueueGone
      <4> QED BY <4>2 DEF w
    <3>6. y = Pairs(call)
      <4>1. Pairs(call) \in Nat /\ y \in Int
        BY <3>1, Amounts, Parts
      <4> QED BY <3>3, <3>5, <4>1
    <3>7. /\ \A a \in Buffer!Covered(call) : mem[a] = Buffer!Wanted(call, a)
          /\ call.fn = "init" => pr[PR_CL0] = 0
          /\ rfifo = <<>>
      BY <3>1, <3>3, <3>5, <3>6, AllDone
    <3>8. Content' /\ call' = NoCall /\ rc' = "OK" /\ failed' = NoCall
      <4>1. Len(ops) = 1
        BY <1>1, <3>3, CallOps
      <4> QED BY <1>1, <2>1, <2>3, <4>1, Proceeds
    <3>9. RInv'
      BY <1>1, <1>2, <1>5, <3>5, <3>7, <3>8 DEF RInv, Mirror
    <3>10. Asked
      BY <1>1, <1>2, <2>3 DEF Asked
    <3>11. Settled = pr[PR_CL0]
      <4> DEFINE w == Waiting
                 v == pr[PR_CL0]
      <4>1. Len(w) = 0 /\ Len(w) \in Nat
        BY <3>4
      <4> HIDE DEF w, v
      <4>2. SettledIn(w, v) = v
        BY <4>1, SettledNow
      <4> QED BY <4>2, SettledIs DEF w, v
    <3>12. got' = <<>>
      BY <1>1, <3>3, EmptySeq
    <3>13. Served
      BY <1>2, <3>3, <3>7, <3>11, <3>12 DEF Served
    <3> QED BY <3>8, <3>9, <3>10, <3>13, Succeeds
  <2> QED BY <2>2, <2>3
<1> QED BY <1>3, <1>4, <1>5

-----------------------------------------------------------------------------
(* A word more for the chip.                                               *)

LEMMA PairSettles ==
  ASSUME NEW c, Good(c), NEW s, NEW y, NEW q, NEW w, NEW u, NEW v, Queue(c, s, 0, y, q, w), Written(c, s, 0),
         s < 2 * Pairs(c), OneMore(w, u), u[Len(w) + 1] = PairWord(c, s + 1)
  PROVE  /\ \/ SettledIn(u, v) = SettledIn(w, v)
            \/ c.fn = "init"
            \/ c.fn = "wpr" /\ c.reg = PR_CL0 /\ SettledIn(u, v) = c.value
         /\ c.fn = "wpr" /\ c.reg = PR_CL0 /\ s = 1 => SettledIn(u, v) = c.value
<1>1. /\ s \in Nat /\ y \in Int /\ q = 0 /\ Left(s, y) = s - 2 * y /\ Left(s, y) \in Nat
      /\ Len(w) = Left(s, y) + q
  BY Parts
<1>2. Pairs(c) \in Nat /\ Len(w) = s - 2 * y /\ Len(w) \in Nat /\ Len(w) = Left(s, y)
  BY <1>1 DEF Written
<1>3. CASE Len(w) % 2 = 0
  <2>1. SettledIn(u, v) = SettledIn(w, v)
    BY <1>3, SettledOpcode
  <2>2. s # 1
    BY <1>1, <1>2, <1>3
  <2> QED BY <2>1, <2>2
<1>4. CASE Len(w) % 2 = 1
  <2> DEFINE k == (Len(w) + 1) \div 2
             j == (s + 1) \div 2
  <2>1. /\ k \in 1 .. Left(s, y) /\ 2 * k - 1 = Len(w) /\ 2 * k - 1 <= Left(s, y) /\ k + y = j /\ j >= 1
        /\ j \in 1 .. Pairs(c) /\ (s + 1) % 2 # 1 /\ k \in Nat
    BY <1>1, <1>2, <1>4
  <2> HIDE DEF k, j
  <2>2. w[Len(w)] = PairOp(c, j)
    <3>1. IF k + y >= 1 THEN w[2 * k - 1] = PairOp(c, k + y) ELSE w[2 * k - 1] \in WPRs
      BY <2>1 DEF Queue
    <3> QED BY <2>1, <3>1
  <2>3. CASE PairOp(c, j) # ClearsTo
    <3>1. SettledIn(u, v) = SettledIn(w, v)
      BY <1>4, <2>2, <2>3, SettledOther
    <3>2. ~(c.fn = "wpr" /\ c.reg = PR_CL0)
      BY <2>3 DEF PairOp, ClearsTo
    <3> QED BY <3>1, <3>2
  <2>4. CASE PairOp(c, j) = ClearsTo
    <3>1. (c.fn = "wpr" /\ c.reg = PR_CL0) \/ c.fn = "init"
      BY <2>1, <2>4, PairOps
    <3>2. ASSUME NEW i \in 1 .. (Len(w) + 1) \div 2 PROVE NumParams(w[2 * i - 1]) = 1
      <4>1. i \in Nat /\ i >= 1 /\ 2 * i - 1 <= Left(s, y)
        BY <1>2, <2>1 DEF k
      <4> QED BY <4>1, QueueOpcodes
    <3>3. SettledIn(u, v) = u[Len(w) + 1]
      BY <1>4, <2>2, <2>4, <3>2, SettledWrite
    <3>4. u[Len(w) + 1] = PairValue(c, j)
      BY <2>1 DEF PairWord, j
    <3>5. c.fn = "wpr" => PairValue(c, j) = c.value
      BY DEF PairValue
    <3> QED BY <3>1, <3>3, <3>4, <3>5
  <2> QED BY <2>3, <2>4
<1> QED BY <1>2, <1>3, <1>4

LEMMA RestSettles ==
  ASSUME NEW c, Good(c), NEW s, NEW t, NEW y, NEW q, NEW w, NEW u, NEW v, Queue(c, s, t, y, q, w), Written(c, s, t),
         s = 2 * Pairs(c), q = t, t < Len(Rest(c)), OneMore(w, u)
  PROVE  SettledIn(u, v) = SettledIn(w, v)
<1>1. /\ s \in Nat /\ y \in Int /\ q \in Nat /\ t \in Nat /\ Left(s, y) = s - 2 * y /\ Left(s, y) \in Nat
      /\ Len(w) = Left(s, y) + q
  BY Parts
<1>2. Pairs(c) \in Nat /\ Len(Rest(c)) \in Nat /\ Len(w) \in Nat
  BY <1>1 DEF Written
<1>3. Left(s, y) % 2 = 0
  <2>1. Left(s, y) = 2 * (Pairs(c) - y) /\ Pairs(c) - y \in Int
    BY <1>1, <1>2
  <2>2. \A i \in Int : (2 * i) % 2 = 0
    OBVIOUS
  <2> QED BY <2>1, <2>2
<1>4. CASE Len(w) % 2 = 0
  BY <1>4, SettledOpcode
<1>5. CASE Len(w) % 2 = 1
  <2> DEFINE n == Left(s, y)
  <2>1. n \in Nat /\ n % 2 = 0 /\ n < Len(w) /\ 1 \in 1 .. q
    BY <1>1, <1>3, <1>5, SMTT(60)
  <2>2. w[n + 1] = Rest(c)[1]
    BY <2>1 DEF Queue
  <2>3. NumParams(Rest(c)[1]) # 1
    <3>1. Len(Rest(c)) > 0
      BY <1>1, <1>2
    <3> QED BY <3>1, RestTaken
  <2> HIDE DEF n
  <2>4. \E i \in Nat : i % 2 = 0 /\ i < Len(w) /\ NumParams(w[i + 1]) # 1
    BY <2>1, <2>2, <2>3
  <2> QED BY <1>5, <2>4, SettledOther
<1> QED BY <1>2, <1>4, <1>5

LEMMA WordToPut ==
  ASSUME RInv, fifo_write_word
  PROVE  /\ call # NoCall /\ Head(ops).do = "put" /\ Head(ops).word \in Word
         /\ wfifo' = Append(wfifo, Head(ops).word) /\ command' = command
         /\ OneMore(Waiting, Waiting') /\ Waiting'[Len(Waiting) + 1] = Head(ops).word
<1>1. IInv /\ call # NoCall /\ Head(ops).do = "put" /\ ready /\ command' = command
  BY DEF fifo_write_word, Doing, RInv
<1>2. Len(wfifo) < FIFO_WORDS
  BY <1>1 DEF IInv, StatusHolds
<1>3. wfifo' = Append(wfifo, Head(ops).word)
  BY <1>2 DEF fifo_write_word
<1>4. Head(ops).word \in Word
  <2>1. ops \in Seq(Op) /\ Len(ops) \in Nat /\ Len(ops) >= 1
    BY <1>1, CallOps
  <2>2. Head(ops) \in Op
    BY <2>1, HeadTailProperties, EmptySeq
  <2>3. \A o \in Op : o.do = "put" => o.word \in Word
    BY DEF Op, Plain
  <2> QED BY <1>1, <2>2, <2>3
<1> QED BY <1>1, <1>3, <1>4, WordPut

LEMMA WriteRefines == ASSUME RInv, IInv', fifo_write_word PROVE RInv' /\ Allowed
<1>1. /\ call # NoCall /\ Head(ops).do = "put" /\ Proceed /\ got' = got /\ got \in Seq(Word)
      /\ rfifo' = rfifo /\ pr' = pr /\ mem' = mem /\ cer' = cer
  BY WordToPut DEF fifo_write_word, RInv
<1>2. CASE failed # NoCall
  BY <1>1, <1>2, LostProceeds
<1>3. CASE failed = NoCall
  <2>1. PICK s, t, y, q : /\ Stage(s, t, y, q) /\ Queue(call, s, t, y, q, Waiting) /\ Written(call, s, t)
                          /\ Effects(call, s, t, y, q) /\ Good(call)
                          /\ NextIs(call, DoneOps, Len(got), s, t, Head(ops))
    BY <1>1, <1>3, StageIs
  <2> DEFINE c == call
             d == DoneOps
             g == Len(got)
             op == Head(ops)
             w == Waiting
             u == Waiting'
             v == pr[PR_CL0]
  <2>2. OneMore(w, u) /\ u[Len(w) + 1] = op.word
    BY WordToPut
  <2>3. Settled = SettledIn(w, v) /\ Settled' = SettledIn(u, v)
    <3>1. Settled' = SettledIn(Waiting', pr'[PR_CL0])
      BY DEF Settled, SettledIn, Writes, WritesIn, ClearsTo
    <3> QED BY <1>1, <3>1, SettledIs
  <2>4. ~cer'
    BY <1>1, <1>3 DEF RInv
  <2>5. /\ s \in Nat /\ t \in Nat /\ y \in Int /\ q \in Nat /\ (q = t \/ q = 0) /\ g \in Nat /\ d \in Nat
    BY <1>1, <2>1, Parts, CallOps, LenProperties
  <2>6. c.fn = "init" /\ d >= Lead(c) => y >= 0
    <3>1. c.fn = "init" => Lead(c) = 5
      BY DEF Lead
    <3>2. c.fn = "init" /\ d >= Lead(c) => d >= 1
      BY <2>5, <3>1
    <3> QED BY <2>1, <3>2 DEF Stage
  <2>7. PutsPair(c, d, g, s, t, op) \/ PutsRest(c, d, g, s, t, op)
    <3>1. op.do # "get" /\ op.do # "idle" /\ op.do \notin {"abort", "check", "halt", "enable", "run"}
      BY <1>1
    <3>2. ~Gets(c, d, g, s, t, op) /\ ~Idles(c, d, g, s, t, op) /\ ~Leads(c, d, g, s, t, op)
      BY <3>1 DEF Gets, Idles, Leads, Get, Idle, Reg
    <3> QED BY <2>1, <3>2 DEF NextIs
  <2>8. CASE PutsPair(c, d, g, s, t, op)
    <3>1. t = 0 /\ q = 0 /\ g = 0 /\ s < 2 * Pairs(c) /\ d >= Lead(c) /\ op.word = PairWord(c, s + 1)
      BY <2>5, <2>8 DEF PutsPair, Put
    <3>2. Queue(c, s + 1, 0, y, 0, u)
      <4>1. Queue(c, s, 0, y, q, w) /\ u[Len(w) + 1] = PairWord(c, s + 1)
        BY <2>1, <2>2, <3>1
      <4> HIDE DEF c, w, u
      <4> QED BY <2>2, <4>1, QueuePairWord
    <3>3. /\ \/ SettledIn(u, v) = SettledIn(w, v)
             \/ c.fn = "init"
             \/ c.fn = "wpr" /\ c.reg = PR_CL0 /\ SettledIn(u, v) = c.value
          /\ c.fn = "wpr" /\ c.reg = PR_CL0 /\ s = 1 => SettledIn(u, v) = c.value
      <4>1. Queue(c, s, 0, y, q, w) /\ u[Len(w) + 1] = PairWord(c, s + 1) /\ Good(c) /\ Written(c, s, 0)
        BY <2>1, <2>2, <3>1
      <4> HIDE DEF c, w, u, v
      <4> QED BY <2>2, <3>1, <4>1, PairSettles
    <3>4. Asked
      BY <1>1, <1>3, <2>3, <3>3 DEF Asked, Resets
    <3>5. got = <<>> /\ ~Answered(c, 0, 0) /\ rfifo = <<>>
      <4>1. got = <<>>
        BY <1>1, <3>1, EmptySeq
      <4>2. ~Answered(c, 0, 0)
        BY DEF Answered
      <4>3. rfifo = <<>>
        BY <2>1, <3>1, <4>2 DEF Effects
      <4> QED BY <4>1, <4>2, <4>3
    <3>6. CASE Len(ops) = 1
      <4>1. Content' /\ call' = NoCall /\ rc' = "OK" /\ failed' = NoCall
        BY <1>1, <1>3, <3>6, Proceeds
      <4>2. s + 1 = 2 * Pairs(c) /\ (c.fn = "wpr" \/ (c.fn = "read_words" /\ c.count = 0))
        <5>1. d + 1 = Len(Program(c))
          BY <1>1, <3>6, CallOps
        <5> QED BY <2>8, <5>1 DEF PutsPair
      <4>3. Leftover(Pairs(c) - y, u)
        <5>1. Pairs(c) \in Nat /\ Good(c)
          BY <2>1, Amounts
        <5> HIDE DEF c, u
        <5> QED BY <3>2, <4>2, <5>1, QueueIsLeft
      <4>4. Mirror'
        BY <1>1, <3>5, <4>1, <4>3 DEF Mirror
      <4>5. RInv'
        BY <1>1, <2>4, <4>1, <4>4 DEF RInv
      <4>6. c.fn = "wpr" => s = 1
        <5>1. c.fn = "wpr" => Pairs(c) = 1
          BY DEF Pairs
        <5> QED BY <2>5, <4>2, <5>1
      <4>7. Served
        <5>1. Buffer!Covered(c) = {}
          BY <4>2 DEF Buffer!Covered
        <5>2. c.fn = "read_words" => [i \in 1 .. c.count |-> mem'[c.addr + i - 1]] = <<>>
          BY <4>2
        <5>3. got' = <<>>
          BY <1>1, <3>5
        <5> QED BY <2>3, <3>3, <4>2, <4>6, <5>1, <5>2, <5>3 DEF Served
      <4> QED BY <3>4, <4>1, <4>5, <4>7, Succeeds
    <3>7. CASE Len(ops) # 1
      <4>1. Content' /\ call' = call /\ rc' = rc /\ failed' = NoCall /\ DoneOps' = d + 1
        BY <1>1, <1>3, <3>7, Proceeds
      <4>2. Progress(c, d + 1, g, s + 1, 0)
        BY <2>8 DEF PutsPair
      <4>3. Effects(call, s + 1, 0, y, 0)'
        <5>1. Effects(call, s, t, y, q)'
          BY <1>1, <2>1, <4>1, SameEffects
        <5>2. Effects(call, s, 0, y, 0)' /\ Len(got') = 0
          BY <1>1, <3>1, <5>1
        <5> QED BY <5>2 DEF Effects
      <4>4. Stage(s + 1, 0, y, 0)'
        <5>1. Len(got') = g
          BY <1>1
        <5> QED BY <2>6, <3>1, <3>2, <4>1, <4>2, <4>3, <5>1 DEF Stage
      <4>5. RInv'
        BY <1>1, <2>4, <4>1, <4>4 DEF RInv, Mirror
      <4> QED BY <3>4, <4>1, <4>5, Works
    <3> QED BY <3>6, <3>7
  <2>9. CASE PutsRest(c, d, g, s, t, op)
    <3>1. /\ s = 2 * Pairs(c) /\ t < Len(Rest(c)) /\ d >= Lead(c) /\ op.word = Rest(c)[t + 1]
          /\ Progress(c, d + 1, g, s, t + 1) /\ d + 1 # Len(Program(c))
      BY <2>9 DEF PutsRest, Put
    <3>2. t # Len(Rest(c))
      <4>1. Len(Rest(c)) \in Nat
        BY <2>1, Amounts
      <4> QED BY <2>5, <3>1, <4>1
    <3>3. Queue(c, s, t + 1, y, q + 1, u) /\ q = t
      <4>1. Queue(c, s, t, y, q, w) /\ u[Len(w) + 1] = Rest(c)[t + 1]
        BY <2>1, <2>2, <3>1
      <4> HIDE DEF c, w, u
      <4> QED BY <2>2, <3>2, <4>1, QueueRestWord
    <3>4. SettledIn(u, v) = SettledIn(w, v)
      <4>1. Queue(c, s, t, y, q, w) /\ Good(c) /\ Written(c, s, t)
        BY <2>1
      <4> HIDE DEF c, w, u, v
      <4> QED BY <2>2, <3>1, <3>3, <4>1, RestSettles
    <3>5. Asked
      BY <1>1, <1>3, <2>3, <3>4 DEF Asked
    <3>6. Len(ops) # 1
      BY <1>1, <3>1, CallOps
    <3>7. Content' /\ call' = call /\ rc' = rc /\ failed' = NoCall /\ DoneOps' = d + 1
      BY <1>1, <1>3, <3>6, Proceeds
    <3>8. Effects(call, s, t + 1, y, q + 1)'
      <4>1. Effects(call, s, t, y, q)'
        BY <1>1, <2>1, <3>7, SameEffects
      <4>2. t = q /\ ~(t > q) /\ ~(t + 1 > q + 1) /\ t - q = 0 /\ (t + 1) - (q + 1) = 0
        BY <2>5, <3>3
      <4>3. Moved(call, t + 1, y, q + 1)' = Moved(call, t, y, q)'
        BY <4>2 DEF Moved
      <4> QED BY <4>1, <4>2, <4>3 DEF Effects, Answered
    <3>9. Stage(s, t + 1, y, q + 1)'
      <4>1. Len(got') = g
        BY <1>1
      <4> QED BY <2>6, <3>1, <3>3, <3>7, <3>8, <4>1 DEF Stage
    <3>10. RInv'
      BY <1>1, <2>4, <3>7, <3>9 DEF RInv, Mirror
    <3> QED BY <3>5, <3>7, <3>10, Works
  <2> QED BY <2>7, <2>8, <2>9
<1> QED BY <1>2, <1>3

-----------------------------------------------------------------------------
(* A word from the chip.                                                   *)

LEMMA WordRead ==
  ASSUME RInv, fifo_read_word
  PROVE  /\ call # NoCall /\ Head(ops).do = "get" /\ Proceed
         /\ rfifo \in Seq(Word) /\ rfifo # <<>> /\ rfifo[1] \in Word
         /\ rfifo' = Tail(rfifo) /\ got' = Append(got, rfifo[1])
         /\ got \in Seq(Word) /\ got' \in Seq(Word) /\ Len(got) \in Nat /\ Len(got') = Len(got) + 1
         /\ got'[Len(got) + 1] = rfifo[1] /\ \A i \in 1 .. Len(got) : got'[i] = got[i]
         /\ wfifo' = wfifo /\ command' = command /\ pr' = pr /\ mem' = mem /\ cer' = cer
<1>1. /\ IInv /\ call # NoCall /\ Head(ops).do = "get" /\ ready /\ Proceed /\ got \in Seq(Word)
      /\ wfifo' = wfifo /\ command' = command /\ pr' = pr /\ mem' = mem /\ cer' = cer
  BY DEF fifo_read_word, Doing, RInv
<1>2. rfifo # <<>> /\ rfifo \in Seq(Word)
  BY <1>1 DEF IInv, StatusHolds, TypeOK
<1>3. rfifo' = Tail(rfifo) /\ got' = Append(got, Head(rfifo))
  BY <1>2 DEF fifo_read_word
<1>4. Head(rfifo) = rfifo[1] /\ rfifo[1] \in Word
  BY <1>2, HeadTailProperties, EmptySeq
<1>5. /\ got' \in Seq(Word) /\ Len(got) \in Nat /\ Len(got') = Len(got) + 1
      /\ got'[Len(got) + 1] = rfifo[1] /\ \A i \in 1 .. Len(got) : got'[i] = got[i]
  BY <1>1, <1>3, <1>4, AppendProperties, LenProperties
<1> QED BY <1>1, <1>2, <1>3, <1>4, <1>5

LEMMA ReadRefines == ASSUME RInv, IInv', fifo_read_word PROVE RInv' /\ Allowed
<1>1. /\ call # NoCall /\ Head(ops).do = "get" /\ Proceed
      /\ rfifo \in Seq(Word) /\ rfifo # <<>> /\ rfifo' = Tail(rfifo)
      /\ got \in Seq(Word) /\ got' \in Seq(Word) /\ Len(got) \in Nat /\ Len(got') = Len(got) + 1
      /\ got'[Len(got) + 1] = rfifo[1] /\ \A i \in 1 .. Len(got) : got'[i] = got[i]
      /\ wfifo' = wfifo /\ command' = command /\ pr' = pr /\ mem' = mem /\ cer' = cer
  BY WordRead
<1>2. CASE failed # NoCall
  BY <1>1, <1>2, LostProceeds
<1>3. CASE failed = NoCall
  <2>1. PICK s, t, y, q : /\ Stage(s, t, y, q) /\ Queue(call, s, t, y, q, Waiting) /\ Written(call, s, t)
                          /\ Effects(call, s, t, y, q) /\ Good(call)
                          /\ NextIs(call, DoneOps, Len(got), s, t, Head(ops))
    BY <1>1, <1>3, StageIs
  <2> DEFINE c == call
             d == DoneOps
             g == Len(got)
             op == Head(ops)
             w == Waiting
  <2>2. Gets(c, d, g, s, t, op)
    <3>1. op.do # "put" /\ op.do # "idle" /\ op.do \notin {"abort", "check", "halt", "enable", "run"}
      BY <1>1
    <3>2. ~PutsPair(c, d, g, s, t, op) /\ ~PutsRest(c, d, g, s, t, op)
      BY <3>1 DEF PutsPair, PutsRest, Put
    <3>3. ~Idles(c, d, g, s, t, op) /\ ~Leads(c, d, g, s, t, op)
      BY <3>1 DEF Idles, Leads, Idle, Reg
    <3> QED BY <2>1, <3>2, <3>3 DEF NextIs
  <2>3. Answered(c, t, q)
    BY <1>1, <2>1 DEF Effects
  <2>4. Len(rfifo) = 1 /\ t = 1 /\ q = 0 /\ s = 2 * Pairs(c)
    <3>1. t = 1 /\ s = 2 * Pairs(c) /\ q \in Nat /\ t > q
      BY <2>1, <2>2, <2>3, Parts DEF Gets, Answered
    <3>2. q = 0
      BY <3>1
    <3> QED BY <2>1, <2>3, <3>1, <3>2 DEF Effects
  <2>5. Len(w) = 0 /\ Left(s, y) = 0 /\ s = 2 * y /\ Leftover(0, w)
    <3>1. Left(s, y) = 0
      BY <2>1, <2>4 DEF Queue
    <3>2. Len(w) = 0
      BY <2>1, <2>4, <3>1 DEF Queue
    <3> HIDE DEF w
    <3>3. Queue(c, s, t, y, q, w)
      BY <2>1 DEF w
    <3> HIDE DEF c
    <3> QED BY <3>1, <3>2, <3>3, QueueGone
  <2>6. Waiting' = Waiting
    BY <1>1 DEF Waiting
  <2>7. Settled' = pr[PR_CL0] /\ Settled' = Settled
    <3>1. Settled' = SettledIn(Waiting', pr'[PR_CL0])
      BY DEF Settled, SettledIn, Writes, WritesIn, ClearsTo
    <3> DEFINE v == pr[PR_CL0]
    <3>2. Settled' = SettledIn(w, v) /\ Settled = SettledIn(w, v)
      BY <1>1, <2>6, <3>1, SettledIs
    <3>3. Len(w) \in Nat
      BY <2>5
    <3> HIDE DEF w, v
    <3>4. SettledIn(w, v) = v
      BY <2>5, <3>3, SettledNow
    <3> QED BY <3>2, <3>4 DEF v
  <2>8. rfifo' = <<>>
    <3>1. rfifo' \in Seq(Word) /\ Len(rfifo') = 0
      BY <1>1, <2>4, HeadTailProperties
    <3> QED BY <3>1, EmptySeq
  <2>9. ~cer'
    BY <1>1, <1>3 DEF RInv
  <2>10. Asked
    BY <1>1, <1>3, <2>7 DEF Asked
  <2>11. ASSUME Len(ops) = 1
         PROVE  RInv' /\ call' = NoCall /\ rc' = "OK" /\ failed' = NoCall
    <3>1. Content' /\ call' = NoCall /\ rc' = "OK" /\ failed' = NoCall
      BY <1>1, <1>3, <2>11, Proceeds
    <3>2. Mirror'
      BY <2>5, <2>6, <2>8, <3>1 DEF Mirror
    <3> QED BY <1>1, <2>9, <3>1, <3>2 DEF RInv
  <2>12. CASE c.fn = "rpr"
    <3>1. g = 0 /\ Len(ops) = 1
      BY <1>1, <2>2, <2>12, CallOps DEF Gets
    <3>2. Len(got') = 1 /\ got'[1] = rfifo[1]
      BY <1>1, <3>1
    <3>3. got' = <<got'[1]>>
      BY <1>1, <3>2
    <3>4. c.reg = PR_CL0 => rfifo[1] = pr[PR_CL0]
      BY <2>1, <2>3, <2>12 DEF Effects
    <3>5. Served
      BY <2>7, <2>12, <3>2, <3>3, <3>4 DEF Served, Buffer!Covered
    <3> QED BY <2>10, <2>11, <3>1, <3>5, Succeeds
  <2>13. CASE c.fn = "read_words"
    <3>1. g < c.count /\ Progress(c, d + 1, g + 1, s, 0) /\ (d + 1 = Len(Program(c)) <=> g + 1 = c.count)
      BY <2>2, <2>13 DEF Gets
    <3>2. c.addr \in Nat /\ c.count \in Nat
      BY <2>1, <2>13, Arguments DEF Accessing
    <3>3. rfifo[1] = mem[c.addr + g] /\ \A i \in 1 .. g : got[i] = mem[c.addr + i - 1]
      BY <2>1, <2>3, <2>13 DEF Effects
    <3>4. \A i \in 1 .. g + 1 : got'[i] = mem[c.addr + i - 1]
      <4> TAKE i \in 1 .. g + 1
      <4>1. CASE i = g + 1
        <5>1. c.addr + i - 1 = c.addr + g
          BY <1>1, <3>2, <4>1
        <5> QED BY <1>1, <3>3, <4>1, <5>1
      <4>2. CASE i # g + 1
        <5>1. i \in 1 .. g
          BY <1>1, <4>2
        <5> QED BY <1>1, <3>3, <5>1
      <4> QED BY <4>1, <4>2
    <3>5. CASE Len(ops) = 1
      <4>1. g + 1 = c.count
        BY <1>1, <3>1, <3>5, CallOps
      <4>2. got' = [i \in 1 .. c.count |-> mem'[c.addr + i - 1]]
        <5> DEFINE r == got'
        <5>1. r = [i \in 1 .. Len(r) |-> r[i]]
          BY <1>1
        <5>2. Len(r) = c.count
          BY <1>1, <4>1
        <5>3. \A i \in 1 .. c.count : r[i] = mem'[c.addr + i - 1]
          BY <1>1, <3>4, <4>1
        <5> HIDE DEF r
        <5>4. [i \in 1 .. c.count |-> r[i]] = [i \in 1 .. c.count |-> mem'[c.addr + i - 1]]
          BY <5>3
        <5> QED BY <5>1, <5>2, <5>4 DEF r
      <4>3. Served
        BY <2>13, <4>2 DEF Served, Buffer!Covered
      <4> QED BY <2>10, <2>11, <3>5, <4>3, Succeeds
    <3>6. CASE Len(ops) # 1
      <4>1. Content' /\ call' = call /\ rc' = rc /\ failed' = NoCall /\ DoneOps' = d + 1
        BY <1>1, <1>3, <3>6, Proceeds
      <4>2. y = 2 /\ s = 4
        <5>1. Pairs(c) = 2 /\ y \in Int
          BY <2>1, <2>13, Parts DEF Pairs
        <5> QED BY <2>4, <2>5, <5>1
      <4>3. Queue(c, s, 0, y, 0, w)
        <5>1. \A k \in 1 .. 0 : FALSE
          OBVIOUS
        <5> QED BY <2>5, <4>2, <5>1 DEF Queue
      <4>4. Effects(call, s, 0, y, 0)'
        <5>1. ~Answered(call', 0, 0)
          BY DEF Answered
        <5>2. Moved(call, 0, y, 0)' = g + 1 /\ Moved(call, t, y, q) = g + 1
          BY <1>1, <2>4, <2>13, <4>1, <4>2 DEF Moved
        <5>3. RWP' = RWP
          BY <1>1 DEF RWP
        <5>4. g + 1 < Count(c) => RWP = c.addr + (g + 1)
          BY <2>1, <2>13, <4>2, <5>2 DEF Effects, Accessing
        <5> QED BY <1>1, <2>5, <2>8, <2>13, <3>4, <4>1, <4>2, <5>1, <5>2, <5>3, <5>4 DEF Effects, Answered
      <4>5. Stage(s, 0, y, 0)'
        BY <1>1, <2>6, <2>13, <3>1, <4>1, <4>3, <4>4 DEF Stage
      <4>6. RInv'
        BY <1>1, <2>9, <4>1, <4>5 DEF RInv, Mirror
      <4> QED BY <2>10, <4>1, <4>6, Works
    <3> QED BY <3>5, <3>6
  <2> QED BY <2>2, <2>12, <2>13 DEF Gets
<1> QED BY <1>2, <1>3

-----------------------------------------------------------------------------
(* The chip executes a command.                                            *)

LEMMA CommandIs ==
  ASSUME RInv, Execute
  PROVE  /\ Len(command) \in Nat /\ Len(command) > 0 /\ Len(command) = 1 + NumParams(Waiting[1])
         /\ Len(command) <= Len(Waiting) /\ Len(Waiting) \in Nat
         /\ \A i \in 1 .. Len(command) : command[i] = Waiting[i]
         /\ command[1] = Waiting[1]
         /\ Len(Waiting') = Len(Waiting) - Len(command)
         /\ \A i \in 1 .. Len(Waiting') : Waiting'[i] = Waiting[i + Len(command)]
         /\ call' = call /\ ops' = ops /\ got' = got /\ failed' = failed /\ rc' = rc /\ cer' = cer
         /\ pr \in [Registers -> Word] /\ mem \in [Addresses -> Word]
<1>1. IInv /\ command # <<>> /\ Len(command) = 1 + NumParams(command[1]) /\ command' = <<>> /\ wfifo' = wfifo
  BY DEF RInv, Execute, Complete
<1>2. /\ command \in Seq(Word) /\ Len(command) \in Nat /\ Len(wfifo) \in Nat
      /\ Len(Waiting) = Len(command) + Len(wfifo) /\ Len(Waiting) \in Nat
      /\ \A i \in 1 .. Len(command) : Waiting[i] = command[i]
  BY <1>1, WaitingIs
<1>3. Len(command) > 0
  BY <1>1, <1>2, EmptySeq
<1>4. 1 \in 1 .. Len(command) /\ Len(command) <= Len(Waiting)
  BY <1>2, <1>3
<1>5. command[1] = Waiting[1]
  BY <1>2, <1>4
<1>6. /\ Len(Waiting') = Len(Waiting) - Len(command)
      /\ \A i \in 1 .. Len(Waiting') : Waiting'[i] = Waiting[i + Len(command)]
  BY <1>1, WordsTaken
<1>7. call' = call /\ ops' = ops /\ got' = got /\ failed' = failed /\ rc' = rc /\ cer' = cer
  BY DEF Execute, driver
<1>8. pr \in [Registers -> Word] /\ mem \in [Addresses -> Word]
  BY <1>1 DEF IInv, TypeOK
<1> QED BY <1>1, <1>2, <1>3, <1>4, <1>5, <1>6, <1>7, <1>8

LEMMA CommandDone ==
  ASSUME Execute
  PROVE  /\ command[1] \in WPRs => WriteParameter
         /\ command[1] \in RPRs => ReadParameter
         /\ command[1] = CMD_WT => WriteWord
         /\ command[1] = CMD_RD => ReadWord
         /\ command[1] = CMD_CLR => ClearArea
         /\ command[1] = CMD_ORG => SetOrigin
<1> DEFINE o == command[1]
<1>1. \/ o \in WPRs /\ WriteParameter
      \/ o \in RPRs /\ ReadParameter
      \/ o = CMD_WT /\ WriteWord
      \/ o = CMD_RD /\ ReadWord
      \/ o = CMD_CLR /\ ClearArea
      \/ o = CMD_ORG /\ SetOrigin
  BY DEF Execute, WriteParameter, ReadParameter, WriteWord, ReadWord, ClearArea, SetOrigin, WPRs, RPRs
<1> HIDE DEF o
<1>2. o \in WPRs => o \notin RPRs /\ o # CMD_WT /\ o # CMD_RD /\ o # CMD_CLR /\ o # CMD_ORG
  BY CommandWords
<1>3. o \in RPRs => o \notin WPRs /\ o # CMD_WT /\ o # CMD_RD /\ o # CMD_CLR /\ o # CMD_ORG
  BY CommandWords
<1> QED BY <1>1, <1>2, <1>3, CommandWords DEF o

LEMMA RegisterWritten ==
  ASSUME pr \in [Registers -> Word], command[1] \in WPRs, WriteParameter
  PROVE  /\ mem' = mem /\ rfifo' = rfifo
         /\ \A r \in Registers : pr'[r] = IF command[1] = CMD_WPR + r THEN command[2] ELSE pr[r]
         /\ pr'[PR_CL0] = IF command[1] = ClearsTo THEN command[2] ELSE pr[PR_CL0]
<1>1. /\ mem' = mem /\ rfifo' = rfifo
      /\ pr' = [r \in Registers |-> IF r = command[1] - CMD_WPR THEN command[2] ELSE pr[r]]
  BY DEF WriteParameter
<1>2. command[1] \in Int /\ CMD_WPR \in Int /\ Registers \subseteq Int /\ PR_CL0 \in Registers
  BY CommandWords, RegisterNumbers DEF WPRs
<1>3. ASSUME NEW r \in Registers PROVE pr'[r] = IF command[1] = CMD_WPR + r THEN command[2] ELSE pr[r]
  <2>1. r = command[1] - CMD_WPR <=> command[1] = CMD_WPR + r
    BY <1>2
  <2> QED BY <1>1, <2>1
<1>4. pr'[PR_CL0] = IF command[1] = ClearsTo THEN command[2] ELSE pr[PR_CL0]
  BY <1>2, <1>3 DEF ClearsTo
<1> QED BY <1>1, <1>3, <1>4

LEMMA PairAtFront ==
  ASSUME NEW c, NEW s, NEW t, NEW y, NEW q, NEW w, Queue(c, s, t, y, q, w), Written(c, s, t), Left(s, y) >= 2
  PROVE  /\ q = t /\ s \in Nat /\ t \in Nat /\ y \in Int /\ q \in Nat /\ Left(s, y) = s - 2 * y
         /\ y >= 0 => y + 1 \in 1 .. Pairs(c) /\ w[1] = PairOp(c, y + 1) /\ w[2] = PairValue(c, y + 1)
         /\ y < 0 => w[1] \in WPRs
<1>1. /\ s \in Nat /\ t \in Nat /\ y \in Int /\ q \in Nat /\ Left(s, y) = s - 2 * y /\ Left(s, y) \in Nat
      /\ s <= 2 * Pairs(c) /\ Pairs(c) \in Nat
  BY Parts DEF Written
<1>2. q = t
  BY <1>1 DEF Queue
<1>3. /\ 1 \in 1 .. Left(s, y) /\ 2 * 1 - 1 = 1 /\ 2 * 1 = 2 /\ 2 * 1 - 1 <= Left(s, y) /\ 2 * 1 <= Left(s, y)
      /\ 1 + y = y + 1
  BY <1>1
<1>4. IF 1 + y >= 1 THEN w[2 * 1 - 1] = PairOp(c, 1 + y) ELSE w[2 * 1 - 1] \in WPRs
  BY <1>3 DEF Queue
<1>5. 1 + y >= 1 => w[2 * 1] = PairValue(c, 1 + y)
  BY <1>3 DEF Queue
<1>6. (y >= 0 <=> 1 + y >= 1) /\ (y < 0 <=> ~(1 + y >= 1)) /\ (y >= 0 => y + 1 \in 1 .. Pairs(c))
  BY <1>1
<1> QED BY <1>1, <1>2, <1>3, <1>4, <1>5, <1>6

\* A register is written: the drawing register, or the pointer, or one that is not followed.
LEMMA RegisterEffects ==
  ASSUME NEW s, NEW t, NEW y, NEW q, Good(call), Effects(call, s, t, y, q),
         Queue(call, s, t, y, q, Waiting), Written(call, s, t), Left(s, y) >= 2, Waiting[1] \in WPRs,
         call' = call, got' = got, Len(got) \in Nat, call.fn # "read_words" => Len(got) = 0,
         rfifo' = rfifo, mem' = mem,
         \A r \in Registers : pr'[r] = IF Waiting[1] = CMD_WPR + r THEN Waiting[2] ELSE pr[r]
  PROVE  Effects(call, s, t, y + 1, q)'
<1> DEFINE o == Waiting[1]
           v == Waiting[2]
<1>1. /\ q = t /\ s \in Nat /\ t \in Nat /\ y \in Int /\ q \in Nat
      /\ y >= 0 => y + 1 \in 1 .. Pairs(call) /\ o = PairOp(call, y + 1) /\ v = PairValue(call, y + 1)
  <2> DEFINE w == Waiting
             c == call
  <2>1. Queue(c, s, t, y, q, w) /\ Written(c, s, t)
    OBVIOUS
  <2> HIDE DEF w, c
  <2>2. /\ q = t /\ s \in Nat /\ t \in Nat /\ y \in Int /\ q \in Nat
        /\ y >= 0 => y + 1 \in 1 .. Pairs(c) /\ w[1] = PairOp(c, y + 1) /\ w[2] = PairValue(c, y + 1)
    BY <2>1, PairAtFront
  <2> QED BY <2>2 DEF w, c
<1>2. ~(t > q) /\ t - q = 0
  BY <1>1
<1>3. Len(got) = 0
  BY DEF Effects
<1>4. o \in WPRs /\ \A r \in Registers : pr'[r] = IF o = CMD_WPR + r THEN v ELSE pr[r]
  OBVIOUS
<1> HIDE DEF o, v
<1>5. CMD_WPR \in Int /\ PR_CL0 \in Registers /\ PR_RWPH \in Registers /\ PR_RWPL \in Registers
      /\ PR_CL0 = 0 /\ PR_RWPH = 12 /\ PR_RWPL = 13
  BY CommandWords, RegisterNumbers
<1>6. call.fn \in Accessing => y <= 1
  <2>1. ASSUME call.fn \in Accessing, ~(y <= 1) PROVE FALSE
    <3>1. y >= 0 /\ ~(y + 1 = 1) /\ ~(y + 1 = 2)
      BY <1>1, <2>1
    <3>2. PairOp(call, y + 1) = CMD_WT
      BY <2>1, <3>1 DEF PairOp, Accessing
    <3> QED BY <1>1, <1>4, <3>1, <3>2, CommandWords
  <2> QED BY <2>1
<1>7. ASSUME call.fn \in Accessing, y = 0 PROVE pr'[PR_RWPH] = Ptr(call)[1]
  <2>1. y >= 0 /\ y + 1 = 1
    BY <1>7
  <2>2. o = CMD_WPR + PR_RWPH /\ v = Ptr(call)[1]
    BY <1>1, <1>7, <2>1 DEF PairOp, PairValue, Accessing
  <2> QED BY <1>4, <1>5, <2>2
<1>8. ASSUME call.fn \in Accessing, y = 1 PROVE RWP' = call.addr
  <2>1. y >= 0 /\ y + 1 = 2
    BY <1>8
  <2>2. o = CMD_WPR + PR_RWPL /\ v = Ptr(call)[2]
    BY <1>1, <1>8, <2>1 DEF PairOp, PairValue, Accessing
  <2>3. pr'[PR_RWPL] = Ptr(call)[2]
    BY <1>4, <1>5, <2>2
  <2>4. pr'[PR_RWPH] = pr[PR_RWPH]
    <3>1. o # CMD_WPR + PR_RWPH
      BY <1>5, <2>2
    <3> QED BY <1>4, <1>5, <3>1
  <2>5. pr[PR_RWPH] = Ptr(call)[1]
    BY <1>8 DEF Effects
  <2>6. ((Ptr(call)[1] % 256) * 4096) + (Ptr(call)[2] \div 16) = call.addr
    BY <1>8, PointerIs
  <2>7. RWP' = ((pr'[PR_RWPH] % 256) * 4096) + (pr'[PR_RWPL] \div 16)
    BY DEF RWP
  <2> QED BY <2>3, <2>4, <2>5, <2>6, <2>7
<1>9. ASSUME call.fn = "init", y + 1 >= 1 PROVE pr'[PR_CL0] = 0
  <2>1. y >= 0
    BY <1>1, <1>9
  <2>2. o = CMD_WPR + ((y + 1) - 1) /\ v = PairValue(call, y + 1)
    BY <1>1, <1>9, <2>1 DEF PairOp
  <2>3. CASE y = 0
    <3>1. o = CMD_WPR + PR_CL0
      BY <1>5, <2>2, <2>3
    <3>2. v = 0
      BY <1>9, <2>2, <2>3 DEF PairValue
    <3> QED BY <1>4, <1>5, <3>1, <3>2
  <2>4. CASE y # 0
    <3>1. o # CMD_WPR + PR_CL0
      BY <1>1, <1>5, <2>2, <2>4
    <3>2. y >= 1
      BY <1>1, <2>1, <2>4
    <3>3. pr[PR_CL0] = 0
      BY <1>9, <3>2 DEF Effects
    <3> QED BY <1>4, <1>5, <3>1, <3>3
  <2> QED BY <2>3, <2>4
<1>10. ~Answered(call, t, q) /\ ~Answered(call', t, q) /\ rfifo' = <<>>
  BY <1>2 DEF Answered, Effects
<1>11. call.fn \in Accessing /\ y + 1 = 1 => y = 0
  BY <1>1
<1>12. ASSUME call.fn \in Accessing, y + 1 >= 2 PROVE RWP' = call.addr + Moved(call, t, y + 1, q)'
  <2>1. y = 1
    BY <1>1, <1>6, <1>12
  <2>2. Moved(call, t, y + 1, q)' = 0
    BY <1>2, <1>3, <2>1 DEF Moved
  <2>3. call.addr \in Nat
    BY <1>12, Arguments
  <2> QED BY <1>8, <1>12, <2>1, <2>2, <2>3
<1>13. call.fn \in Accessing => \A i \in 0 .. (y + 1) - 3 : FALSE
  BY <1>1, <1>6
<1>14. \A i \in 1 .. Len(got) : FALSE
  BY <1>3
<1> QED BY <1>2, <1>3, <1>7, <1>9, <1>10, <1>11, <1>12, <1>13, <1>14 DEF Effects, Accessing

LEMMA TwoTaken ==
  ASSUME RInv, Execute, Len(command) = 2
  PROVE  TwoLess(Waiting, Waiting') /\ command[2] = Waiting[2] /\ command[1] = Waiting[1]
<1>1. /\ Len(command) <= Len(Waiting) /\ Len(Waiting) \in Nat
      /\ \A i \in 1 .. Len(command) : command[i] = Waiting[i]
      /\ command[1] = Waiting[1]
      /\ Len(Waiting') = Len(Waiting) - Len(command)
      /\ \A i \in 1 .. Len(Waiting') : Waiting'[i] = Waiting[i + Len(command)]
  BY CommandIs
<1>2. 2 \in 1 .. Len(command)
  OBVIOUS
<1> QED BY <1>1, <1>2 DEF TwoLess

\* The drawing register settles to the same while the words of a pair are executed.
LEMMA PairKeepsSettled ==
  ASSUME RInv, Execute, Len(command) = 2, NumParams(Waiting[1]) = 1,
         pr'[PR_CL0] = IF Waiting[1] = ClearsTo THEN Waiting[2] ELSE pr[PR_CL0]
  PROVE  Settled' = Settled
<1> DEFINE w == Waiting
           u == Waiting'
           v == pr[PR_CL0]
           x == pr'[PR_CL0]
<1>1. TwoLess(w, u) /\ NumParams(w[1]) = 1 /\ x = IF w[1] = ClearsTo THEN w[2] ELSE v
  BY TwoTaken
<1>2. Settled = SettledIn(w, v)
  BY SettledIs
<1>3. Settled' = SettledIn(u, x)
  BY DEF Settled, SettledIn, Writes, WritesIn, ClearsTo
<1> HIDE DEF w, u, v, x
<1>4. SettledIn(u, x) = SettledIn(w, v)
  BY <1>1, SettledTaken
<1> QED BY <1>2, <1>3, <1>4

LEMMA ExecutesLeft ==
  ASSUME RInv, IInv', Execute, failed = NoCall, call = NoCall
  PROVE  RInv' /\ Allowed
<1>1. PICK z : Leftover(z, Waiting)
  BY Resting
<1>2. /\ Len(command) \in Nat /\ Len(command) > 0 /\ Len(command) = 1 + NumParams(Waiting[1])
      /\ Len(command) <= Len(Waiting) /\ command[1] = Waiting[1]
      /\ call' = call /\ ops' = ops /\ got' = got /\ failed' = failed /\ rc' = rc /\ cer' = cer
      /\ pr \in [Registers -> Word]
  BY CommandIs
<1>3. z \in Nat /\ Len(Waiting) = 2 * z /\ z >= 1
  BY <1>1, <1>2 DEF Leftover
<1>4. Waiting[1] \in WPRs
  <2>1. 1 \in 1 .. z /\ 2 * 1 - 1 = 1
    BY <1>3
  <2> QED BY <1>1, <2>1 DEF Leftover
<1>5. NumParams(Waiting[1]) = 1 /\ Len(command) = 2
  BY <1>2, <1>4, CommandWords
<1>6. WriteParameter /\ command[1] \in WPRs
  BY <1>2, <1>4, CommandDone
<1>7. TwoLess(Waiting, Waiting') /\ command[2] = Waiting[2]
  BY <1>5, TwoTaken
<1>8. /\ mem' = mem /\ rfifo' = rfifo
      /\ pr'[PR_CL0] = IF Waiting[1] = ClearsTo THEN Waiting[2] ELSE pr[PR_CL0]
  BY <1>2, <1>6, <1>7, RegisterWritten
<1>9. Settled' = Settled
  BY <1>5, <1>8, PairKeepsSettled
<1>10. Leftover(z - 1, Waiting')
  <2>1. z - 1 \in Nat /\ Len(Waiting') = 2 * (z - 1)
    BY <1>3, <1>7 DEF TwoLess
  <2>2. ASSUME NEW k \in 1 .. z - 1 PROVE Waiting'[2 * k - 1] \in WPRs
    <3>1. k + 1 \in 1 .. z /\ 2 * (k + 1) - 1 = (2 * k - 1) + 2 /\ 2 * k - 1 \in 1 .. Len(Waiting')
      BY <1>3, <2>1
    <3>2. Waiting'[2 * k - 1] = Waiting[(2 * k - 1) + 2]
      BY <1>7, <3>1 DEF TwoLess
    <3>3. Waiting[2 * (k + 1) - 1] \in WPRs
      BY <1>1, <3>1 DEF Leftover
    <3> QED BY <3>1, <3>2, <3>3
  <2> QED BY <2>1, <2>2 DEF Leftover
<1>11. Mirror'
  BY <1>2, <1>8, <1>10, Resting DEF Mirror
<1>12. Content' /\ got' \in Seq(Word)
  BY <1>2, SameContent
<1>13. RInv'
  BY <1>2, <1>11, <1>12 DEF RInv
<1>14. Answer' = Answer /\ (failed # NoCall)' = (failed # NoCall)
  BY <1>2 DEF Answer
<1> QED BY <1>2, <1>8, <1>9, <1>13, <1>14, Stutters

\* The call that is being served goes on; the frame buffer did not change.
LEMMA ServingOn ==
  ASSUME RInv, IInv', Execute, failed = NoCall, call # NoCall, mem' = mem, Settled' = Settled,
         NEW s, NEW t, NEW y, NEW q, Progress(call, DoneOps, Len(got), s, t),
         Queue(call, s, t, y, q, Waiting'), Effects(call, s, t, y, q)', call.fn = "init" /\ DoneOps >= 1 => y >= 0
  PROVE  RInv' /\ Allowed
<1>1. call' = call /\ ops' = ops /\ got' = got /\ failed' = failed /\ rc' = rc /\ cer' = cer
  BY CommandIs
<1>2. Content' /\ got' \in Seq(Word) /\ DoneOps' = DoneOps
  BY <1>1, SameContent
<1>3. Stage(s, t, y, q)'
  BY <1>1, <1>2 DEF Stage
<1>4. RInv'
  BY <1>1, <1>2, <1>3 DEF RInv, Mirror
<1>5. Answer' = Answer /\ (failed # NoCall)' = (failed # NoCall)
  BY <1>1 DEF Answer
<1> QED BY <1>1, <1>4, <1>5, Stutters

\* It writes the frame buffer.
LEMMA ServingWrites ==
  ASSUME RInv, IInv', Execute, failed = NoCall, call # NoCall, Asked,
         NEW s, NEW t, NEW y, NEW q, Progress(call, DoneOps, Len(got), s, t),
         Queue(call, s, t, y, q, Waiting'), Effects(call, s, t, y, q)', call.fn = "init" /\ DoneOps >= 1 => y >= 0
  PROVE  RInv' /\ Allowed
<1>1. call' = call /\ ops' = ops /\ got' = got /\ failed' = failed /\ rc' = rc /\ cer' = cer
  BY CommandIs
<1>2. Content' /\ got' \in Seq(Word) /\ DoneOps' = DoneOps
  BY <1>1, SameContent
<1>3. Stage(s, t, y, q)'
  BY <1>1, <1>2 DEF Stage
<1>4. RInv'
  BY <1>1, <1>2, <1>3 DEF RInv, Mirror
<1> QED BY <1>1, <1>4, Works

\* The words a call writes, and those it still has to write or to read, lie in the frame buffer.
LEMMA CoveredWords ==
  ASSUME NEW c, Good(c), Within(c), c.fn \in {"write_words", "fill_words", "read_words"}
  PROVE  /\ c.addr \in Nat /\ Count(c) \in Nat
         /\ c.fn # "read_words" => Pairs(c) = 2 + Count(c)
         /\ \A i \in Nat : i < Count(c) => /\ c.addr + i \in Addresses /\ c.addr + i \in Nat
                                           /\ c.addr + i < AddressSpace
                                           /\ c.fn # "read_words" => c.addr + i \in Buffer!Covered(c)
<1>1. c.addr \in Nat
  BY Arguments DEF Accessing
<1>2. Count(c) \in Nat /\ (c.fn # "read_words" => Pairs(c) = 2 + Count(c))
  <2>1. CASE c.fn = "write_words"
    <3>1. Count(c) = Len(c.data) /\ Pairs(c) = 2 + Len(c.data)
      BY <2>1 DEF Count, Pairs
    <3> QED BY <2>1, <3>1, Arguments, LenProperties
  <2>2. CASE c.fn \in {"fill_words", "read_words"}
    <3>1. Count(c) = c.count /\ (c.fn = "fill_words" => Pairs(c) = 2 + c.count)
      BY <2>2 DEF Count, Pairs
    <3> QED BY <2>2, <3>1, Arguments
  <2> QED BY <2>1, <2>2
<1>3. ASSUME NEW i \in Nat, i < Count(c) PROVE c.addr + i \in c.addr .. c.addr + Count(c) - 1
  BY <1>1, <1>2, <1>3
<1>4. c.fn # "read_words" => Buffer!Covered(c) = c.addr .. c.addr + Count(c) - 1
  BY DEF Buffer!Covered, Count
<1>5. c.addr .. c.addr + Count(c) - 1 \subseteq Addresses
  <2>1. CASE c.fn = "read_words"
    <3>1. Count(c) = c.count
      BY <2>1 DEF Count
    <3> QED BY <2>1, <3>1 DEF Within
  <2>2. CASE c.fn # "read_words"
    BY <1>4, <2>2 DEF Within
  <2> QED BY <2>1, <2>2
<1> QED BY <1>1, <1>2, <1>3, <1>4, <1>5, AddressesAre

LEMMA WordWritten ==
  ASSUME RInv, Execute, failed = NoCall, call # NoCall, NEW s, NEW t, NEW y, NEW q, Good(call), Within(call),
         Progress(call, DoneOps, Len(got), s, t), Effects(call, s, t, y, q),
         Queue(call, s, t, y, q, Waiting), Written(call, s, t), Left(s, y) >= 2, Len(command) = 2,
         Waiting[1] = CMD_WT
  PROVE  Asked /\ Effects(call, s, t, y + 1, q)' /\ call.fn # "init"
<1> DEFINE v == Waiting[2]
<1>1. /\ q = t /\ s \in Nat /\ t \in Nat /\ y \in Int /\ q \in Nat /\ y >= 0
      /\ y + 1 \in 1 .. Pairs(call) /\ PairOp(call, y + 1) = CMD_WT /\ v = PairValue(call, y + 1)
  <2> DEFINE w == Waiting
             c == call
  <2>1. Queue(c, s, t, y, q, w) /\ Written(c, s, t) /\ w[1] = CMD_WT
    OBVIOUS
  <2> HIDE DEF w, c
  <2>2. /\ q = t /\ s \in Nat /\ t \in Nat /\ y \in Int /\ q \in Nat
        /\ y >= 0 => y + 1 \in 1 .. Pairs(c) /\ w[1] = PairOp(c, y + 1) /\ w[2] = PairValue(c, y + 1)
        /\ y < 0 => w[1] \in WPRs
    BY <2>1, PairAtFront
  <2>3. ~(y < 0)
    BY <2>1, <2>2, CommandWords
  <2>4. y >= 0
    BY <2>2, <2>3
  <2> QED BY <2>1, <2>2, <2>4 DEF w, c
<1>2. command[2] = v /\ command[1] = CMD_WT
  BY TwoTaken
<1>3. Waiting[1] # ClearsTo /\ NumParams(Waiting[1]) = 1
  <2>1. ClearsTo \in WPRs
    BY CommandWords, RegisterNumbers DEF ClearsTo, WPRs
  <2> QED BY <2>1, CommandWords
<1> HIDE DEF v
<1>4. CMD_WT \notin WPRs
  BY CommandWords
<1>5. call.fn \in {"write_words", "fill_words"}
  BY <1>1, <1>4, PairOps
<1>6. y >= 2
  <2>1. ~(y + 1 <= 2)
    BY <1>1, <1>4, <1>5, PairOps DEF Accessing
  <2> QED BY <1>1, <2>1
<1> DEFINE n == Count(call)
           a0 == call.addr + (y - 2)
<1>7. /\ call.addr \in Nat /\ n \in Nat /\ Pairs(call) = 2 + n
      /\ \A i \in Nat : i < n => /\ call.addr + i \in Addresses /\ call.addr + i \in Nat
                                 /\ call.addr + i < AddressSpace
                                 /\ call.addr + i \in Buffer!Covered(call)
  BY <1>5, CoveredWords
<1>8. y - 2 \in Nat /\ y - 2 < n
  BY <1>1, <1>6, <1>7
<1>9. Len(got) = 0 /\ Moved(call, t, y, q) = y - 2 /\ Moved(call, t, y + 1, q)' = (y + 1) - 2
  <2>1. Len(got) = 0 /\ Len(got') = 0
    BY <1>5, CommandIs DEF Progress
  <2>2. call' = call
    BY CommandIs
  <2> QED BY <1>1, <1>5, <2>1, <2>2 DEF Moved
<1>10. RWP = a0
  BY <1>5, <1>6, <1>8, <1>9 DEF Effects, Accessing
<1>11. a0 \in Addresses /\ a0 \in Nat /\ a0 \in Buffer!Covered(call)
  BY <1>7, <1>8
<1>12. Buffer!Wanted(call, a0) = v
  <2>1. y + 1 # 1 /\ y + 1 # 2 /\ ~(y + 1 <= 2) /\ a0 - call.addr + 1 = y - 1 /\ (y + 1) - 2 = y - 1
    BY <1>1, <1>6, <1>7
  <2>2. PairValue(call, y + 1) = IF call.fn = "write_words" THEN call.data[(y + 1) - 2] ELSE call.value
    BY <1>5, <2>1 DEF PairValue
  <2> QED BY <1>1, <2>1, <2>2 DEF Buffer!Wanted
<1> HIDE DEF n, a0
<1>13. /\ mem' = [a \in Addresses |-> IF a = RWP THEN command[2] ELSE mem[a]]
       /\ pr' = Advanced /\ rfifo' = rfifo
  BY <1>2, CommandDone DEF WriteWord
<1>14. mem'[a0] = v /\ \A a \in Addresses : a # a0 => mem'[a] = mem[a]
  BY <1>2, <1>10, <1>11, <1>13
<1>15. pr \in [Registers -> Word]
  BY CommandIs
<1>16. Settled' = Settled
  <2>1. pr'[PR_CL0] = pr[PR_CL0]
    BY <1>13, <1>15, PointerOnly
  <2> QED BY <1>3, <2>1, PairKeepsSettled
<1>17. Asked
  <2>1. ASSUME NEW a \in Addresses, mem'[a] # mem[a] PROVE a \in Buffer!Covered(call) /\ mem'[a] = Buffer!Wanted(call, a)
    <3>1. a = a0
      BY <1>14, <2>1
    <3> QED BY <1>11, <1>12, <1>14, <3>1
  <2> QED BY <1>16, <2>1 DEF Asked
<1>18. call' = call /\ got' = got
  BY CommandIs
<1>19. ASSUME NEW i \in 0 .. (y + 1) - 3 PROVE mem'[call.addr + i] = Buffer!Wanted(call, call.addr + i)
  <2>1. CASE i = y - 2
    BY <1>12, <1>14, <2>1 DEF a0
  <2>2. CASE i # y - 2
    <3>1. i \in 0 .. y - 3 /\ i \in Nat /\ i < n /\ call.addr + i # call.addr + (y - 2)
      BY <1>1, <1>7, <1>8, <2>2
    <3>2. mem[call.addr + i] = Buffer!Wanted(call, call.addr + i)
      BY <1>5, <3>1 DEF Effects
    <3>3. call.addr + i \in Addresses
      BY <1>7, <3>1
    <3> QED BY <1>14, <3>1, <3>2, <3>3 DEF a0
  <2> QED BY <2>1, <2>2
<1>20. ASSUME (y + 1) - 2 < n PROVE RWP' = call.addr + ((y + 1) - 2)
  <2>1. (y - 2) + 1 \in Nat /\ (y - 2) + 1 < n /\ a0 + 1 = call.addr + ((y - 2) + 1) /\ a0 + 1 = call.addr + ((y + 1) - 2)
    <3>1. y \in Int /\ y - 2 \in Nat /\ call.addr \in Nat
      BY <1>1, <1>7, <1>8
    <3>2. (y + 1) - 2 = (y - 2) + 1 /\ (y - 2) + 1 \in Nat
      BY <3>1
    <3>3. (call.addr + (y - 2)) + 1 = call.addr + ((y - 2) + 1)
      BY <3>1
    <3> QED BY <1>20, <3>2, <3>3 DEF a0
  <2>2. a0 + 1 < AddressSpace
    BY <1>7, <2>1
  <2>3. RWP' = a0 + 1
    BY <1>10, <1>11, <1>13, <1>15, <2>2, PointerMoves
  <2> QED BY <2>1, <2>3
<1>21. ~(t > q) /\ ~Answered(call, t, q) /\ rfifo = <<>>
  <2>1. ~(t > q)
    BY <1>1
  <2> QED BY <2>1 DEF Answered, Effects
<1>22. y + 1 # 1
  BY <1>1, <1>6
<1>23. Effects(call, s, t, y + 1, q)'
  BY <1>5, <1>9, <1>13, <1>18, <1>19, <1>20, <1>21, <1>22 DEF Effects, Answered, n
<1> QED BY <1>5, <1>17, <1>23

LEMMA ExecutesPair ==
  ASSUME RInv, IInv', Execute, failed = NoCall, call # NoCall, NEW s, NEW t, NEW y, NEW q, Stage(s, t, y, q),
         Written(call, s, t), Good(call), Left(s, y) >= 2, Len(command) = 2, NumParams(Waiting[1]) = 1
  PROVE  RInv' /\ Allowed
<1>1. /\ Progress(call, DoneOps, Len(got), s, t) /\ Queue(call, s, t, y, q, Waiting) /\ Effects(call, s, t, y, q)
      /\ call.fn = "init" /\ DoneOps >= 1 => y >= 0
  BY DEF Stage
<1>2. Queue(call, s, t, y + 1, q, Waiting')
  <2> DEFINE c == call
             w == Waiting
             u == Waiting'
  <2>1. Queue(c, s, t, y, q, w) /\ TwoLess(w, u)
    BY <1>1, TwoTaken
  <2> HIDE DEF c, w, u
  <2>2. Queue(c, s, t, y + 1, q, u)
    BY <2>1, QueuePairTaken
  <2> QED BY <2>2 DEF c, w, u
<1>3. y \in Int
  BY <1>1, Parts
<1>4. call.fn = "init" /\ DoneOps >= 1 => y + 1 >= 0
  BY <1>1, <1>3
<1>5. CASE Waiting[1] = CMD_WT
  <2>1. Within(call)
    BY CallOps
  <2>2. Asked /\ Effects(call, s, t, y + 1, q)'
    BY <1>1, <1>5, <2>1, WordWritten
  <2> QED BY <1>1, <1>2, <1>4, <2>2, ServingWrites
<1>6. CASE Waiting[1] # CMD_WT
  <2>1. Waiting[1] \in WPRs
    <3> DEFINE c == call
               w == Waiting
    <3>1. Queue(c, s, t, y, q, w) /\ Written(c, s, t) /\ Good(c) /\ w[1] # CMD_WT
      BY <1>1, <1>6
    <3> HIDE DEF c, w
    <3>2. /\ y >= 0 => y + 1 \in 1 .. Pairs(c) /\ w[1] = PairOp(c, y + 1)
          /\ y < 0 => w[1] \in WPRs
      BY <3>1, PairAtFront
    <3>3. y >= 0 => w[1] \in WPRs \cup {CMD_WT}
      BY <3>1, <3>2, PairOps
    <3>4. y >= 0 \/ y < 0
      BY <1>3
    <3>5. w[1] \in WPRs
      BY <3>1, <3>2, <3>3, <3>4
    <3> QED BY <3>5 DEF w
  <2>2. command[1] = Waiting[1] /\ command[2] = Waiting[2] /\ pr \in [Registers -> Word]
    BY TwoTaken, CommandIs
  <2>3. WriteParameter
    BY <2>1, <2>2, CommandDone
  <2>4. /\ mem' = mem /\ rfifo' = rfifo
        /\ \A r \in Registers : pr'[r] = IF Waiting[1] = CMD_WPR + r THEN Waiting[2] ELSE pr[r]
        /\ pr'[PR_CL0] = IF Waiting[1] = ClearsTo THEN Waiting[2] ELSE pr[PR_CL0]
    BY <2>1, <2>2, <2>3, RegisterWritten
  <2>5. Settled' = Settled
    BY <2>4, PairKeepsSettled
  <2>6. call' = call /\ got' = got /\ Len(got) \in Nat /\ (call.fn # "read_words" => Len(got) = 0)
    BY <1>1, CommandIs DEF Progress
  <2>7. Effects(call, s, t, y + 1, q)'
    BY <1>1, <2>1, <2>4, <2>6, RegisterEffects
  <2> QED BY <1>1, <1>2, <1>4, <2>4, <2>5, <2>7, ServingOn
<1> QED BY <1>5, <1>6

\* The last command of a call.
LEMMA ExecutesRest ==
  ASSUME RInv, IInv', Execute, failed = NoCall, call # NoCall, NEW s, NEW t, NEW y, NEW q, Stage(s, t, y, q),
         Written(call, s, t), Good(call), NextIs(call, DoneOps, Len(got), s, t, Head(ops)),
         Left(s, y) = 0, q = t, t > 0, t = Len(Rest(call)), Len(command) = t, Len(Waiting) = t,
         Waiting[1] = Rest(call)[1]
  PROVE  RInv' /\ Allowed
<1>1. /\ Progress(call, DoneOps, Len(got), s, t) /\ Queue(call, s, t, y, q, Waiting) /\ Effects(call, s, t, y, q)
      /\ call.fn = "init" /\ DoneOps >= 1 => y >= 0
  BY DEF Stage
<1>2. /\ s \in Nat /\ t \in Nat /\ y \in Int /\ q \in Nat /\ Left(s, y) = s - 2 * y
      /\ s = 2 * Pairs(call) /\ Pairs(call) \in Nat /\ y = Pairs(call)
  <2>1. s \in Nat /\ t \in Nat /\ y \in Int /\ q \in Nat /\ Left(s, y) = s - 2 * y
    BY <1>1, Parts
  <2>2. s = 2 * Pairs(call) /\ Pairs(call) \in Nat
    BY DEF Written
  <2> QED BY <2>1, <2>2
<1>3. /\ \A i \in 1 .. Len(command) : command[i] = Waiting[i]
      /\ command[1] = Waiting[1]
      /\ Len(Waiting') = Len(Waiting) - Len(command)
      /\ call' = call /\ ops' = ops /\ got' = got
      /\ pr \in [Registers -> Word] /\ mem \in [Addresses -> Word]
  BY CommandIs
<1>4. Len(Waiting') = 0
  BY <1>2, <1>3
<1>5. \A i \in 1 .. t : command[i] = Rest(call)[i]
  <2> TAKE i \in 1 .. t
  <2>1. i \in 1 .. q /\ Left(s, y) + i = i
    BY <1>2
  <2>2. Waiting[Left(s, y) + i] = Rest(call)[i]
    BY <1>1, <2>1 DEF Queue
  <2> QED BY <1>3, <2>1, <2>2
<1>6. Queue(call, s, t, y, 0, Waiting')
  <2> DEFINE c == call
             w == Waiting
             u == Waiting'
  <2>1. Queue(c, s, t, y, q, w) /\ t = Len(Rest(c)) /\ Len(u) = 0
    BY <1>1, <1>4
  <2> HIDE DEF c, w, u
  <2>2. Queue(c, s, t, y, 0, u)
    BY <2>1, QueueRestTaken
  <2> QED BY <2>2 DEF c, u
<1>7. NumParams(Waiting[1]) # 1 /\ call.fn \in {"rpr", "read_words", "clear_area", "init"}
  BY RestTaken
<1>8. Settled = pr[PR_CL0] /\ Settled' = pr'[PR_CL0]
  <2> DEFINE w == Waiting
             u == Waiting'
             v == pr[PR_CL0]
             x == pr'[PR_CL0]
  <2>1. Settled = SettledIn(w, v)
    BY SettledIs
  <2>2. Settled' = SettledIn(u, x)
    BY DEF Settled, SettledIn, Writes, WritesIn, ClearsTo
  <2>3. Len(w) \in Nat /\ Len(u) \in Nat /\ Len(u) = 0 /\ NumParams(w[1]) # 1
    BY <1>2, <1>4, <1>7
  <2> HIDE DEF w, u, v, x
  <2>4. SettledIn(w, v) = v /\ SettledIn(u, x) = x
    BY <2>3, SettledNow
  <2> QED BY <2>1, <2>2, <2>4 DEF v, x
<1>9. rfifo = <<>> /\ t > 0 /\ t - 0 = t /\ t - q = 0
  BY <1>1, <1>2 DEF Effects, Answered
<1>10. 1 \in 1 .. t
  BY <1>2
<1>11. CASE call.fn = "rpr"
  <2>1. Rest(call) = <<CMD_RPR + call.reg>> /\ call.reg \in 0 .. 31
    <3>1. Rest(call) = <<CMD_RPR + call.reg>>
      BY ONLY <1>11 DEF Rest
    <3>2. call.reg \in 0 .. 31
      BY <1>11, Arguments, Zenon
    <3> QED BY ONLY <3>1, <3>2
  <2>2. command[1] = CMD_RPR + call.reg
    BY <1>5, <1>10, <2>1
  <2>3. command[1] \in RPRs /\ command[1] - CMD_RPR = call.reg
    <3>1. CMD_RPR \in Nat
      BY CommandWords
    <3>2. \A r \in 0 .. 31 : CMD_RPR + r \in RPRs /\ (CMD_RPR + r) - CMD_RPR = r
      BY ONLY <3>1 DEF RPRs
    <3> QED BY ONLY <2>1, <2>2, <3>2
  <2>4. ReadParameter
    BY <2>3, CommandDone
  <2>5. /\ pr' = pr /\ mem' = mem
        /\ rfifo' = Append(rfifo, IF call.reg \in Registers THEN pr[call.reg] ELSE 0)
    BY <2>3, <2>4 DEF ReadParameter
  <2>6. Len(rfifo') = 1 /\ (call.reg = PR_CL0 => rfifo'[1] = pr[PR_CL0])
    <3>1. PR_CL0 \in Registers
      BY RegisterNumbers
    <3> QED BY <1>9, <2>5, <3>1
  <2>7. Effects(call, s, t, y, 0)'
    BY <1>3, <1>9, <1>11, <2>5, <2>6 DEF Effects, Answered, Accessing
  <2> QED BY <1>1, <1>6, <1>8, <2>5, <2>7, ServingOn
<1>12. CASE call.fn = "read_words"
  <2>1. Rest(call) = <<CMD_RD>> /\ Pairs(call) = 2
    BY <1>12 DEF Rest, Pairs
  <2>2. command[1] = CMD_RD /\ y = 2 /\ t = 1
    BY <1>2, <1>5, <1>10, <2>1
  <2> DEFINE g == Len(got)
  <2>3. ReadWord
    BY <2>2, CommandDone
  <2>4. g < call.count
    <3>1. ~Leads(call, DoneOps, g, s, t, Head(ops)) /\ ~Idles(call, DoneOps, g, s, t, Head(ops))
      BY <1>12 DEF Leads, Idles
    <3>2. ~PutsPair(call, DoneOps, g, s, t, Head(ops)) /\ ~PutsRest(call, DoneOps, g, s, t, Head(ops))
      BY <1>2 DEF PutsPair, PutsRest
    <3> QED BY <1>12, <3>1, <3>2 DEF NextIs, Gets
  <2>5. Within(call) /\ g \in Nat
    BY <1>1, CallOps DEF Progress
  <2>6. Count(call) = call.count
    BY <1>12 DEF Count
  <2>7. \A i \in Nat : i < call.count => call.addr + i \in Addresses /\ call.addr + i \in Nat /\ call.addr + i < AddressSpace
    BY <1>12, <2>5, <2>6, CoveredWords
  <2>8. call.addr \in Nat /\ call.count \in Nat
    BY <1>12, Arguments DEF Accessing
  <2>9. RWP = call.addr + g
    <3>1. Moved(call, t, y, q) = g
      BY <1>9, <1>12, <2>2, <2>5 DEF Moved
    <3> QED BY <1>1, <1>12, <2>2, <2>4, <2>6, <3>1 DEF Effects, Accessing
  <2>10. call.addr + g \in Addresses /\ call.addr + g \in Nat
    BY <2>4, <2>5, <2>7
  <2>11. pr' = Advanced /\ mem' = mem /\ rfifo' = Append(rfifo, mem[call.addr + g])
    BY <2>3, <2>9, <2>10 DEF ReadWord
  <2>12. Len(rfifo') = 1 /\ rfifo'[1] = mem[call.addr + g]
    BY <1>9, <2>11
  <2>13. pr'[PR_CL0] = pr[PR_CL0]
    BY <1>3, <2>11, PointerOnly
  <2>14. ASSUME g + 1 < call.count PROVE RWP' = call.addr + (g + 1)
    <3>1. call.addr + (g + 1) < AddressSpace /\ (call.addr + g) + 1 = call.addr + (g + 1)
      <4>1. g + 1 \in Nat /\ (call.addr + g) + 1 = call.addr + (g + 1)
        <5> HIDE DEF g
        <5> QED BY ONLY <2>5, <2>8
      <4> QED BY ONLY <2>7, <2>14, <4>1
    <3>2. (call.addr + g) + 1 < AddressSpace
      BY <3>1
    <3>3. RWP' = (call.addr + g) + 1
      BY <1>3, <2>9, <2>10, <2>11, <3>2, PointerMoves
    <3> QED BY <3>1, <3>3
  <2>15. Moved(call, t, y, 0)' = g + 1
    BY <1>3, <1>9, <1>12, <2>2, <2>5 DEF Moved
  <2>16. \A i \in 1 .. g : got[i] = mem[call.addr + i - 1]
    BY <1>1, <1>12 DEF Effects
  <2>17. Count(call') = call.count
    BY <1>3, <2>6
  <2>18. Effects(call, s, t, y, 0)'
    BY <1>3, <1>9, <1>12, <2>2, <2>11, <2>12, <2>14, <2>15, <2>16, <2>17 DEF Effects, Answered
  <2> QED BY <1>1, <1>6, <1>8, <2>11, <2>13, <2>18, ServingOn
<1>13. CASE call.fn = "clear_area"
  <2> DEFINE dy == (65536 - (call.lines - 1)) % 65536
  <2>1. Rest(call) = <<CMD_CLR, call.value, call.words - 1, dy>> /\ Pairs(call) = 2
    BY <1>13 DEF Rest, Pairs
  <2> HIDE DEF dy
  <2>2. /\ command[1] = CMD_CLR /\ command[2] = call.value /\ command[3] = call.words - 1 /\ command[4] = dy
        /\ y = 2 /\ t = 4
    <3>1. t = 4 /\ y = 2
      BY <1>2, <2>1
    <3>2. 2 \in 1 .. t /\ 3 \in 1 .. t /\ 4 \in 1 .. t
      BY <3>1
    <3> QED BY <1>5, <1>10, <2>1, <3>1, <3>2
  <2>3. ClearArea
    BY <2>2, CommandDone
  <2>4. Len(got) = 0 /\ Within(call)
    BY <1>1, <1>13, CallOps DEF Progress
  <2>5. RWP = call.addr
    <3>1. Moved(call, t, y, q) = 0 /\ Count(call) = 1
      BY <1>9, <1>13, <2>2, <2>4 DEF Moved, Count
    <3>2. call.addr \in Nat
      BY <1>13, Arguments DEF Accessing
    <3> QED BY <1>1, <1>13, <2>2, <3>1, <3>2 DEF Effects, Accessing
  <2>6. Rectangle(call.words - 1, dy) = Buffer!Covered(call)
    <3>1. Rectangle(call.words - 1, dy) = Buffer!Covered(call) \cap Addresses
      BY <1>13, <2>5, RectangleIs DEF dy
    <3> QED BY <2>4, <3>1 DEF Within
  <2>7. /\ pr' = pr /\ rfifo' = rfifo
        /\ mem' = [a \in Addresses |-> IF a \in Buffer!Covered(call) THEN call.value ELSE mem[a]]
    BY <2>2, <2>3, <2>6 DEF ClearArea
  <2>8. \A a : Buffer!Wanted(call, a) = call.value
    BY <1>13 DEF Buffer!Wanted
  <2>9. \A a \in Buffer!Covered(call) : mem'[a] = call.value
    BY <2>4, <2>7 DEF Within
  <2>10. Asked
    <3>1. \A a \in Addresses : mem'[a] # mem[a] => a \in Buffer!Covered(call) /\ mem'[a] = Buffer!Wanted(call, a)
      BY <2>7, <2>8
    <3> QED BY <1>8, <2>7, <3>1 DEF Asked
  <2>11. RWP' = RWP
    BY <2>7 DEF RWP
  <2>12. Moved(call, t, y, 0)' = 0 /\ call.addr + 0 = call.addr
    <3>1. call.addr \in Nat
      BY <1>13, Arguments DEF Accessing
    <3> QED BY <1>3, <1>13, <2>2, <2>4, <3>1 DEF Moved
  <2>13. \A a \in Buffer!Covered(call') : mem'[a] = call'.value
    BY <1>3, <2>9
  <2>14. Buffer!Covered(call)' = Buffer!Covered(call)
    BY <1>3 DEF Buffer!Covered
  <2>15. Effects(call, s, t, y, 0)'
    BY <1>3, <1>9, <1>13, <2>2, <2>5, <2>7, <2>9, <2>11, <2>12, <2>14 DEF Effects, Answered
  <2> QED BY <1>1, <1>6, <2>10, <2>15, ServingWrites
<1>14. CASE call.fn = "init"
  <2>1. Rest(call)[1] = CMD_ORG
    BY <1>14 DEF Rest
  <2>2. command[1] = CMD_ORG
    BY <1>5, <1>10, <2>1
  <2>3. pr' = pr /\ mem' = mem /\ rfifo' = rfifo
    BY <2>2, CommandDone DEF SetOrigin
  <2>4. Effects(call, s, t, y, 0)'
    BY <1>1, <1>3, <1>9, <1>14, <2>3 DEF Effects, Answered, Accessing
  <2> QED BY <1>1, <1>6, <1>8, <2>3, <2>4, ServingOn
<1> QED BY <1>7, <1>11, <1>12, <1>13, <1>14

LEMMA ExecuteRefines == ASSUME RInv, IInv', Execute PROVE RInv' /\ Allowed
<1>1. call' = call /\ ops' = ops /\ got' = got /\ failed' = failed
  BY CommandIs
<1>2. CASE failed # NoCall
  BY <1>1, <1>2, SameContent, Lost
<1>3. CASE failed = NoCall /\ call = NoCall
  BY <1>3, ExecutesLeft
<1>4. CASE failed = NoCall /\ call # NoCall
  <2>1. PICK s, t, y, q : /\ Stage(s, t, y, q) /\ Queue(call, s, t, y, q, Waiting) /\ Written(call, s, t)
                          /\ Good(call) /\ NextIs(call, DoneOps, Len(got), s, t, Head(ops))
    BY <1>4, StageIs
  <2> DEFINE c == call
             w == Waiting
             m == Len(command)
  <2>2. /\ m \in Nat /\ m > 0 /\ m = 1 + NumParams(w[1]) /\ m <= Len(w)
    BY CommandIs
  <2>3. Queue(c, s, t, y, q, w) /\ Written(c, s, t) /\ Good(c)
    BY <2>1
  <2> HIDE DEF c, w, m
  <2>4. \/ m = 2 /\ Left(s, y) >= 2 /\ NumParams(w[1]) = 1
        \/ Left(s, y) = 0 /\ q = t /\ t > 0 /\ t = Len(Rest(c)) /\ m = t /\ Len(w) = t /\ w[1] = Rest(c)[1]
    BY <2>2, <2>3, QueueComplete
  <2>5. CASE m = 2 /\ Left(s, y) >= 2 /\ NumParams(w[1]) = 1
    BY <1>4, <2>1, <2>5, ExecutesPair DEF c, w, m
  <2>6. CASE Left(s, y) = 0 /\ q = t /\ t > 0 /\ t = Len(Rest(c)) /\ m = t /\ Len(w) = t /\ w[1] = Rest(c)[1]
    BY <1>4, <2>1, <2>6, ExecutesRest DEF c, w, m
  <2> QED BY <2>4, <2>5, <2>6
<1> QED BY <1>2, <1>3, <1>4

-----------------------------------------------------------------------------

LEMMA InitRefines == ASSUME Init, IInv PROVE RInv /\ Buffer!Init
<1> DEFINE c == [fn |-> "init"]
<1>1. /\ call = c /\ ops = hd63484_init /\ got = <<>> /\ failed = NoCall /\ cer = FALSE /\ rfifo = <<>>
      /\ command = <<>> /\ wfifo = <<>> /\ pr = [r \in Registers |-> 0] /\ mem = [a \in Addresses |-> 0]
  BY DEF Init
<1>2. c \in Callable /\ c # NoCall
  BY InitCallable
<1>3. ~BadParameter(c) /\ c.fn = "init"
  BY DEF BadParameter
<1>4. Good(c) /\ Within(c)
  BY <1>2, <1>3 DEF Good, Within, Buffer!Covered
<1>5. Program(c) = hd63484_init /\ Len(hd63484_init) = 19
  BY InitProgram DEF Program
<1>6. Program(call) = ops /\ Len(ops) = 19 /\ DoneOps = 0
  BY <1>1, <1>5 DEF DoneOps
<1>7. Content
  <2>1. Known(call)
    BY <1>1, <1>4 DEF Known
  <2>2. Len(Program(call)) \in Nat /\ Len(ops) \in 1 .. Len(Program(call))
    BY <1>6
  <2>3. \A i \in 1 .. Len(ops) : ops[i] = Program(call)[DoneOps + i]
    <3>1. \A i \in 1 .. 19 : 0 + i = i
      OBVIOUS
    <3> QED BY <1>6, <3>1
  <2>4. got = <<>>
    BY <1>1
  <2> QED BY <2>1, <2>2, <2>3, <2>4 DEF Content
<1>8. Waiting = <<>>
  BY <1>1 DEF Waiting
<1>9. Queue(call, 0, 0, 0, 0, Waiting)
  <2>1. \A k \in 1 .. 0 : FALSE
    OBVIOUS
  <2>2. Left(0, 0) = 0
    BY DEF Left
  <2> QED BY <1>8, <2>1, <2>2 DEF Queue
<1>10. Progress(call, 0, 0, 0, 0)
  BY <1>1, <1>4, Amounts DEF Progress
<1>11. Effects(call, 0, 0, 0, 0)
  <2>1. ~Answered(call, 0, 0)
    BY DEF Answered
  <2> QED BY <1>1, <1>3, <2>1 DEF Effects, Answered, Accessing
<1>12. Stage(0, 0, 0, 0)
  <2>1. Len(got) = 0
    BY <1>1
  <2> QED BY <1>6, <1>9, <1>10, <1>11, <2>1 DEF Stage
<1>13. RInv
  <2>1. got \in Seq(Word)
    BY <1>1
  <2> QED BY <1>1, <1>2, <1>7, <1>12, <2>1 DEF RInv, Mirror
<1>14. Settled = 0
  <2> DEFINE w == Waiting
             v == pr[PR_CL0]
  <2>1. Len(w) = 0 /\ Len(w) \in Nat
    BY <1>8
  <2>2. v = 0
    BY <1>1, RegisterNumbers
  <2> HIDE DEF w, v
  <2>3. SettledIn(w, v) = v
    BY <2>1, SettledNow
  <2> QED BY <2>2, <2>3, SettledIs DEF w, v
<1>15. Buffer!Init
  BY <1>1, <1>14 DEF Buffer!Init
<1> QED BY <1>13, <1>15

LEMMA NextRefines == ASSUME RInv, IInv', [Next]_vars PROVE RInv' /\ Allowed
<1>1. ASSUME NEW c \in Calls, Call(c) PROVE RInv' /\ Allowed
  BY <1>1, CallRefines
<1>2. CASE Execution
  <2>1. CASE wait_sr("put", WFR) \/ wait_sr("get", RFR)
    BY <2>1, WaitRefines
  <2> QED BY <1>2, <2>1, WriteRefines, ReadRefines, IdleRefines, CcrRefines, OmrRefines, CheckRefines DEF Execution
<1>3. CASE TakeWord
  BY <1>3, TakeWordRefines
<1>4. CASE Execute
  BY <1>4, ExecuteRefines
<1>5. CASE UNCHANGED vars
  BY <1>5, StutterRefines
<1> QED BY <1>1, <1>2, <1>3, <1>4, <1>5 DEF Next

\* A call that returns OK has done what it says and nothing else, a register reads back what was
\* written last, a parameter error changes nothing, and after a failure aborting the chip makes all
\* of this true again, whatever the sizes of the FIFOs and of the frame buffer, however often the
\* status is polled and whenever the chip takes its words.
THEOREM FrameRefined == Spec => Refines
<1>1. Init => RInv /\ Buffer!Init
  BY InitIInv, InitRefines
<1>2. RInv /\ [Next]_vars => RInv' /\ [Buffer!Next]_(Buffer!vars)
  <2> SUFFICES ASSUME RInv, [Next]_vars PROVE RInv' /\ [Buffer!Next]_(Buffer!vars)
    OBVIOUS
  <2>1. IInv'
    BY NextKeeps DEF RInv
  <2>2. RInv' /\ Allowed
    BY <2>1, NextRefines
  <2> QED BY <2>2 DEF Allowed
<1> QED BY <1>1, <1>2, PTL DEF Spec, Refines, Buffer!Spec
=============================================================================
