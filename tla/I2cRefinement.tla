--------------------------- MODULE I2cRefinement ---------------------------
(***************************************************************************)
(* The clock on the I2C bus is a file of registers: I2c implements         *)
(* ClockRegisters, whatever the width of a byte, the calls, the devices    *)
(* and what they answer.                                                   *)
(*                                                                         *)
(* The refinement mapping is in I2c: a request is being served while the   *)
(* call is, and what the bus adds is all stuttering but two steps, the     *)
(* falling edge at which the clock acknowledges a data byte (Store) and    *)
(* the one at which the device called first fails to answer (Fault).  That *)
(* those two are the right steps, and that the answer is the right one at  *)
(* the end, takes an invariant that follows a byte over the wire.  RInv    *)
(* says what the devices have heard of the byte being sent after each      *)
(* pulse of the clock (HeardRight, with the numbers of I2cFraming), who is *)
(* still listening (OthersOut), that the master's view of the              *)
(* acknowledgement is the devices' (FaultKnown), and where the clock's     *)
(* pointer, the data stored and the data read stand (StoredRight,          *)
(* PointerRight, SentRight, ReadRight).  It rests on the invariant of      *)
(* I2cFraming, FInv, for where in a byte every access of i2c.c finds the   *)
(* devices.                                                                *)
(*                                                                         *)
(* A step on the bus does one of five things to it (Edge): nothing the     *)
(* devices react to, a rising or a falling clock, a start, a stop.  Each   *)
(* part of RInv is shown to survive each of them; then each way the driver *)
(* goes on between two routines.                                           *)
(***************************************************************************)
EXTENDS I2cFraming

-----------------------------------------------------------------------------
(* The invariant.                                                          *)

\* The first k bits of b.
Part(b, k) == b \div Pow2[W - k]

\* What a device has of a byte b after k pulses; at first, nothing.
Upto(b, k) == IF k = 0 THEN 0 ELSE Part(b, IF k <= W THEN k ELSE W)

Called == slave[call.dev]
Rtc == slave[Clock]

\* The device called is being spoken to, or speaks itself.
Sending == routine \in {"write0", "write1", "ack"} \/ (routine = "i2c_start" /\ at >= 6)
Connected == Sending \/ routine \in {"listen", "read", "more"}

Ranges ==
  /\ regs \in [0 .. NREG - 1 -> Byte] /\ stored \in Nat /\ refused \in BOOLEAN

\* Every device that listens has heard the bits sent so far.
HeardRight ==
  Sending => \A d \in Devices : slave[d].mode \in Hearing => slave[d].byte = Upto(byte, slave[d].n)

\* The others drop out with the address, if they have not before.
OthersOut ==
  Connected \/ routine = "last" =>
    \A d \in Devices \ {call.dev} :
      slave[d].mode = "off" \/ (slave[d].mode = "address" /\ slave[d].n <= W)

\* The device called is off when it has failed to answer, and only then.
FaultKnown ==
  /\ routine = "none" \/ (routine = "i2c_start" /\ at <= 5) \/ stage = "read" => ~refused
  /\ Connected \/ stage = "restart" => (refused <=> Called.mode = "off")
  /\ routine = "ack" /\ at >= 7 => (nack <=> refused)

\* What is sent is what the stage asks for.
BytesRight ==
  routine \in {"write0", "write1", "ack"} =>
    /\ byte \in Byte
    /\ stage \in {"address", "read_address"} => byte \div 2 = Address[call.dev]
    /\ stage = "register" => byte = call.reg
    /\ stage = "data" => done \in 1 .. Len(call.data) /\ byte = call.data[done]

ResultsRight ==
  /\ stage \in {"register", "data"} => call.fn # "i2c_probe"
  /\ stage = "data" => call.fn # "ds1307_read"
  /\ stage \notin {"idle", "stop"} => ret = Count(call)
  /\ stage \notin {"idle", "stop", "read"} => buf = <<>>

\* The address is followed by the register's number, that by data.
ModesRight ==
  routine \in {"write0", "write1", "ack"} =>
    \A d \in Devices :
      LET s == slave[d] IN
      /\ stage = "address" => s.mode # "store"
      /\ stage = "register" => IF routine = "ack" /\ s.n = 0 THEN s.mode # "pointer" ELSE s.mode # "store"
      /\ stage = "data" => s.mode # "pointer"

\* The clock has stored the bytes it has acknowledged.
StoredRight ==
  /\ stage \notin {"data", "stop"} \/ call.dev # Clock => stored = 0
  /\ stage = "data" /\ call.dev = Clock /\ Rtc.mode # "off" =>
       stored = IF routine = "ack" /\ Rtc.n # W THEN done ELSE done - 1

\* And its pointer is where the next byte goes, or comes from.
PointerRight ==
  call.dev = Clock =>
    /\ (stage \notin {"idle", "stop"} /\ Rtc.mode = "store")
          \/ (stage = "register" /\ Rtc.mode = "pointer" /\ Rtc.n > W)
          \/ (stage \in {"restart", "read_address"} /\ Rtc.mode # "off") =>
         Rtc.ptr = (call.reg + stored) % NREG
    /\ stage = "read" /\ Rtc.mode = "send" =>
         Rtc.ptr = call.reg + done + (IF routine = "more" /\ Rtc.n = 0 THEN 1 ELSE 0)

\* The clock holds SDA for the zero bits of the register it sends.
SentRight ==
  Rtc.mode = "send" =>
    /\ Scl /\ Rtc.n \in 1 .. W => (Rtc.sda <=> BitOf(regs[Rtc.ptr], Rtc.n - 1) = 0)
    /\ ~Scl /\ Rtc.n < W => (Rtc.sda <=> BitOf(regs[Rtc.ptr], Rtc.n) = 0)

\* While it does, port C leaves SDA alone.
DataFree == routine = "read" \/ (routine = "listen" /\ at = 2) => ~ddr.SDA

\* What has been read is what the registers hold.
ReadRight ==
  stage = "read" =>
    /\ buf = [i \in 1 .. done |-> regs[call.reg + i - 1]]
    /\ routine = "listen" => byte = 0
    /\ routine = "read" => byte = Part(regs[call.reg + done], IF at = 6 THEN bit ELSE bit - 1)
    /\ routine \in {"more", "last"} => byte = regs[call.reg + done]

\* The answer is settled when the stop is sent.
Answered ==
  stage = "stop" =>
    \/ <<ret, buf>> \in Registers!Answers(Asked(call))
    \/ refused /\ stored = 0 /\ <<ret, buf>> = <<-1, <<>>>>

RInv ==
  /\ Ranges /\ HeardRight /\ OthersOut /\ FaultKnown /\ BytesRight /\ ResultsRight
  /\ ModesRight /\ StoredRight /\ PointerRight /\ SentRight /\ DataFree /\ ReadRight /\ Answered

-----------------------------------------------------------------------------
(* What a device has after an edge, field by field; its hold of the clock  *)
(* is left out.                                                            *)

KeepOf(s, t) == t.mode = s.mode /\ t.n = s.n /\ t.byte = s.byte /\ t.ptr = s.ptr /\ t.sda = s.sda

SendsNext(s, t, r, p, k) ==
  t.mode = "send" /\ t.ptr = p /\ t.n = k /\ (t.sda <=> BitOf(r[p], k) = 0)

FallOf(d, s, t, r, f) ==
  /\ s.mode = "off" => t.mode = "off"
  /\ s.mode = "send" /\ s.n < W => SendsNext(s, t, r, s.ptr, s.n)
  /\ s.mode = "send" /\ s.n = W => t.mode = "send" /\ t.n = W /\ t.ptr = s.ptr
  /\ s.mode = "send" /\ s.n > W => SendsNext(s, t, r, After(s.ptr), 0)
  /\ s.mode \in Hearing /\ s.n < W => KeepOf(s, t)
  /\ s.mode \in Hearing /\ s.n = W /\ ~Takes(d, s, f) => t.mode = "off" /\ t.n = W
  /\ s.mode \in Hearing /\ s.n = W /\ Takes(d, s, f) =>
       /\ t.mode = s.mode /\ t.n = W + 1 /\ t.byte = s.byte
       /\ s.mode = "pointer" => t.ptr = s.byte % NREG
       /\ s.mode = "store" => t.ptr = After(s.ptr)
       /\ s.mode = "address" => t.ptr = s.ptr
  /\ s.mode \in Hearing /\ s.n > W /\ IsToSend(s) => SendsNext(s, t, r, s.ptr, 0)
  /\ s.mode \in Hearing /\ s.n > W /\ ~IsToSend(s) =>
       /\ t.mode = (IF s.mode = "address" THEN "pointer" ELSE "store")
       /\ t.n = 0 /\ t.byte = 0 /\ t.ptr = s.ptr

RiseOf(s, t, h) ==
  /\ s.mode = "off" \/ s.n > W => KeepOf(s, t)
  /\ s.mode = "send" /\ s.n < W => t.mode = "send" /\ t.n = s.n + 1 /\ t.ptr = s.ptr /\ t.sda = s.sda
  /\ s.mode = "send" /\ s.n = W => IF h THEN t.mode = "off" ELSE t.mode = "send" /\ t.n = W + 1 /\ t.ptr = s.ptr
  /\ s.mode \in Hearing /\ s.n < W =>
       t.mode = s.mode /\ t.n = s.n + 1 /\ t.ptr = s.ptr /\ t.byte = 2 * s.byte + (IF h THEN 1 ELSE 0)
  /\ s.mode \in Hearing /\ s.n = W => KeepOf(s, t)

LEMMA FallsExactly ==
  ASSUME NEW d, NEW s \in Slave, NEW r, NEW f \in BOOLEAN, NEW g \in BOOLEAN
  PROVE  FallOf(d, s, Falls(d, s, r, f, g), r, f)
<1> DEFINE t == Falls(d, s, r, f, g)
           u == [s EXCEPT !.scl = g /\ s.mode # "off"]
           Out(p, k) == [u EXCEPT !.mode = "send", !.ptr = p, !.n = k, !.sda = BitOf(r[p], k) = 0]
<1>1. W \in Nat /\ W >= 1 /\ s.n \in Nat /\ s.mode \in Modes
  BY WidthPositive DEF Slave
<1>2. s.mode = "off" => t.mode = "off"
  BY <1>1 DEF Slave, Falls, Hearing
<1>0. ASSUME NEW p, NEW k PROVE SendsNext(s, Out(p, k), r, p, k)
  BY DEF Slave, SendsNext
<1>3. s.mode = "send" /\ s.n < W => SendsNext(s, t, r, s.ptr, s.n)
  <2>1. s.mode = "send" /\ s.n < W => t = Out(s.ptr, s.n)
    BY <1>1 DEF Falls, Hearing
  <2> HIDE DEF t, Out
  <2> QED BY <1>0, <2>1
<1>4. s.mode = "send" /\ s.n = W => t.mode = "send" /\ t.n = W /\ t.ptr = s.ptr
  BY <1>1 DEF Slave, Falls, Hearing
<1>5. s.mode = "send" /\ s.n > W => SendsNext(s, t, r, After(s.ptr), 0)
  <2>1. s.mode = "send" /\ s.n > W => t = Out(After(s.ptr), 0)
    BY <1>1 DEF Falls, Hearing
  <2> HIDE DEF t, Out
  <2> QED BY <1>0, <2>1
<1>6. s.mode \in Hearing /\ s.n < W => KeepOf(s, t)
  <2>1. s.mode \in Hearing /\ s.n < W => t = u
    BY <1>1 DEF Falls, Hearing
  <2>2. KeepOf(s, u)
    BY DEF Slave, KeepOf
  <2> HIDE DEF t, u
  <2> QED BY <2>1, <2>2
<1>7. s.mode \in Hearing /\ s.n = W /\ ~Takes(d, s, f) => t.mode = "off" /\ t.n = W
  BY <1>1 DEF Slave, Falls, Hearing
<1>8. s.mode \in Hearing /\ s.n = W /\ Takes(d, s, f) =>
       /\ t.mode = s.mode /\ t.n = W + 1 /\ t.byte = s.byte
       /\ s.mode = "pointer" => t.ptr = s.byte % NREG
       /\ s.mode = "store" => t.ptr = After(s.ptr)
       /\ s.mode = "address" => t.ptr = s.ptr
  BY <1>1 DEF Slave, Falls, Hearing
<1>9. s.mode \in Hearing /\ s.n > W /\ IsToSend(s) => SendsNext(s, t, r, s.ptr, 0)
  <2>1. s.mode \in Hearing /\ s.n > W /\ IsToSend(s) => t = Out(s.ptr, 0)
    BY <1>1 DEF Falls, Hearing
  <2> HIDE DEF t, Out
  <2> QED BY <1>0, <2>1
<1>10. s.mode \in Hearing /\ s.n > W /\ ~IsToSend(s) =>
       /\ t.mode = (IF s.mode = "address" THEN "pointer" ELSE "store")
       /\ t.n = 0 /\ t.byte = 0 /\ t.ptr = s.ptr
  BY <1>1 DEF Slave, Falls, Hearing
<1> HIDE DEF t
<1> QED BY <1>2, <1>3, <1>4, <1>5, <1>6, <1>7, <1>8, <1>9, <1>10 DEF FallOf, t

LEMMA RisesExactly ==
  ASSUME NEW s \in Slave, NEW h \in BOOLEAN
  PROVE  RiseOf(s, Rises(s, h), h)
<1> DEFINE t == Rises(s, h)
<1>1. W \in Nat /\ W >= 1 /\ s.n \in Nat /\ s.mode \in Modes
  BY WidthPositive DEF Slave
<1>2. s.mode = "off" \/ s.n > W => KeepOf(s, t)
  <2>1. s.mode = "off" \/ s.n > W => t = s
    BY <1>1 DEF Rises, Hearing
  <2> HIDE DEF t
  <2> QED BY <2>1 DEF KeepOf
<1>3. s.mode = "send" /\ s.n < W => t.mode = "send" /\ t.n = s.n + 1 /\ t.ptr = s.ptr /\ t.sda = s.sda
  BY <1>1 DEF Slave, Rises, Hearing
<1>4. s.mode = "send" /\ s.n = W => IF h THEN t.mode = "off" ELSE t.mode = "send" /\ t.n = W + 1 /\ t.ptr = s.ptr
  BY <1>1 DEF Slave, Rises, Hearing
<1>5. s.mode \in Hearing /\ s.n < W =>
       t.mode = s.mode /\ t.n = s.n + 1 /\ t.ptr = s.ptr /\ t.byte = 2 * s.byte + (IF h THEN 1 ELSE 0)
  BY <1>1 DEF Slave, Rises, Hearing
<1>6. s.mode \in Hearing /\ s.n = W => KeepOf(s, t)
  BY <1>1 DEF Slave, Rises, Hearing, KeepOf
<1> HIDE DEF t
<1> QED BY <1>2, <1>3, <1>4, <1>5, <1>6 DEF RiseOf, t

-----------------------------------------------------------------------------
(* The edges, as all devices take them.                                    *)

Rest == UNCHANGED <<regs, stored, refused>>

ForgetsTo(s, t) == t = [s EXCEPT !.mode = "off", !.sda = FALSE]
StartsTo(s, t) == t = [s EXCEPT !.mode = "address", !.n = 0, !.byte = 0, !.sda = FALSE]

\* The device called would have taken the byte, had it answered.
WouldTake == Called.mode \in Hearing /\ Called.n = W /\ Takes(call.dev, Called, FALSE)

Stores ==
  /\ regs' = IF StoresIn(Rtc, Rtc') THEN [regs EXCEPT ![Rtc.ptr] = Rtc.byte] ELSE regs
  /\ stored' = IF StoresIn(Rtc, Rtc') THEN stored + 1 ELSE stored

Stilled == slave' = slave /\ Rest
Risen == slave' = [d \in Devices |-> Rises(slave[d], Sda)] /\ Rest
Stopped == (\A d \in Devices : ForgetsTo(slave[d], slave'[d])) /\ Rest
Fallen(f) ==
  /\ \A d \in Devices : FallOf(d, slave[d], slave'[d], regs, f /\ d = call.dev)
  /\ Stores
  /\ refused' = (refused \/ (f /\ WouldTake))
Begun(f) ==
  /\ \A d \in Devices :
       IF f /\ d = call.dev THEN ForgetsTo(slave[d], slave'[d]) ELSE StartsTo(slave[d], slave'[d])
  /\ UNCHANGED <<regs, stored>>
  /\ refused' = (refused \/ f)

LEMMA ReactsAre ==
  ASSUME NEW d, NEW s, NEW r, NEW a \in BOOLEAN, NEW b \in BOOLEAN, NEW was, NEW now,
         was.SCL \in BOOLEAN, was.SDA \in BOOLEAN, now.SCL \in BOOLEAN, now.SDA \in BOOLEAN
  PROVE  LET t == Reacts(d, s, was, now, r, a, b) IN
         /\ (was.SCL <=> now.SCL) /\ ((was.SDA <=> now.SDA) \/ ~was.SCL) => t = s
         /\ was.SCL /\ ~now.SCL => t = Falls(d, s, r, a, b)
         /\ ~was.SCL /\ now.SCL => t = Rises(s, now.SDA)
         /\ was.SCL /\ now.SCL /\ was.SDA /\ ~now.SDA =>
              IF a THEN ForgetsTo(s, t) ELSE StartsTo(s, t)
         /\ was.SCL /\ now.SCL /\ ~was.SDA /\ now.SDA => ForgetsTo(s, t)
BY DEF Reacts, ForgetsTo, StartsTo

LEMMA Forgets ==
  ASSUME NEW s \in Slave, NEW t
  PROVE  /\ ForgetsTo(s, t) => t.mode = "off" /\ t.n = s.n /\ t.ptr = s.ptr
         /\ StartsTo(s, t) => t.mode = "address" /\ t.n = 0 /\ t.byte = 0 /\ t.ptr = s.ptr
BY DEF Slave, ForgetsTo, StartsTo

\* Refusing makes a difference only where the byte would have been taken.
LEMMA Refusing ==
  ASSUME NEW d, NEW s \in Slave, NEW r, NEW g \in BOOLEAN
  PROVE  Falls(d, s, r, TRUE, g) # Falls(d, s, r, FALSE, g) <=>
           s.mode \in Hearing /\ s.n = W /\ Takes(d, s, FALSE)
<1>1. W \in Nat /\ W >= 1 /\ s.n \in Nat
  BY WidthPositive DEF Slave
<1>2. CASE s.mode \in Hearing /\ s.n = W /\ Takes(d, s, FALSE)
  <2>1. ~Takes(d, s, TRUE)
    BY DEF Takes
  <2>2. Falls(d, s, r, TRUE, g).mode = "off" /\ Falls(d, s, r, FALSE, g).mode = s.mode
    <3>1. FallOf(d, s, Falls(d, s, r, TRUE, g), r, TRUE) /\ FallOf(d, s, Falls(d, s, r, FALSE, g), r, FALSE)
      BY FallsExactly
    <3> QED BY <1>2, <2>1, <3>1 DEF FallOf
  <2> QED BY <1>2, <2>2 DEF Hearing
<1>3. CASE s.mode \in Hearing /\ s.n = W /\ ~Takes(d, s, FALSE)
  <2>1. ~Takes(d, s, TRUE)
    BY DEF Takes
  <2> QED BY <1>1, <1>3, <2>1 DEF Falls, Hearing
<1>4. CASE ~(s.mode \in Hearing /\ s.n = W)
  BY <1>1, <1>4 DEF Falls
<1> QED BY <1>2, <1>3, <1>4

LEMMA Exactly ==
  ASSUME PortTyped, PortTyped', SlavesTyped, call.dev \in Devices, Ranges,
         NEW f \in BOOLEAN, NEW g \in BOOLEAN, DevicesSee(ddr', latch', f, g)
  PROVE  /\ (SclThen <=> Scl) /\ ((SdaThen <=> Sda) \/ ~Scl) => Stilled
         /\ Scl /\ ~SclThen => Fallen(f)
         /\ ~Scl /\ SclThen /\ (SdaThen <=> Sda) => Risen
         /\ Scl /\ SclThen /\ Sda /\ ~SdaThen => Begun(f)
         /\ Scl /\ SclThen /\ ~Sda /\ SdaThen => Stopped
<1> DEFINE was == [l \in Lines |-> Level(l, ddr, latch, slave)]
           now == [l \in Lines |-> Level(l, ddr', latch', slave)]
           R(v, r) == Reacts(v, slave[v], was, now, regs, r /\ v = call.dev, g /\ v = call.dev)
           c == call.dev
<1>1. /\ slave' = [v \in Devices |-> R(v, f)] /\ Stores
      /\ refused' = (refused \/ [v \in Devices |-> R(v, f)] # [v \in Devices |-> R(v, FALSE)])
  BY DEF DevicesSee, Stores, Rtc
<1>2. /\ was.SCL = Scl /\ was.SDA = Sda /\ now.SCL = SclThen /\ now.SDA = SdaThen
  BY DEF Lines, Scl, Sda, SclThen, SdaThen, LevelNow
<1>3. Scl \in BOOLEAN /\ Sda \in BOOLEAN /\ SclThen \in BOOLEAN /\ SdaThen \in BOOLEAN
  BY LevelTyped DEF PortTyped, Lines, Scl, Sda, SclThen, SdaThen, LevelNow
<1> HIDE DEF was, now
<1>4. /\ slave \in [Devices -> Slave] /\ Clock \in Devices /\ W \in Nat /\ W >= 1
      /\ \A v \in Devices : slave[v] \in Slave
  BY WidthPositive, AddressAssumption DEF SlavesTyped
<1>5. ASSUME NEW v \in Devices, NEW r \in BOOLEAN
      PROVE  /\ (Scl <=> SclThen) /\ ((Sda <=> SdaThen) \/ ~Scl) => R(v, r) = slave[v]
             /\ Scl /\ ~SclThen => R(v, r) = Falls(v, slave[v], regs, r /\ v = c, g /\ v = c)
             /\ ~Scl /\ SclThen => R(v, r) = Rises(slave[v], SdaThen)
             /\ Scl /\ SclThen /\ Sda /\ ~SdaThen =>
                  IF r /\ v = c THEN ForgetsTo(slave[v], R(v, r)) ELSE StartsTo(slave[v], R(v, r))
             /\ Scl /\ SclThen /\ ~Sda /\ SdaThen => ForgetsTo(slave[v], R(v, r))
  <2> DEFINE a == r /\ v = c
             b == g /\ v = c
  <2>1. a \in BOOLEAN /\ b \in BOOLEAN
    OBVIOUS
  <2>2. R(v, r) = Reacts(v, slave[v], was, now, regs, a, b)
    OBVIOUS
  <2> HIDE DEF a, b
  <2>3. was.SCL \in BOOLEAN /\ now.SCL \in BOOLEAN /\ was.SDA \in BOOLEAN /\ now.SDA \in BOOLEAN
    BY <1>2, <1>3
  <2> HIDE DEF R
  <2> DEFINE t == Reacts(v, slave[v], was, now, regs, a, b)
  <2>4. /\ (was.SCL <=> now.SCL) /\ ((was.SDA <=> now.SDA) \/ ~was.SCL) => t = slave[v]
        /\ was.SCL /\ ~now.SCL => t = Falls(v, slave[v], regs, a, b)
        /\ ~was.SCL /\ now.SCL => t = Rises(slave[v], now.SDA)
        /\ was.SCL /\ now.SCL /\ was.SDA /\ ~now.SDA =>
             IF a THEN ForgetsTo(slave[v], t) ELSE StartsTo(slave[v], t)
        /\ was.SCL /\ now.SCL /\ ~was.SDA /\ now.SDA => ForgetsTo(slave[v], t)
    BY <2>1, <2>3, ReactsAre
  <2> HIDE DEF t
  <2>5. R(v, r) = t
    BY <2>2 DEF t
  <2>6. R(v, r) = t /\ (was.SCL = Scl /\ was.SDA = Sda /\ now.SCL = SclThen /\ now.SDA = SdaThen)
    BY <1>2, <2>5
  <2> QED BY ONLY <2>4, <2>6 DEF a, b
<1>6. ASSUME NEW v \in Devices, v # c PROVE R(v, f) = R(v, FALSE)
  <2>1. (f /\ v = c) = FALSE /\ (FALSE /\ v = c) = FALSE
    BY <1>6
  <2> QED BY <2>1
<1>7. (f /\ c = c) = f /\ (FALSE /\ c = c) = FALSE
  OBVIOUS
<1> HIDE DEF R
<1>8. \A v \in Devices : slave'[v] = R(v, f)
  BY <1>1
<1>9. refused' = (refused \/ R(c, f) # R(c, FALSE))
  <2>1. [v \in Devices |-> R(v, f)] # [v \in Devices |-> R(v, FALSE)] <=> R(c, f) # R(c, FALSE)
    BY <1>6
  <2> QED BY <1>1, <2>1
<1>10. ~StoresIn(Rtc, Rtc') => regs' = regs /\ stored' = stored
  BY <1>1 DEF Stores
<1>11. ASSUME (SclThen <=> Scl) /\ ((SdaThen <=> Sda) \/ ~Scl) PROVE Stilled
  <2>1. \A v \in Devices : R(v, f) = slave[v]
    BY <1>5, <1>11
  <2>2. R(c, FALSE) = slave[c]
    BY <1>5, <1>11
  <2>3. slave' = slave
    BY <1>1, <1>4, <2>1
  <2>4. ~StoresIn(Rtc, Rtc')
    BY <1>4, <2>3 DEF StoresIn, Rtc, Slave
  <2>5. refused' = refused
    BY <1>9, <2>1, <2>2 DEF Ranges
  <2> QED BY <1>10, <2>3, <2>4, <2>5 DEF Stilled, Rest
<1>12. ASSUME Scl /\ ~SclThen PROVE Fallen(f)
  <2>1. \A v \in Devices : FallOf(v, slave[v], slave'[v], regs, f /\ v = c)
    <3>1. ASSUME NEW v \in Devices PROVE FallOf(v, slave[v], slave'[v], regs, f /\ v = c)
      <4>1. slave'[v] = Falls(v, slave[v], regs, f /\ v = c, g /\ v = c)
        BY <1>5, <1>8, <1>12
      <4>2. (f /\ v = c) \in BOOLEAN /\ (g /\ v = c) \in BOOLEAN
        OBVIOUS
      <4> QED BY <1>4, <4>1, <4>2, FallsExactly
    <3> QED BY <3>1
  <2>2. R(c, f) = Falls(c, slave[c], regs, f, g) /\ R(c, FALSE) = Falls(c, slave[c], regs, FALSE, g)
    <3>1. (f /\ c = c) = f /\ (FALSE /\ c = c) = FALSE /\ (g /\ c = c) = g
      OBVIOUS
    <3>2. /\ R(c, f) = Falls(c, slave[c], regs, f /\ c = c, g /\ c = c)
          /\ R(c, FALSE) = Falls(c, slave[c], regs, FALSE /\ c = c, g /\ c = c)
      BY <1>5, <1>12
    <3> QED BY <3>1, <3>2
  <2>3. R(c, f) # R(c, FALSE) <=> f /\ WouldTake
    <3>1. CASE f = TRUE
      BY <1>4, <2>2, <3>1, Refusing DEF WouldTake, Called
    <3>2. CASE f = FALSE
      BY <2>2, <3>2
    <3> QED BY <3>1, <3>2
  <2>4. refused' = (refused \/ (f /\ WouldTake))
    BY <1>9, <2>3
  <2> QED BY <1>1, <2>1, <2>4 DEF Fallen
<1>13. ASSUME ~Scl /\ SclThen /\ (SdaThen <=> Sda) PROVE Risen
  <2>0. SdaThen = Sda
    BY <1>3, <1>13
  <2>1. \A v \in Devices : R(v, f) = Rises(slave[v], Sda)
    BY <1>5, <1>13, <2>0
  <2>2. R(c, FALSE) = Rises(slave[c], Sda)
    BY <1>5, <1>13, <2>0
  <2>3. slave' = [v \in Devices |-> Rises(slave[v], Sda)]
    BY <1>1, <2>1
  <2>4. ~StoresIn(Rtc, Rtc')
    <3>1. RiseOf(Rtc, Rtc', Sda)
      BY <1>3, <1>4, <2>3, RisesExactly DEF Rtc
    <3> QED BY <1>4, <3>1 DEF StoresIn, RiseOf, Hearing, KeepOf
  <2>5. refused' = refused
    BY <1>9, <2>1, <2>2 DEF Ranges
  <2> QED BY <1>10, <2>3, <2>4, <2>5 DEF Risen, Rest
<1>14. ASSUME Scl /\ SclThen /\ Sda /\ ~SdaThen PROVE Begun(f)
  <2>1. \A v \in Devices :
          IF f /\ v = c THEN ForgetsTo(slave[v], slave'[v]) ELSE StartsTo(slave[v], slave'[v])
    BY <1>5, <1>8, <1>14
  <2>2. ~StoresIn(Rtc, Rtc')
    <3>1. ForgetsTo(Rtc, Rtc') \/ StartsTo(Rtc, Rtc')
      BY <1>4, <2>1 DEF Rtc
    <3>2. Rtc \in Slave /\ Rtc.n \in Nat
      BY <1>4 DEF Rtc, Slave
    <3>3. Rtc'.n = 0 \/ Rtc'.n = Rtc.n
      BY <3>1, <3>2, Forgets
    <3> QED BY <1>4, <3>2, <3>3 DEF StoresIn
  <2>3. R(c, f) # R(c, FALSE) <=> f
    <3>1. StartsTo(slave[c], R(c, FALSE))
      BY <1>5, <1>14
    <3>2. IF f THEN ForgetsTo(slave[c], R(c, f)) ELSE StartsTo(slave[c], R(c, f))
      BY <1>5, <1>14
    <3>3. slave[c] \in Slave
      BY <1>4
    <3> QED BY ONLY <3>1, <3>2, <3>3 DEF ForgetsTo, StartsTo, Slave
  <2>4. refused' = (refused \/ f)
    BY <1>9, <2>3
  <2> QED BY <1>10, <2>1, <2>2, <2>4 DEF Begun
<1>15. ASSUME Scl /\ SclThen /\ ~Sda /\ SdaThen PROVE Stopped
  <2>1. \A v \in Devices : ForgetsTo(slave[v], slave'[v])
    BY <1>5, <1>8, <1>15
  <2>2. ~StoresIn(Rtc, Rtc')
    <3>1. Rtc \in Slave /\ Rtc.n \in Nat /\ ForgetsTo(Rtc, Rtc')
      BY <1>4, <2>1 DEF Rtc, Slave
    <3> QED BY <1>4, <3>1, Forgets DEF StoresIn
  <2>3. R(c, f) = R(c, FALSE)
    BY <1>5, <1>15 DEF ForgetsTo
  <2>4. refused' = refused
    BY <1>9, <2>3 DEF Ranges
  <2> QED BY <1>10, <2>1, <2>2, <2>4 DEF Stopped, Rest
<1> QED BY <1>11, <1>12, <1>13, <1>14, <1>15

-----------------------------------------------------------------------------
(* Where the edges are: the clock rises in the middle of a bit and falls   *)
(* at the start of the next, and no edge of SDA comes between but the      *)
(* start's and the stop's.                                                 *)

RiseContext ==
  /\ routine \in {"i2c_start", "i2c_stop", "write1", "write0", "ack", "read", "more", "last"}
  /\ routine = "i2c_start" => at <= 3 /\ AllQuiet(slave)
  /\ routine = "write1" => Sda
  /\ routine = "write0" => ~Sda
  /\ routine \in {"write1", "write0"} => AllHear(slave, bit - 1, Heard(stage))
  /\ routine = "ack" => AllAck(slave, Heard(stage)) /\ at <= 5
  /\ routine = "read" => AllSend(slave, bit - 1) /\ at <= 4
  /\ routine = "more" => ~Sda /\ AllOver(slave, W)
  /\ routine = "last" => AllOver(slave, W)

FallContext ==
  /\ routine \in {"i2c_start", "write1", "write0", "ack", "read", "more", "last"}
  /\ routine = "i2c_start" => at = 7 /\ AllHear(slave, 0, ForAddress)
  /\ routine \in {"write1", "write0"} => AllHear(slave, bit - 1, Heard(stage))
  /\ routine = "ack" => \/ at = 2 /\ AllHear(slave, W, Heard(stage))
                        \/ at = 8 /\ AllAck(slave, Heard(stage)) /\ AllTold(slave, byte % 2)
  /\ routine = "read" => AllSend(slave, bit - 1) /\ at = 2
  /\ routine = "more" => AllSend(slave, W) \/ AllOver(slave, W + 1)
  /\ routine = "last" => AllSend(slave, W) \/ AllOff(slave)

\* Which access of a routine it is.
LEMMA Numbered ==
  ASSUME IInv, routine # "none", at <= Len(Accesses[routine])
  PROVE  LET x == Accesses[routine][at] IN
         /\ routine \in {"i2c_start", "i2c_stop", "write1", "write0", "ack", "listen", "read", "more", "last"}
         /\ routine = "i2c_start" /\ x = "drive_SCL" => at \in {7}
         /\ routine = "i2c_start" /\ x = "release_SCL" => at = 2
         /\ routine = "i2c_stop" => x # "drive_SCL"
         /\ routine = "i2c_stop" /\ x = "release_SCL" => at = 3
         /\ routine = "write1" /\ x = "drive_SCL" => at \in {2}
         /\ routine = "write1" /\ x = "release_SCL" => at = 4
         /\ routine = "write0" /\ x = "drive_SCL" => at \in {2}
         /\ routine = "write0" /\ x = "release_SCL" => at = 5
         /\ routine = "ack" /\ x = "drive_SCL" => at \in {2, 8}
         /\ routine = "ack" /\ x = "release_SCL" => at = 4
         /\ routine = "listen" => x # "drive_SCL"
         /\ routine = "listen" => x # "release_SCL"
         /\ routine = "read" /\ x = "drive_SCL" => at \in {2}
         /\ routine = "read" /\ x = "release_SCL" => at = 3
         /\ routine = "more" /\ x = "drive_SCL" => at \in {2, 8}
         /\ routine = "more" /\ x = "release_SCL" => at = 5
         /\ routine = "last" /\ x = "drive_SCL" => at \in {2, 7}
         /\ routine = "last" /\ x = "release_SCL" => at = 4
         /\ routine = "i2c_start" => (x = "drive_SDA" <=> at = 5)
         /\ routine = "ack" => (x = "sample_SDA" <=> at = 6)
         /\ routine = "read" => (x = "sample_SDA" <=> at = 5)
<1> DEFINE x == Accesses[routine][at]
<1>1. at \in Nat \ {0} /\ routine \in Routines
  BY DEF IInv, PortTyped
<1>2. routine \in {"i2c_start", "i2c_stop", "write1", "write0", "ack", "listen", "read", "more", "last"}
  BY <1>1 DEF Routines, Accesses
<1>3. ASSUME routine = "i2c_start"
      PROVE  /\ x = "drive_SCL" => at \in {7}
             /\ x = "release_SCL" => at = 2
             /\ (x = "drive_SDA" <=> at = 5)
  <2>1. at \in {1, 2, 3, 4, 5, 6, 7}
    <3>1. at \in Nat \ {0} /\ at <= 7
      BY <1>1, <1>3, StartSteps
    <3> QED BY ONLY <3>1
  <2>2. x = Accesses.i2c_start[at]
    BY <1>3
  <2> HIDE DEF x
  <2> QED BY ONLY <2>1, <2>2, StartSteps
<1>4. ASSUME routine = "i2c_stop"
      PROVE  /\ x # "drive_SCL"
             /\ x = "release_SCL" => at = 3
  <2>1. at \in {1, 2, 3, 4, 5}
    <3>1. at \in Nat \ {0} /\ at <= 5
      BY <1>1, <1>4, StopSteps
    <3> QED BY ONLY <3>1
  <2>2. x = Accesses.i2c_stop[at]
    BY <1>4
  <2> HIDE DEF x
  <2> QED BY ONLY <2>1, <2>2, StopSteps
<1>5. ASSUME routine = "write1"
      PROVE  /\ x = "drive_SCL" => at \in {2}
             /\ x = "release_SCL" => at = 4
  <2>1. at \in {1, 2, 3, 4, 5}
    <3>1. at \in Nat \ {0} /\ at <= 5
      BY <1>1, <1>5, Write1Steps
    <3> QED BY ONLY <3>1
  <2>2. x = Accesses.write1[at]
    BY <1>5
  <2> HIDE DEF x
  <2> QED BY ONLY <2>1, <2>2, Write1Steps
<1>6. ASSUME routine = "write0"
      PROVE  /\ x = "drive_SCL" => at \in {2}
             /\ x = "release_SCL" => at = 5
  <2>1. at \in {1, 2, 3, 4, 5, 6}
    <3>1. at \in Nat \ {0} /\ at <= 6
      BY <1>1, <1>6, Write0Steps
    <3> QED BY ONLY <3>1
  <2>2. x = Accesses.write0[at]
    BY <1>6
  <2> HIDE DEF x
  <2> QED BY ONLY <2>1, <2>2, Write0Steps
<1>7. ASSUME routine = "ack"
      PROVE  /\ x = "drive_SCL" => at \in {2, 8}
             /\ x = "release_SCL" => at = 4
             /\ (x = "sample_SDA" <=> at = 6)
  <2>1. at \in {1, 2, 3, 4, 5, 6, 7, 8}
    <3>1. at \in Nat \ {0} /\ at <= 8
      BY <1>1, <1>7, AckSteps
    <3> QED BY ONLY <3>1
  <2>2. x = Accesses.ack[at]
    BY <1>7
  <2> HIDE DEF x
  <2> QED BY ONLY <2>1, <2>2, AckSteps
<1>8. ASSUME routine = "listen"
      PROVE  /\ x # "drive_SCL"
             /\ x # "release_SCL"
  <2>1. at = 1
    <3>1. at \in Nat \ {0} /\ at <= 1
      BY <1>1, <1>8, ListenSteps
    <3> QED BY ONLY <3>1
  <2>2. x = Accesses.listen[at]
    BY <1>8
  <2> HIDE DEF x
  <2> QED BY ONLY <2>1, <2>2, ListenSteps
<1>9. ASSUME routine = "read"
      PROVE  /\ x = "drive_SCL" => at \in {2}
             /\ x = "release_SCL" => at = 3
             /\ (x = "sample_SDA" <=> at = 5)
  <2>1. at \in {1, 2, 3, 4, 5}
    <3>1. at \in Nat \ {0} /\ at <= 5
      BY <1>1, <1>9, ReadSteps
    <3> QED BY ONLY <3>1
  <2>2. x = Accesses.read[at]
    BY <1>9
  <2> HIDE DEF x
  <2> QED BY ONLY <2>1, <2>2, ReadSteps
<1>10. ASSUME routine = "more"
      PROVE  /\ x = "drive_SCL" => at \in {2, 8}
             /\ x = "release_SCL" => at = 5
  <2>1. at \in {1, 2, 3, 4, 5, 6, 7, 8, 9}
    <3>1. at \in Nat \ {0} /\ at <= 9
      BY <1>1, <1>10, MoreSteps
    <3> QED BY ONLY <3>1
  <2>2. x = Accesses.more[at]
    BY <1>10
  <2> HIDE DEF x
  <2> QED BY ONLY <2>1, <2>2, MoreSteps
<1>11. ASSUME routine = "last"
      PROVE  /\ x = "drive_SCL" => at \in {2, 7}
             /\ x = "release_SCL" => at = 4
  <2>1. at \in {1, 2, 3, 4, 5, 6, 7, 8}
    <3>1. at \in Nat \ {0} /\ at <= 8
      BY <1>1, <1>11, LastSteps
    <3> QED BY ONLY <3>1
  <2>2. x = Accesses.last[at]
    BY <1>11
  <2> HIDE DEF x
  <2> QED BY ONLY <2>1, <2>2, LastSteps
<1> QED BY <1>2, <1>3, <1>4, <1>5, <1>6, <1>7, <1>8, <1>9, <1>10, <1>11

LEMMA FallWhere ==
  ASSUME FInv, Access, Accesses[routine][at] = "drive_SCL", Scl
  PROVE  FallContext
<1>1. IInv /\ InPhase /\ PortTyped /\ NeverDrivesHigh /\ W \in Nat /\ W >= 1
  BY WidthPositive DEF FInv, IInv
<1>2. ~ddr.SCL
  BY <1>1, SdaOf
<1>3. routine # "none" /\ at <= Len(Accesses[routine])
  BY DEF Access
<1>4. /\ routine \in {"i2c_start", "write1", "write0", "ack", "read", "more", "last"}
      /\ routine = "i2c_start" => at = 7
      /\ routine \in {"write1", "write0", "read"} => at = 2
      /\ routine = "ack" => at \in {2, 8}
      /\ routine = "more" => at \in {2, 8}
      /\ routine = "last" => at \in {2, 7}
  BY <1>1, <1>3, Numbered
<1>5. routine = "i2c_start" => AllHear(slave, 0, ForAddress)
  BY <1>1, <1>4 DEF InPhase, Starting
<1>6. routine \in {"write1", "write0"} => AllHear(slave, bit - 1, Heard(stage))
  BY <1>1, <1>4 DEF InPhase, Writing
<1>7. routine = "ack" => \/ at = 2 /\ AllHear(slave, W, Heard(stage))
                         \/ at = 8 /\ AllAck(slave, Heard(stage)) /\ AllTold(slave, byte % 2)
  BY <1>1, <1>4 DEF InPhase, Acknowledged
<1>8. routine = "read" => AllSend(slave, bit - 1)
  BY <1>1, <1>4 DEF InPhase, Reading
<1>9. routine = "more" => AllSend(slave, W) \/ AllOver(slave, W + 1)
  BY <1>1, <1>4 DEF InPhase, GoingOn
<1>10. routine = "last" => AllSend(slave, W) \/ AllOff(slave)
  BY <1>1, <1>4, Scl DEF InPhase, Ending
<1> QED BY <1>4, <1>5, <1>6, <1>7, <1>8, <1>9, <1>10 DEF FallContext

\* The clock is low, and port C has let go of it or is about to.
LEMMA RiseWhere ==
  ASSUME FInv, ~Scl, ~ddr.SCL \/ (Access /\ Accesses[routine][at] = "release_SCL")
  PROVE  RiseContext
<1>1. IInv /\ InPhase /\ PortTyped /\ NeverDrivesHigh /\ W \in Nat /\ W >= 1 /\ at \in Nat \ {0}
  BY WidthPositive DEF FInv, IInv, PortTyped
<1>2. ~ddr.SCL \/ (routine # "none" /\ at <= Len(Accesses[routine]) /\ Accesses[routine][at] = "release_SCL")
  BY DEF Access
<1>3. /\ routine \in {"i2c_start", "i2c_stop", "write1", "write0", "ack", "listen", "read", "more", "last"}
      /\ routine = "i2c_start" => ~ddr.SCL \/ at = 2
      /\ routine = "write1" => ~ddr.SCL \/ at = 4
      /\ routine = "write0" => ~ddr.SCL \/ at = 5
      /\ routine = "ack" => ~ddr.SCL \/ at = 4
      /\ routine = "listen" => ~ddr.SCL
      /\ routine = "read" => ~ddr.SCL \/ at = 3
      /\ routine = "more" => ~ddr.SCL \/ at = 5
      /\ routine = "last" => ~ddr.SCL \/ at = 4
  <2>1. routine # "none"
    BY <1>1 DEF InPhase, Resting
  <2>2. routine \in Routines
    BY <1>1, <2>1 DEF PortTyped
  <2>3. routine \in {"i2c_start", "i2c_stop", "write1", "write0", "ack", "listen", "read", "more", "last"}
    BY <2>2 DEF Routines, Accesses
  <2> QED BY <1>1, <1>2, <2>3, Numbered
<1>4. routine # "listen"
  BY <1>1, <1>3 DEF InPhase, Listening
<1>5. routine = "i2c_start" => at <= 3 /\ AllQuiet(slave)
  <2> SUFFICES ASSUME routine = "i2c_start" PROVE at <= 3 /\ AllQuiet(slave)
    OBVIOUS
  <2>1. Starting
    BY <1>1 DEF InPhase
  <2>2. ~ddr.SCL \/ at = 2
    BY <1>3
  <2> QED BY ONLY <1>1, <2>1, <2>2, ~Scl DEF Starting
<1>6. routine = "write1" => Sda /\ AllHear(slave, bit - 1, Heard(stage))
  <2> SUFFICES ASSUME routine = "write1" PROVE Sda /\ AllHear(slave, bit - 1, Heard(stage))
    OBVIOUS
  <2>1. Writing(1, 5) /\ (~ddr.SCL \/ at = 4)
    BY <1>1, <1>3 DEF InPhase
  <2>2. at \in {4, 5}
    BY ONLY <1>1, <2>1, ~Scl DEF Writing
  <2>3. ~ddr.SDA /\ AllHear(slave, bit - 1, Heard(stage))
    BY ONLY <2>1, <2>2, ~Scl DEF Writing
  <2> QED BY <1>1, <2>3, SdaOf
<1>7. routine = "write0" => ~Sda /\ AllHear(slave, bit - 1, Heard(stage))
  <2> SUFFICES ASSUME routine = "write0" PROVE ~Sda /\ AllHear(slave, bit - 1, Heard(stage))
    OBVIOUS
  <2>1. Writing(0, 6) /\ (~ddr.SCL \/ at = 5)
    BY <1>1, <1>3 DEF InPhase
  <2>2. at \in {5, 6}
    BY ONLY <1>1, <2>1, ~Scl DEF Writing
  <2>3. ddr.SDA /\ AllHear(slave, bit - 1, Heard(stage))
    BY ONLY <2>1, <2>2, ~Scl DEF Writing
  <2> QED BY <1>1, <2>3, SdaOf
<1>8. routine = "ack" => AllAck(slave, Heard(stage)) /\ at <= 5
  <2> SUFFICES ASSUME routine = "ack" PROVE AllAck(slave, Heard(stage)) /\ at <= 5
    OBVIOUS
  <2>1. Acknowledged /\ (~ddr.SCL \/ at = 4)
    BY <1>1, <1>3 DEF InPhase
  <2> QED BY ONLY <1>1, <2>1, ~Scl DEF Acknowledged
<1>9. routine = "read" => AllSend(slave, bit - 1) /\ at <= 4
  <2> SUFFICES ASSUME routine = "read" PROVE AllSend(slave, bit - 1) /\ at <= 4
    OBVIOUS
  <2>1. Reading /\ (~ddr.SCL \/ at = 3)
    BY <1>1, <1>3 DEF InPhase
  <2> QED BY ONLY <1>1, <2>1, ~Scl DEF Reading
<1>10. routine = "more" => ~Sda /\ AllOver(slave, W)
  <2> SUFFICES ASSUME routine = "more" PROVE ~Sda /\ AllOver(slave, W)
    OBVIOUS
  <2>1. GoingOn /\ (~ddr.SCL \/ at = 5)
    BY <1>1, <1>3 DEF InPhase
  <2>2. at \in {5, 6}
    BY ONLY <1>1, <2>1, ~Scl DEF GoingOn
  <2>3. ddr.SDA /\ AllOver(slave, W)
    BY ONLY <2>1, <2>2, ~Scl DEF GoingOn
  <2> QED BY <1>1, <2>3, SdaOf
<1>11. routine = "last" => AllOver(slave, W)
  <2> SUFFICES ASSUME routine = "last" PROVE AllOver(slave, W)
    OBVIOUS
  <2>1. Ending /\ (~ddr.SCL \/ at = 4)
    BY <1>1, <1>3 DEF InPhase
  <2>2. at \in {4, 5}
    BY ONLY <1>1, <2>1, ~Scl DEF Ending
  <2> QED BY ONLY <2>1, <2>2, ~Scl DEF Ending
<1> QED BY <1>3, <1>4, <1>5, <1>6, <1>7, <1>8, <1>9, <1>10, <1>11 DEF RiseContext

\* The five things a step can do to the bus.
Unmoved ==
  (Scl' <=> Scl) /\ (\A d \in Devices : KeepOf(slave[d], slave'[d])) /\ Rest
Rising ==
  ~Scl /\ Scl' /\ RiseContext /\ (\A d \in Devices : RiseOf(slave[d], slave'[d], Sda)) /\ Rest
Falling(f) == Scl /\ ~Scl' /\ FallContext /\ Fallen(f)
Calling(f) == Scl /\ Scl' /\ routine = "i2c_start" /\ at = 5 /\ Begun(f)
Leaving == (Scl' <=> Scl) /\ routine = "i2c_stop" /\ Stopped

\* What an access does beside.
Onward ==
  /\ routine' = routine /\ bit' = bit /\ UNCHANGED driver
  /\ at' = at + 1
  /\ (routine = "read" /\ at = 5) \/ byte' = byte
  /\ routine = "ack" /\ at # 6 => nack' = nack
  /\ routine = "read" /\ at = 5 =>
       Unmoved /\ byte' = 2 * byte + (IF Sda THEN 1 ELSE 0)
  /\ routine = "ack" /\ at = 6 => Unmoved /\ (nack' <=> Sda)

LEMMA AccessEdges ==
  ASSUME FInv, FInv', Ranges, Access
  PROVE  /\ Onward /\ call.dev \in Devices /\ stage # "idle"
         /\ \/ Unmoved /\ (routine = "i2c_start" => at # 5)
            \/ Rising
            \/ \E f \in BOOLEAN : Falling(f) \/ Calling(f)
            \/ Leaving
<1> DEFINE x == Accesses[routine][at]
<1>1. IInv /\ IInv' /\ SlavesTyped /\ Control /\ InPhase
  BY DEF FInv
<1>2. PortTyped /\ NeverDrivesHigh /\ PortTyped' /\ NeverDrivesHigh'
  BY <1>1 DEF IInv
<1>3. PICK f \in BOOLEAN, g \in BOOLEAN : DevicesSee(ddr', latch', f, g)
  BY DEF Access
<1>4. stage # "idle" /\ call.dev \in Devices
  <2>1. routine # "none"
    BY DEF Access
  <2> QED BY <1>1, <2>1, CallsAssumption DEF Control
<1>5. /\ (SclThen <=> Scl) /\ ((SdaThen <=> Sda) \/ ~Scl) => Stilled
      /\ Scl /\ ~SclThen => Fallen(f)
      /\ ~Scl /\ SclThen /\ (SdaThen <=> Sda) => Risen
      /\ Scl /\ SclThen /\ Sda /\ ~SdaThen => Begun(f)
      /\ Scl /\ SclThen /\ ~Sda /\ SdaThen => Stopped
  BY <1>1, <1>2, <1>3, <1>4, Exactly
<1>6. /\ Scl <=> ~ddr.SCL /\ NoneHolds
      /\ Sda <=> ~ddr.SDA /\ NoneAnswers
      /\ SclThen <=> ~ddr'.SCL /\ NoneHolds
      /\ SdaThen <=> ~ddr'.SDA /\ NoneAnswers
  BY <1>2, Levels, LevelsThen DEF NoneHolds, NoneAnswers
<1>7. ddr.SCL \in BOOLEAN /\ ddr.SDA \in BOOLEAN /\ Scl \in BOOLEAN /\ Sda \in BOOLEAN /\ Scl' \in BOOLEAN
  BY <1>1, Going
<1>8. /\ x = "drive_SCL" => ddr'.SCL /\ (ddr'.SDA <=> ddr.SDA) /\ ~Scl'
      /\ x = "release_SCL" => /\ ~ddr'.SCL /\ (ddr'.SDA <=> ddr.SDA)
                              /\ (ddr.SCL => (Scl' \/ Same)) /\ (~ddr.SCL => (Scl' <=> Scl))
      /\ x = "drive_SDA" => ddr'.SDA /\ (ddr'.SCL <=> ddr.SCL) /\ (Scl' <=> Scl)
      /\ x = "release_SDA" => ~ddr'.SDA /\ (ddr'.SCL <=> ddr.SCL) /\ (Scl' <=> Scl)
      /\ x \in {"clear_SDA", "clear_SCL", "await_SCL", "sample_SDA"} =>
           (ddr'.SCL <=> ddr.SCL) /\ (ddr'.SDA <=> ddr.SDA) /\ (Scl' <=> Scl)
  BY <1>1, Moves DEF Stays, ClockDriven, ClockLetGo, DataDriven, DataLetGo

<1>9. Stilled \/ Risen \/ Begun(f) \/ Stopped => (Scl' <=> SclThen)
  <2>1. Scl' <=> ~ddr'.SCL /\ \A d \in Devices : ~slave'[d].scl
    BY <1>2, LevelsAfter
  <2>2. SclThen <=> ~ddr'.SCL /\ \A d \in Devices : ~slave[d].scl
    BY <1>2, LevelsThen
  <2>3. ASSUME NEW d \in Devices, Stilled \/ Risen \/ Begun(f) \/ Stopped
        PROVE  slave'[d].scl = slave[d].scl
    <3>1. slave[d] \in Slave
      BY <1>1 DEF SlavesTyped
    <3>2. CASE Stilled
      BY <3>2 DEF Stilled
    <3>3. CASE Risen
      BY <1>7, <3>1, <3>3, RisesTyped DEF Risen
    <3>4. CASE Begun(f) \/ Stopped
      <4>1. ForgetsTo(slave[d], slave'[d]) \/ StartsTo(slave[d], slave'[d])
        BY <3>4 DEF Begun, Stopped
      <4> QED BY <3>1, <4>1 DEF ForgetsTo, StartsTo, Slave
    <3> QED BY <2>3, <3>2, <3>3, <3>4
  <2> QED BY <2>1, <2>2, <2>3
<1>10. Stilled /\ (Scl' <=> Scl) => Unmoved
  BY DEF Stilled, Unmoved, KeepOf
<1>11. Risen => \A d \in Devices : RiseOf(slave[d], slave'[d], Sda)
  BY <1>1, <1>7, RisesExactly DEF Risen, SlavesTyped
<1>12. x \in Name
  <2>1. routine \in Routines /\ at \in Nat \ {0} /\ at <= Len(Accesses[routine]) /\ routine # "none"
    BY <1>1, Effects DEF IInv, PortTyped
  <2>2. Accesses[routine] \in Seq(Name)
    BY <2>1, RoutinesCareful DEF Good
  <2> QED BY <2>1, <2>2
<1>13. /\ routine = "i2c_start" => (x = "drive_SDA" <=> at = 5)
       /\ routine = "ack" => (x = "sample_SDA" <=> at = 6)
       /\ routine = "read" => (x = "sample_SDA" <=> at = 5)
       /\ routine \in {"i2c_start", "i2c_stop", "write1", "write0", "ack", "listen", "read", "more", "last"}
  BY <1>1, Effects, Numbered
<1>14. /\ routine' = routine /\ at' = at + 1 /\ bit' = bit /\ UNCHANGED driver
       /\ x = "sample_SDA" => (nack' <=> Sda)
       /\ x # "sample_SDA" => nack' = nack
       /\ x # "sample_SDA" \/ routine # "read" => byte' = byte
  BY <1>1, Moves
<1>15. x = "drive_SCL" /\ Scl => FallContext
  BY FallWhere
<1>16. x = "release_SCL" /\ ~Scl => RiseContext
  BY RiseWhere
<1>17. x = "drive_SDA" /\ Scl => routine = "i2c_start"
  BY DrivenToStart
<1>18. x = "release_SDA" /\ Scl /\ ddr.SDA => routine = "i2c_stop"
  BY LetGoToStop
<1>19. routine = "i2c_start" /\ at = 5 => Scl /\ Sda
  <2>1. routine = "i2c_start" /\ at = 5 => Scl /\ ~ddr.SDA /\ AllQuiet(slave)
    BY <1>1 DEF InPhase, Starting
  <2> QED BY <1>2, <2>1, SdaOf
<1>20. routine = "read" /\ x = "sample_SDA" => byte' = 2 * byte + (IF Sda THEN 1 ELSE 0)
  BY DEF Access, Clear, Drive, Release, Await, Sample, Sda
<1> HIDE DEF x
<1>21. x \in {"clear_SDA", "clear_SCL", "await_SCL", "sample_SDA"} => Unmoved
  BY <1>5, <1>6, <1>8, <1>10
<1>22. x = "drive_SCL" => Unmoved \/ Falling(f)
  <2> SUFFICES ASSUME x = "drive_SCL" PROVE Unmoved \/ Falling(f)
    OBVIOUS
  <2>1. ~SclThen /\ ~Scl'
    BY <1>6, <1>8
  <2>2. CASE Scl
    BY <1>5, <1>15, <2>1, <2>2 DEF Falling
  <2>3. CASE ~Scl
    BY <1>5, <1>10, <2>1, <2>3
  <2> QED BY <2>2, <2>3
<1>23. x = "release_SCL" => Unmoved \/ Rising
  <2> SUFFICES ASSUME x = "release_SCL" PROVE Unmoved \/ Rising
    OBVIOUS
  <2>1. SdaThen <=> Sda
    BY <1>6, <1>8
  <2>2. CASE ~Scl /\ SclThen
    <3>1. Risen
      BY <1>5, <2>1, <2>2
    <3> QED BY <1>9, <1>11, <1>16, <2>2, <3>1 DEF Rising, Risen
  <2>3. CASE ~(~Scl /\ SclThen)
    <3>1. SclThen <=> Scl
      BY <1>6, <1>8, <2>3
    <3>2. Stilled
      BY <1>5, <2>1, <3>1
    <3> QED BY <1>9, <1>10, <3>1, <3>2
  <2> QED BY <2>2, <2>3
<1>24. x = "drive_SDA" => (Unmoved /\ (routine = "i2c_start" => at # 5)) \/ Calling(f)
  <2> SUFFICES ASSUME x = "drive_SDA"
               PROVE (Unmoved /\ (routine = "i2c_start" => at # 5)) \/ Calling(f)
    OBVIOUS
  <2>1. (SclThen <=> Scl) /\ ~SdaThen /\ (Scl' <=> Scl)
    BY <1>6, <1>8
  <2>2. CASE Scl /\ Sda
    BY <1>5, <1>13, <1>17, <2>1, <2>2 DEF Calling
  <2>3. CASE ~(Scl /\ Sda)
    BY <1>5, <1>10, <1>19, <2>1, <2>3
  <2> QED BY <2>2, <2>3
<1>25. x = "release_SDA" => Unmoved \/ Leaving
  <2> SUFFICES ASSUME x = "release_SDA" PROVE Unmoved \/ Leaving
    OBVIOUS
  <2>1. (SclThen <=> Scl) /\ (Scl' <=> Scl)
    BY <1>6, <1>8
  <2>2. CASE Scl /\ ~Sda /\ SdaThen
    <3>1. ddr.SDA
      BY <1>6, <1>8, <2>2
    <3> QED BY <1>5, <1>18, <2>1, <2>2, <3>1 DEF Leaving
  <2>3. CASE ~(Scl /\ ~Sda /\ SdaThen)
    <3>1. (SdaThen <=> Sda) \/ ~Scl
      BY <1>6, <1>8, <2>3
    <3> QED BY <1>5, <1>10, <2>1, <3>1
  <2> QED BY <2>2, <2>3
<1>26. Onward
  <2>1. (routine = "read" /\ at = 5) \/ byte' = byte
    BY <1>13, <1>14
  <2>2. routine = "ack" /\ at # 6 => nack' = nack
    BY <1>13, <1>14
  <2>3. routine = "read" /\ at = 5 => Unmoved /\ byte' = 2 * byte + (IF Sda THEN 1 ELSE 0)
    BY <1>13, <1>20, <1>21
  <2>4. routine = "ack" /\ at = 6 => Unmoved /\ (nack' <=> Sda)
    BY <1>13, <1>14, <1>21
  <2> QED BY <1>14, <2>1, <2>2, <2>3, <2>4 DEF Onward
<1>27. x # "drive_SDA" => (routine = "i2c_start" => at # 5)
  BY <1>13
<1> QED BY <1>4, <1>12, <1>21, <1>22, <1>23, <1>24, <1>25, <1>26, <1>27 DEF Name

\* A device lets go of the clock: the clock rises if nobody else holds it.
LEMMA LetGoEdges ==
  ASSUME FInv, NEW d \in Devices, LetGo(d)
  PROVE  UNCHANGED <<engine, driver>> /\ (Unmoved \/ Rising)
<1> DEFINE s == [slave EXCEPT ![d].scl = FALSE]
<1>1. /\ IInv /\ SlavesTyped /\ PortTyped /\ NeverDrivesHigh
      /\ UNCHANGED <<port, engine, driver>> /\ Rest
  BY DEF LetGo, FInv, IInv, Rest
<1>2. PortTyped' /\ NeverDrivesHigh'
  BY <1>1 DEF PortTyped, NeverDrivesHigh, port, engine
<1>3. /\ Scl <=> ~ddr.SCL /\ \A v \in Devices : ~slave[v].scl
      /\ Scl' <=> ~ddr'.SCL /\ \A v \in Devices : ~slave'[v].scl
  BY <1>1, <1>2, Levels, LevelsAfter
<1>4. /\ slave[d].scl /\ ddr' = ddr
      /\ slave' = IF Level("SCL", ddr, latch, s) THEN [v \in Devices |-> Rises(s[v], Sda)] ELSE s
  BY DEF LetGo, port, Sda
<1>5. Sda \in BOOLEAN /\ ddr.SCL \in BOOLEAN /\ Scl' \in BOOLEAN /\ Scl \in BOOLEAN
  BY <1>1, <1>2, LevelTyped DEF PortTyped, Lines, Sda, Scl, LevelNow
<1>6. ASSUME NEW v \in Devices PROVE s[v] \in Slave /\ KeepOf(slave[v], s[v])
  <2>1. slave[v] \in Slave /\ slave[d] \in Slave /\ slave \in [Devices -> Slave]
    BY <1>1 DEF SlavesTyped
  <2>2. s[v] = IF v = d THEN [slave[v] EXCEPT !.scl = FALSE] ELSE slave[v]
    BY <2>1
  <2> HIDE DEF s
  <2> QED BY <2>1, <2>2 DEF Slave, KeepOf
<1> HIDE DEF s
<1>7. CASE Level("SCL", ddr, latch, s)
  <2>1. ASSUME NEW v \in Devices
        PROVE  RiseOf(slave[v], slave'[v], Sda) /\ slave'[v].scl = s[v].scl
    <3>1. slave'[v] = Rises(s[v], Sda)
      BY <1>4, <1>7
    <3>2. RiseOf(s[v], slave'[v], Sda) /\ slave'[v].scl = s[v].scl
      BY <1>5, <1>6, <3>1, RisesExactly, RisesTyped
    <3>3. KeepOf(slave[v], s[v])
      BY <1>6
    <3> QED BY <3>2, <3>3 DEF RiseOf, KeepOf
  <2>2. ~ddr.SCL /\ \A v \in Devices : ~s[v].scl
    BY <1>1, <1>7 DEF Level, NeverDrivesHigh, Lines
  <2>3. ~Scl /\ Scl'
    BY <1>3, <1>4, <2>1, <2>2
  <2>4. RiseContext
    BY <2>2, <2>3, RiseWhere
  <2> QED BY <1>1, <2>1, <2>3, <2>4 DEF Rising
<1>8. CASE ~Level("SCL", ddr, latch, s)
  <2>1. slave' = s
    BY <1>4, <1>8
  <2>2. ~Scl /\ ~Scl'
    <3>1. ddr.SCL \/ \E v \in Devices : s[v].scl
      BY <1>8 DEF Level
    <3> QED BY <1>3, <1>4, <2>1, <3>1
  <2> QED BY <1>1, <1>5, <1>6, <2>1, <2>2 DEF Unmoved
<1> QED BY <1>1, <1>7, <1>8

-----------------------------------------------------------------------------
(* A step on the bus, made by the master or by a device that lets go.      *)

\* What goes with it.
Beside ==
  /\ call.dev \in Devices /\ stage # "idle" /\ at \in Nat
  /\ UNCHANGED engine \/ Onward
  /\ routine' = routine /\ bit' = bit /\ UNCHANGED driver

Edge ==
  \/ Unmoved /\ (routine = "i2c_start" /\ at = 5 => at' = at)
  \/ Rising
  \/ \E f \in BOOLEAN : Falling(f) \/ (Calling(f) /\ at' = 6)
  \/ Leaving

LEMMA StepEdges ==
  ASSUME FInv, FInv', Ranges, Access \/ \E d \in Devices : LetGo(d)
  PROVE  Beside /\ Edge
<1>1. at \in Nat
  BY DEF FInv, IInv, PortTyped
<1>2. CASE Access
  <2>1. Onward /\ call.dev \in Devices /\ stage # "idle"
    BY <1>2, AccessEdges
  <2>2. at' = at + 1
    BY <2>1 DEF Onward
  <2>3. \/ Unmoved /\ (routine = "i2c_start" => at # 5)
        \/ Rising
        \/ \E f \in BOOLEAN : Falling(f) \/ Calling(f)
        \/ Leaving
    BY <1>2, AccessEdges
  <2>4. \A f \in BOOLEAN : Calling(f) => at' = 6
    BY <2>2 DEF Calling
  <2>5. Edge
    BY <2>3, <2>4 DEF Edge
  <2> QED BY <1>1, <2>1, <2>5 DEF Beside, Onward
<1>3. CASE \E d \in Devices : LetGo(d)
  <2>1. UNCHANGED <<engine, driver>> /\ (Unmoved \/ Rising)
    BY <1>3, LetGoEdges
  <2>2. ~Scl
    BY <1>3, LettingGo DEF FInv
  <2>3. stage # "idle" /\ call.dev \in Devices
    BY <2>2, CallsAssumption DEF FInv, Control, InPhase, Resting
  <2> QED BY <1>1, <2>1, <2>3 DEF Beside, Edge, engine, driver
<1> QED BY <1>2, <1>3

\* A byte, bit by bit.
LEMMA PartIs ==
  ASSUME NEW b \in Byte
  PROVE  /\ Part(b, 0) = 0 /\ Part(b, W) = b
         /\ \A k \in 0 .. W - 1 : Part(b, k + 1) = 2 * Part(b, k) + BitOf(b, k) /\ BitOf(b, k) \in {0, 1}
<1>1. W \in Nat /\ W >= 1 /\ b \in Nat /\ b < Pow2[W] /\ Pow2[W] \in Nat
  BY WidthPositive, Pow2Is DEF Byte
<1>2. Part(b, 0) = 0 /\ Part(b, W) = b
  <2>1. W - 0 = W /\ W - W = 0
    BY <1>1
  <2>2. b \div Pow2[0] = b /\ b \div Pow2[W] = 0
    BY <1>1, Halves
  <2> QED BY <2>1, <2>2 DEF Part
<1>3. ASSUME NEW k \in 0 .. W - 1
      PROVE  Part(b, k + 1) = 2 * Part(b, k) + BitOf(b, k) /\ BitOf(b, k) \in {0, 1}
  <2> DEFINE j == W - 1 - k
  <2>1. j \in Nat /\ W - (k + 1) = j /\ W - k = j + 1
    BY <1>1
  <2> HIDE DEF j
  <2>2. /\ b \div Pow2[j] = 2 * (b \div Pow2[j + 1]) + ((b \div Pow2[j]) % 2)
        /\ b \div Pow2[j] \in Nat
    BY <1>1, <2>1, Halves
  <2>3. BitOf(b, k) = (b \div Pow2[j]) % 2
    BY DEF BitOf, j
  <2> DEFINE h == b \div Pow2[j]
  <2>4. h \in Nat
    BY <2>2
  <2> HIDE DEF h
  <2>5. h % 2 \in {0, 1}
    BY <2>4
  <2> QED BY <2>1, <2>2, <2>3, <2>5 DEF Part, h
<1> QED BY <1>2, <1>3

LEMMA Here ==
  ASSUME FInv
  PROVE  /\ W \in Nat /\ W >= 1 /\ Clock \in Devices /\ NREG \in Nat /\ NREG >= 1
         /\ \A d \in Devices :
              slave[d] \in Slave /\ slave[d].mode \in Modes /\ slave[d].n \in Nat
         /\ slave \in [Devices -> Slave]
BY WidthPositive, WidthAssumption, AddressAssumption, Pow2Is DEF FInv, SlavesTyped, Slave

\* Only the start puts anyone in touch.
LEMMA SendingStays ==
  ASSUME FInv, Beside, Edge
  PROVE  /\ \/ \E f \in BOOLEAN : Calling(f) /\ at' = 6
            \/ (Sending' <=> Sending) /\ (Connected' <=> Connected)
         /\ (\E f \in BOOLEAN : Calling(f)) => ~Connected
<1>1. at \in Nat /\ routine' = routine /\ (at' = at \/ at' = at + 1)
  BY DEF Beside, engine, Onward
<1>2. (\E f \in BOOLEAN : Calling(f)) => ~Connected
  BY DEF Calling, Connected, Sending
<1>3. routine = "i2c_start" /\ at = 5 => at' = at \/ \E f \in BOOLEAN : Calling(f) /\ at' = 6
  BY <1>1 DEF Edge, Rising, RiseContext, Falling, FallContext, Leaving
<1>4. CASE routine = "i2c_start" /\ at = 5 /\ at' # at
  BY <1>2, <1>3, <1>4
<1>5. CASE ~(routine = "i2c_start" /\ at = 5 /\ at' # at)
  BY <1>1, <1>2, <1>5 DEF Sending, Connected
<1> QED BY <1>4, <1>5

\* How many bits of the byte a device has, when the clock rises or falls.
LEMMA HearingOf ==
  ASSUME FInv, NEW d \in Devices, slave[d].mode \in Hearing
  PROVE  /\ RiseContext /\ routine \in {"write0", "write1"} =>
              bit \in 1 .. W /\ slave[d].n = bit - 1 /\ slave[d].mode \in Heard(stage)
         /\ RiseContext /\ routine = "ack" => slave[d].n = W + 1 /\ slave[d].mode \in Heard(stage)
         /\ RiseContext => routine \notin {"read", "more", "last"}
         /\ FallContext /\ routine \in {"write0", "write1"} =>
              bit \in 1 .. W /\ slave[d].n = bit - 1 /\ slave[d].mode \in Heard(stage)
         /\ FallContext /\ routine = "ack" =>
              /\ slave[d].mode \in Heard(stage)
              /\ (at = 2 /\ slave[d].n = W) \/ (at = 8 /\ slave[d].n = W + 1 /\ Told(slave[d], byte % 2))
         /\ FallContext /\ routine = "i2c_start" => slave[d].n = 0 /\ slave[d].mode = "address"
         /\ FallContext => routine \notin {"read", "more", "last"}
<1>1. slave[d].mode # "off" /\ slave[d].mode # "send"
  BY DEF Hearing
<1>2. routine \in {"write1", "write0"} => bit \in 1 .. W
  BY DEF FInv, Control
<1> QED BY <1>1, <1>2 DEF RiseContext, FallContext, AllHear, AllAck, AllSend, AllOver, AllOff, AllTold,
          Hears, Acks, Sends, Over, Off, ForAddress

-----------------------------------------------------------------------------
(* The parts of the invariant, over a step on the bus.                     *)

LEMMA HeardKept ==
  ASSUME FInv, Beside, Edge, BytesRight, HeardRight
  PROVE  HeardRight'
<1> SUFFICES ASSUME Sending', NEW d \in Devices, slave'[d].mode \in Hearing
             PROVE  slave'[d].byte = Upto(byte, slave'[d].n)
  <2>1. routine' = routine /\ (routine = "read" \/ byte' = byte)
    BY DEF Beside, engine, Onward
  <2> QED BY <2>1 DEF HeardRight, Sending
<1> DEFINE s == slave[d]
           t == slave'[d]
<1>1. /\ W \in Nat /\ W >= 1 /\ s \in Slave /\ s.n \in Nat
  BY Here
<1>4. CASE \E f \in BOOLEAN : Calling(f) /\ at' = 6
  <2>1. PICK f \in BOOLEAN : Calling(f)
    BY <1>4
  <2>2. ForgetsTo(s, t) \/ StartsTo(s, t)
    BY <2>1 DEF Calling, Begun
  <2>3. t.n = 0 /\ t.byte = 0
    BY <1>1, <2>2, Forgets DEF Hearing
  <2> QED BY <2>3 DEF Upto
<1>5. CASE ~\E f \in BOOLEAN : Calling(f) /\ at' = 6
  <2>1. Sending
    BY <1>5, SendingStays
  <2>2. s.mode \in Hearing => s.byte = Upto(byte, s.n)
    BY <2>1 DEF HeardRight
  <2>3. CASE Unmoved
    BY <2>2, <2>3 DEF Unmoved, KeepOf
  <2>4. CASE Rising
    <3>1. RiseContext /\ RiseOf(s, t, Sda)
      BY <2>4 DEF Rising
    <3>2. s.mode \in Hearing
      BY <1>1, <3>1 DEF RiseOf, KeepOf, Hearing, Slave, Modes
    <3>3. routine \in {"write0", "write1", "ack"}
      BY <2>1, <3>1, <1>1 DEF Sending, RiseContext, FInv, IInv, PortTyped
    <3>4. CASE routine = "ack"
      <4>1. s.n = W + 1
        BY <3>1, <3>2, <3>4, HearingOf
      <4> QED BY <1>1, <2>2, <3>1, <3>2, <4>1 DEF RiseOf, KeepOf
    <3>5. CASE routine \in {"write0", "write1"}
      <4>1. bit \in 1 .. W /\ s.n = bit - 1
        BY <3>1, <3>2, <3>5, HearingOf
      <4>2. t.n = s.n + 1 /\ t.byte = 2 * s.byte + (IF Sda THEN 1 ELSE 0)
        BY <1>1, <3>1, <3>2, <4>1 DEF RiseOf
      <4>3. byte \in Byte
        BY <3>5 DEF BytesRight
      <4>4. BitOf(byte, bit - 1) = IF Sda THEN 1 ELSE 0
        <5>1. BitOf(byte, bit - 1) \in {0, 1}
          BY <1>1, <4>1, <4>3, PartIs
        <5> QED BY <3>1, <3>5, <5>1 DEF RiseContext, FInv, Control
      <4>5. s.byte = Part(byte, s.n)
        BY <1>1, <2>2, <3>2, <4>1, <4>3, PartIs DEF Upto
      <4>6. Part(byte, s.n + 1) = 2 * Part(byte, s.n) + BitOf(byte, s.n)
        BY <1>1, <4>1, <4>3, PartIs
      <4>7. Upto(byte, t.n) = Part(byte, s.n + 1)
        BY <1>1, <4>1, <4>2 DEF Upto
      <4> QED BY <4>1, <4>2, <4>4, <4>5, <4>6, <4>7
    <3> QED BY <3>3, <3>4, <3>5
  <2>5. CASE \E f \in BOOLEAN : Falling(f)
    <3>1. PICK f \in BOOLEAN : FallOf(d, s, t, regs, f /\ d = call.dev)
      BY <2>5 DEF Falling, Fallen
    <3>2. s.mode \in Hearing
      BY <1>1, <3>1 DEF FallOf, KeepOf, Hearing, Slave, Modes, SendsNext
    <3>3. CASE s.n < W
      BY <2>2, <3>1, <3>2, <3>3 DEF FallOf, KeepOf
    <3>4. CASE s.n = W
      <4>1. t.n = W + 1 /\ t.byte = s.byte
        BY <3>1, <3>2, <3>4 DEF FallOf, Hearing
      <4> QED BY <1>1, <2>2, <3>2, <3>4, <4>1 DEF Upto
    <3>5. CASE s.n > W
      <4>1. t.n = 0 /\ t.byte = 0
        BY <3>1, <3>2, <3>5 DEF FallOf, Hearing, SendsNext
      <4> QED BY <4>1 DEF Upto
    <3> QED BY <1>1, <3>3, <3>4, <3>5
  <2>6. CASE Leaving
    BY <2>1, <2>6 DEF Leaving, Sending
  <2> QED BY <1>5, <2>3, <2>4, <2>5, <2>6 DEF Edge
<1> QED BY <1>4, <1>5

LEMMA OthersKept ==
  ASSUME FInv, Beside, Edge, BytesRight, HeardRight, OthersOut
  PROVE  OthersOut'
<1>0. call' = call /\ call.dev \in Devices /\ routine' = routine
  BY DEF Beside, driver
<1> SUFFICES ASSUME Connected' \/ routine = "last", NEW d \in Devices \ {call.dev}
             PROVE  slave'[d].mode = "off" \/ (slave'[d].mode = "address" /\ slave'[d].n <= W)
  BY <1>0 DEF OthersOut
<1> DEFINE s == slave[d]
           t == slave'[d]
<1>1. W \in Nat /\ W >= 1 /\ s \in Slave /\ s.n \in Nat
  BY Here
<1>2. CASE \E f \in BOOLEAN : Calling(f) /\ at' = 6
  <2>1. PICK f \in BOOLEAN : Calling(f)
    BY <1>2
  <2>2. ForgetsTo(s, t) \/ StartsTo(s, t)
    BY <2>1 DEF Calling, Begun
  <2> QED BY <1>1, <2>2, Forgets
<1>3. CASE ~\E f \in BOOLEAN : Calling(f) /\ at' = 6
  <2>1. Connected \/ routine = "last"
    BY <1>3, SendingStays
  <2>2. s.mode = "off" \/ (s.mode = "address" /\ s.n <= W)
    BY <2>1 DEF OthersOut
  <2>3. CASE Unmoved
    BY <2>2, <2>3 DEF Unmoved, KeepOf
  <2>4. CASE Rising
    <3>1. RiseOf(s, t, Sda)
      BY <2>4 DEF Rising
    <3> QED BY <1>1, <2>2, <3>1 DEF RiseOf, KeepOf, Hearing
  <2>5. CASE \E f \in BOOLEAN : Falling(f)
    <3>1. PICK f \in BOOLEAN : FallContext /\ FallOf(d, s, t, regs, f /\ d = call.dev)
      BY <2>5 DEF Falling, Fallen
    <3>2. CASE s.mode = "off"
      BY <3>1, <3>2 DEF FallOf
    <3>3. CASE s.mode = "address" /\ s.n < W
      BY <1>1, <3>1, <3>3 DEF FallOf, KeepOf, Hearing
    <3>4. CASE s.mode = "address" /\ s.n = W
      <4>1. routine = "ack" /\ "address" \in Heard(stage)
        BY <1>1, <2>1, <3>1, <3>4, HearingOf DEF Hearing, FallContext
      <4>2. stage \in {"address", "read_address"}
        BY <4>1 DEF Heard, ForData
      <4>3. byte \in Byte /\ byte \div 2 = Address[call.dev]
        BY <4>1, <4>2 DEF BytesRight
      <4>4. s.byte = byte
        BY <1>1, <3>4, <4>1, <4>3, PartIs DEF HeardRight, Sending, Hearing, Upto
      <4>5. Address[d] # Address[call.dev]
        BY <1>0, AddressAssumption
      <4>6. ~Takes(d, s, f /\ d = call.dev)
        BY <3>4, <4>3, <4>4, <4>5 DEF Takes
      <4> QED BY <3>1, <3>4, <4>6 DEF FallOf, Hearing
    <3> QED BY <1>1, <2>2, <3>2, <3>3, <3>4
  <2>6. CASE Leaving
    BY <2>1, <2>6 DEF Leaving, Sending, Connected
  <2> QED BY <1>3, <2>3, <2>4, <2>5, <2>6 DEF Edge
<1> QED BY <1>2, <1>3

\* The device called would take every byte sent to it, if only it answered.
LEMMA WouldTakeWhere ==
  ASSUME FInv, Beside, FallContext, BytesRight, HeardRight
  PROVE  /\ WouldTake <=> routine = "ack" /\ at = 2 /\ Called.mode \in Hearing
         /\ \A f \in BOOLEAN : WouldTake => (Takes(call.dev, Called, f) <=> ~f)
<1> DEFINE s == slave[call.dev]
<1>0. call.dev \in Devices
  BY DEF Beside
<1>1. W \in Nat /\ W >= 1 /\ s \in Slave /\ s.n \in Nat
  BY <1>0, Here
<1>2. routine \in {"i2c_start", "write1", "write0", "ack", "read", "more", "last"}
  BY DEF FallContext
<1>3. s.mode \in Hearing /\ s.n = W => routine = "ack" /\ at = 2
  BY <1>0, <1>1, <1>2, HearingOf
<1>4. s.mode \in Hearing /\ routine = "ack" /\ at = 2 => s.n = W /\ s.mode \in Heard(stage)
  BY <1>0, <1>1, HearingOf
<1>5. s.mode \in Hearing /\ routine = "ack" /\ at = 2 => Takes(call.dev, s, FALSE)
  <2> SUFFICES ASSUME s.mode = "address", routine = "ack", at = 2, s.mode \in Hearing
               PROVE  s.byte \div 2 = Address[call.dev]
    BY DEF Takes
  <2>1. stage \in {"address", "read_address"}
    BY <1>4 DEF Heard, ForData
  <2>2. byte \in Byte /\ byte \div 2 = Address[call.dev]
    BY <2>1 DEF BytesRight
  <2>3. s.byte = byte
    BY <1>0, <1>1, <1>4, <2>2, PartIs DEF HeardRight, Sending, Upto
  <2> QED BY <2>2, <2>3
<1>6. WouldTake <=> s.mode \in Hearing /\ s.n = W /\ Takes(call.dev, s, FALSE)
  BY DEF WouldTake, Called
<1>7. WouldTake => \A f \in BOOLEAN : Takes(call.dev, s, f) <=> ~f
  BY <1>6 DEF Takes
<1> QED BY <1>3, <1>4, <1>5, <1>6, <1>7 DEF Called

LEMMA FaultKept ==
  ASSUME FInv, FInv', Beside, Edge, BytesRight, HeardRight, OthersOut, Ranges, FaultKnown
  PROVE  FaultKnown'
<1> DEFINE s == slave[call.dev]
           t == slave'[call.dev]
<1>0. /\ call.dev \in Devices /\ call' = call /\ stage' = stage /\ routine' = routine
      /\ stage # "idle" /\ at \in Nat /\ (at' = at \/ at' = at + 1)
  BY DEF Beside, driver, engine, Onward
<1>1. W \in Nat /\ W >= 1 /\ s \in Slave /\ s.n \in Nat /\ s.mode \in Modes
  BY <1>0, Here
<1>2. Called = s /\ Called' = t
  BY <1>0 DEF Called
<1>3. /\ routine = "none" <=> stage = "idle"
      /\ routine = "i2c_start" => stage \in {"start", "restart"}
      /\ stage = "restart" => routine = "i2c_start"
      /\ routine \in {"listen", "read", "more", "last"} <=> stage = "read"
      /\ routine \in Routines
  <2>1. routine \in Routines \cup {"none"} /\ Control
    BY DEF FInv, IInv, PortTyped
  <2> QED BY <1>0, <2>1 DEF Control, Routines, Accesses
<1>4. refused \in BOOLEAN
  BY DEF Ranges
<1> HIDE DEF s, t
<1>5. (routine = "none" \/ (routine = "i2c_start" /\ at <= 5) \/ stage = "read") => ~refused
  BY DEF FaultKnown
<1>6. Connected \/ stage = "restart" => (refused <=> s.mode = "off")
  BY <1>2 DEF FaultKnown
<1>7. ASSUME routine = "none" \/ (routine = "i2c_start" /\ at' <= 5) \/ stage = "read"
      PROVE  ~refused'
  <2>1. ~refused
    BY <1>0, <1>5, <1>7
  <2>2. ASSUME NEW f \in BOOLEAN, Falling(f) PROVE ~refused'
    <3>1. FallContext /\ refused' = (refused \/ (f /\ WouldTake))
      BY <2>2 DEF Falling, Fallen
    <3>2. routine # "ack"
      BY <1>0, <1>3, <1>7
    <3> QED BY <2>1, <3>1, <3>2, WouldTakeWhere
  <2>3. ASSUME NEW f \in BOOLEAN, Calling(f), at' = 6 PROVE FALSE
    BY <1>3, <1>7, <2>3 DEF Calling
  <2> QED BY <2>1, <2>2, <2>3 DEF Edge, Unmoved, Rising, Leaving, Stopped, Rest
<1>8. ASSUME Connected' \/ stage = "restart"
      PROVE  refused' <=> t.mode = "off"
  <2>1. CASE \E f \in BOOLEAN : Calling(f) /\ at' = 6
    <3>1. PICK f \in BOOLEAN : Calling(f)
      BY <2>1
    <3>2. /\ IF f THEN ForgetsTo(s, t) ELSE StartsTo(s, t)
          /\ refused' = (refused \/ f)
      BY <1>0, <3>1 DEF Calling, Begun, s, t
    <3>3. ~refused
      BY <1>5, <3>1 DEF Calling
    <3> QED BY <1>1, <3>2, <3>3, Forgets
  <2>2. CASE ~\E f \in BOOLEAN : Calling(f) /\ at' = 6
    <3>1. Connected \/ stage = "restart"
      BY <1>8, <2>2, SendingStays
    <3>2. refused <=> s.mode = "off"
      BY <1>6, <3>1
    <3>3. CASE Unmoved
      BY <1>0, <3>2, <3>3 DEF Unmoved, KeepOf, Rest, s, t
    <3>4. CASE Rising
      <4>1. RiseContext /\ RiseOf(s, t, Sda) /\ refused' = refused
        BY <1>0, <3>4 DEF Rising, Rest, s, t
      <4>2. s.mode = "send" /\ s.n = W => ~Sda
        <5> SUFFICES ASSUME s.mode = "send", s.n = W PROVE ~Sda
          OBVIOUS
        <5>1. routine \notin {"write1", "write0", "ack", "i2c_start"}
          BY <1>0, <4>1 DEF RiseContext, AllHear, Hears, Heard, ForAddress, ForData, AllAck, Acks,
             AllQuiet, Quiet, Off, s
        <5>2. routine # "read"
          <6>1. routine = "read" => bit \in 1 .. W
            BY DEF FInv, Control
          <6> QED BY <1>0, <1>1, <4>1, <6>1 DEF RiseContext, AllSend, Sends, Off, s
        <5>3. routine = "more"
          BY <1>3, <3>1, <4>1, <5>1, <5>2 DEF Connected, Sending, RiseContext
        <5> QED BY <4>1, <5>3 DEF RiseContext
      <4>3. t.mode = "off" <=> s.mode = "off"
        BY <1>1, <4>1, <4>2 DEF RiseOf, KeepOf, Hearing, Modes
      <4> QED BY <3>2, <4>1, <4>3
    <3>5. CASE \E f \in BOOLEAN : Falling(f)
      <4>1. PICK f \in BOOLEAN : Falling(f)
        BY <3>5
      <4>2. /\ FallContext /\ FallOf(call.dev, s, t, regs, f /\ call.dev = call.dev)
            /\ refused' = (refused \/ (f /\ WouldTake))
        BY <1>0, <4>1 DEF Falling, Fallen, s, t
      <4>3. FallOf(call.dev, s, t, regs, f)
        <5>1. (f /\ call.dev = call.dev) = f
          OBVIOUS
        <5> QED BY <4>2, <5>1
      <4>4. /\ WouldTake <=> routine = "ack" /\ at = 2 /\ s.mode \in Hearing
            /\ WouldTake <=> s.mode \in Hearing /\ s.n = W /\ Takes(call.dev, s, FALSE)
            /\ WouldTake => (Takes(call.dev, s, f) <=> ~f)
        BY <1>2, <4>2, WouldTakeWhere DEF WouldTake
      <4>5. CASE s.mode = "off"
        BY <3>2, <4>2, <4>3, <4>5 DEF FallOf
      <4>6. CASE s.mode = "send"
        <5>1. t.mode = "send"
          BY <1>1, <4>3, <4>6 DEF FallOf, SendsNext
        <5> QED BY <3>2, <4>2, <4>4, <4>6, <5>1 DEF Hearing
      <4>7. CASE s.mode \in Hearing /\ WouldTake
        <5>1. t.mode = "off" <=> f
          BY <4>3, <4>4, <4>7 DEF FallOf, Hearing
        <5> QED BY <3>2, <4>2, <4>7, <5>1 DEF Hearing
      <4>8. CASE s.mode \in Hearing /\ ~WouldTake
        <5>1. s.n # W
          <6>1. routine \in {"i2c_start", "write1", "write0", "ack", "read", "more", "last"}
            BY <4>2 DEF FallContext
          <6> QED BY <1>0, <1>1, <4>2, <4>4, <4>8, <6>1, HearingOf DEF s
        <5>2. t.mode # "off"
          BY <1>1, <4>3, <4>8, <5>1 DEF FallOf, KeepOf, SendsNext, Hearing
        <5> QED BY <3>2, <4>2, <4>8, <5>2 DEF Hearing
      <4> QED BY <1>1, <4>5, <4>6, <4>7, <4>8 DEF Modes, Hearing
    <3>6. CASE Leaving
      BY <1>3, <3>1, <3>6 DEF Leaving, Connected, Sending
    <3> QED BY <2>2, <3>3, <3>4, <3>5, <3>6 DEF Edge
  <2> QED BY <2>1, <2>2
<1>9. ASSUME routine = "ack", at' >= 7
      PROVE  nack' <=> refused'
  <2>1. Connected /\ (refused <=> s.mode = "off") /\ routine # "read"
    BY <1>6, <1>9 DEF Connected, Sending
  <2>2. CASE at' = at + 1 /\ at = 6
    <3>1. Onward
      BY <2>2 DEF Beside, engine
    <3>2. Unmoved /\ (nack' <=> Sda)
      BY <1>9, <2>2, <3>1 DEF Onward
    <3>3. refused' <=> s.mode = "off"
      BY <2>1, <3>2 DEF Unmoved, Rest
    <3>4. Acknowledged /\ PortTyped /\ NeverDrivesHigh
      BY <1>9 DEF FInv, IInv, InPhase
    <3>5. ~ddr.SDA /\ AllAck(slave, Heard(stage))
      BY <2>2, <3>4 DEF Acknowledged
    <3>6. Sda <=> \A d \in Devices : ~slave[d].sda
      BY <3>4, <3>5, Levels
    <3>7. ASSUME NEW d \in Devices \ {call.dev} PROVE ~slave[d].sda
      <4>1. slave[d].mode = "off" \/ (slave[d].mode = "address" /\ slave[d].n <= W)
        BY <2>1 DEF OthersOut
      <4>2. Off(slave[d]) \/ (slave[d].mode \in Heard(stage) /\ slave[d].n = W + 1)
        BY <3>5 DEF AllAck, Acks
      <4> QED BY <1>1, <4>1, <4>2, Here DEF Off, Heard, ForAddress, ForData
    <3>8. s.sda <=> s.mode # "off"
      <4>1. Off(s) \/ (s.mode \in Heard(stage) /\ s.sda)
        BY <1>0, <3>5 DEF AllAck, Acks, s
      <4> QED BY <4>1 DEF Off, Heard, ForAddress, ForData
    <3>9. Sda <=> s.mode = "off"
      BY <1>0, <3>6, <3>7, <3>8 DEF s
    <3> QED BY <3>2, <3>3, <3>9
  <2>3. CASE ~(at' = at + 1 /\ at = 6)
    <3>1. at >= 7 /\ nack' = nack
      BY <1>0, <1>9, <2>3 DEF Beside, engine, Onward
    <3>2. nack <=> refused
      BY <1>9, <3>1 DEF FaultKnown
    <3>3. ASSUME NEW f \in BOOLEAN, Falling(f) PROVE refused' = refused
      <4>1. FallContext /\ refused' = (refused \/ (f /\ WouldTake))
        BY <3>3 DEF Falling, Fallen
      <4>2. ~WouldTake
        BY <3>1, <4>1, WouldTakeWhere
      <4> QED BY <1>4, <4>1, <4>2
    <3>4. refused' = refused
      BY <1>9, <3>3 DEF Edge, Unmoved, Rising, Leaving, Stopped, Rest, Calling
    <3> QED BY <3>1, <3>2, <3>4
  <2> QED BY <2>2, <2>3
<1> QED BY <1>0, <1>2, <1>7, <1>8, <1>9 DEF FaultKnown

LEMMA SentAsKept ==
  ASSUME FInv, Beside, BytesRight, ResultsRight
  PROVE  BytesRight' /\ ResultsRight'
<1>1. UNCHANGED <<call, stage, done, buf, ret, routine>> /\ (routine = "read" \/ byte' = byte)
  BY DEF Beside, driver, engine, Onward
<1>2. BytesRight'
  BY <1>1 DEF BytesRight
<1>3. Count(call)' = Count(call)
  BY <1>1 DEF Count, Clamp
<1> QED BY <1>1, <1>2, <1>3 DEF ResultsRight

\* The clock stores a byte that it was meant to have, and the call is one that stores.
LEMMA StoringWhere ==
  ASSUME FInv, Beside, BytesRight, HeardRight, OthersOut, FaultKnown, ModesRight,
         NEW f \in BOOLEAN, Falling(f), StoresIn(Rtc, Rtc')
  PROVE  /\ routine = "ack" /\ at = 2 /\ stage = "data" /\ call.dev = Clock
         /\ Rtc.mode = "store" /\ Rtc.n = W /\ Rtc.byte = byte /\ byte \in Byte
         /\ ~refused /\ ~refused'
<1>1. Rtc.mode = "store" /\ Rtc.n = W /\ Rtc'.n = W + 1
  BY DEF StoresIn
<1>2. W \in Nat /\ W >= 1 /\ Rtc \in Slave /\ Clock \in Devices
  BY Here DEF Rtc
<1>3. /\ FallContext /\ refused' = (refused \/ (f /\ WouldTake))
      /\ FallOf(Clock, Rtc, Rtc', regs, f /\ Clock = call.dev)
  BY <1>2 DEF Falling, Fallen, Rtc
<1>4. routine = "ack" /\ at = 2 /\ Rtc.mode \in Heard(stage)
  <2>1. routine \in {"i2c_start", "write1", "write0", "ack", "read", "more", "last"} /\ Rtc.mode \in Hearing
    BY <1>1, <1>3 DEF FallContext, Hearing
  <2> QED BY <1>1, <1>2, <1>3, <2>1, HearingOf DEF Rtc
<1>5. stage = "data"
  <2>1. stage \in {"register", "data"}
    BY <1>1, <1>4 DEF Heard, ForAddress, FInv, Control
  <2>2. stage # "register"
    BY <1>1, <1>2, <1>4 DEF ModesRight, Rtc
  <2> QED BY <2>1, <2>2
<1>6. call.dev = Clock
  BY <1>1, <1>2, <1>4 DEF OthersOut, Connected, Sending, Rtc
<1>7. byte \in Byte /\ Rtc.byte = byte
  <2>1. byte \in Byte
    BY <1>4 DEF BytesRight
  <2> QED BY <1>1, <1>2, <1>4, <2>1, PartIs DEF HeardRight, Sending, Upto, Rtc, Hearing
<1>8. ~refused /\ ~f
  <2>1. refused <=> Called.mode = "off"
    BY <1>4 DEF FaultKnown, Connected, Sending
  <2>2. Called = Rtc
    BY <1>6 DEF Called, Rtc
  <2>3. ~f
    <3> SUFFICES ASSUME f = TRUE PROVE FALSE
      OBVIOUS
    <3>1. (f /\ Clock = call.dev) = TRUE
      BY <1>6
    <3>2. ~Takes(Clock, Rtc, TRUE)
      BY DEF Takes
    <3>3. FallOf(Clock, Rtc, Rtc', regs, TRUE)
      BY <1>3, <3>1
    <3>4. Rtc.mode = "store" /\ Rtc.n = W => Rtc'.n = W
      BY <3>2, <3>3 DEF FallOf, Hearing
    <3> QED BY <1>1, <1>2, <3>4
  <2> QED BY <1>1, <2>1, <2>2, <2>3
<1> QED BY <1>1, <1>3, <1>4, <1>5, <1>6, <1>7, <1>8

LEMMA EdgeStores ==
  ASSUME Edge
  PROVE  \/ UNCHANGED <<regs, stored>>
         \/ \E f \in BOOLEAN :
              /\ Falling(f) /\ StoresIn(Rtc, Rtc')
              /\ regs' = [regs EXCEPT ![Rtc.ptr] = Rtc.byte] /\ stored' = stored + 1
<1>1. ASSUME NEW f \in BOOLEAN, Falling(f), ~StoresIn(Rtc, Rtc') PROVE UNCHANGED <<regs, stored>>
  BY <1>1 DEF Falling, Fallen, Stores
<1>2. ASSUME NEW f \in BOOLEAN, Falling(f), StoresIn(Rtc, Rtc')
      PROVE  regs' = [regs EXCEPT ![Rtc.ptr] = Rtc.byte] /\ stored' = stored + 1
  BY <1>2 DEF Falling, Fallen, Stores
<1> QED BY <1>1, <1>2 DEF Edge, Unmoved, Rising, Calling, Begun, Leaving, Stopped, Rest

LEMMA RangesKept ==
  ASSUME FInv, Beside, Edge, BytesRight, HeardRight, OthersOut, FaultKnown, ModesRight, Ranges
  PROVE  Ranges'
<1>1. CASE UNCHANGED <<regs, stored>>
  BY <1>1 DEF Ranges, Edge, Unmoved, Rising, Falling, Fallen, Calling, Begun, Leaving, Stopped, Rest
<1>2. CASE \E f \in BOOLEAN :
             /\ Falling(f) /\ StoresIn(Rtc, Rtc')
             /\ regs' = [regs EXCEPT ![Rtc.ptr] = Rtc.byte] /\ stored' = stored + 1
  <2>1. PICK f \in BOOLEAN :
             /\ Falling(f) /\ StoresIn(Rtc, Rtc')
             /\ regs' = [regs EXCEPT ![Rtc.ptr] = Rtc.byte] /\ stored' = stored + 1
    BY <1>2
  <2>2. Rtc.byte \in Byte /\ ~refused'
    BY <2>1, StoringWhere
  <2>3. refused' \in BOOLEAN
    BY <2>1 DEF Falling, Fallen
  <2>4. regs' \in [0 .. NREG - 1 -> Byte]
    BY <2>1, <2>2 DEF Ranges
  <2>5. stored' \in Nat
    BY <2>1 DEF Ranges
  <2> QED BY <2>3, <2>4, <2>5 DEF Ranges
<1> QED BY <1>1, <1>2, EdgeStores

LEMMA ModesKept ==
  ASSUME FInv, Beside, Edge, ModesRight
  PROVE  ModesRight'
<1>0. routine' = routine /\ stage' = stage
  BY DEF Beside, driver
<1> SUFFICES ASSUME routine \in {"write0", "write1", "ack"}, NEW d \in Devices
             PROVE  LET t == slave'[d] IN
                    /\ stage = "address" => t.mode # "store"
                    /\ stage = "register" =>
                         IF routine = "ack" /\ t.n = 0 THEN t.mode # "pointer" ELSE t.mode # "store"
                    /\ stage = "data" => t.mode # "pointer"
  BY <1>0 DEF ModesRight
<1> DEFINE s == slave[d]
           t == slave'[d]
<1>1. W \in Nat /\ W >= 1 /\ s \in Slave /\ s.n \in Nat /\ s.mode \in Modes
  BY Here
<1>2. /\ stage = "address" => s.mode # "store"
      /\ stage = "register" =>
           IF routine = "ack" /\ s.n = 0 THEN s.mode # "pointer" ELSE s.mode # "store"
      /\ stage = "data" => s.mode # "pointer"
  BY DEF ModesRight
<1>3. CASE Unmoved
  BY <1>2, <1>3 DEF Unmoved, KeepOf
<1>4. CASE Rising
  <2>1. RiseContext /\ RiseOf(s, t, Sda)
    BY <1>4 DEF Rising
  <2>2. s.mode \in Hearing => (routine = "ack" => s.n = W + 1)
    BY <2>1, HearingOf
  <2>3. CASE s.mode \notin Hearing
    BY <1>1, <2>1, <2>3 DEF RiseOf, KeepOf, Hearing, Modes
  <2>4. CASE s.mode \in Hearing
    BY <1>1, <1>2, <2>1, <2>2, <2>4 DEF RiseOf, KeepOf
  <2> QED BY <2>3, <2>4
<1>5. CASE \E f \in BOOLEAN : Falling(f)
  <2>1. PICK f \in BOOLEAN : FallContext /\ FallOf(d, s, t, regs, f /\ d = call.dev)
    BY <1>5 DEF Falling, Fallen
  <2> DEFINE g == f /\ d = call.dev
  <2>2. FallOf(d, s, t, regs, g)
    BY <2>1
  <2> HIDE DEF g
  <2>3. CASE s.mode \notin Hearing
    <3>1. t.mode \in {"off", "send"}
      BY <1>1, <2>2, <2>3 DEF FallOf, SendsNext, Hearing, Modes
    <3> QED BY <3>1
  <2>4. CASE s.mode \in Hearing
    <3>1. /\ routine \in {"write0", "write1"} => s.n < W
          /\ routine = "ack" => s.n >= W
          /\ s.mode \in Heard(stage)
      BY <1>1, <2>1, <2>4, HearingOf
    <3>2. CASE s.n < W
      <4>1. KeepOf(s, t) /\ routine # "ack"
        BY <1>1, <2>2, <2>4, <3>1, <3>2 DEF FallOf
      <4> QED BY <1>2, <4>1 DEF KeepOf
    <3>3. CASE s.n = W
      <4>1. t.mode = "off" \/ (t.mode = s.mode /\ t.n = W + 1)
        BY <2>2, <2>4, <3>3 DEF FallOf
      <4> QED BY <1>1, <1>2, <3>1, <3>3, <4>1
    <3>4. CASE s.n > W
      <4>1. t.mode = "send" \/ (t.n = 0 /\ t.mode = IF s.mode = "address" THEN "pointer" ELSE "store")
        BY <2>2, <2>4, <3>4 DEF FallOf, SendsNext
      <4>2. /\ stage = "address" => s.mode = "address"
            /\ stage \in {"register", "data"} => s.mode # "address"
        BY <3>1 DEF Heard, ForAddress, ForData
      <4>3. routine = "ack"
        BY <1>1, <3>1, <3>4
      <4> QED BY <4>1, <4>2, <4>3
    <3> QED BY <1>1, <3>2, <3>3, <3>4
  <2> QED BY <2>3, <2>4
<1>6. ~Leaving /\ \A f \in BOOLEAN : ~Calling(f)
  BY DEF Leaving, Calling
<1> QED BY <1>3, <1>4, <1>5, <1>6 DEF Edge

LEMMA StoredKept ==
  ASSUME FInv, Beside, Edge, BytesRight, HeardRight, OthersOut, FaultKnown, ModesRight, Ranges,
         StoredRight
  PROVE  StoredRight'
<1>0. UNCHANGED <<call, stage, done, routine>>
  BY DEF Beside, driver
<1>1. /\ W \in Nat /\ W >= 1 /\ Rtc \in Slave /\ Rtc.n \in Nat /\ Rtc.mode \in Modes
      /\ Clock \in Devices /\ done \in Nat /\ stored \in Nat
  BY Here DEF Rtc, FInv, Control, Ranges
<1>2. ASSUME stage \notin {"data", "stop"} \/ call.dev # Clock PROVE stored' = 0
  <2>1. stored = 0
    BY <1>2 DEF StoredRight
  <2>2. \A f \in BOOLEAN : ~(Falling(f) /\ StoresIn(Rtc, Rtc'))
    BY <1>2, StoringWhere
  <2> QED BY <2>1, <2>2, EdgeStores
<1>3. ASSUME stage = "data", call.dev = Clock, Rtc'.mode # "off"
      PROVE  stored' = IF routine = "ack" /\ Rtc'.n # W THEN done ELSE done - 1
  <2>1. routine \in {"write0", "write1", "ack"}
    BY <1>3 DEF FInv, Control, IInv, PortTyped, Routines, Accesses
  <2>2. /\ Rtc.mode # "off" => stored = IF routine = "ack" /\ Rtc.n # W THEN done ELSE done - 1
        /\ Rtc.mode # "pointer"
    BY <1>1, <1>3, <2>1 DEF StoredRight, ModesRight, Rtc
  <2>3. CASE Unmoved
    <3>1. KeepOf(Rtc, Rtc') /\ stored' = stored
      BY <1>1, <2>3 DEF Unmoved, Rest, Rtc
    <3> QED BY <1>3, <2>2, <3>1 DEF KeepOf
  <2>4. CASE Rising
    <3>1. RiseContext /\ RiseOf(Rtc, Rtc', Sda) /\ stored' = stored
      BY <1>1, <2>4 DEF Rising, Rest, Rtc
    <3>2. Rtc.mode # "send"
      <4>1. CASE routine = "ack"
        BY <1>1, <3>1, <4>1 DEF RiseContext, AllAck, Acks, Heard, ForAddress, ForData, Off, Rtc
      <4>2. CASE routine # "ack"
        BY <1>1, <2>1, <3>1, <4>2 DEF RiseContext, AllHear, Hears, Heard, ForAddress, ForData, Off, Rtc
      <4> QED BY <4>1, <4>2
    <3>3. Rtc.mode \in Hearing
      BY <1>1, <1>3, <3>1, <3>2 DEF RiseOf, KeepOf, Hearing, Modes
    <3>4. routine = "ack" => Rtc.n = W + 1
      BY <1>1, <3>1, <3>3, HearingOf DEF Rtc
    <3>5. routine = "ack" => Rtc'.n = W + 1
      BY <1>1, <3>1, <3>3, <3>4 DEF RiseOf, KeepOf
    <3> QED BY <1>1, <2>2, <3>1, <3>3, <3>4, <3>5 DEF Hearing
  <2>5. CASE \E f \in BOOLEAN : Falling(f)
    <3>1. PICK f \in BOOLEAN : Falling(f)
      BY <2>5
    <3>2. /\ FallContext /\ Stores
          /\ FallOf(Clock, Rtc, Rtc', regs, f /\ Clock = call.dev)
      BY <1>1, <3>1 DEF Falling, Fallen, Rtc
    <3> DEFINE g == f /\ Clock = call.dev
    <3>3. FallOf(Clock, Rtc, Rtc', regs, g)
      BY <3>2
    <3> HIDE DEF g
    <3>4. Rtc.mode # "send"
      BY <1>1, <2>1, <3>2 DEF FallContext, AllHear, Hears, AllAck, Acks, Heard, ForAddress, ForData,
         Off, Rtc
    <3>5. Rtc.mode \in Hearing
      BY <1>1, <1>3, <3>3, <3>4 DEF FallOf, Hearing, Modes
    <3>6. /\ routine \in {"write0", "write1"} => Rtc.n < W
          /\ routine = "ack" => Rtc.n \in {W, W + 1}
          /\ Rtc.mode = "store"
      <4>1. /\ routine \in {"write0", "write1"} => Rtc.n < W
            /\ routine = "ack" => Rtc.n \in {W, W + 1}
            /\ Rtc.mode \in Heard(stage)
        BY <1>1, <2>1, <3>2, <3>5, HearingOf DEF Rtc
      <4> QED BY <1>3, <2>2, <4>1 DEF Heard, ForData
    <3>7. CASE routine # "ack"
      <4>1. KeepOf(Rtc, Rtc')
        BY <2>1, <3>3, <3>5, <3>6, <3>7 DEF FallOf
      <4>2. stored' = stored
        BY <1>1, <2>1, <3>2, <3>6, <3>7 DEF Stores, StoresIn
      <4> QED BY <2>2, <3>5, <3>7, <4>1, <4>2 DEF Hearing
    <3>8. CASE routine = "ack" /\ Rtc.n = W
      <4>1. Rtc'.n = W + 1
        BY <1>3, <3>3, <3>5, <3>6, <3>8 DEF FallOf
      <4>2. stored' = stored + 1
        BY <3>2, <3>6, <3>8, <4>1 DEF Stores, StoresIn
      <4> QED BY <1>1, <2>2, <3>5, <3>8, <4>1, <4>2 DEF Hearing
    <3>9. CASE routine = "ack" /\ Rtc.n = W + 1
      <4>1. Rtc'.n = 0
        BY <1>1, <3>3, <3>5, <3>6, <3>9 DEF FallOf, IsToSend
      <4>2. stored' = stored
        BY <1>1, <3>2, <3>9 DEF Stores, StoresIn
      <4> QED BY <1>1, <2>2, <3>5, <3>9, <4>1, <4>2 DEF Hearing
    <3> QED BY <3>6, <3>7, <3>8, <3>9
  <2>6. ~Leaving /\ \A f \in BOOLEAN : ~Calling(f)
    BY <2>1 DEF Leaving, Calling
  <2> QED BY <2>3, <2>4, <2>5, <2>6 DEF Edge
<1> QED BY <1>0, <1>2, <1>3 DEF StoredRight

\* A run of registers read ends at the last there is.
LEMMA WithinRegisters ==
  ASSUME FInv, stage # "idle", call.dev = Clock, call.fn # "i2c_probe"
  PROVE  /\ call \in Calls /\ call.reg \in 0 .. NREG - 1 /\ call.data \in Seq(Byte)
         /\ call.fn \in {"ds1307_read", "ds1307_write"}
         /\ call.fn = "ds1307_read" => Wanted \in Nat /\ Wanted <= NREG - call.reg
<1>1. call \in Calls /\ ~OutOfRange(call) /\ NREG \in Nat /\ NREG >= 1
  BY Here DEF FInv, Control
<1>2. /\ call.fn \in {"ds1307_read", "ds1307_write"}
      /\ call.reg \in Nat /\ call.n \in Nat /\ call.data \in Seq(Byte)
      /\ call.fn = "ds1307_read" => call.n > 0
  <2>1. call.reg \in Byte /\ call.n \in Nat /\ call.data \in Seq(Byte)
    BY <1>1, CallsAssumption
  <2>2. call.fn \in {"ds1307_read", "ds1307_write"} /\ (call.fn = "ds1307_read" => call.n > 0)
    BY <1>1, CallsAssumption
  <2>3. call.reg \in Nat
    BY <2>1 DEF Byte
  <2> QED BY <2>1, <2>2, <2>3
<1>3. call.reg \in 0 .. NREG - 1
  BY <1>1, <1>2 DEF OutOfRange
<1> QED BY <1>1, <1>2, <1>3 DEF Wanted, Clamp

LEMMA PointerKept ==
  ASSUME FInv, Beside, Edge, BytesRight, HeardRight, OthersOut, FaultKnown, ModesRight, Ranges,
         ResultsRight, StoredRight, PointerRight
  PROVE  PointerRight'
<1>0. UNCHANGED <<call, stage, done, routine>> /\ stage # "idle"
  BY DEF Beside, driver
<1>1. /\ W \in Nat /\ W >= 1 /\ Rtc \in Slave /\ Rtc.n \in Nat /\ Rtc.mode \in Modes
      /\ Clock \in Devices /\ done \in Nat /\ stored \in Nat /\ NREG \in Nat /\ NREG >= 1
  BY Here DEF Rtc, FInv, Control, Ranges
<1> DEFINE Told1(s, k) == s.ptr = (call.reg + k) % NREG
           Told2(s) == s.ptr = call.reg + done + (IF routine = "more" /\ s.n = 0 THEN 1 ELSE 0)
           Known(s) ==
             \/ stage # "stop" /\ s.mode = "store"
             \/ stage = "register" /\ s.mode = "pointer" /\ s.n > W
             \/ stage \in {"restart", "read_address"} /\ s.mode # "off"
<1> SUFFICES ASSUME call.dev = Clock
             PROVE  /\ Known(Rtc') => Told1(Rtc', stored')
                    /\ stage = "read" /\ Rtc'.mode = "send" => Told2(Rtc')
  BY <1>0 DEF PointerRight
<1>2. /\ Known(Rtc) => Told1(Rtc, stored)
      /\ stage = "read" /\ Rtc.mode = "send" => Told2(Rtc)
  BY <1>0 DEF PointerRight
<1>3. CASE Unmoved
  <2>1. KeepOf(Rtc, Rtc') /\ stored' = stored
    BY <1>1, <1>3 DEF Unmoved, Rest, Rtc
  <2> QED BY <1>2, <2>1 DEF KeepOf
<1>4. CASE Rising
  <2>1. RiseContext /\ RiseOf(Rtc, Rtc', Sda) /\ stored' = stored
    BY <1>1, <1>4 DEF Rising, Rest, Rtc
  <2>2. /\ Rtc'.mode \in {"off", Rtc.mode}
        /\ Rtc'.mode # "off" => Rtc'.ptr = Rtc.ptr
        /\ Rtc.mode \in Hearing /\ Rtc.n <= W => ~(Rtc'.n > W)
        /\ Rtc.mode = "send" /\ Rtc'.mode = "send" => Rtc'.n # 0
    BY <1>1, <2>1 DEF RiseOf, KeepOf, Hearing, Modes
  <2>3. Known(Rtc') => Told1(Rtc', stored')
    <3>1. Known(Rtc') => Known(Rtc) /\ Rtc'.ptr = Rtc.ptr
      BY <1>1, <2>2 DEF Hearing
    <3> QED BY <1>2, <2>1, <3>1
  <2>4. stage = "read" /\ Rtc'.mode = "send" => Told2(Rtc')
    <3> SUFFICES ASSUME stage = "read", Rtc'.mode = "send" PROVE Told2(Rtc')
      OBVIOUS
    <3>1. Rtc.mode = "send" /\ Rtc'.ptr = Rtc.ptr /\ Rtc'.n # 0
      BY <2>2
    <3>2. routine = "more" => Rtc.n # 0
      BY <1>1, <2>1, <3>1 DEF RiseContext, AllOver, Over, Off, Rtc
    <3> QED BY <1>2, <3>1, <3>2
  <2> QED BY <2>3, <2>4
<1>5. CASE \E f \in BOOLEAN : Falling(f)
  <2>1. PICK f \in BOOLEAN : Falling(f)
    BY <1>5
  <2>2. /\ FallContext /\ Stores
        /\ FallOf(Clock, Rtc, Rtc', regs, f /\ Clock = call.dev)
    BY <1>1, <2>1 DEF Falling, Fallen, Rtc
  <2> DEFINE g == f /\ Clock = call.dev
  <2>3. FallOf(Clock, Rtc, Rtc', regs, g)
    BY <2>2
  <2> HIDE DEF g
  <2>4. routine \in {"i2c_start", "write1", "write0", "ack", "read", "more", "last"}
    BY <2>2 DEF FallContext
  <2>5. ~(Rtc.mode = "store" /\ Rtc.n = W /\ Rtc'.n = W + 1) => stored' = stored
    BY <2>2 DEF Stores, StoresIn
  <2>6. CASE Rtc.mode = "off"
    BY <2>3, <2>6 DEF FallOf
  <2>7. CASE Rtc.mode = "send"
    <3>1. stage = "read"
      <4>1. routine \notin {"i2c_start", "write1", "write0", "ack"}
        BY <1>1, <2>2, <2>7 DEF FallContext, AllHear, Hears, AllAck, Acks, Heard, ForAddress, ForData,
           Off, Rtc
      <4> QED BY <2>4, <4>1 DEF FInv, Control
    <3>2. Told2(Rtc) /\ Rtc'.mode = "send" /\ ~Known(Rtc')
      BY <1>1, <1>2, <2>3, <2>7, <3>1 DEF FallOf, SendsNext
    <3>3. CASE Rtc.n < W
      <4>1. Rtc'.ptr = Rtc.ptr /\ Rtc'.n = Rtc.n
        BY <2>3, <2>7, <3>3 DEF FallOf, SendsNext
      <4> QED BY <3>1, <3>2, <4>1
    <3>4. CASE Rtc.n = W
      <4>1. Rtc'.ptr = Rtc.ptr /\ Rtc'.n = Rtc.n
        BY <2>3, <2>7, <3>4 DEF FallOf
      <4> QED BY <3>1, <3>2, <4>1
    <3>5. CASE Rtc.n > W
      <4>1. Rtc'.ptr = After(Rtc.ptr) /\ Rtc'.n = 0
        BY <2>3, <2>7, <3>5 DEF FallOf, SendsNext
      <4>2. routine = "more"
        <5>1. routine # "read"
          <6>1. routine = "read" => bit \in 1 .. W
            BY DEF FInv, Control
          <6> QED BY <1>1, <2>2, <2>7, <3>5, <6>1 DEF FallContext, AllSend, Sends, Off, Rtc
        <5>2. routine # "last"
          BY <1>1, <2>2, <2>7, <3>5 DEF FallContext, AllSend, Sends, AllOff, Off, Rtc
        <5> QED BY <2>4, <3>1, <5>1, <5>2 DEF FInv, Control
      <4>4. done < Wanted /\ done + 1 # Wanted /\ call.fn = "ds1307_read"
        BY <3>1, <4>2 DEF FInv, Control
      <4>5. Wanted \in Nat /\ Wanted <= NREG - call.reg /\ call.reg \in 0 .. NREG - 1
        BY <1>0, <4>4, WithinRegisters
      <4>3. Rtc.ptr = call.reg + done
        <5>1. Rtc.ptr = call.reg + done + 0
          BY <1>1, <3>2, <3>5
        <5> QED BY <1>1, <4>5, <5>1
      <4>6. call.reg + done + 1 \in Nat /\ call.reg + done + 1 < NREG
        BY <1>1, <4>4, <4>5
      <4>7. (call.reg + done + 1) % NREG = call.reg + done + 1
        BY <1>1, <4>6
      <4> QED BY <3>2, <4>1, <4>2, <4>3, <4>7 DEF After
    <3> QED BY <1>1, <3>3, <3>4, <3>5
  <2>8. CASE Rtc.mode \in Hearing
    <3>0. stage # "read"
      BY <1>1, <2>2, <2>8, HearingOf DEF FInv, Control, Rtc, FallContext
    <3>1. CASE Rtc.n < W
      <4>1. KeepOf(Rtc, Rtc') /\ stored' = stored
        BY <1>1, <2>3, <2>5, <2>8, <3>1 DEF FallOf
      <4> QED BY <1>2, <3>0, <4>1 DEF KeepOf
    <3>2. CASE Rtc.n = W /\ Rtc'.mode # "off"
      <4>1. /\ Rtc'.mode = Rtc.mode /\ Rtc'.n = W + 1
            /\ Rtc.mode = "pointer" => Rtc'.ptr = Rtc.byte % NREG
            /\ Rtc.mode = "store" => Rtc'.ptr = After(Rtc.ptr)
            /\ Rtc.mode = "address" => Rtc'.ptr = Rtc.ptr
        BY <2>3, <2>8, <3>2 DEF FallOf
      <4>2. routine = "ack" /\ Rtc.mode \in Heard(stage)
        BY <1>1, <2>2, <2>4, <2>8, <3>2, HearingOf DEF Rtc
      <4>3. CASE Rtc.mode = "store"
        <5>1. stored' = stored + 1
          BY <2>2, <3>2, <4>1, <4>3 DEF Stores, StoresIn
        <5>2. stage # "stop"
          BY <4>2 DEF FInv, Control
        <5>3. Rtc.ptr = (call.reg + stored) % NREG
          BY <1>2, <4>3, <5>2
        <5>4. call.reg \in Nat
          BY <1>0, <4>2, WantedSome DEF FInv
        <5>5. (((call.reg + stored) % NREG) + 1) % NREG = ((call.reg + stored) + 1) % NREG
          <6>1. call.reg + stored \in Nat /\ NREG > 0
            BY <1>1, <5>4
          <6> QED BY <1>1, <6>1, Wraps
        <5>6. (call.reg + stored) + 1 = call.reg + (stored + 1)
          BY <1>1, <5>4
        <5> QED BY <3>0, <4>1, <4>3, <5>1, <5>3, <5>5, <5>6 DEF After
      <4>4. CASE Rtc.mode = "pointer"
        <5>1. stored' = stored
          BY <2>5, <4>4
        <5>2. ASSUME Known(Rtc') PROVE Told1(Rtc', stored')
          <6>1. stage = "register"
            <7>1. stage \notin {"restart", "read_address"}
              BY <4>2, <4>4 DEF Heard, ForAddress, FInv, Control
            <7> QED BY <4>1, <4>4, <5>2, <7>1
          <6>2. stored = 0 /\ byte = call.reg /\ byte \in Byte
            BY <4>2, <6>1 DEF StoredRight, BytesRight
          <6>3. Rtc.byte = byte
            BY <1>1, <2>8, <3>2, <4>2, <6>2, PartIs DEF HeardRight, Sending, Upto, Rtc
          <6>4. call.reg + 0 = call.reg
            BY <1>0, WantedSome DEF FInv
          <6> QED BY <4>1, <4>4, <5>1, <6>2, <6>3, <6>4
        <5> QED BY <3>0, <5>2
      <4>5. CASE Rtc.mode = "address"
        BY <1>2, <2>5, <3>0, <4>1, <4>5
      <4> QED BY <2>8, <4>3, <4>4, <4>5 DEF Hearing
    <3>3. CASE Rtc.n > W
      <4>1. stored' = stored
        BY <1>1, <2>5, <3>3
      <4>2. routine = "ack" /\ Rtc.mode \in Heard(stage) /\ Rtc.n = W + 1
        BY <1>1, <2>2, <2>4, <2>8, <3>3, HearingOf DEF Rtc
      <4>3. Rtc'.ptr = Rtc.ptr /\ (Rtc'.mode = "store" => Rtc.mode # "address")
            /\ (Rtc'.mode = "pointer" => Rtc'.n = 0)
        BY <2>3, <2>8, <3>3 DEF FallOf, SendsNext
      <4>4. ASSUME Known(Rtc') PROVE Known(Rtc)
        <5>1. CASE stage \in {"restart", "read_address"}
          BY <2>8, <5>1 DEF Hearing
        <5>2. CASE Rtc'.mode = "store" /\ stage \notin {"restart", "read_address"}
          <6>1. stage \in {"register", "data"}
            BY <4>2, <4>3, <5>2 DEF Heard, ForAddress, FInv, Control
          <6>2. stage = "data" => Rtc.mode # "pointer"
            BY <1>1, <4>2 DEF ModesRight, Rtc
          <6> QED BY <2>8, <3>3, <4>3, <5>2, <6>1, <6>2 DEF Hearing
        <5> QED BY <1>1, <4>3, <4>4, <5>1, <5>2
      <4> QED BY <1>2, <3>0, <4>1, <4>3, <4>4
    <3>4. CASE Rtc'.mode = "off"
      BY <3>4
    <3> QED BY <1>1, <3>1, <3>2, <3>3, <3>4
  <2> QED BY <1>1, <2>6, <2>7, <2>8 DEF Modes, Hearing
<1>6. CASE \E f \in BOOLEAN : Calling(f)
  <2>1. PICK f \in BOOLEAN : Calling(f)
    BY <1>6
  <2>2. /\ IF f THEN ForgetsTo(Rtc, Rtc') ELSE StartsTo(Rtc, Rtc')
        /\ stored' = stored /\ routine = "i2c_start" /\ at = 5
    BY <1>1, <2>1 DEF Calling, Begun, Rtc
  <2>3. stage \in {"start", "restart"} /\ ~refused
    BY <2>2 DEF FInv, Control, FaultKnown
  <2>4. stage = "restart" => Rtc.mode # "off"
    BY <2>3 DEF FaultKnown, Called, Rtc
  <2>5. Rtc'.ptr = Rtc.ptr /\ Rtc'.mode \in {"off", "address"}
    BY <1>1, <2>2, Forgets
  <2> QED BY <1>2, <2>2, <2>3, <2>4, <2>5
<1>7. CASE Leaving
  <2>1. stage = "stop"
    BY <1>7 DEF Leaving, FInv, Control
  <2> QED BY <2>1
<1> QED BY <1>3, <1>4, <1>5, <1>6, <1>7 DEF Edge

LEMMA SentRightKept ==
  ASSUME FInv, Beside, Edge, SentRight
  PROVE  SentRight'
<1>1. /\ W \in Nat /\ W >= 1 /\ Rtc \in Slave /\ Rtc.n \in Nat /\ Rtc.mode \in Modes
      /\ Clock \in Devices
  BY Here DEF Rtc
<1> SUFFICES ASSUME Rtc'.mode = "send"
             PROVE  /\ Scl' /\ Rtc'.n \in 1 .. W =>
                         (Rtc'.sda <=> BitOf(regs'[Rtc'.ptr], Rtc'.n - 1) = 0)
                    /\ ~Scl' /\ Rtc'.n < W =>
                         (Rtc'.sda <=> BitOf(regs'[Rtc'.ptr], Rtc'.n) = 0)
  BY DEF SentRight
<1>2. CASE Unmoved
  <2>1. KeepOf(Rtc, Rtc') /\ regs' = regs /\ (Scl' <=> Scl)
    BY <1>1, <1>2 DEF Unmoved, Rest, Rtc
  <2> QED BY <2>1 DEF KeepOf, SentRight
<1>3. CASE Rising
  <2>1. ~Scl /\ Scl' /\ RiseOf(Rtc, Rtc', Sda) /\ regs' = regs
    BY <1>1, <1>3 DEF Rising, Rest, Rtc
  <2>2. Rtc.mode = "send"
    BY <1>1, <2>1 DEF RiseOf, KeepOf, Hearing, Modes
  <2>3. CASE Rtc.n < W
    <3>1. Rtc'.n = Rtc.n + 1 /\ Rtc'.ptr = Rtc.ptr /\ Rtc'.sda = Rtc.sda
      BY <2>1, <2>2, <2>3 DEF RiseOf
    <3>2. Rtc.sda <=> BitOf(regs[Rtc.ptr], Rtc.n) = 0
      BY <2>1, <2>2, <2>3 DEF SentRight
    <3>3. Rtc'.n - 1 = Rtc.n
      BY <1>1, <3>1
    <3> QED BY <2>1, <3>1, <3>2, <3>3
  <2>4. CASE Rtc.n >= W
    <3>1. Rtc'.n \notin 1 .. W
      BY <1>1, <2>1, <2>2, <2>4 DEF RiseOf, KeepOf
    <3> QED BY <2>1, <3>1
  <2> QED BY <1>1, <2>3, <2>4
<1>4. CASE \E f \in BOOLEAN : Falling(f)
  <2>1. PICK f \in BOOLEAN : Falling(f)
    BY <1>4
  <2>2. ~Scl' /\ Stores /\ FallOf(Clock, Rtc, Rtc', regs, f /\ Clock = call.dev)
    BY <1>1, <2>1 DEF Falling, Fallen, Rtc
  <2> DEFINE g == f /\ Clock = call.dev
  <2>3. FallOf(Clock, Rtc, Rtc', regs, g)
    BY <2>2
  <2> HIDE DEF g
  <2>4. (Rtc'.sda <=> BitOf(regs[Rtc'.ptr], Rtc'.n) = 0) \/ Rtc'.n = W
    BY <1>1, <2>3 DEF FallOf, SendsNext, KeepOf, Hearing, Modes
  <2>5. ~StoresIn(Rtc, Rtc')
    <3>1. Rtc.mode = "store" /\ Rtc.n = W => Rtc'.mode # "send"
      BY <2>3 DEF FallOf, Hearing
    <3> QED BY <3>1 DEF StoresIn
  <2> QED BY <1>1, <2>2, <2>4, <2>5 DEF Stores
<1>5. CASE \E f \in BOOLEAN : Calling(f)
  <2>1. PICK f \in BOOLEAN : IF f /\ Clock = call.dev THEN ForgetsTo(Rtc, Rtc') ELSE StartsTo(Rtc, Rtc')
    BY <1>1, <1>5 DEF Calling, Begun, Rtc
  <2> QED BY <1>1, <2>1, Forgets
<1>6. CASE Leaving
  <2>1. ForgetsTo(Rtc, Rtc')
    BY <1>1, <1>6 DEF Leaving, Stopped, Rtc
  <2> QED BY <1>1, <2>1, Forgets
<1> QED BY <1>2, <1>3, <1>4, <1>5, <1>6 DEF Edge

LEMMA DataFreeKept ==
  ASSUME FInv, FInv', DataFree, Access \/ \E d \in Devices : LetGo(d)
  PROVE  DataFree'
<1>1. CASE \E d \in Devices : LetGo(d)
  <2>1. UNCHANGED <<port, engine>>
    BY <1>1 DEF LetGo
  <2> QED BY <2>1 DEF DataFree, port, engine
<1>2. CASE Access
  <2> DEFINE x == Accesses[routine][at]
  <2>1. /\ routine' = routine /\ at' = at + 1 /\ at \in Nat \ {0} /\ at <= Len(Accesses[routine])
        /\ x = "release_SDA" => ~ddr'.SDA
        /\ x \in {"clear_SDA", "clear_SCL", "await_SCL", "sample_SDA", "drive_SCL", "release_SCL"} =>
             (ddr'.SDA <=> ddr.SDA)
    BY <1>2, Moves, Going DEF FInv, Stays, ClockDriven, ClockLetGo, DataLetGo
  <2>2. routine = "read" => x \in {"clear_SCL", "drive_SCL", "release_SCL", "await_SCL", "sample_SDA"}
    <3> SUFFICES ASSUME routine = "read"
                 PROVE  x \in {"clear_SCL", "drive_SCL", "release_SCL", "await_SCL", "sample_SDA"}
      OBVIOUS
    <3>1. at \in {1, 2, 3, 4, 5}
      <4>1. at <= 5
        BY <2>1, ReadSteps
      <4> QED BY <2>1, <4>1
    <3>2. x = Accesses.read[at]
      OBVIOUS
    <3> QED BY ONLY <3>1, <3>2, ReadSteps
  <2>3. routine = "listen" => x = "release_SDA"
    <3> SUFFICES ASSUME routine = "listen" PROVE x = "release_SDA"
      OBVIOUS
    <3>1. at = 1
      <4>1. at <= 1
        BY <2>1, ListenSteps
      <4> QED BY <2>1, <4>1
    <3>2. x = Accesses.listen[at]
      OBVIOUS
    <3> QED BY ONLY <3>1, <3>2, ListenSteps
  <2> HIDE DEF x
  <2> QED BY <2>1, <2>2, <2>3 DEF DataFree
<1> QED BY <1>1, <1>2

LEMMA ReadKept ==
  ASSUME FInv, FInv', Beside, Edge, BytesRight, HeardRight, OthersOut, FaultKnown, ModesRight, Ranges,
         PointerRight, SentRight, DataFree, ReadRight
  PROVE  ReadRight'
<1>0. UNCHANGED <<call, stage, done, buf, routine, bit>> /\ call.dev \in Devices /\ at \in Nat
  BY DEF Beside, driver
<1> SUFFICES ASSUME stage = "read"
             PROVE  /\ buf = [i \in 1 .. done |-> regs'[call.reg + i - 1]]
                    /\ routine = "listen" => byte' = 0
                    /\ routine = "read" =>
                         byte' = Part(regs'[call.reg + done], IF at' = 6 THEN bit ELSE bit - 1)
                    /\ routine \in {"more", "last"} => byte' = regs'[call.reg + done]
  BY <1>0 DEF ReadRight
<1>1. /\ W \in Nat /\ W >= 1 /\ Rtc \in Slave /\ Rtc.n \in Nat /\ Rtc.mode \in Modes
      /\ Clock \in Devices /\ done \in Nat
  BY Here DEF Rtc, FInv, Control
<1>2. regs' = regs
  <2>1. \A f \in BOOLEAN : ~(Falling(f) /\ StoresIn(Rtc, Rtc'))
    BY StoringWhere
  <2> QED BY <2>1, EdgeStores
<1>3. /\ buf = [i \in 1 .. done |-> regs[call.reg + i - 1]]
      /\ routine = "listen" => byte = 0
      /\ routine = "read" => byte = Part(regs[call.reg + done], IF at = 6 THEN bit ELSE bit - 1)
      /\ routine \in {"more", "last"} => byte = regs[call.reg + done]
  BY DEF ReadRight
<1>4. CASE routine # "read"
  <2>1. byte' = byte
    BY <1>4 DEF Beside, engine, Onward
  <2> QED BY <1>2, <1>3, <1>4, <2>1
<1>5. CASE routine = "read" /\ ~(at = 5 /\ at' = 6)
  <2>1. byte' = byte /\ (at' = at \/ at' = at + 1)
    BY <1>0, <1>5 DEF Beside, engine, Onward
  <2>2. at' <= 6
    BY <1>0, <1>5 DEF FInv, InPhase, Reading
  <2>3. at' = 6 <=> at = 6
    BY <1>0, <1>5, <2>1, <2>2
  <2> QED BY <1>2, <1>3, <1>5, <2>1, <2>3
<1>6. CASE routine = "read" /\ at = 5 /\ at' = 6
  <2>1. Onward
    BY <1>6 DEF Beside, engine
  <2>2. byte' = 2 * byte + (IF Sda THEN 1 ELSE 0)
    BY <1>6, <2>1 DEF Onward
  <2>3. PortTyped /\ NeverDrivesHigh /\ Scl /\ ~ddr.SCL /\ AllSend(slave, bit) /\ bit \in 1 .. W
    <3>1. Reading /\ bit \in 1 .. W /\ PortTyped /\ NeverDrivesHigh
      BY <1>6 DEF FInv, IInv, InPhase, Control
    <3> QED BY <1>6, <3>1 DEF Reading
  <2>4. Sda <=> \A d \in Devices : ~slave[d].sda
    BY <1>6, <2>3, Levels DEF DataFree
  <2>5. call.fn = "ds1307_read" /\ call.dev = Clock /\ done < Wanted
    BY CallsAssumption DEF FInv, Control
  <2>6. ASSUME NEW d \in Devices \ {call.dev} PROVE ~slave[d].sda
    <3>1. slave[d].mode \in {"off", "address"}
      BY <1>6 DEF OthersOut, Connected
    <3> QED BY <2>3, <3>1 DEF AllSend, Sends, Off
  <2>7. Rtc.mode # "off"
    BY <1>6, <2>5 DEF FaultKnown, Connected, Called, Rtc
  <2>8. Rtc.mode = "send" /\ Rtc.n = bit
    BY <1>1, <2>3, <2>7 DEF AllSend, Sends, Off, Rtc
  <2>9. Rtc.ptr = call.reg + done
    <3>1. Rtc.ptr = call.reg + done + 0
      BY <1>6, <2>5, <2>8 DEF PointerRight
    <3>2. call.reg \in Nat
      BY WantedSome DEF FInv
    <3> QED BY <1>1, <3>1, <3>2
  <2> DEFINE v == regs[call.reg + done]
  <2>10. Rtc.sda <=> BitOf(v, bit - 1) = 0
    BY <2>3, <2>8, <2>9 DEF SentRight
  <2>11. Sda <=> ~Rtc.sda
    BY <1>1, <2>4, <2>5, <2>6 DEF Rtc
  <2>12. v \in Byte
    <3>1. Wanted \in Nat /\ Wanted <= NREG - call.reg /\ call.reg \in 0 .. NREG - 1
      BY <1>0, <2>5, WithinRegisters
    <3>2. call.reg + done \in 0 .. NREG - 1
      BY <1>1, <2>5, <3>1, Here
    <3> QED BY <3>2 DEF Ranges
  <2> HIDE DEF v
  <2>13. Part(v, bit) = 2 * Part(v, bit - 1) + BitOf(v, bit - 1) /\ BitOf(v, bit - 1) \in {0, 1}
    <3>1. bit - 1 \in 0 .. W - 1 /\ (bit - 1) + 1 = bit
      BY <1>1, <2>3
    <3> QED BY <2>12, <3>1, PartIs
  <2>14. byte = Part(v, bit - 1)
    BY <1>3, <1>6 DEF v
  <2>15. byte' = Part(v, bit)
    BY <2>2, <2>10, <2>11, <2>13, <2>14
  <2> QED BY <1>2, <1>3, <1>6, <2>15 DEF v
<1>7. routine = "read" /\ at = 5 => at' = 6 \/ at' # 6
  OBVIOUS
<1> QED BY <1>4, <1>5, <1>6

LEMMA AnsweredKept ==
  ASSUME FInv, Beside, Edge, Answered
  PROVE  Answered'
<1>1. UNCHANGED <<call, stage, ret, buf, routine>>
  BY DEF Beside, driver
<1> SUFFICES ASSUME stage = "stop"
             PROVE  \/ <<ret, buf>> \in Registers!Answers(Asked(call))'
                    \/ refused' /\ stored' = 0 /\ <<ret, buf>> = <<-1, <<>>>>
  BY <1>1 DEF Answered
<1>2. Rest
  <2>1. routine = "i2c_stop"
    BY DEF FInv, Control
  <2> QED BY <2>1 DEF Edge, Unmoved, Rising, Falling, FallContext, Calling, Leaving, Stopped
<1>3. Registers!Answers(Asked(call))' = Registers!Answers(Asked(call))
  <2>1. Asked(call)' = Asked(call)
    BY <1>1 DEF Asked, Operation
  <2> QED BY <1>2, <2>1 DEF Rest, Registers!Answers, Registers!Within
<1> QED BY <1>1, <1>2, <1>3 DEF Answered, Rest

-----------------------------------------------------------------------------
(* The parts of the invariant, where the driver goes on and the bus stays  *)
(* as it is.                                                               *)

LEMMA BusStays ==
  ASSUME UNCHANGED <<port, bus>>, Ranges, SentRight
  PROVE  /\ Ranges' /\ SentRight' /\ UNCHANGED <<slave, regs, stored, refused, ddr>>
         /\ Rtc' = Rtc
<1>1. UNCHANGED <<slave, regs, stored, refused, ddr, latch>>
  BY DEF port, bus
<1>2. Scl' = Scl /\ Rtc' = Rtc
  BY <1>1, Between DEF port, Rtc
<1> QED BY <1>1, <1>2 DEF Ranges, SentRight

LEMMA SendOnRefines ==
  ASSUME FInv, RInv, SendOn, UNCHANGED <<port, bus>>
  PROVE  RInv'
<1>1. /\ routine \in {"write0", "write1"} /\ UNCHANGED <<byte, call, stage, done, buf, ret>>
      /\ UNCHANGED <<slave, regs, stored, refused, ddr>> /\ at' = 1 /\ Called' = Called /\ Rtc' = Rtc
      /\ Ranges' /\ SentRight'
  BY BusStays DEF SendOn, driver, Run, WriteBit, Called, RInv
<1>2. routine' \in {"write0", "write1"} \/ (routine' = "ack" /\ bit = W)
  <2>1. bit \in 1 .. W
    BY <1>1 DEF FInv, Control
  <2> QED BY <2>1, WidthPositive DEF SendOn, Run, WriteBit, BitsLeft
<1>3. stage \in {"address", "read_address", "register", "data"}
  BY <1>1 DEF FInv, Control
<1>4. AllHear(slave, bit, Heard(stage))
  <2>1. CASE routine = "write1"
    <3>1. Writing(1, 5) /\ at > 5
      BY <2>1, Write1Steps DEF FInv, InPhase, SendOn, Finished
    <3> QED BY <3>1 DEF Writing, FInv, IInv, PortTyped
  <2>2. CASE routine = "write0"
    <3>1. Writing(0, 6) /\ at > 6
      BY <2>2, Write0Steps DEF FInv, InPhase, SendOn, Finished
    <3> QED BY <3>1 DEF Writing, FInv, IInv, PortTyped
  <2> QED BY <1>1, <2>1, <2>2
<1>5. W \in Nat /\ W >= 1 /\ Clock \in Devices
  BY Here
<1>6. /\ Sending' /\ Sending /\ Connected /\ Connected'
  BY <1>1, <1>2 DEF Sending, Connected
<1>7. HeardRight' /\ OthersOut' /\ BytesRight' /\ ResultsRight'
  <2>1. HeardRight'
    BY <1>1, <1>6 DEF RInv, HeardRight
  <2>2. OthersOut'
    BY <1>1, <1>6 DEF RInv, OthersOut
  <2>3. BytesRight'
    BY <1>1 DEF RInv, BytesRight
  <2>4. Count(call)' = Count(call)
    BY <1>1 DEF Count, Clamp
  <2> QED BY <1>1, <2>1, <2>2, <2>3, <2>4 DEF RInv, ResultsRight
<1>8. FaultKnown'
  BY <1>1, <1>2, <1>3, <1>6 DEF RInv, FaultKnown
<1>9. ModesRight'
  <2> SUFFICES ASSUME NEW d \in Devices
               PROVE  /\ stage = "address" => slave[d].mode # "store"
                      /\ stage = "register" =>
                           IF routine' = "ack" /\ slave[d].n = 0
                           THEN slave[d].mode # "pointer" ELSE slave[d].mode # "store"
                      /\ stage = "data" => slave[d].mode # "pointer"
    BY <1>1 DEF ModesRight
  <2>1. /\ stage = "address" => slave[d].mode # "store"
        /\ stage = "register" => slave[d].mode # "store"
        /\ stage = "data" => slave[d].mode # "pointer"
    BY <1>1 DEF RInv, ModesRight
  <2>2. routine' = "ack" => slave[d].n = W \/ slave[d].mode = "off"
    BY <1>2, <1>4 DEF AllHear, Hears, Off
  <2> QED BY <1>5, <2>1, <2>2
<1>10. StoredRight'
  <2>1. routine' = "ack" => Rtc.n = W \/ Rtc.mode = "off"
    BY <1>2, <1>4, <1>5 DEF AllHear, Hears, Off, Rtc
  <2> QED BY <1>1, <1>2, <2>1 DEF RInv, StoredRight
<1>11. PointerRight'
  BY <1>1, <1>2, <1>3 DEF RInv, PointerRight
<1>12. DataFree' /\ ReadRight' /\ Answered'
  BY <1>1, <1>2, <1>3 DEF DataFree, ReadRight, Answered
<1> QED BY <1>1, <1>7, <1>8, <1>9, <1>10, <1>11, <1>12 DEF RInv

LEMMA ReceiveOnRefines ==
  ASSUME FInv, RInv, ReceiveOn, UNCHANGED <<port, bus>>
  PROVE  RInv'
<1>1. /\ routine \in {"listen", "read"} /\ UNCHANGED <<byte, call, stage, done, buf, ret>>
      /\ UNCHANGED <<slave, regs, stored, refused, ddr>> /\ at' = 1 /\ Called' = Called /\ Rtc' = Rtc
      /\ Ranges' /\ SentRight'
  BY BusStays DEF ReceiveOn, driver, Run, Called, RInv
<1>2. W \in Nat /\ W >= 1 /\ Clock \in Devices
  BY Here
<1>3. stage = "read" /\ call.fn = "ds1307_read" /\ done < Wanted /\ done \in Nat /\ bit \in Nat
  BY <1>1 DEF FInv, Control
<1>4. /\ routine = "listen" => at = 2 /\ bit = 0
      /\ routine = "read" => at = 6 /\ bit \in 1 .. W
  <2>1. at \in Nat \ {0}
    BY DEF FInv, IInv, PortTyped
  <2>2. routine = "listen" => at > 1 /\ at <= 2 /\ bit = 0
    BY ListenSteps DEF FInv, InPhase, Listening, Control, ReceiveOn, Finished
  <2>3. routine = "read" => at > 5 /\ at <= 6 /\ bit \in 1 .. W
    BY ReadSteps DEF FInv, InPhase, Reading, Control, ReceiveOn, Finished
  <2> QED BY <2>1, <2>2, <2>3
<1>5. \/ routine' = "read" /\ bit' = bit + 1 /\ bit < W
      \/ routine' \in {"more", "last"} /\ routine = "read" /\ bit = W /\ bit' = bit
  BY <1>1, <1>2, <1>3, <1>4 DEF ReceiveOn, Run, BitsLeft
<1>6. Connected
  BY <1>1 DEF Connected
<1>7. HeardRight' /\ BytesRight' /\ ModesRight' /\ Answered'
  BY <1>1, <1>3, <1>5 DEF HeardRight, Sending, BytesRight, ModesRight, Answered
<1>8. OthersOut' /\ FaultKnown' /\ StoredRight'
  <2>1. OthersOut'
    BY <1>1, <1>6 DEF RInv, OthersOut
  <2>2. FaultKnown'
    BY <1>1, <1>3, <1>5, <1>6 DEF RInv, FaultKnown
  <2>3. StoredRight'
    BY <1>1, <1>3 DEF RInv, StoredRight
  <2> QED BY <2>1, <2>2, <2>3
<1>9. ResultsRight'
  <2>1. Count(call)' = Count(call)
    BY <1>1 DEF Count, Clamp
  <2> QED BY <1>1, <2>1 DEF RInv, ResultsRight
<1>10. PointerRight'
  <2>1. routine' = "more" => Rtc.n = W \/ Rtc.mode = "off"
    <3>1. routine' = "more" => AllSend(slave, W)
      BY <1>4, <1>5 DEF FInv, InPhase, Reading
    <3> QED BY <1>2, <3>1 DEF AllSend, Sends, Off, Rtc
  <2>2. routine # "more"
    BY <1>1
  <2> QED BY <1>1, <1>2, <1>3, <2>1, <2>2 DEF RInv, PointerRight
<1>11. DataFree'
  BY <1>1, <1>4, <1>5 DEF RInv, DataFree
<1>12. ReadRight'
  <2> DEFINE v == regs[call.reg + done]
  <2>1. v \in Byte
    <3>1. Wanted \in Nat /\ Wanted <= NREG - call.reg /\ call.reg \in 0 .. NREG - 1 /\ NREG \in Nat
      BY <1>3, WithinRegisters, Here, CallsAssumption DEF FInv, Control
    <3>2. call.reg + done \in 0 .. NREG - 1
      BY <1>3, <3>1
    <3> QED BY <3>2 DEF RInv, Ranges
  <2>2. /\ buf = [i \in 1 .. done |-> regs[call.reg + i - 1]]
        /\ routine = "listen" => byte = 0
        /\ routine = "read" => byte = Part(v, bit)
    BY <1>3, <1>4 DEF RInv, ReadRight
  <2>3. Part(v, 0) = 0 /\ Part(v, W) = v
    BY <2>1, PartIs
  <2> HIDE DEF v
  <2>4. byte = Part(v, bit)
    BY <1>1, <1>4, <2>2, <2>3
  <2>5. routine' = "read" => byte' = Part(v, bit' - 1)
    <3>1. routine' = "read" => bit' - 1 = bit
      BY <1>3, <1>5
    <3> QED BY <1>1, <2>4, <3>1
  <2>6. routine' \in {"more", "last"} => byte' = v
    BY <1>1, <1>5, <2>3, <2>4
  <2>7. routine' # "listen" /\ at' # 6
    BY <1>1, <1>5
  <2>8. /\ buf' = [i \in 1 .. done' |-> regs'[call'.reg + i - 1]]
        /\ v = regs'[call'.reg + done']
    BY <1>1, <2>2 DEF v
  <2> QED BY <2>5, <2>6, <2>7, <2>8 DEF ReadRight
<1> QED BY <1>1, <1>7, <1>8, <1>9, <1>10, <1>11, <1>12 DEF RInv

LEMMA ReceivedRefines ==
  ASSUME FInv, RInv, Received, UNCHANGED <<port, bus>>
  PROVE  RInv'
<1>1. /\ routine \in {"more", "last"} /\ UNCHANGED <<call, ret>>
      /\ UNCHANGED <<slave, regs, stored, refused, ddr>> /\ Called' = Called /\ Rtc' = Rtc
      /\ Ranges' /\ SentRight' /\ buf' = Append(buf, byte) /\ done' = done + 1
  BY BusStays DEF Received, Called, RInv
<1>2. W \in Nat /\ W >= 1 /\ Clock \in Devices
  BY Here
<1>3. /\ stage = "read" /\ call.fn = "ds1307_read" /\ done < Wanted /\ done \in Nat
      /\ routine = "last" => done + 1 = Wanted
      /\ routine = "more" => done + 1 # Wanted
  BY <1>1 DEF FInv, Control
<1>4. call.dev = Clock /\ call \in Calls /\ call.reg \in Nat /\ Wanted \in Nat /\ Wanted <= NREG - call.reg
  BY <1>3, WithinRegisters, CallsAssumption DEF FInv, Control
<1>5. \/ /\ routine = "more" /\ routine' = "listen" /\ at' = 1 /\ byte' = 0 /\ stage' = "read"
      \/ /\ routine = "last" /\ routine' = "i2c_stop" /\ stage' = "stop"
  BY <1>1, <1>3, <1>4 DEF Received, Listen, Stop, Run, Wanted
<1>6. buf' = [i \in 1 .. done' |-> regs[call.reg + i - 1]]
  <2> DEFINE F(n) == [i \in 1 .. n |-> regs[call.reg + i - 1]]
  <2>1. buf = F(done) /\ byte = regs[call.reg + done]
    BY <1>1, <1>3 DEF RInv, ReadRight
  <2>2. regs \in [0 .. NREG - 1 -> Byte]
    BY DEF RInv, Ranges
  <2>3. ASSUME NEW i \in 1 .. done + 1 PROVE call.reg + i - 1 \in 0 .. NREG - 1
    BY <1>3, <1>4, Here
  <2>4. F(done) \in Seq(Byte) /\ Len(F(done)) = done
    <3>1. \A i \in 1 .. done : regs[call.reg + i - 1] \in Byte
      BY <1>3, <2>2, <2>3
    <3> QED BY <1>3, <3>1
  <2>5. F(done + 1) \in Seq(Byte) /\ Len(F(done + 1)) = done + 1
    <3>1. \A i \in 1 .. done + 1 : regs[call.reg + i - 1] \in Byte
      BY <1>3, <2>2, <2>3
    <3> QED BY <1>3, <3>1
  <2>6. regs[call.reg + done] \in Byte
    <3>1. done + 1 \in 1 .. done + 1 /\ call.reg + (done + 1) - 1 = call.reg + done
      BY <1>3, <1>4
    <3> QED BY <2>2, <2>3, <3>1
  <2>7. Append(F(done), regs[call.reg + done]) = F(done + 1)
    <3> DEFINE a == Append(F(done), regs[call.reg + done])
    <3>1. a \in Seq(Byte) /\ Len(a) = done + 1
      BY <1>3, <2>4, <2>6
    <3>2. ASSUME NEW i \in 1 .. done + 1 PROVE a[i] = F(done + 1)[i]
      <4>1. CASE i = done + 1
        <5>1. call.reg + (done + 1) - 1 = call.reg + done
          BY <1>3, <1>4
        <5> QED BY <1>3, <2>4, <2>6, <4>1, <5>1
      <4>2. CASE i # done + 1
        BY <1>3, <2>4, <2>6, <4>2
      <4> QED BY <4>1, <4>2
    <3> HIDE DEF a, F
    <3> QED BY <2>5, <3>1, <3>2 DEF a
  <2> QED BY <1>1, <2>1, <2>7
<1>7. HeardRight' /\ BytesRight' /\ ModesRight' /\ DataFree'
  BY <1>5 DEF HeardRight, Sending, BytesRight, ModesRight, DataFree
<1>8. OthersOut'
  BY <1>1, <1>5 DEF RInv, OthersOut, Connected, Sending
<1>9. FaultKnown'
  BY <1>1, <1>3, <1>5 DEF RInv, FaultKnown, Connected, Sending
<1>10. StoredRight'
  BY <1>1, <1>3, <1>4, <1>5 DEF RInv, StoredRight
<1>11. ResultsRight'
  <2>1. Count(call)' = Count(call)
    BY <1>1 DEF Count, Clamp
  <2> QED BY <1>1, <1>3, <1>5, <2>1 DEF RInv, ResultsRight
<1>12. PointerRight'
  <2>1. CASE routine = "last"
    BY <1>5, <2>1 DEF PointerRight
  <2>2. CASE routine = "more"
    <3>1. GoingOn /\ at >= 10
      <4>1. at \in Nat /\ at > 9
        BY <1>1, <2>2, MoreSteps DEF FInv, IInv, PortTyped, Received, Finished
      <4> QED BY <2>2, <4>1 DEF FInv, InPhase
    <3>2. Rtc.mode = "off" \/ (Rtc.mode = "send" /\ Rtc.n = 0)
      BY <1>2, <3>1 DEF FInv, IInv, PortTyped, GoingOn, AllSend, Sends, Off, Rtc
    <3>3. Rtc.mode = "send" => Rtc.ptr = call.reg + done + 1
      BY <1>3, <1>4, <2>2, <3>2 DEF RInv, PointerRight
    <3>4. call.reg + done + 1 = call.reg + done' + 0
      BY <1>1, <1>3, <1>4
    <3>5. routine' = "listen" /\ stage' = "read"
      BY <1>5, <2>2
    <3> QED BY <1>1, <3>2, <3>3, <3>4, <3>5 DEF PointerRight
  <2> QED BY <1>1, <2>1, <2>2
<1>13. ReadRight'
  BY <1>1, <1>5, <1>6 DEF ReadRight
<1>14. Answered'
  <2>1. CASE routine = "more"
    BY <1>5, <2>1 DEF Answered
  <2>2. CASE routine = "last"
    <3>1. done' = Wanted /\ ret' = Wanted
      BY <1>1, <1>3, <2>2 DEF RInv, ResultsRight, Count, Wanted
    <3>2. /\ Asked(call)' = Asked(call) /\ Asked(call).op = "read"
          /\ Asked(call).addr = call.reg /\ Asked(call).n = call.n
      BY <1>1, <1>3 DEF Asked, Operation
    <3>3. Registers!Within(Asked(call)) = Wanted
      BY <3>2 DEF Registers!Within, Wanted, Clamp
    <3>4. Registers!Answers(Asked(call))' =
            {<<Wanted, [i \in 1 .. Wanted |-> regs[call.reg + i - 1]]>>}
      BY <1>1, <3>2, <3>3 DEF Registers!Answers, Registers!Within
    <3> QED BY <1>6, <3>1, <3>4 DEF Answered
  <2> QED BY <1>1, <2>1, <2>2
<1> QED BY <1>1, <1>7, <1>8, <1>9, <1>10, <1>11, <1>12, <1>13, <1>14 DEF RInv

LEMMA StartedRefines ==
  ASSUME FInv, RInv, Started, UNCHANGED <<port, bus>>
  PROVE  RInv'
<1>1. /\ routine = "i2c_start" /\ UNCHANGED <<call, done, buf, ret>>
      /\ UNCHANGED <<slave, regs, stored, refused, ddr>> /\ Called' = Called /\ Rtc' = Rtc
      /\ Ranges' /\ SentRight'
  BY BusStays DEF Started, Called, RInv, Finished
<1>2. W \in Nat /\ W >= 1 /\ Clock \in Devices
  BY Here
<1>3. at >= 6 /\ AllHear(slave, 0, ForAddress) /\ Sending /\ Connected
  <2>1. at \in Nat /\ at > 7 /\ Starting
    BY <1>1, StartSteps DEF FInv, IInv, InPhase, PortTyped, Started, Finished
  <2> QED BY <1>1, <2>1 DEF Starting, Sending, Connected
<1>4. /\ routine' \in {"write0", "write1"} /\ at' = 1 /\ bit' = 1
      /\ \/ stage = "start" /\ byte' = 2 * Address[call.dev] /\ stage' = "address"
         \/ stage = "restart" /\ byte' = 2 * Address[call.dev] + 1 /\ stage' = "read_address"
  BY DEF Started, Write, WriteBit, Run
<1>5. /\ byte' \in Byte /\ byte' \div 2 = Address[call.dev]
  <2>1. call \in Calls /\ call.dev \in Devices
    BY <1>4, CallsAssumption DEF FInv, Control
  <2> DEFINE a == Address[call.dev]
  <2>2. a \in 0 .. Pow2[W - 1] - 1
    BY <2>1, AddressAssumption
  <2> HIDE DEF a
  <2>3. Pow2[W] = 2 * Pow2[W - 1] /\ Pow2[W - 1] \in Nat
    <3>1. W - 1 \in Nat /\ (W - 1) + 1 = W
      BY <1>2
    <3> QED BY <3>1, Pow2Is
  <2>4. byte' = 2 * a \/ byte' = 2 * a + 1
    BY <1>4 DEF a
  <2>5. byte' \in Byte
    BY <2>2, <2>3, <2>4 DEF Byte
  <2>6. byte' \div 2 = a
    BY <2>2, <2>4
  <2> QED BY <2>5, <2>6 DEF a
<1>6. HeardRight'
  BY <1>1, <1>2, <1>3 DEF RInv, HeardRight, Upto, AllHear, Hears, Off, Hearing
<1>7. OthersOut' /\ FaultKnown'
  <2>1. OthersOut'
    BY <1>1, <1>3 DEF RInv, OthersOut
  <2>2. FaultKnown'
    BY <1>1, <1>3, <1>4 DEF RInv, FaultKnown
  <2> QED BY <2>1, <2>2
<1>8. BytesRight' /\ ResultsRight'
  <2>1. Count(call)' = Count(call)
    BY <1>1 DEF Count, Clamp
  <2> QED BY <1>1, <1>4, <1>5, <2>1 DEF RInv, BytesRight, ResultsRight
<1>9. ModesRight'
  BY <1>1, <1>3, <1>4 DEF ModesRight, AllHear, Hears, Off, ForAddress
<1>10. StoredRight'
  BY <1>1, <1>4 DEF RInv, StoredRight
<1>11. PointerRight'
  <2>1. Rtc.mode \in {"off", "address"}
    BY <1>2, <1>3 DEF AllHear, Hears, Off, ForAddress, Rtc
  <2> QED BY <1>1, <1>4, <2>1 DEF RInv, PointerRight
<1>12. DataFree' /\ ReadRight' /\ Answered'
  BY <1>4 DEF DataFree, ReadRight, Answered
<1> QED BY <1>1, <1>6, <1>7, <1>8, <1>9, <1>10, <1>11, <1>12 DEF RInv

LEMMA BeginRefines ==
  ASSUME FInv, RInv, NEW c \in Calls, Begin(c)
  PROVE  RInv'
<1>1. /\ stage = "idle" /\ call' = c /\ ret' = Count(c) /\ buf' = <<>> /\ stage' = "start"
      /\ routine' = "i2c_start" /\ at' = 1 /\ UNCHANGED <<port, bus>>
  BY DEF Begin, Run
<1>2. UNCHANGED <<slave, regs, stored, refused, ddr>> /\ Rtc' = Rtc /\ Ranges' /\ SentRight'
  BY <1>1, BusStays DEF RInv
<1>3. routine = "none" /\ Rtc.mode = "off"
  BY <1>1, Here DEF FInv, Control, InPhase, Resting, AllOff, Off, Rtc
<1>4. HeardRight' /\ OthersOut' /\ BytesRight' /\ ModesRight' /\ DataFree' /\ ReadRight' /\ Answered'
  BY <1>1 DEF HeardRight, OthersOut, Connected, Sending, BytesRight, ModesRight, DataFree, ReadRight,
     Answered
<1>5. FaultKnown'
  BY <1>1, <1>2, <1>3 DEF RInv, FaultKnown, Connected, Sending
<1>6. ResultsRight'
  <2>1. Count(call)' = Count(c)
    BY <1>1 DEF Count, Clamp
  <2> QED BY <1>1, <2>1 DEF ResultsRight
<1>7. StoredRight'
  BY <1>1, <1>2 DEF RInv, StoredRight
<1>8. PointerRight'
  BY <1>1, <1>2, <1>3 DEF PointerRight
<1> QED BY <1>2, <1>4, <1>5, <1>6, <1>7, <1>8 DEF RInv

LEMMA RejectRefines ==
  ASSUME FInv, RInv, NEW c \in Calls, Reject(c)
  PROVE  RInv'
<1>1. /\ stage = "idle" /\ stage' = "idle" /\ UNCHANGED <<call, done, port, bus>>
      /\ routine' = routine
  BY DEF Reject, engine
<1>2. /\ UNCHANGED <<slave, regs, stored, refused, ddr>> /\ Rtc' = Rtc /\ Called' = Called
      /\ Ranges' /\ SentRight'
  BY <1>1, BusStays DEF RInv, Called
<1>3. routine = "none"
  BY <1>1 DEF FInv, Control
<1>4. HeardRight' /\ OthersOut' /\ BytesRight' /\ ModesRight' /\ DataFree' /\ ReadRight' /\ Answered'
  BY <1>1, <1>3 DEF HeardRight, OthersOut, Connected, Sending, BytesRight, ModesRight, DataFree,
     ReadRight, Answered
<1>5. FaultKnown'
  BY <1>1, <1>2, <1>3 DEF RInv, FaultKnown, Connected, Sending
<1>6. ResultsRight' /\ StoredRight' /\ PointerRight'
  BY <1>1, <1>2 DEF RInv, ResultsRight, StoredRight, PointerRight
<1> QED BY <1>2, <1>4, <1>5, <1>6 DEF RInv

LEMMA ReturnRefines ==
  ASSUME FInv, RInv, Return
  PROVE  RInv'
<1>1. /\ stage' = "idle" /\ routine' = "none" /\ stored' = 0 /\ refused' = FALSE
      /\ UNCHANGED <<port, slave, regs>>
  BY DEF Return
<1>2. Rtc' = Rtc /\ Scl' = Scl
  BY <1>1, Between DEF Rtc
<1>3. Ranges' /\ SentRight'
  BY <1>1, <1>2 DEF RInv, Ranges, SentRight
<1>4. HeardRight' /\ OthersOut' /\ BytesRight' /\ ModesRight' /\ DataFree' /\ ReadRight' /\ Answered'
  BY <1>1 DEF HeardRight, OthersOut, Connected, Sending, BytesRight, ModesRight, DataFree,
     ReadRight, Answered
<1>5. FaultKnown'
  BY <1>1 DEF FaultKnown, Connected, Sending
<1>6. ResultsRight' /\ StoredRight' /\ PointerRight'
  BY <1>1 DEF ResultsRight, StoredRight, PointerRight
<1> QED BY <1>3, <1>4, <1>5, <1>6 DEF RInv

\* The call is over with this byte: what is returned is settled.
LEMMA StopRefines ==
  ASSUME FInv, RInv, UNCHANGED <<port, bus>>, Stop, UNCHANGED <<call, buf>>,
         \/ <<ret', buf>> \in Registers!Answers(Asked(call))
         \/ refused /\ stored = 0 /\ <<ret', buf>> = <<-1, <<>>>>,
         stage \notin {"idle", "stop"}
  PROVE  RInv'
<1>1. /\ routine' = "i2c_stop" /\ stage' = "stop"
      /\ UNCHANGED <<slave, regs, stored, refused, ddr>> /\ Rtc' = Rtc /\ Ranges' /\ SentRight'
  BY BusStays DEF Stop, Run, RInv
<1>2. HeardRight' /\ OthersOut' /\ BytesRight' /\ ModesRight' /\ DataFree' /\ ReadRight'
  BY <1>1 DEF HeardRight, OthersOut, Connected, Sending, BytesRight, ModesRight, DataFree, ReadRight
<1>3. FaultKnown' /\ ResultsRight' /\ PointerRight'
  BY <1>1 DEF FaultKnown, Connected, Sending, ResultsRight, PointerRight
<1>4. StoredRight'
  BY <1>1 DEF RInv, StoredRight
<1>5. Answered'
  <2>1. Asked(call)' = Asked(call)
    BY DEF Asked, Operation
  <2>2. Registers!Answers(Asked(call))' = Registers!Answers(Asked(call))
    BY <1>1, <2>1 DEF Registers!Answers, Registers!Within
  <2> QED BY <1>1, <2>2 DEF Answered
<1> QED BY <1>1, <1>2, <1>3, <1>4, <1>5 DEF RInv

LEMMA SentRefines ==
  ASSUME FInv, RInv, Sent, UNCHANGED <<port, bus>>
  PROVE  RInv'
<1>1. /\ routine = "ack" /\ UNCHANGED <<nack, call, buf>>
      /\ UNCHANGED <<slave, regs, stored, refused, ddr>> /\ Called' = Called /\ Rtc' = Rtc
      /\ Ranges' /\ SentRight'
  BY BusStays DEF Sent, Called, RInv, Finished
<1>2. W \in Nat /\ W >= 1 /\ Clock \in Devices /\ Rtc \in Slave /\ Rtc.mode \in Modes
  BY Here DEF Rtc
<1>3. /\ stage \in {"address", "read_address", "register", "data"}
      /\ call \in Calls /\ ~OutOfRange(call) /\ done \in Nat /\ nack \in BOOLEAN
      /\ stage \notin {"data", "read", "stop"} => done = 0
      /\ stage = "read_address" => call.fn = "ds1307_read"
  BY <1>1 DEF FInv, Control
<1>4. at = 9 /\ Acknowledged
  <2>1. at \in Nat /\ at > 8 /\ Acknowledged
    BY <1>1, AckSteps DEF FInv, IInv, InPhase, PortTyped, Sent, Finished
  <2> QED BY <2>1 DEF Acknowledged
<1>5. IF stage = "read_address" THEN AllSend(slave, 0) ELSE AllHear(slave, 0, ForData)
  BY <1>4 DEF Acknowledged
<1>6. (nack <=> refused) /\ refused \in BOOLEAN /\ Sending /\ Connected
  BY <1>1, <1>4 DEF RInv, FaultKnown, Ranges, Sending, Connected
<1>7. (refused <=> Called.mode = "off") /\ ret = Count(call) /\ buf = <<>>
  BY <1>3, <1>6 DEF RInv, FaultKnown, ResultsRight
<1>8. /\ call.fn \in {"ds1307_read", "ds1307_write", "sh1107_data_burst", "sh1107_display_vertical",
                      "i2c_probe"}
      /\ call.dev \in Devices /\ call.reg \in Byte /\ call.data \in Seq(Byte)
      /\ call.fn \in {"ds1307_read", "ds1307_write"} => call.dev = Clock
      /\ call.dev = Clock => call.fn \notin {"sh1107_data_burst", "sh1107_display_vertical"}
  BY <1>3, CallsAssumption
<1>9. stage = "data" => call.fn \notin {"ds1307_read", "i2c_probe"}
  BY DEF RInv, ResultsRight
<1>10. call.reg \in Nat
  BY <1>8 DEF Byte
<1>11. CASE call.fn = "i2c_probe" /\ ret' = (IF nack THEN 0 ELSE 1) /\ Stop
  <2>1. Asked(call).op = "probe"
    BY <1>11 DEF Asked, Operation
  <2>2. Registers!Answers(Asked(call)) = {<<IF refused THEN 0 ELSE 1, <<>>>>}
    BY <2>1 DEF Registers!Answers
  <2>3. <<ret', buf>> \in Registers!Answers(Asked(call))
    BY <1>6, <1>7, <1>11, <2>2
  <2> QED BY <1>1, <1>3, <1>11, <2>3, StopRefines
<1>12. CASE call.fn # "i2c_probe" /\ Fails /\ ret' = -1 /\ Stop
  <2>1. refused /\ ~(call.fn = "ds1307_write" /\ stage = "data")
    BY <1>6, <1>12 DEF Fails, Unchecked
  <2>2. stored = 0
    BY <1>3, <1>8, <1>9, <2>1 DEF RInv, StoredRight
  <2> QED BY <1>1, <1>3, <1>7, <1>12, <2>1, <2>2, StopRefines
<1>13. CASE call.fn # "i2c_probe" /\ ~Fails /\ stage = "address" /\ Write(call.reg)
            /\ stage' = "register" /\ UNCHANGED <<ret, done>>
  <2>1. /\ routine' \in {"write0", "write1"} /\ at' = 1 /\ byte' = call.reg
    BY <1>13 DEF Write, WriteBit, Run
  <2>2. AllHear(slave, 0, ForData)
    BY <1>5, <1>13
  <2>3. HeardRight'
    BY <1>1, <1>2, <1>6, <2>2 DEF HeardRight, Upto, AllHear, Hears, Off, Hearing, RInv
  <2>4. OthersOut'
    BY <1>1, <1>6 DEF RInv, OthersOut
  <2>5. FaultKnown'
    BY <1>1, <1>6, <1>13, <2>1 DEF RInv, FaultKnown
  <2>6. BytesRight'
    BY <1>1, <1>8, <1>13, <2>1 DEF BytesRight
  <2>7. ResultsRight'
    <3>1. Count(call)' = Count(call)
      BY <1>1 DEF Count, Clamp
    <3> QED BY <1>1, <1>7, <1>13, <3>1 DEF ResultsRight
  <2>8. \A d \in Devices : slave[d].mode # "store"
    BY <1>1, <1>13 DEF RInv, ModesRight
  <2>9. ModesRight'
    BY <1>1, <1>13, <2>1, <2>8 DEF ModesRight
  <2>10. StoredRight'
    BY <1>1, <1>13 DEF RInv, StoredRight
  <2>11. PointerRight'
    <3>1. Rtc.mode # "store" /\ (Rtc.mode = "pointer" => Rtc.n = 0)
      BY <1>2, <2>2, <2>8 DEF AllHear, Hears, Off, Rtc
    <3> QED BY <1>1, <1>2, <1>13, <3>1 DEF PointerRight
  <2>12. DataFree' /\ ReadRight' /\ Answered'
    BY <1>13, <2>1 DEF DataFree, ReadRight, Answered
  <2> QED BY <1>1, <2>3, <2>4, <2>5, <2>6, <2>7, <2>9, <2>10, <2>11, <2>12 DEF RInv
<1>14. CASE /\ call.fn # "i2c_probe" /\ ~Fails /\ stage = "register" /\ call.fn = "ds1307_read"
            /\ UNCHANGED <<byte, bit, done, ret>> /\ Run("i2c_start") /\ stage' = "restart"
  <2>1. routine' = "i2c_start" /\ at' = 1
    BY <1>14 DEF Run
  <2>2. ~refused
    BY <1>6, <1>14 DEF Fails, Unchecked
  <2>3. HeardRight' /\ OthersOut' /\ BytesRight' /\ ModesRight' /\ DataFree' /\ ReadRight' /\ Answered'
    BY <1>14, <2>1 DEF HeardRight, OthersOut, Connected, Sending, BytesRight, ModesRight, DataFree,
       ReadRight, Answered
  <2>4. FaultKnown'
    BY <1>1, <1>7, <1>14, <2>1, <2>2 DEF FaultKnown, Connected, Sending
  <2>5. ResultsRight'
    <3>1. Count(call)' = Count(call)
      BY <1>1 DEF Count, Clamp
    <3> QED BY <1>1, <1>7, <1>14, <3>1 DEF ResultsRight
  <2>6. StoredRight'
    BY <1>1, <1>14 DEF RInv, StoredRight
  <2>7. PointerRight'
    <3>1. Rtc.mode # "off" => Rtc.mode = "store"
      <4>1. Rtc.mode = "off" \/ (Rtc.mode \in {"pointer", "store"} /\ Rtc.n = 0)
        BY <1>2, <1>5, <1>14 DEF AllHear, Hears, Off, ForData, Rtc
      <4>2. Rtc.n = 0 => Rtc.mode # "pointer"
        BY <1>1, <1>2, <1>14 DEF RInv, ModesRight, Rtc
      <4> QED BY <4>1, <4>2
    <3>2. call.dev = Clock /\ Rtc.mode # "off" => Rtc.ptr = (call.reg + stored) % NREG
      BY <1>14, <3>1 DEF RInv, PointerRight
    <3> QED BY <1>1, <1>14, <3>1, <3>2 DEF PointerRight
  <2> QED BY <1>1, <2>3, <2>4, <2>5, <2>6, <2>7 DEF RInv
<1>15. CASE /\ call.fn # "i2c_probe" /\ ~Fails /\ stage = "read_address"
            /\ Listen /\ stage' = "read" /\ UNCHANGED <<done, ret>>
  <2>1. routine' = "listen" /\ at' = 1 /\ byte' = 0 /\ bit' = 0 /\ done = 0 /\ call.fn = "ds1307_read"
    BY <1>3, <1>15 DEF Run, Listen
  <2>2. ~refused
    BY <1>6, <1>15, <2>1 DEF Fails, Unchecked
  <2>3. HeardRight' /\ BytesRight' /\ ModesRight' /\ DataFree' /\ Answered'
    BY <1>15, <2>1 DEF HeardRight, Sending, BytesRight, ModesRight, DataFree, Answered
  <2>4. OthersOut'
    BY <1>1, <1>6 DEF RInv, OthersOut
  <2>5. FaultKnown'
    BY <1>1, <1>7, <1>15, <2>1, <2>2 DEF FaultKnown
  <2>6. ResultsRight'
    <3>1. Count(call)' = Count(call)
      BY <1>1 DEF Count, Clamp
    <3> QED BY <1>1, <1>7, <1>15, <3>1 DEF ResultsRight
  <2>7. StoredRight'
    BY <1>1, <1>15 DEF RInv, StoredRight
  <2>8. PointerRight'
    <3>1. Rtc.mode \in {"off", "send"}
      BY <1>2, <1>5, <1>15 DEF AllSend, Sends, Off, Rtc
    <3>2. stored = 0
      BY <1>15 DEF RInv, StoredRight
    <3>3. Rtc.mode = "send" => Rtc.ptr = (call.reg + 0) % NREG
      BY <1>8, <1>15, <2>1, <3>2 DEF RInv, PointerRight
    <3>4. (call.reg + 0) % NREG = call.reg + 0 + 0
      <4>1. call.reg \in 0 .. NREG - 1 /\ NREG \in Nat
        BY <1>3, <1>8, <2>1, WithinRegisters, Here
      <4> QED BY <4>1
    <3> QED BY <1>1, <1>15, <2>1, <3>1, <3>3, <3>4 DEF PointerRight
  <2>9. ReadRight'
    <3>1. <<>> = [i \in 1 .. 0 |-> regs[call.reg + i - 1]]
      OBVIOUS
    <3> QED BY <1>1, <1>7, <1>15, <2>1, <3>1 DEF ReadRight
  <2> QED BY <1>1, <2>3, <2>4, <2>5, <2>6, <2>7, <2>8, <2>9 DEF RInv
<1>16. CASE /\ call.fn # "i2c_probe" /\ ~Fails /\ stage \in {"register", "data"}
            /\ call.fn # "ds1307_read" /\ done < Len(call.data)
            /\ Write(call.data[done + 1]) /\ stage' = "data" /\ done' = done + 1 /\ UNCHANGED ret
  <2>1. /\ routine' \in {"write0", "write1"} /\ at' = 1 /\ byte' = call.data[done + 1]
    BY <1>16 DEF Write, WriteBit, Run
  <2>2. AllHear(slave, 0, ForData)
    BY <1>5, <1>16
  <2>3. HeardRight'
    BY <1>1, <1>2, <1>6, <2>2 DEF HeardRight, Upto, AllHear, Hears, Off, Hearing, RInv
  <2>4. OthersOut'
    BY <1>1, <1>6 DEF RInv, OthersOut
  <2>5. FaultKnown'
    BY <1>1, <1>6, <1>16, <2>1 DEF RInv, FaultKnown
  <2>6. BytesRight'
    <3>1. done' \in 1 .. Len(call.data) /\ byte' = call.data[done'] /\ byte' \in Byte
      BY <1>3, <1>8, <1>16, <2>1
    <3> QED BY <1>1, <1>16, <3>1 DEF BytesRight
  <2>7. ResultsRight'
    <3>1. Count(call)' = Count(call)
      BY <1>1 DEF Count, Clamp
    <3> QED BY <1>1, <1>7, <1>16, <3>1 DEF ResultsRight
  <2>8. ModesRight'
    <3>1. ASSUME NEW d \in Devices PROVE slave[d].mode # "pointer"
      <4>1. Off(slave[d]) \/ slave[d].n = 0
        BY <2>2 DEF AllHear, Hears
      <4>2. slave[d].n = 0 => slave[d].mode # "pointer"
        BY <1>1, <1>16 DEF RInv, ModesRight
      <4> QED BY <4>1, <4>2 DEF Off
    <3> QED BY <1>1, <1>16, <3>1 DEF ModesRight
  <2>9. StoredRight'
    <3>1. call.dev # Clock => stored = 0
      BY DEF RInv, StoredRight
    <3>2. Rtc.mode # "off" => Rtc.n = 0
      BY <1>2, <2>2 DEF AllHear, Hears, Off, Rtc
    <3>3. call.dev = Clock /\ Rtc.mode # "off" => stored = done
      BY <1>1, <1>2, <1>3, <1>16, <3>2 DEF RInv, StoredRight
    <3>4. done' - 1 = done
      BY <1>3, <1>16
    <3> QED BY <1>1, <1>16, <2>1, <3>1, <3>3, <3>4 DEF StoredRight
  <2>10. PointerRight'
    BY <1>1, <1>16 DEF RInv, PointerRight
  <2>11. DataFree' /\ ReadRight' /\ Answered'
    BY <1>16, <2>1 DEF DataFree, ReadRight, Answered
  <2> QED BY <1>1, <2>3, <2>4, <2>5, <2>6, <2>7, <2>8, <2>9, <2>10, <2>11 DEF RInv
<1>17. CASE /\ call.fn # "i2c_probe" /\ ~Fails /\ stage \in {"register", "data"}
            /\ call.fn # "ds1307_read" /\ ~(done < Len(call.data)) /\ Stop /\ UNCHANGED <<done, ret>>
  <2>1. CASE call.fn = "ds1307_write"
    <3>1. Asked(call).op = "write" /\ Asked(call).data = call.data
      BY <2>1 DEF Asked, Operation
    <3>2. refused \/ stored = Len(call.data)
      <4> SUFFICES ASSUME ~refused PROVE stored = Len(call.data)
        OBVIOUS
      <4>1. call.dev = Clock /\ Rtc.mode # "off"
        BY <1>7, <1>8, <2>1 DEF Called, Rtc
      <4>2. Rtc.n = 0
        BY <1>2, <1>5, <1>17, <4>1 DEF AllHear, Hears, Off, Rtc
      <4>3. stored = done
        BY <1>1, <1>2, <1>3, <1>17, <4>1, <4>2 DEF RInv, StoredRight
      <4>4. done <= Len(call.data)
        <5>1. stage = "data" => done \in 1 .. Len(call.data)
          BY <1>1 DEF RInv, BytesRight
        <5>2. Len(call.data) \in Nat
          BY <1>8
        <5> QED BY <1>3, <1>17, <5>1, <5>2
      <4>5. Len(call.data) \in Nat
        BY <1>8
      <4> QED BY <1>3, <1>17, <4>3, <4>4, <4>5
    <3>3. Registers!Answers(Asked(call)) = {<<Len(call.data), <<>>>>}
      BY <3>1, <3>2 DEF Registers!Answers
    <3>4. <<ret', buf>> \in Registers!Answers(Asked(call))
      BY <1>7, <1>17, <2>1, <3>3 DEF Count
    <3> QED BY <1>1, <1>3, <1>17, <3>4, StopRefines
  <2>2. CASE call.fn # "ds1307_write"
    <3>1. Asked(call).op = "other" /\ Count(call) = 0
      BY <1>17, <2>2 DEF Asked, Operation, Count
    <3>2. Registers!Answers(Asked(call)) = {<<0, <<>>>>}
      BY <3>1 DEF Registers!Answers
    <3>3. <<ret', buf>> \in Registers!Answers(Asked(call))
      BY <1>7, <1>17, <3>1, <3>2
    <3> QED BY <1>1, <1>3, <1>17, <3>3, StopRefines
  <2> QED BY <2>1, <2>2
<1> QED BY <1>11, <1>12, <1>13, <1>14, <1>15, <1>16, <1>17 DEF Sent, NextData

-----------------------------------------------------------------------------
(* The invariant, and the refinement.                                      *)

LEMMA EdgesRefine ==
  ASSUME FInv, FInv', RInv, Access \/ \E d \in Devices : LetGo(d)
  PROVE  RInv'
<1>1. Beside /\ Edge
  BY StepEdges DEF RInv
<1> QED BY <1>1, HeardKept, OthersKept, FaultKept, SentAsKept, RangesKept, ModesKept, StoredKept,
           PointerKept, SentRightKept, DataFreeKept, ReadKept, AnsweredKept DEF RInv

LEMMA RefinementStarts == Init => RInv
<1> SUFFICES ASSUME Init PROVE RInv
  OBVIOUS
<1>1. /\ routine = "none" /\ stage = "idle" /\ stored = 0 /\ refused = FALSE
      /\ regs \in [0 .. NREG - 1 -> InitialByte]
  BY DEF Init
<1>2. InitialByte \subseteq Byte /\ Clock \in Devices
  BY WidthAssumption, AddressAssumption
<1>3. Ranges
  BY <1>1, <1>2 DEF Ranges
<1>4. Rtc.mode = "off"
  BY <1>2 DEF Init, Rtc
<1> QED BY <1>1, <1>3, <1>4 DEF RInv, HeardRight, OthersOut, Sending, Connected, FaultKnown,
           BytesRight, ResultsRight, ModesRight, StoredRight, PointerRight, SentRight, DataFree,
           ReadRight, Answered

LEMMA RefinementInductive ==
  ASSUME FInv, FInv', RInv, [Next]_vars
  PROVE  RInv'
<1>1. CASE Access \/ \E d \in Devices : LetGo(d)
  BY <1>1, EdgesRefine
<1>2. CASE Continue
  BY <1>2, SendOnRefines, ReceiveOnRefines, ReceivedRefines, StartedRefines, SentRefines DEF Continue
<1>3. CASE Return
  BY <1>3, ReturnRefines
<1>4. CASE \E c \in Calls : Begin(c) \/ Reject(c)
  BY <1>4, BeginRefines, RejectRefines
<1>5. CASE UNCHANGED vars
  <2>1. UNCHANGED <<ddr, latch, routine, at, byte, bit, nack, call, stage, done, buf, ret, slave, regs,
                    stored, refused>>
    BY <1>5 DEF vars, port, engine, driver, bus
  <2>2. Scl' = Scl /\ Rtc' = Rtc /\ Called' = Called
    BY <2>1, Between DEF port, Rtc, Called
  <2>3. Count(call)' = Count(call) /\ Asked(call)' = Asked(call)
    BY <2>1 DEF Count, Clamp, Asked, Operation
  <2>4. Registers!Answers(Asked(call))' = Registers!Answers(Asked(call))
    BY <2>1, <2>3 DEF Registers!Answers, Registers!Within
  <2>5. Ranges' /\ HeardRight' /\ OthersOut' /\ FaultKnown' /\ BytesRight' /\ ResultsRight'
    BY <2>1, <2>2, <2>3 DEF RInv, Ranges, HeardRight, OthersOut, Connected, Sending, FaultKnown,
       BytesRight, ResultsRight
  <2>6. ModesRight' /\ StoredRight' /\ PointerRight' /\ SentRight' /\ DataFree' /\ ReadRight'
    BY <2>1, <2>2 DEF RInv, ModesRight, StoredRight, PointerRight, SentRight, DataFree, ReadRight
  <2>7. Answered'
    BY <2>1, <2>4 DEF RInv, Answered
  <2> QED BY <2>5, <2>6, <2>7 DEF RInv
<1> QED BY <1>1, <1>2, <1>3, <1>4, <1>5 DEF Next

LEMMA RequestsAre == \A c \in Calls : Asked(c) # None
BY NoneAssumption

\* A step on the bus stores the next byte, or is a fault, or is none of the clock's affair.
LEMMA EdgesMap ==
  ASSUME FInv, FInv', RInv, RInv', Access \/ \E d \in Devices : LetGo(d)
  PROVE  Registers!Store \/ Registers!Fault \/ UNCHANGED Registers!vars
<1>1. Beside /\ Edge
  BY StepEdges DEF RInv
<1>2. /\ stage # "idle" /\ UNCHANGED <<call, stage, done, ret, buf>>
      /\ call \in Calls
  BY <1>1 DEF Beside, driver, FInv, Control
<1>3. Asked(call)' = Asked(call) /\ Asked(call) # None
  BY <1>2, RequestsAre DEF Asked, Operation
<1>4. refused \in BOOLEAN /\ refused' \in BOOLEAN /\ (refused => refused')
  <2>1. refused \in BOOLEAN /\ refused' \in BOOLEAN
    BY DEF RInv, Ranges
  <2>2. refused => refused'
    BY <1>1 DEF Edge, Unmoved, Rising, Falling, Fallen, Calling, Begun, Leaving, Stopped, Rest
  <2> QED BY <2>1, <2>2
<1>5. CASE UNCHANGED <<regs, stored>>
  <2>1. CASE refused' = refused
    BY <1>2, <1>3, <1>5, <2>1 DEF Registers!vars
  <2>2. CASE refused' # refused
    <3>1. refused' = TRUE
      BY <1>4, <2>2
    <3> QED BY <1>2, <1>3, <1>5, <3>1 DEF Registers!Fault
  <2> QED BY <2>1, <2>2
<1>6. CASE \E f \in BOOLEAN :
             /\ Falling(f) /\ StoresIn(Rtc, Rtc')
             /\ regs' = [regs EXCEPT ![Rtc.ptr] = Rtc.byte] /\ stored' = stored + 1
  <2>1. PICK f \in BOOLEAN :
             /\ Falling(f) /\ StoresIn(Rtc, Rtc')
             /\ regs' = [regs EXCEPT ![Rtc.ptr] = Rtc.byte] /\ stored' = stored + 1
    BY <1>6
  <2>2. /\ routine = "ack" /\ stage = "data" /\ call.dev = Clock
        /\ Rtc.mode = "store" /\ Rtc.n = W /\ Rtc.byte = byte
        /\ ~refused /\ ~refused'
    BY <1>1, <2>1, StoringWhere DEF RInv
  <2>3. refused' = refused
    BY <1>4, <2>2
  <2>4. call.fn = "ds1307_write"
    <3>1. call.fn \notin {"i2c_probe", "ds1307_read"}
      BY <2>2 DEF RInv, ResultsRight
    <3> QED BY <1>2, <2>2, <3>1, CallsAssumption
  <2>5. /\ Asked(call).op = "write" /\ Asked(call).addr = call.reg /\ Asked(call).data = call.data
    BY <2>4 DEF Asked, Operation
  <2>6. done \in 1 .. Len(call.data) /\ byte = call.data[done]
    BY <2>2 DEF RInv, BytesRight
  <2>7. stored = done - 1
    BY <2>2 DEF RInv, StoredRight
  <2>8. stored < Len(call.data) /\ stored + 1 = done
    <3>1. Len(call.data) \in Nat /\ done \in Nat
      BY <1>2, CallsAssumption DEF FInv, Control
    <3> QED BY <2>6, <2>7, <3>1
  <2>9. Rtc.ptr = (call.reg + stored) % NREG
    BY <2>2 DEF RInv, PointerRight
  <2>10. regs' = [regs EXCEPT ![(call.reg + stored) % NREG] = call.data[stored + 1]]
    BY <2>1, <2>2, <2>6, <2>8, <2>9
  <2> QED BY <1>2, <1>3, <2>1, <2>2, <2>3, <2>5, <2>8, <2>10 DEF Registers!Store
<1> QED BY <1>1, <1>5, <1>6, EdgeStores

LEMMA ContinueMaps ==
  ASSUME FInv, FInv', Continue
  PROVE  UNCHANGED Registers!vars
<1>1. /\ routine # "none" /\ UNCHANGED <<call, slave, regs, stored, refused>>
  BY DEF Continue, bus, SendOn, ReceiveOn, Received, Started, Sent, Finished, driver
<1>2. routine' # "none"
  BY ContinueRuns DEF Routines, Accesses
<1>3. stage # "idle" /\ stage' # "idle"
  BY <1>1, <1>2 DEF FInv, Control
<1>4. Asked(call)' = Asked(call)
  BY <1>1 DEF Asked, Operation
<1> QED BY <1>1, <1>3, <1>4 DEF Registers!vars

LEMMA BeginMaps ==
  ASSUME FInv, RInv, NEW c \in Calls, Begin(c)
  PROVE  \E r \in {Asked(k) : k \in Calls} : Registers!Call(r)
<1>1. /\ stage = "idle" /\ stage' = "start" /\ call' = c /\ UNCHANGED <<regs, stored, refused>>
      /\ ~OutOfRange(c)
  BY DEF Begin, bus
<1>2. stored = 0 /\ refused = FALSE
  <2>1. routine = "none"
    BY <1>1 DEF FInv, Control
  <2> QED BY <1>1, <2>1 DEF RInv, StoredRight, FaultKnown, Ranges
<1>3. Asked(call)' = Asked(c)
  BY <1>1 DEF Asked, Operation
<1>4. Asked(c).op \in {"read", "write"} => Asked(c).addr < NREG
  <2>1. Asked(c).op \in {"read", "write"} => c.fn \in {"ds1307_read", "ds1307_write"}
    BY DEF Asked, Operation
  <2>2. Asked(c).addr = c.reg /\ c.reg \in Int /\ NREG \in Int
    BY CallsAssumption, Here DEF Asked, Byte
  <2> QED BY <1>1, <2>1, <2>2 DEF OutOfRange
<1>5. Registers!Call(Asked(c))
  BY <1>1, <1>2, <1>3, <1>4 DEF Registers!Call
<1> QED BY <1>5

LEMMA RejectMaps ==
  ASSUME NEW c \in Calls, Reject(c)
  PROVE  Registers!Reject
<1>1. /\ stage = "idle" /\ stage' = "idle" /\ UNCHANGED <<call, regs, stored, refused>>
      /\ ret' = -1 /\ buf' = <<>> /\ OutOfRange(c)
  BY DEF Reject, bus
<1>2. Asked(c).op \in {"read", "write"} /\ Asked(c).addr >= NREG
  BY <1>1 DEF OutOfRange, Asked, Operation
<1> QED BY <1>1, <1>2 DEF Registers!Reject

LEMMA ReturnMaps ==
  ASSUME FInv, RInv, Return
  PROVE  Registers!Return
<1>1. /\ stage = "stop" /\ stage' = "idle" /\ stored' = 0 /\ refused' = FALSE
      /\ UNCHANGED <<ret, buf, regs>>
  BY DEF Return
<1>2. Asked(call) # None
  BY <1>1, RequestsAre DEF FInv, Control
<1>3. \/ <<ret, buf>> \in Registers!Answers(Asked(call))
      \/ refused /\ stored = 0 /\ <<ret, buf>> = <<-1, <<>>>>
  BY <1>1 DEF RInv, Answered
<1>4. <<ret, buf>>' = <<ret, buf>>
  BY <1>1
<1> QED BY <1>1, <1>2, <1>3, <1>4 DEF Registers!Return

LEMMA StepsMap ==
  ASSUME FInv, FInv', RInv, RInv', [Next]_vars
  PROVE  [Registers!Next]_(Registers!vars)
<1>1. CASE Access \/ \E d \in Devices : LetGo(d)
  BY <1>1, EdgesMap DEF Registers!Next
<1>2. CASE Continue
  BY <1>2, ContinueMaps
<1>3. CASE Return
  BY <1>3, ReturnMaps DEF Registers!Next
<1>4. CASE \E c \in Calls : Begin(c) \/ Reject(c)
  BY <1>4, BeginMaps, RejectMaps DEF Registers!Next
<1>5. CASE UNCHANGED vars
  <2>1. UNCHANGED <<call, stage, ret, buf, regs, stored, refused>>
    BY <1>5 DEF vars, driver, bus
  <2>2. Asked(call)' = Asked(call)
    BY <2>1 DEF Asked, Operation
  <2> QED BY <2>1, <2>2 DEF Registers!vars
<1> QED BY <1>1, <1>2, <1>3, <1>4, <1>5 DEF Next

LEMMA InitMaps == Init => Registers!Init
<1> SUFFICES ASSUME Init PROVE Registers!Init
  OBVIOUS
<1>1. /\ stage = "idle" /\ ret = 0 /\ buf = <<>> /\ stored = 0 /\ refused = FALSE
      /\ regs \in [0 .. NREG - 1 -> InitialByte]
  BY DEF Init
<1>2. regs \in [0 .. NREG - 1 -> Byte]
  BY <1>1, WidthAssumption
<1> QED BY <1>1, <1>2 DEF Registers!Init

\* The calls of ds1307.c, made bit by bit over a bus whose devices may fail to answer anywhere,
\* behave as a file of registers (Refines, ClockRegisters.tla): bytes arrive whole, in order, at
\* the register meant, a read returns what the registers hold, and -1 means nothing was done; for
\* every width of a byte, number of registers, set of devices and calls.
THEOREM ClockRefined == Spec => Refines
<1>1. Init => FInv /\ RInv
  BY FramingStarts, RefinementStarts
<1>2. FInv /\ RInv /\ [Next]_vars => FInv' /\ RInv'
  BY FramingInductive, RefinementInductive
<1>3. FInv /\ FInv' /\ RInv /\ RInv' /\ [Next]_vars => [Registers!Next]_(Registers!vars)
  BY StepsMap
<1> QED BY <1>1, <1>2, <1>3, InitMaps, PTL DEF Spec, Refines, Registers!Spec

-----------------------------------------------------------------------------
(* Types.  That a device's byte is one is not inductive: it has no more    *)
(* than the bits it has heard.                                             *)

Sized(s) ==
  /\ s.n <= W + 1 /\ s.byte \in Byte /\ s.ptr \in 0 .. NREG - 1
  /\ s.mode \in Hearing => s.byte < Pow2[IF s.n <= W THEN s.n ELSE W]

\* Between two routines nothing is left to do, between two calls nobody is called.
Unused == (routine = "none" => at = 1) /\ (stage = "idle" => call = NoCall)

TypeInv ==
  /\ \A d \in Devices : Sized(slave[d])
  /\ byte \in Byte /\ bit \in 0 .. W /\ buf \in Seq(Byte) /\ ret \in Int
  /\ Unused

\* More bits, greater numbers.
LEMMA Pow2Grows == \A k \in 0 .. W : Pow2[k] <= Pow2[W]
<1> DEFINE S == {j \in Nat : j <= W => Pow2[W - j] <= Pow2[W]}
<1>1. W \in Nat /\ Pow2[W] \in Nat
  BY WidthPositive, Pow2Is
<1>2. 0 \in S
  <2>1. W - 0 = W
    BY <1>1
  <2> QED BY <1>1, <2>1
<1>3. ASSUME NEW j \in Nat, j \in S PROVE j + 1 \in S
  <2>1. SUFFICES ASSUME j + 1 <= W PROVE Pow2[W - (j + 1)] <= Pow2[W]
    OBVIOUS
  <2> DEFINE i == W - (j + 1)
  <2>2. i \in Nat /\ i + 1 = W - j
    BY <1>1, <2>1
  <2>3. Pow2[W - j] <= Pow2[W]
    BY <1>1, <1>3, <2>1
  <2> HIDE DEF i
  <2>4. Pow2[i + 1] = 2 * Pow2[i] /\ Pow2[i] \in Nat
    BY <2>2, Pow2Is
  <2>5. Pow2[i] <= Pow2[W]
    BY <1>1, <2>2, <2>3, <2>4
  <2> QED BY <2>5 DEF i
<1> HIDE DEF S
<1>4. Nat \subseteq S
  BY <1>2, <1>3, Inductively
<1>5. ASSUME NEW k \in 0 .. W PROVE Pow2[k] <= Pow2[W]
  <2> DEFINE j == W - k
  <2>1. j \in Nat /\ j <= W /\ W - j = k
    BY <1>1
  <2> HIDE DEF j
  <2>2. j \in S
    BY <1>4, <2>1
  <2> QED BY <2>1, <2>2 DEF S
<1> QED BY <1>5

LEMMA RiseSized ==
  ASSUME NEW s \in Slave, Sized(s), NEW h \in BOOLEAN
  PROVE  Sized(Rises(s, h))
<1> DEFINE b == 2 * s.byte + (IF h THEN 1 ELSE 0)
<1>1. W \in Nat /\ W >= 1 /\ Pow2[W] \in Nat /\ s.n \in Nat /\ s.byte \in Nat /\ s.mode \in Modes
  BY WidthPositive, Pow2Is DEF Sized, Slave, Byte
<1>2. CASE s.mode = "off" \/ s.n > W \/ (s.mode \in Hearing /\ s.n = W)
  <2>1. Rises(s, h) = s
    BY <1>1, <1>2 DEF Rises, Hearing
  <2> QED BY <2>1
<1>3. CASE s.mode = "send" /\ s.n <= W
  <2>1. \/ Rises(s, h) = [s EXCEPT !.n = s.n + 1]
        \/ Rises(s, h) = [s EXCEPT !.mode = "off"]
        \/ Rises(s, h) = [s EXCEPT !.n = W + 1]
    BY <1>1, <1>3 DEF Rises, Hearing, Slave
  <2>2. \A m : m \in {"send", "off"} => m \notin Hearing
    BY DEF Hearing
  <2>3. CASE Rises(s, h) = [s EXCEPT !.n = s.n + 1]
    BY <1>1, <1>3, <2>2, <2>3 DEF Sized, Slave
  <2>4. CASE Rises(s, h) = [s EXCEPT !.mode = "off"]
    BY <1>1, <1>3, <2>2, <2>4 DEF Sized, Slave
  <2>5. CASE Rises(s, h) = [s EXCEPT !.n = W + 1]
    BY <1>1, <1>3, <2>2, <2>5 DEF Sized, Slave
  <2> QED BY <2>1, <2>3, <2>4, <2>5
<1>4. CASE s.mode \in Hearing /\ s.n < W
  <2>1. Rises(s, h) = [s EXCEPT !.n = s.n + 1, !.byte = b]
    BY <1>1, <1>4 DEF Rises, Hearing
  <2>2. s.byte < Pow2[s.n] /\ Pow2[s.n] \in Nat /\ Pow2[s.n + 1] = 2 * Pow2[s.n]
    BY <1>1, <1>4, Pow2Is DEF Sized
  <2>3. b \in Nat /\ b < Pow2[s.n + 1]
    BY <1>1, <2>2
  <2>4. Pow2[s.n + 1] <= Pow2[W]
    BY <1>1, <1>4, Pow2Grows
  <2>5. b \in Byte
    BY <1>1, <2>2, <2>3, <2>4 DEF Byte
  <2> HIDE DEF b
  <2>6. LET t == Rises(s, h) IN t.n = s.n + 1 /\ t.byte = b /\ t.ptr = s.ptr
    BY <2>1 DEF Slave
  <2> QED BY <1>1, <1>4, <2>3, <2>5, <2>6 DEF Sized
<1> QED BY <1>1, <1>2, <1>3, <1>4 DEF Modes, Hearing

\* What may come of the three numbers when the clock falls.
LEMMA FallNumbers ==
  ASSUME NEW d, NEW s \in Slave, NEW r, NEW f \in BOOLEAN, NEW g \in BOOLEAN
  PROVE  LET t == Falls(d, s, r, f, g) IN
         /\ t.n \in {s.n, 0, W + 1} /\ t.byte \in {s.byte, 0}
         /\ t.ptr \in {s.ptr, After(s.ptr), s.byte % NREG}
<1> DEFINE t == Falls(d, s, r, f, g)
           u == [s EXCEPT !.scl = g /\ s.mode # "off"]
           Out(p, k) == [u EXCEPT !.mode = "send", !.ptr = p, !.n = k, !.sda = BitOf(r[p], k) = 0]
           p_ == CASE s.mode = "pointer" -> s.byte % NREG
                   [] s.mode = "store" -> After(s.ptr) [] OTHER -> s.ptr
           m_ == IF s.mode = "address" THEN "pointer" ELSE "store"
           Numbers(v) == /\ v.n \in {s.n, 0, W + 1} /\ v.byte \in {s.byte, 0}
                         /\ v.ptr \in {s.ptr, After(s.ptr), s.byte % NREG}
<1>1. W \in Nat /\ W >= 1 /\ s.n \in Nat
  BY WidthPositive DEF Slave
<1>2. u.n = s.n /\ u.byte = s.byte /\ u.ptr = s.ptr /\ u \in Slave
  BY DEF Slave
<1>3. p_ \in {s.ptr, After(s.ptr), s.byte % NREG}
  OBVIOUS
<1>4. \/ t = u \/ t = Out(s.ptr, s.n) \/ t = Out(After(s.ptr), 0) \/ t = Out(s.ptr, 0)
      \/ t = [u EXCEPT !.sda = FALSE] \/ t = [u EXCEPT !.mode = "off"]
      \/ t = [u EXCEPT !.sda = TRUE, !.n = W + 1, !.ptr = p_]
      \/ t = [u EXCEPT !.sda = FALSE, !.n = 0, !.byte = 0, !.mode = m_]
  BY <1>1 DEF Falls
<1> HIDE DEF t, u, p_, m_
<1>5. \A p, k : Out(p, k).n = k /\ Out(p, k).byte = u.byte /\ Out(p, k).ptr = p
  BY <1>2 DEF Slave
<1>6. /\ Numbers(u) /\ Numbers(Out(s.ptr, s.n)) /\ Numbers(Out(After(s.ptr), 0)) /\ Numbers(Out(s.ptr, 0))
  BY <1>2, <1>5
<1>7. Numbers([u EXCEPT !.sda = FALSE]) /\ Numbers([u EXCEPT !.mode = "off"])
  BY <1>2 DEF Slave
<1>8. Numbers([u EXCEPT !.sda = TRUE, !.n = W + 1, !.ptr = p_])
  BY <1>2, <1>3 DEF Slave
<1>9. Numbers([u EXCEPT !.sda = FALSE, !.n = 0, !.byte = 0, !.mode = m_])
  BY <1>2 DEF Slave
<1> HIDE DEF Numbers, Out
<1>10. Numbers(t)
  BY <1>4, <1>6, <1>7, <1>8, <1>9
<1> QED BY <1>10 DEF Numbers, t

LEMMA FallSized ==
  ASSUME NEW d, NEW s \in Slave, Sized(s), NEW r, NEW f \in BOOLEAN, NEW g \in BOOLEAN
  PROVE  Sized(Falls(d, s, r, f, g))
<1> DEFINE t == Falls(d, s, r, f, g)
<1>1. /\ W \in Nat /\ W >= 1 /\ s.n \in Nat /\ s.mode \in Modes
      /\ NREG \in Nat /\ NREG >= 1 /\ 0 \in Byte /\ Pow2[0] = 1
  BY WidthPositive, WidthAssumption, Pow2Is DEF Slave, Byte
<1>2. /\ t.n \in {s.n, 0, W + 1} /\ t.byte \in {s.byte, 0}
      /\ t.ptr \in {s.ptr, After(s.ptr), s.byte % NREG}
  BY FallNumbers
<1>3. FallOf(d, s, t, r, f)
  BY FallsExactly
<1> HIDE DEF t
<1>4. t.n <= W + 1 /\ t.byte \in Byte
  BY <1>1, <1>2 DEF Sized
<1>5. t.ptr \in 0 .. NREG - 1
  <2>1. s.byte \in Nat /\ s.ptr \in Nat
    BY <1>1 DEF Sized, Byte
  <2>2. \A x \in Nat : x % NREG \in 0 .. NREG - 1
    BY <1>1
  <2> QED BY <1>2, <2>1, <2>2 DEF Sized, After
<1>6. ASSUME t.mode \in Hearing PROVE t.byte < Pow2[IF t.n <= W THEN t.n ELSE W]
  <2>1. s.mode \in Hearing
    BY <1>1, <1>3, <1>6 DEF FallOf, SendsNext, Hearing, Modes
  <2>2. CASE s.n < W
    BY <1>1, <1>3, <2>1, <2>2 DEF FallOf, KeepOf, Sized
  <2>3. CASE s.n = W
    BY <1>1, <1>3, <1>6, <2>1, <2>3 DEF FallOf, Sized, Hearing
  <2>4. CASE s.n > W
    BY <1>1, <1>3, <1>6, <2>1, <2>4 DEF FallOf, SendsNext, Hearing
  <2> QED BY <1>1, <2>2, <2>3, <2>4
<1> QED BY <1>4, <1>5, <1>6 DEF Sized, t

LEMMA ReactSized ==
  ASSUME NEW d, NEW s \in Slave, Sized(s), NEW r, NEW a \in BOOLEAN, NEW b \in BOOLEAN, NEW was, NEW now,
         now.SDA \in BOOLEAN
  PROVE  Sized(Reacts(d, s, was, now, r, a, b))
<1> DEFINE t == Reacts(d, s, was, now, r, a, b)
<1>1. \/ t = [s EXCEPT !.mode = "address", !.n = 0, !.byte = 0, !.sda = FALSE]
      \/ t = [s EXCEPT !.mode = "off", !.sda = FALSE]
      \/ t = Falls(d, s, r, a, b) \/ t = Rises(s, now.SDA) \/ t = s
  BY DEF Reacts
<1>2. 0 \in Byte /\ W \in Nat /\ Pow2[0] = 1
  BY WidthPositive, Pow2Is DEF Byte
<1>3. Sized([s EXCEPT !.mode = "address", !.n = 0, !.byte = 0, !.sda = FALSE])
  BY <1>2 DEF Sized, Slave
<1>4. Sized([s EXCEPT !.mode = "off", !.sda = FALSE])
  BY DEF Sized, Slave, Hearing
<1>5. Sized(Falls(d, s, r, a, b)) /\ Sized(Rises(s, now.SDA))
  BY FallSized, RiseSized
<1> HIDE DEF t
<1>6. Sized(t)
  BY <1>1, <1>3, <1>4, <1>5
<1> QED BY <1>6 DEF t

LEMMA DevicesSized ==
  ASSUME FInv, FInv', \A d \in Devices : Sized(slave[d]), Access \/ \E d \in Devices : LetGo(d)
  PROVE  \A d \in Devices : Sized(slave'[d])
<1>1. slave \in [Devices -> Slave] /\ PortTyped /\ PortTyped'
  BY Here DEF FInv, IInv
<1>2. CASE Access
  <2>1. PICK f \in BOOLEAN, g \in BOOLEAN : DevicesSee(ddr', latch', f, g)
    BY <1>2 DEF Access
  <2> DEFINE was == [l \in Lines |-> Level(l, ddr, latch, slave)]
             now == [l \in Lines |-> Level(l, ddr', latch', slave)]
  <2>2. slave' = [v \in Devices |-> Reacts(v, slave[v], was, now, regs, f /\ v = call.dev, g /\ v = call.dev)]
    BY <2>1 DEF DevicesSee
  <2>3. now.SDA \in BOOLEAN
    BY <1>1, LevelTyped DEF PortTyped, Lines
  <2> HIDE DEF was, now
  <2>4. ASSUME NEW v \in Devices PROVE Sized(slave'[v])
    <3> DEFINE a == f /\ v = call.dev
               b == g /\ v = call.dev
    <3>1. a \in BOOLEAN /\ b \in BOOLEAN /\ slave[v] \in Slave /\ Sized(slave[v])
      BY <1>1
    <3>2. slave'[v] = Reacts(v, slave[v], was, now, regs, a, b)
      BY <2>2
    <3> HIDE DEF a, b
    <3>3. Sized(Reacts(v, slave[v], was, now, regs, a, b))
      BY <2>3, <3>1, ReactSized
    <3> QED BY <3>2, <3>3
  <2> QED BY <2>4
<1>3. CASE \E d \in Devices : LetGo(d)
  <2>1. PICK d \in Devices : LetGo(d)
    BY <1>3
  <2> DEFINE s == [slave EXCEPT ![d].scl = FALSE]
  <2>2. slave' = IF Level("SCL", ddr, latch, s) THEN [v \in Devices |-> Rises(s[v], Sda)] ELSE s
    BY <2>1 DEF LetGo, Sda
  <2>3. Sda \in BOOLEAN
    BY <1>1, LevelTyped DEF PortTyped, Lines, Sda, LevelNow
  <2>4. ASSUME NEW v \in Devices PROVE s[v] \in Slave /\ Sized(s[v])
    <3>1. slave[v] \in Slave /\ s[v] \in {slave[v], [slave[v] EXCEPT !.scl = FALSE]}
      BY <1>1
    <3>2. [slave[v] EXCEPT !.scl = FALSE] \in Slave /\ Sized([slave[v] EXCEPT !.scl = FALSE])
      BY <3>1 DEF Slave, Sized
    <3> QED BY <3>1, <3>2
  <2> HIDE DEF s
  <2>5. ASSUME NEW v \in Devices PROVE Sized(Rises(s[v], Sda))
    BY <2>3, <2>4, RiseSized
  <2> QED BY <2>2, <2>4, <2>5
<1> QED BY <1>2, <1>3

LEMMA Routined ==
  ASSUME FInv
  PROVE  routine \in {"i2c_start", "i2c_stop", "write1", "write0", "ack", "none"} \/ stage = "read"
<1>1. Routines = {"i2c_start", "i2c_stop", "write1", "write0", "ack", "listen", "read", "more", "last"}
  BY DEF Routines, Accesses
<1> QED BY <1>1 DEF FInv, IInv, PortTyped, Control

\* The byte in hand is one: it is the one being sent, or what has come of a register's.
LEMMA ByteTyped ==
  ASSUME FInv, RInv, byte \in Byte \/ routine \notin {"i2c_start", "i2c_stop", "none"}
  PROVE  byte \in Byte
<1>1. /\ W \in Nat /\ W >= 1 /\ Pow2[W] \in Nat \ {0} /\ \A k \in Nat : Pow2[k] \in Nat \ {0}
      /\ NREG \in Nat /\ NREG >= 1
  BY Here, Pow2Is
<1>2. CASE routine \in {"write0", "write1", "ack"}
  BY <1>2 DEF RInv, BytesRight
<1>3. CASE stage = "read"
  <2>1. call.fn = "ds1307_read" /\ done \in Nat /\ done < Wanted /\ stage # "idle"
        /\ routine \in {"listen", "read", "more", "last"} /\ call \in Calls
    BY <1>3 DEF FInv, Control
  <2>2. call.dev = Clock
    BY <2>1, CallsAssumption
  <2>3. call.reg + done \in 0 .. NREG - 1
    <3>1. call.reg \in 0 .. NREG - 1 /\ Wanted \in Nat /\ Wanted <= NREG - call.reg
      BY <2>1, <2>2, WithinRegisters
    <3> QED BY <1>1, <2>1, <3>1
  <2> DEFINE b == regs[call.reg + done]
  <2>4. b \in Byte
    BY <2>3 DEF RInv, Ranges
  <2>5. \/ byte = 0 \/ byte = b
        \/ routine = "read" /\ byte = Part(b, IF at = 6 THEN bit ELSE bit - 1)
    BY <1>3, <2>1 DEF RInv, ReadRight
  <2> HIDE DEF b
  <2>6. ASSUME routine = "read" PROVE Part(b, IF at = 6 THEN bit ELSE bit - 1) \in Byte
    <3> DEFINE k == IF at = 6 THEN bit ELSE bit - 1
               m == Pow2[W - k]
               q == b \div m
    <3>1. bit \in 1 .. W
      BY <2>6 DEF FInv, Control
    <3>2. W - k \in Nat
      BY <1>1, <3>1
    <3>3. m \in Nat \ {0}
      BY <1>1, <3>2
    <3> HIDE DEF k, m
    <3>4. q \in Int /\ \E r \in 0 .. m - 1 : b = m * q + r
      BY <2>4, <3>3 DEF Byte
    <3> HIDE DEF q
    <3>5. PICK r \in 0 .. m - 1 : b = m * q + r
      BY <3>4
    <3>6. b \in Nat /\ b < Pow2[W]
      BY <1>1, <2>4 DEF Byte
    <3>7. q >= 0
      <4>1. CASE q <= -1
        <5>1. m * q <= -m
          BY <3>3, <3>4, <4>1
        <5> QED BY <3>3, <3>4, <3>5, <3>6, <5>1
      <4> QED BY <3>4, <4>1
    <3>8. q <= b
      <4>1. (m - 1) * q >= 0
        BY <3>3, <3>4, <3>7
      <4>2. (m - 1) * q = m * q - q
        BY <3>3, <3>4
      <4> QED BY <3>3, <3>4, <3>5, <4>1, <4>2
    <3>9. q \in Byte
      BY <1>1, <3>4, <3>6, <3>7, <3>8 DEF Byte
    <3> QED BY <3>9 DEF q, m, k, Part
  <2>7. 0 \in Byte
    BY <1>1 DEF Byte
  <2> QED BY <2>4, <2>5, <2>6, <2>7
<1>4. CASE routine \in {"i2c_start", "i2c_stop", "none"}
  BY <1>4
<1> QED BY <1>2, <1>3, <1>4, Routined

\* How many bits of a byte are done.
LEMMA BitTyped ==
  ASSUME FInv, bit \in 0 .. W \/ routine \notin {"i2c_start", "i2c_stop", "none"}
  PROVE  bit \in 0 .. W
<1>1. W \in Nat /\ W >= 1
  BY Here
<1>2. routine \in {"write1", "write0", "ack", "listen", "read", "more", "last"} => bit \in 0 .. W
  BY <1>1 DEF FInv, Control
<1>3. stage = "read" => routine \in {"listen", "read", "more", "last"}
  BY DEF FInv, Control
<1> QED BY <1>2, <1>3, Routined

NumbersTyped ==
  FInv /\ RInv =>
    /\ byte \in Byte \/ routine \notin {"i2c_start", "i2c_stop", "none"} => byte \in Byte
    /\ bit \in 0 .. W \/ routine \notin {"i2c_start", "i2c_stop", "none"} => bit \in 0 .. W

LEMMA NumbersNow == NumbersTyped
BY ByteTyped, BitTyped DEF NumbersTyped

LEMMA NumbersNext == NumbersTyped'
BY NumbersNow, PTL

\* What a step that is not on the bus leaves the driver with.
LEMMA ContinueTyped ==
  ASSUME FInv, FInv', RInv, RInv', TypeInv, Continue
  PROVE  TypeInv'
<1>0. 0 \in Byte /\ 0 \in 0 .. W /\ W \in Nat /\ byte \in Byte /\ bit \in 0 .. W
  BY Here, Pow2Is DEF Byte, TypeInv
<1>1. slave' = slave /\ \A d \in Devices : Sized(slave[d])'
  BY DEF Continue, bus, TypeInv
<1>2. /\ routine' \in {"i2c_start", "i2c_stop", "none"} => byte' = byte /\ bit' = bit
  <2>1. \A b, k : WriteBit(b, k) => routine' \in {"write1", "write0"}
    BY DEF WriteBit, Run
  <2>2. \A b : Write(b) => routine' \in {"write1", "write0"}
    BY <2>1 DEF Write
  <2>3. CASE SendOn
    BY <2>1, <2>3 DEF SendOn, Run
  <2>4. CASE ReceiveOn
    BY <2>4 DEF ReceiveOn, Run
  <2>5. CASE Received
    BY <2>5 DEF Received, Listen, Stop, Run
  <2>6. CASE Started
    BY <2>2, <2>6 DEF Started
  <2>7. CASE Sent
    BY <2>2, <2>7 DEF Sent, Stop, Listen, NextData, Run
  <2> QED BY <2>3, <2>4, <2>5, <2>6, <2>7 DEF Continue
<1>3. byte' \in Byte /\ bit' \in 0 .. W
  <2>1. byte' \in Byte \/ routine' \notin {"i2c_start", "i2c_stop", "none"}
    BY <1>0, <1>2
  <2>2. bit' \in 0 .. W \/ routine' \notin {"i2c_start", "i2c_stop", "none"}
    BY <1>0, <1>2
  <2> QED BY <2>1, <2>2, NumbersNext DEF NumbersTyped
<1>4. buf' \in Seq(Byte)
  <2>1. buf \in Seq(Byte)
    BY DEF TypeInv
  <2>2. Append(buf, byte) \in Seq(Byte)
    BY <1>0, <2>1
  <2>3. buf' = buf \/ buf' = Append(buf, byte)
    BY DEF Continue, SendOn, ReceiveOn, Received, Started, Sent, driver
  <2> QED BY <2>1, <2>2, <2>3
<1>5. ret' \in Int
  <2>1. ret \in Int
    BY DEF TypeInv
  <2>2. ret' \in {ret, 0, 1, -1}
    BY DEF Continue, SendOn, ReceiveOn, Received, Started, Sent, driver
  <2> QED BY <2>1, <2>2
<1>6. Unused'
  <2>1. routine' \in Routines
    BY ContinueRuns
  <2>2. "none" \notin Routines
    BY DEF Routines, Accesses
  <2>3. routine' = "none" <=> stage' = "idle"
    BY DEF FInv, Control
  <2> QED BY <2>1, <2>2, <2>3 DEF Unused
<1> QED BY <1>1, <1>3, <1>4, <1>5, <1>6 DEF TypeInv

LEMMA BusTyped ==
  ASSUME FInv, FInv', RInv, RInv', TypeInv, Access \/ \E d \in Devices : LetGo(d)
  PROVE  TypeInv'
<1>1. \A d \in Devices : Sized(slave'[d])
  BY DevicesSized DEF TypeInv
<1>2. Beside
  BY StepEdges DEF RInv
<1>3. /\ routine' = routine /\ bit' = bit /\ UNCHANGED driver /\ stage # "idle"
      /\ byte' = byte \/ routine = "read"
  BY <1>2 DEF Beside, Onward, engine
<1>4. byte' \in Byte
  <2>1. byte' \in Byte \/ routine' \notin {"i2c_start", "i2c_stop", "none"}
    BY <1>3 DEF TypeInv
  <2> QED BY <2>1, NumbersNext DEF NumbersTyped
<1>5. buf' = buf /\ ret' = ret /\ stage' = stage
  BY <1>3 DEF driver
<1>6. Unused'
  <2>1. routine' = "none" <=> stage' = "idle"
    BY DEF FInv, Control
  <2> QED BY <1>3, <1>5, <2>1 DEF Unused
<1> QED BY <1>1, <1>3, <1>4, <1>5, <1>6 DEF TypeInv

LEMMA CallsTyped ==
  ASSUME FInv, TypeInv, Return \/ (\E c \in Calls : Begin(c) \/ Reject(c)) \/ UNCHANGED vars
  PROVE  TypeInv'
<1>0. 0 \in Byte /\ 0 \in 0 .. W /\ NREG \in Nat
  BY Here, Pow2Is DEF Byte
<1>1. CASE Return
  <2>1. \A d \in Devices : Sized(slave'[d])
    BY <1>1 DEF Return, TypeInv
  <2> QED BY <1>0, <1>1, <2>1 DEF Return, TypeInv, Unused
<1>2. ASSUME NEW c \in Calls, Begin(c) PROVE TypeInv'
  <2>1. \A d \in Devices : Sized(slave'[d])
    BY <1>2 DEF Begin, bus, TypeInv
  <2>2. Count(c) \in Int
    <3>1. c.reg \in Byte /\ c.n \in Nat /\ c.data \in Seq(Byte)
      BY CallsAssumption
    <3>2. c.reg \in Int
      <4>1. Byte \subseteq Int
        BY DEF Byte
      <4> QED BY <3>1, <4>1
    <3>3. Len(c.data) \in Int
      BY <3>1
    <3> QED BY <1>0, <3>1, <3>2, <3>3 DEF Count, Clamp
  <2>3. byte' = byte /\ bit' = bit /\ buf' = <<>> /\ ret' = Count(c) /\ routine' = "i2c_start" /\ stage' = "start"
    BY <1>2 DEF Begin, Run
  <2> QED BY <2>1, <2>2, <2>3 DEF TypeInv, Unused
<1>3. ASSUME NEW c \in Calls, Reject(c) PROVE TypeInv'
  <2>1. \A d \in Devices : Sized(slave'[d])
    BY <1>3 DEF Reject, bus, TypeInv
  <2>2. UNCHANGED <<routine, at, byte, bit, call, stage>> /\ ret' = -1 /\ buf' = <<>>
    BY <1>3 DEF Reject, engine
  <2> QED BY <2>1, <2>2 DEF TypeInv, Unused
<1>4. CASE UNCHANGED vars
  BY <1>4 DEF vars, engine, driver, bus, TypeInv, Unused
<1> QED BY <1>1, <1>2, <1>3, <1>4

LEMMA TypeBegins == Init => TypeInv
<1> SUFFICES ASSUME Init PROVE TypeInv
  OBVIOUS
<1>1. 0 \in Byte /\ 0 \in 0 .. W /\ 0 \in 0 .. NREG - 1 /\ 0 <= W + 1
  BY WidthPositive, WidthAssumption, Pow2Is DEF Byte
<1>2. ASSUME NEW d \in Devices PROVE Sized(slave[d])
  BY <1>1 DEF Init, Sized, Hearing
<1> QED BY <1>1, <1>2 DEF Init, TypeInv, Unused

LEMMA TypeParts ==
  ASSUME FInv, RInv, TypeInv
  PROVE  TypeOK
<1>1. /\ ddr \in [Lines -> BOOLEAN] /\ latch \in [Lines -> BOOLEAN]
      /\ routine \in Routines \cup {"none"} /\ at \in Nat \ {0}
  BY DEF FInv, IInv, PortTyped
<1>2. stage \in Stages /\ done \in Nat /\ nack \in BOOLEAN /\ call \in Calls \cup {NoCall}
  BY DEF FInv, Control, TypeInv, Unused
<1>3. at \in 1 .. 10
  <2>1. Routines = {"i2c_start", "i2c_stop", "write1", "write0", "ack", "listen", "read", "more", "last"}
    BY DEF Routines, Accesses
  <2>2. at <= 10
    BY <1>1, <2>1 DEF FInv, InPhase, Starting, Stopping, Writing, Acknowledged, Listening, Reading,
       GoingOn, Ending, TypeInv, Unused
  <2> QED BY <1>1, <2>2
<1>4. slave \in [Devices -> [mode : Modes, n : 0 .. W + 1, byte : Byte, ptr : 0 .. NREG - 1,
                             sda : BOOLEAN, scl : BOOLEAN]]
  <2>1. slave \in [Devices -> Slave] /\ W \in Nat
    BY Here
  <2>2. ASSUME NEW d \in Devices
        PROVE  slave[d] \in [mode : Modes, n : 0 .. W + 1, byte : Byte, ptr : 0 .. NREG - 1,
                             sda : BOOLEAN, scl : BOOLEAN]
    BY <2>1 DEF Slave, Sized, TypeInv
  <2> QED BY <2>1, <2>2
<1> QED BY <1>1, <1>2, <1>3, <1>4 DEF RInv, Ranges, TypeInv, TypeOK

\* Every variable has its type: a device, whenever it may be heard from, has no more of a byte
\* than the pulses it has counted, and its pointer names one of its registers.
THEOREM TypeCorrect == Spec => []TypeOK
<1>1. Init => FInv /\ RInv /\ TypeInv
  BY FramingStarts, RefinementStarts, TypeBegins
<1>2. FInv /\ RInv /\ [Next]_vars => FInv' /\ RInv'
  BY FramingInductive, RefinementInductive
<1>3. FInv /\ FInv' /\ RInv /\ RInv' /\ TypeInv /\ [Next]_vars => TypeInv'
  BY BusTyped, ContinueTyped, CallsTyped DEF Next
<1>4. FInv /\ RInv /\ TypeInv => TypeOK
  BY TypeParts
<1> QED BY <1>1, <1>2, <1>3, <1>4, PTL DEF Spec
=============================================================================
