-------------------------------- MODULE I2c --------------------------------
(***************************************************************************)
(* The I2C bus of the SBC-3: i2c.c, which drives two open-drain lines      *)
(* through port C of the 68230, and what ds1307.c, sh1107.c and detect.c   *)
(* do on it.  One step is one access of the CPU to the port's data or      *)
(* direction register; a line is low when anyone drives it low.  While the *)
(* master waits for the clock line a device may hold it (clock stretching).*)
(*                                                                         *)
(* External, modelled from how the code uses them: the devices on the bus, *)
(* a DS1307 and a SH1107, which react to the edges of the lines, and which *)
(* may fail to answer anywhere.  They change their outputs before the      *)
(* master's next access: what the delays of i2c.c are for.                 *)
(***************************************************************************)
EXTENDS Integers, Sequences

CONSTANTS
  W,        \* bits in a byte: 8 in the code
  NREG,     \* registers of the clock: 64
  Address,  \* Address[d]: the address of device d, in W - 1 bits
  Calls,    \* the calls made on the bus
  InitialByte, \* what a register of the clock may hold at first
  None, Pending

Clock == "DS1307"
Devices == DOMAIN Address

\* 1 << n
Pow2[n \in Nat] == IF n = 0 THEN 1 ELSE 2 * Pow2[n - 1]
Byte == 0 .. Pow2[W] - 1
Lines == {"SDA", "SCL"}

ASSUME WidthAssumption == W \in Nat \ {0} /\ NREG \in 1 .. Pow2[W] /\ InitialByte \subseteq Byte
ASSUME AddressAssumption ==
  /\ Clock \in Devices
  /\ \A d \in Devices : Address[d] \in 0 .. Pow2[W - 1] - 1
  /\ \A d, e \in Devices : Address[d] = Address[e] => d = e
ASSUME CallsAssumption ==
  \A c \in Calls :
    /\ c.fn \in {"ds1307_read", "ds1307_write", "sh1107_data_burst", "sh1107_display_vertical",
                 "i2c_probe"}
    /\ c.dev \in Devices /\ c.reg \in Byte /\ c.n \in Nat /\ c.data \in Seq(Byte)
    /\ c.fn \in {"ds1307_read", "ds1307_write"} => c.dev = Clock
    /\ c.dev = Clock => c.fn \notin {"sh1107_data_burst", "sh1107_display_vertical"}
    /\ c.fn = "ds1307_read" => c.n > 0

VARIABLES
  ddr,      \* ddr[l]: does port C drive line l?          (PCDDR)
  latch,    \* latch[l]: the level it drives, TRUE is high (PCDR)
  routine,  \* the part of i2c.c being executed, a key of Accesses, or "none"
  at,       \* which of its accesses comes next
  byte,     \* the byte being sent, or what has been received of it
  bit,      \* bits of it done
  nack,     \* SDA as last sampled
  call,     \* the call being served
  stage,    \* how far it has got
  done,     \* data bytes done
  buf,      \* bytes read
  ret,      \* what the call returns, or returned
  slave,    \* slave[d]: the state of device d
  regs,     \* the registers of the clock
  stored,   \* bytes of this call the clock has stored (not in the code)
  refused   \* has the device called failed to answer in this call? (not in the code)

port == <<ddr, latch>>
engine == <<routine, at, byte, bit, nack>>
driver == <<call, stage, done, buf, ret>>
bus == <<slave, regs, stored, refused>>
vars == <<port, engine, driver, bus>>

NoCall == [fn |-> "none", dev |-> Clock, reg |-> 0, data |-> <<>>, n |-> 0]

Init ==
  /\ ddr = [l \in Lines |-> FALSE]
  /\ latch \in [Lines -> BOOLEAN]
  /\ routine = "none" /\ at = 1 /\ byte = 0 /\ bit = 0 /\ nack = TRUE
  /\ call = NoCall /\ stage = "idle" /\ done = 0 /\ buf = <<>> /\ ret = 0
  /\ slave = [d \in Devices |-> [mode |-> "off", n |-> 0, byte |-> 0, ptr |-> 0,
                                 sda |-> FALSE, scl |-> FALSE]]
  /\ regs \in [0 .. NREG - 1 -> InitialByte]
  /\ stored = 0 /\ refused = FALSE

-----------------------------------------------------------------------------
(* The accesses i2c.c makes to the port, routine by routine.               *)

SdaLowLate == <<"drive_SDA", "clear_SDA">>
sda_low     == <<"clear_SDA", "drive_SDA">>
sda_release == <<"release_SDA">>
SclLowUndriven == <<"clear_SCL">>
scl_low     == <<"clear_SCL", "drive_SCL">>
SclReleaseSwapped == <<"await_SCL", "release_SCL">>
scl_release == <<"release_SCL", "await_SCL">>
sda_read    == <<"sample_SDA">>

\* The bits of a byte are routines of their own, and so are the acknowledgements:
\* the other side's ("ack") after a byte sent, the master's ("more", "last") after one received.
Accesses ==
  [i2c_start |-> sda_release \o scl_release \o sda_low \o scl_low,
   i2c_stop  |-> sda_low \o scl_release \o sda_release,
   write1    |-> scl_low \o sda_release \o scl_release,
   write0    |-> scl_low \o sda_low \o scl_release,
   ack       |-> scl_low \o sda_release \o scl_release \o sda_read \o scl_low,
   listen    |-> sda_release,
   read      |-> scl_low \o scl_release \o sda_read,
   more      |-> scl_low \o sda_low \o scl_release \o scl_low \o sda_release,
   last      |-> scl_low \o sda_release \o scl_release \o scl_low \o sda_release]

Routines == DOMAIN Accesses

Line(access) ==
  IF access \in {"clear_SDA", "drive_SDA", "release_SDA", "sample_SDA"} THEN "SDA" ELSE "SCL"

\* The level of line l when port C has direction d and data t, and the devices are in state s.
Level(l, d, t, s) ==
  IF d[l] THEN t[l]
  ELSE \A v \in Devices : ~(IF l = "SDA" THEN s[v].sda ELSE s[v].scl)

LevelNow(l) == Level(l, ddr, latch, slave)

-----------------------------------------------------------------------------
(* The devices.  n counts the clock pulses of a byte: W for its bits, one  *)
(* more for its acknowledgement.                                           *)

BitOf(b, k) == (b \div Pow2[W - 1 - k]) % 2

\* The next register, wrapping after the last.
After(r) == (r + 1) % NREG

Hearing == {"address", "pointer", "store"}

\* The byte in s.byte is complete: the device takes it, or lets it go unacknowledged.
Takes(d, s, refuse) == ~refuse /\ (s.mode = "address" => s.byte \div 2 = Address[d])

\* The address heard asks the device to send.
IsToSend(s) == s.mode = "address" /\ s.byte % 2 = 1

\* The falling edge of the clock, with the registers r behind it.
Falls(d, s, r, refuse, stretch) ==
  LET t == [s EXCEPT !.scl = stretch /\ s.mode # "off"]
      Send(p, k) == [t EXCEPT !.mode = "send", !.ptr = p, !.n = k, !.sda = BitOf(r[p], k) = 0]
  IN  CASE s.mode = "off" -> t
        [] s.mode = "send" /\ s.n < W -> Send(s.ptr, s.n)
        [] s.mode = "send" /\ s.n = W -> [t EXCEPT !.sda = FALSE]
        [] s.mode = "send" /\ s.n > W -> Send(After(s.ptr), 0)
        [] s.mode \in Hearing /\ s.n = W /\ Takes(d, s, refuse) ->
             [t EXCEPT !.sda = TRUE, !.n = W + 1,
                       !.ptr = CASE s.mode = "pointer" -> s.byte % NREG
                                 [] s.mode = "store" -> After(s.ptr) [] OTHER -> s.ptr]
        [] s.mode \in Hearing /\ s.n = W /\ ~Takes(d, s, refuse) -> [t EXCEPT !.mode = "off"]
        [] s.mode \in Hearing /\ s.n > W /\ IsToSend(s) -> Send(s.ptr, 0)
        [] s.mode \in Hearing /\ s.n > W /\ ~IsToSend(s) ->
             [t EXCEPT !.sda = FALSE, !.n = 0, !.byte = 0,
                       !.mode = IF s.mode = "address" THEN "pointer" ELSE "store"]
        [] OTHER -> t

\* The rising edge of the clock, with SDA high or not.
Rises(s, high) ==
  CASE s.mode = "off" \/ s.n > W -> s
    [] s.mode = "send" /\ s.n < W -> [s EXCEPT !.n = @ + 1]
    [] s.mode = "send" /\ s.n = W /\ high -> [s EXCEPT !.mode = "off"]
    [] s.mode = "send" /\ s.n = W /\ ~high -> [s EXCEPT !.n = W + 1]
    [] s.mode \in Hearing /\ s.n < W ->
         [s EXCEPT !.n = @ + 1, !.byte = 2 * @ + (IF high THEN 1 ELSE 0)]
    [] OTHER -> s

\* Device d sees the lines go from levels was to levels now.
Reacts(d, s, was, now, r, refuse, stretch) ==
  CASE was.SCL /\ now.SCL /\ was.SDA /\ ~now.SDA /\ ~refuse ->
         [s EXCEPT !.mode = "address", !.n = 0, !.byte = 0, !.sda = FALSE]
    [] was.SCL /\ now.SCL /\ (was.SDA # now.SDA) /\ (now.SDA \/ refuse) ->
         [s EXCEPT !.mode = "off", !.sda = FALSE]
    [] was.SCL /\ ~now.SCL -> Falls(d, s, r, refuse, stretch)
    [] ~was.SCL /\ now.SCL -> Rises(s, now.SDA)
    [] OTHER -> s

\* The clock stores a byte when it acknowledges it.
StoresIn(s, t) == s.mode = "store" /\ s.n = W /\ t.n = W + 1

\* The devices see port C change to direction d and data t.
DevicesSee(d, t, refuse, stretch) ==
  LET Levels(dd, tt) == [l \in Lines |-> Level(l, dd, tt, slave)]
      was == Levels(ddr, latch)
      now == Levels(d, t)
      See(r) == [v \in Devices |-> Reacts(v, slave[v], was, now, regs,
                                             r /\ v = call.dev, stretch /\ v = call.dev)]
  IN  /\ slave' = See(refuse)
      /\ regs' = IF StoresIn(slave[Clock], slave'[Clock])
                 THEN [regs EXCEPT ![slave[Clock].ptr] = slave[Clock].byte] ELSE regs
      /\ stored' = IF StoresIn(slave[Clock], slave'[Clock]) THEN stored + 1 ELSE stored
      /\ refused' = (refused \/ See(refuse) # See(FALSE))

-----------------------------------------------------------------------------
(* One access to the port.                                                 *)

\* PCDR &= ~mask: bits of lines that are inputs are written back as read.
Clear(l) ==
  /\ latch' = [k \in Lines |-> k # l /\ LevelNow(k)]
  /\ UNCHANGED <<ddr, byte, nack>>

Drive(l) ==
  /\ ddr' = [ddr EXCEPT ![l] = TRUE]
  /\ UNCHANGED <<latch, byte, nack>>

Release(l) ==
  /\ ddr' = [ddr EXCEPT ![l] = FALSE]
  /\ UNCHANGED <<latch, byte, nack>>

\* while ((PCDR & SCL_MASK) == 0);
Await == LevelNow("SCL") /\ UNCHANGED <<ddr, latch, byte, nack>>

Sample ==
  /\ nack' = LevelNow("SDA")
  /\ byte' = IF routine = "read" THEN 2 * byte + (IF LevelNow("SDA") THEN 1 ELSE 0) ELSE byte
  /\ UNCHANGED <<ddr, latch>>

Access ==
  /\ routine # "none" /\ at <= Len(Accesses[routine])
  /\ LET access == Accesses[routine][at]
         l == Line(access)
     IN  \/ access \in {"clear_SDA", "clear_SCL"} /\ Clear(l)
         \/ access \in {"drive_SDA", "drive_SCL"} /\ Drive(l)
         \/ access \in {"release_SDA", "release_SCL"} /\ Release(l)
         \/ access = "await_SCL" /\ Await
         \/ access = "sample_SDA" /\ Sample
  /\ \E refuse, stretch \in BOOLEAN : DevicesSee(ddr', latch', refuse, stretch)
  /\ at' = at + 1
  /\ UNCHANGED <<routine, bit, driver>>

\* A device lets go of the clock line it held.
LetGo(d) ==
  /\ slave[d].scl
  /\ LET s == [slave EXCEPT ![d].scl = FALSE]
     IN  slave' = IF Level("SCL", ddr, latch, s)
                  THEN [v \in Devices |-> Rises(s[v], LevelNow("SDA"))] ELSE s
  /\ UNCHANGED <<port, engine, driver, regs, stored, refused>>

-----------------------------------------------------------------------------
(* i2c_write_byte, i2c_read_byte and their callers: what comes after a     *)
(* routine.                                                                *)

Finished(r) == routine = r /\ at > Len(Accesses[r])

Run(r) == routine' = r /\ at' = 1

WriteBit(b, k) == Run(IF BitOf(b, k) = 1 THEN "write1" ELSE "write0")

\* i2c_write_byte(b)
Write(b) == WriteBit(b, 0) /\ byte' = b /\ bit' = 1

ListenUncleared == Run("listen") /\ bit' = 0 /\ UNCHANGED byte
\* i2c_read_byte() from the first bit on
Listen == Run("listen") /\ byte' = 0 /\ bit' = 0

Stop == Run("i2c_stop") /\ stage' = "stop" /\ UNCHANGED <<byte, bit>>

\* for (bit = 7; bit >= 0; bit--)
BitsLeft(k) == k < W

\* The rest of the byte being sent, and its acknowledgement.
SendOn ==
  /\ routine \in {"write0", "write1"} /\ Finished(routine)
  /\ IF BitsLeft(bit) THEN WriteBit(byte, bit) /\ bit' = bit + 1
                ELSE Run("ack") /\ UNCHANGED bit
  /\ UNCHANGED <<byte, nack, driver>>

ClampNone(addr, n) == n
\* addr + num_bytes is cut to the registers there are.
Clamp(addr, n) == IF addr + n > NREG THEN NREG - addr ELSE n

LastByteUncut == done = call.n - 1
\* nack == (i == num_bytes - 1)
LastByte == done = Clamp(call.reg, call.n) - 1

\* The rest of the byte being received; the last byte wanted is not acknowledged.
ReceiveOn ==
  /\ routine \in {"listen", "read"} /\ Finished(routine)
  /\ IF BitsLeft(bit) THEN Run("read") /\ bit' = bit + 1
                ELSE Run(IF LastByte THEN "last" ELSE "more") /\ UNCHANGED bit
  /\ UNCHANGED <<byte, nack, driver>>

\* A byte has been received.
Received ==
  /\ routine \in {"more", "last"} /\ Finished(routine)
  /\ buf' = Append(buf, byte) /\ done' = done + 1
  /\ IF done + 1 < Clamp(call.reg, call.n) THEN Listen /\ UNCHANGED stage ELSE Stop
  /\ UNCHANGED <<nack, call, ret>>

\* i2c_start has been made: the address goes out, with the direction.
Started ==
  /\ Finished("i2c_start")
  /\ \/ stage = "start" /\ Write(2 * Address[call.dev]) /\ stage' = "address"
     \/ stage = "restart" /\ Write(2 * Address[call.dev] + 1) /\ stage' = "read_address"
  /\ UNCHANGED <<nack, call, done, buf, ret>>

\* The next data byte, or the stop behind the last.
NextData ==
  IF done < Len(call.data) THEN Write(call.data[done + 1]) /\ stage' = "data" /\ done' = done + 1
                           ELSE Stop /\ UNCHANGED done

\* ds1307_write and sh1107_display_vertical do not look whether their data is acknowledged.
Unchecked ==
  \/ call.fn = "ds1307_write" /\ stage = "data"
  \/ call.fn = "sh1107_display_vertical"

Fails == nack /\ ~Unchecked

\* A byte has been sent, and acknowledged or not.
Sent ==
  /\ Finished("ack")
  /\ \/ call.fn = "i2c_probe" /\ ret' = (IF nack THEN 0 ELSE 1) /\ Stop /\ UNCHANGED done
     \/ call.fn # "i2c_probe" /\ Fails /\ ret' = -1 /\ Stop /\ UNCHANGED done
     \/ /\ call.fn # "i2c_probe" /\ ~Fails /\ UNCHANGED ret
        /\ \/ stage = "address" /\ Write(call.reg) /\ stage' = "register" /\ UNCHANGED done
           \/ /\ stage = "register" /\ call.fn = "ds1307_read" /\ UNCHANGED <<byte, bit, done>>
              /\ Run("i2c_start") /\ stage' = "restart"
           \/ stage = "read_address" /\ Listen /\ stage' = "read" /\ UNCHANGED done
           \/ stage \in {"register", "data"} /\ call.fn # "ds1307_read" /\ NextData
  /\ UNCHANGED <<nack, call, buf>>

Continue == (SendOn \/ ReceiveOn \/ Received \/ Started \/ Sent) /\ UNCHANGED <<port, bus>>

\* What a call that does not fail returns.
Count(c) ==
  CASE c.fn = "ds1307_read" -> Clamp(c.reg, c.n) [] c.fn = "ds1307_write" -> Len(c.data) [] OTHER -> 0

\* A call with a register out of range does not reach the bus.
OutOfRange(c) == c.fn \in {"ds1307_read", "ds1307_write"} /\ c.reg >= NREG

Reject(c) ==
  /\ stage = "idle" /\ OutOfRange(c)
  /\ ret' = -1 /\ buf' = <<>>
  /\ UNCHANGED <<port, engine, call, stage, done, bus>>

Begin(c) ==
  /\ stage = "idle" /\ ~OutOfRange(c)
  /\ call' = c /\ ret' = Count(c) /\ buf' = <<>> /\ stage' = "start" /\ Run("i2c_start")
  /\ UNCHANGED <<port, byte, bit, nack, done, bus>>

Return ==
  /\ stage = "stop" /\ Finished("i2c_stop")
  /\ stage' = "idle" /\ routine' = "none" /\ at' = 1 /\ byte' = 0 /\ bit' = 0 /\ nack' = TRUE
  /\ call' = NoCall /\ done' = 0
  /\ UNCHANGED <<port, buf, ret, slave, regs>>
  /\ stored' = 0 /\ refused' = FALSE

Next == Access \/ Continue \/ Return \/ (\E c \in Calls : Begin(c) \/ Reject(c)) \/ \E d \in Devices : LetGo(d)

\* The CPU goes on executing, and no device holds the clock for ever.
Fairness == WF_vars(Access) /\ WF_vars(Continue) /\ WF_vars(Return) /\ \A d \in Devices : WF_vars(LetGo(d))

Spec == Init /\ [][Next]_vars
FairSpec == Spec /\ Fairness

-----------------------------------------------------------------------------
(* Properties.                                                             *)

\* Types, the one invariant that only says what values the variables range over.
Stages == {"idle", "start", "address", "register", "restart", "read_address", "read", "data", "stop"}
Modes == {"off", "address", "pointer", "store", "send"}
TypeOK ==
  /\ ddr \in [Lines -> BOOLEAN] /\ latch \in [Lines -> BOOLEAN]
  /\ routine \in Routines \cup {"none"} /\ at \in 1 .. 10
  /\ byte \in Byte /\ bit \in 0 .. W /\ nack \in BOOLEAN
  /\ call \in Calls \cup {NoCall} /\ stage \in Stages
  /\ done \in Nat /\ buf \in Seq(Byte) /\ ret \in Int
  /\ slave \in [Devices -> [mode : Modes, n : 0 .. W + 1, byte : Byte, ptr : 0 .. NREG - 1,
                             sda : BOOLEAN, scl : BOOLEAN]]
  /\ regs \in [0 .. NREG - 1 -> Byte] /\ stored \in Nat /\ refused \in BOOLEAN

\* The port never drives a line high, against a device that may hold it low: the latch is
\* cleared before the line becomes an output, though every access writes both lines' bits back
\* as read (sda_low and scl_low, i2c.c:60-72).
NeverDrivesHigh == \A l \in Lines : ddr[l] => ~latch[l]

LeftIdle ==
  stage = "idle" =>
    /\ \A l \in Lines : ~ddr[l] /\ LevelNow(l)
    /\ \A d \in Devices : slave[d].mode = "off"

\* SDA changes while the clock is high only where i2c_start means a start and i2c_stop a stop:
\* the repeated start of a read, an acknowledgement being let go and the first bit of a byte do
\* not put a start or a stop on the bus by accident.  And whatever a call met with (devices that
\* did not answer, bytes not acknowledged, reads of any length), it leaves both lines high,
\* nobody driving them, and every device waiting for a start.
Framed ==
  /\ []LeftIdle
  /\ [][LevelNow("SCL") /\ LevelNow("SCL")' /\ LevelNow("SDA") # LevelNow("SDA")' =>
          routine = (IF LevelNow("SDA")' THEN "i2c_stop" ELSE "i2c_start")]_vars

\* The calls of ds1307.c behave as a file of registers: bytes arrive whole, in order, at the
\* register meant, a read returns what the registers hold, and -1 means nothing was done.
Operation(c) ==
  CASE c.fn = "ds1307_read" -> "read" [] c.fn = "ds1307_write" -> "write"
    [] c.fn = "i2c_probe" -> "probe" [] OTHER -> "other"
Asked(c) == [op |-> Operation(c), addr |-> c.reg, data |-> c.data, n |-> c.n]

ASSUME NoneAssumption == None \notin {Asked(c) : c \in Calls}

Registers == INSTANCE ClockRegisters WITH
  Value <- Byte, Request <- {Asked(c) : c \in Calls},
  request <- IF stage = "idle" THEN None ELSE Asked(call),
  fault <- refused,
  reply <- IF stage = "idle" THEN <<ret, buf>> ELSE Pending
Refines == Registers!Spec

\* Every call returns: the wait for the clock line (i2c.c:76) is the only one, and ends when the
\* device lets go.
CallReturns == stage # "idle" ~> stage = "idle"
=============================================================================
