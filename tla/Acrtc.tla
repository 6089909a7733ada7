------------------------------- MODULE Acrtc -------------------------------
(***************************************************************************)
(* The driver of the HD63484 display controller (tests/acrtc/hd63484.c)    *)
(* and the chip behind it.  The driver puts commands, a word at a time,    *)
(* into the chip's write FIFO and takes answers out of its read FIFO; the  *)
(* chip takes the words whenever it comes to it.  The driver only looks at *)
(* the status register, and only so many times.                            *)
(***************************************************************************)
EXTENDS Integers, Sequences, SequencesExt

CONSTANTS
  POLL_LIMIT,  \* readings of the status register before a call gives up
  FIFO_WORDS,  \* words each FIFO holds
  Addresses,   \* of the words of the frame buffer
  MEM_WIDTH,   \* words a raster has
  Calls,       \* calls the program may make
  RETRIES,     \* bound: how often it tries a call that has failed again before it resets the chip
  NoCall

ASSUME SizesAssumption ==
  /\ POLL_LIMIT \in Nat \ {0} /\ FIFO_WORDS \in Nat \ {0} /\ MEM_WIDTH \in Nat \ {0}
  /\ RETRIES \in Nat
  /\ Addresses \subseteq 0 .. 2^20 - 1

\* The calls there are, with arguments as wide as C has them.
Word == 0 .. 65535
Callable ==
  [fn : {"init", "abort", "start", "stop"}] \cup
  [fn : {"wpr"}, reg : 0 .. 255, value : Word] \cup [fn : {"rpr"}, reg : 0 .. 255] \cup
  [fn : {"write_words"}, dn : 0 .. 255, addr : Nat, data : Seq(Word)] \cup
  [fn : {"read_words"}, dn : 0 .. 255, addr : Nat, count : Nat] \cup
  [fn : {"fill_words"}, dn : 0 .. 255, addr : Nat, value : Word, count : Nat] \cup
  [fn : {"clear_area"}, dn : 0 .. 255, addr : Nat, words : Word, lines : Word, value : Word]

ASSUME CallsAssumption == (\A c \in Calls : c \in Callable) /\ NoCall \notin Callable

VARIABLES
  wfifo, rfifo,  \* words on their way to the chip and back
  command,       \* the command the chip has begun: its opcode and the parameters it has
  pr,            \* drawing parameter registers
  mem,           \* the frame buffer
  cer,           \* the command error flag
  abt, str,      \* CCR.ABT holds the chip in abort, OMR.STR lets it run
  call,          \* the call being executed, or NoCall
  ops,           \* what is left of it to do
  polls,         \* readings of the status register it still waits for
  ready,         \* the status register has been read and had the bit
  got,           \* words it has read
  rc,            \* what the last call returned
  slipped,       \* a word was written to a full FIFO or read from an empty one
  failed,        \* the call that failed, if the chip was not aborted since, or NoCall
  retried        \* how often that was tried again

chip == <<wfifo, rfifo, command, pr, mem, cer, abt, str>>
driver == <<call, ops, polls, ready, got, rc, slipped, failed, retried>>
vars == <<chip, driver>>

-----------------------------------------------------------------------------
(* Opcodes and register numbers.                                           *)

CMD_ORG == 1024
CMD_WPR == 2048
CMD_RPR == 3072
CMD_RD == 17408
CMD_WT == 18432
CMD_CLR == 22528

PR_CL0 == 0
PR_CL1 == 1
PR_CCMP == 2
PR_EDG == 3
PR_MASK == 4
PR_RWPH == 12
PR_RWPL == 13
\* Those something is read back from here; what the chip's drawing commands use is not followed.
Registers == {PR_CL0, PR_RWPH, PR_RWPL}

SCREEN_BASE == 1

\* 24-bit pointers: DN and address bits 19..12, then address bits 11..0 and the dot.
pack_ptr(dn, addr, dot) ==
  <<((dn % 4) * 16384) + ((addr \div 4096) % 256), ((addr % 4096) * 16) + (dot % 16)>>

-----------------------------------------------------------------------------
(* External: the chip.  It takes a word as an opcode or, when the command  *)
(* it has begun wants more, as a parameter; it cannot tell which was       *)
(* meant.  A word that is no opcode sets the command error flag.           *)

NumParams(w) ==
  CASE w = CMD_CLR -> 3
    [] w = CMD_ORG -> 2
    [] w = CMD_WT \/ w \in CMD_WPR .. CMD_WPR + 31 -> 1
    [] OTHER -> 0

IsOpcode(w) == w \in {CMD_ORG, CMD_RD, CMD_WT, CMD_CLR} \cup (CMD_WPR .. CMD_WPR + 31) \cup (CMD_RPR .. CMD_RPR + 31)

Complete == command # <<>> /\ Len(command) = 1 + NumParams(command[1])

RWP == ((pr[PR_RWPH] % 256) * 4096) + (pr[PR_RWPL] \div 16)

\* The pointer moves on by one word, within 20 bits.
Advanced ==
  LET p == pack_ptr(pr[PR_RWPH] \div 16384, (RWP + 1) % 2^20, pr[PR_RWPL] % 16)
  IN  [pr EXCEPT ![PR_RWPH] = p[1], ![PR_RWPL] = p[2]]

\* The rectangle CLR fills: dx + 1 words of each of 1 - dy rasters.
Rectangle(dx, dy) ==
  LET lines == 1 + ((65536 - dy) % 65536)
  IN  {a \in Addresses : \E j \in 0 .. a : /\ a >= RWP + j /\ j <= dx
                                           /\ (a - RWP - j) % MEM_WIDTH = 0
                                           /\ (a - RWP - j) \div MEM_WIDTH < lines}

TakeWord ==
  /\ str /\ ~abt /\ wfifo # <<>> /\ ~Complete
  /\ IF command = <<>> /\ ~IsOpcode(Head(wfifo))
       THEN cer' = TRUE /\ UNCHANGED command
       ELSE command' = Append(command, Head(wfifo)) /\ UNCHANGED cer
  /\ wfifo' = Tail(wfifo)
  /\ UNCHANGED <<rfifo, pr, mem, abt, str, driver>>

WriteParameter ==
  /\ command[1] \in CMD_WPR .. CMD_WPR + 31
  /\ pr' = [r \in Registers |-> IF r = command[1] - CMD_WPR THEN command[2] ELSE pr[r]]
  /\ UNCHANGED <<rfifo, mem>>

\* A register that is not modelled reads as zero.
ReadParameter ==
  /\ command[1] \in CMD_RPR .. CMD_RPR + 31
  /\ Len(rfifo) < FIFO_WORDS
  /\ LET r == command[1] - CMD_RPR IN rfifo' = Append(rfifo, IF r \in Registers THEN pr[r] ELSE 0)
  /\ UNCHANGED <<pr, mem>>

WriteWord ==
  /\ command[1] = CMD_WT
  /\ mem' = [a \in Addresses |-> IF a = RWP THEN command[2] ELSE mem[a]]
  /\ pr' = Advanced
  /\ UNCHANGED rfifo

ReadWord ==
  /\ command[1] = CMD_RD
  /\ Len(rfifo) < FIFO_WORDS
  /\ rfifo' = Append(rfifo, IF RWP \in Addresses THEN mem[RWP] ELSE 0)
  /\ pr' = Advanced
  /\ UNCHANGED mem

ClearArea ==
  /\ command[1] = CMD_CLR
  /\ mem' = [a \in Addresses |-> IF a \in Rectangle(command[3], command[4]) THEN command[2] ELSE mem[a]]
  /\ UNCHANGED <<pr, rfifo>>

SetOrigin == command[1] = CMD_ORG /\ UNCHANGED <<pr, mem, rfifo>>

Execute ==
  /\ str /\ ~abt /\ Complete
  /\ WriteParameter \/ ReadParameter \/ WriteWord \/ ReadWord \/ ClearArea \/ SetOrigin
  /\ command' = <<>>
  /\ UNCHANGED <<wfifo, cer, abt, str, driver>>

\* Status bits.
WFR == Len(wfifo) < FIFO_WORDS
WFE == wfifo = <<>>
RFR == rfifo # <<>>
CED == command = <<>>

-----------------------------------------------------------------------------
(* What each call of the driver does, in order.                            *)

Put(w) == [do |-> "put", word |-> w]
Get    == [do |-> "get"]
Idle   == [do |-> "idle"]
Reg(r) == [do |-> r]

hd63484_send_cmd(opcode, params) == <<Put(opcode)>> \o [i \in DOMAIN params |-> Put(params[i])]
hd63484_wpr(reg, value) == hd63484_send_cmd(CMD_WPR + reg, <<value>>)
hd63484_rpr(reg) == hd63484_send_cmd(CMD_RPR + reg, <<>>) \o <<Get>>
hd63484_org(dn, addr, dot) == hd63484_send_cmd(CMD_ORG, pack_ptr(dn, addr, dot))

hd63484_set_rwp(dn, addr, dot) ==
  LET p == pack_ptr(dn, addr, dot) IN hd63484_wpr(PR_RWPH, p[1]) \o hd63484_wpr(PR_RWPL, p[2])

hd63484_write_words(dn, addr, data) ==
  hd63484_set_rwp(dn, addr, 0) \o
  FlattenSeq([i \in DOMAIN data |-> hd63484_send_cmd(CMD_WT, <<data[i]>>)]) \o <<Idle>>

hd63484_read_words(dn, addr, count) ==
  hd63484_set_rwp(dn, addr, 0) \o
  FlattenSeq([i \in 1 .. count |-> hd63484_send_cmd(CMD_RD, <<>>) \o <<Get>>])

hd63484_fill_words(dn, addr, value, count) ==
  hd63484_set_rwp(dn, addr, 0) \o
  FlattenSeq([i \in 1 .. count |-> hd63484_send_cmd(CMD_WT, <<value>>)]) \o <<Idle>>

hd63484_clear_area(dn, addr, words_per_line, lines, value) ==
  hd63484_set_rwp(dn, addr, 0) \o
  hd63484_send_cmd(CMD_CLR, <<value, words_per_line - 1, (65536 - (lines - 1)) % 65536>>) \o <<Idle>>

hd63484_abort == <<Reg("abort"), Reg("enable")>>

\* The registers that configure the chip are in AcrtcConfig.
hd63484_init ==
  <<Reg("abort"), Reg("check"), Reg("halt"), Reg("enable"), Reg("run")>> \o
  hd63484_wpr(PR_CL0, 0) \o hd63484_wpr(PR_CL1, 65535) \o hd63484_wpr(PR_CCMP, 0) \o
  hd63484_wpr(PR_EDG, 0) \o hd63484_wpr(PR_MASK, 65535) \o
  hd63484_org(SCREEN_BASE, 0, 0) \o <<Idle>>

Program(c) ==
  CASE c.fn = "init"        -> hd63484_init
    [] c.fn = "abort"       -> hd63484_abort
    [] c.fn = "start"       -> <<Reg("run")>>
    [] c.fn = "stop"        -> <<Reg("halt")>>
    [] c.fn = "wpr"         -> hd63484_wpr(c.reg, c.value)
    [] c.fn = "rpr"         -> hd63484_rpr(c.reg)
    [] c.fn = "write_words" -> hd63484_write_words(c.dn, c.addr, c.data)
    [] c.fn = "read_words"  -> hd63484_read_words(c.dn, c.addr, c.count)
    [] c.fn = "fill_words"  -> hd63484_fill_words(c.dn, c.addr, c.value, c.count)
    [] c.fn = "clear_area"  -> hd63484_clear_area(c.dn, c.addr, c.words, c.lines, c.value)

BadParameter(c) ==
  \/ c.fn \in {"wpr", "rpr"} /\ c.reg > 31
  \/ c.fn = "clear_area" /\ (c.words = 0 \/ c.lines = 0)
  \/ c.fn \in {"write_words", "read_words", "fill_words", "clear_area"} /\ (c.dn > 3 \/ c.addr > 2^20 - 1)

-----------------------------------------------------------------------------
(* The driver executing a call.                                            *)

Resets == {"init", "abort"}

Call(c) ==
  /\ call = NoCall
  /\ failed = NoCall \/ c.fn \in Resets \/ (c = failed /\ retried < RETRIES)
  /\ retried' = IF c = failed THEN retried + 1 ELSE retried
  /\ IF BadParameter(c)
       THEN rc' = "PARAM" /\ got' = <<>> /\ UNCHANGED <<call, ops, polls>>
       ELSE call' = c /\ ops' = Program(c) /\ polls' = POLL_LIMIT /\ got' = <<>> /\ UNCHANGED rc
  /\ UNCHANGED <<chip, ready, slipped, failed>>

Return(code) ==
  /\ call' = NoCall /\ ops' = <<>> /\ polls' = POLL_LIMIT /\ ready' = FALSE
  /\ rc' = code
  /\ failed' = IF failed = NoCall /\ code \in {"TIMEOUT", "CMD"} THEN call ELSE failed
  /\ UNCHANGED retried

\* A slip the properties must notice: the status is read once, for all the words of a call.
ProceedUnchecked ==
  IF Len(ops) = 1 THEN Return("OK")
  ELSE ops' = Tail(ops) /\ polls' = POLL_LIMIT /\ UNCHANGED <<call, ready, rc, failed, retried>>

\* The next thing to do, or the return from a call that has nothing left to do.
Proceed ==
  IF Len(ops) = 1 THEN Return("OK")
  ELSE /\ ops' = Tail(ops) /\ polls' = POLL_LIMIT /\ ready' = FALSE
       /\ UNCHANGED <<call, rc, failed, retried>>

Doing(op) == call # NoCall /\ Head(ops).do = op

\* A slip the properties must notice: the readings are not counted.
PolledForever == UNCHANGED <<call, ops, polls, ready, rc, failed, retried>>

\* One more reading without the bit that is waited for.
Polled ==
  IF polls = 1 THEN Return("TIMEOUT")
  ELSE polls' = polls - 1 /\ UNCHANGED <<call, ops, ready, rc, failed, retried>>

wait_sr(op, bit) ==
  /\ Doing(op) /\ ~ready
  /\ IF bit THEN ready' = TRUE /\ UNCHANGED <<call, ops, polls, rc, failed, retried>> ELSE Polled
  /\ UNCHANGED <<chip, got, slipped>>

fifo_write_word ==
  /\ Doing("put") /\ ready
  /\ IF Len(wfifo) < FIFO_WORDS
       THEN wfifo' = Append(wfifo, Head(ops).word) /\ UNCHANGED slipped
       ELSE slipped' = TRUE /\ UNCHANGED wfifo
  /\ Proceed
  /\ UNCHANGED <<rfifo, command, pr, mem, cer, abt, str, got>>

fifo_read_word ==
  /\ Doing("get") /\ ready
  /\ IF rfifo # <<>>
       THEN got' = Append(got, Head(rfifo)) /\ rfifo' = Tail(rfifo) /\ UNCHANGED slipped
       ELSE slipped' = TRUE /\ got' = Append(got, 0) /\ UNCHANGED rfifo
  /\ Proceed
  /\ UNCHANGED <<wfifo, command, pr, mem, cer, abt, str>>

\* A slip the properties must notice: an empty FIFO will do.
AtRestWhenEmpty == WFE

\* The FIFO is drained and the last command has ended.
AtRest == WFE /\ CED

hd63484_wait_idle ==
  /\ Doing("idle")
  /\ IF cer THEN Return("CMD") ELSE IF AtRest THEN Proceed ELSE Polled
  /\ UNCHANGED <<chip, got, slipped>>

\* CCR with ABT set: both FIFOs and the command are gone, the error flag is cleared.
Aborts ==
  /\ wfifo' = <<>> /\ rfifo' = <<>> /\ command' = <<>>
  /\ cer' = FALSE /\ abt' = TRUE
  /\ UNCHANGED <<pr, mem, str>>

WriteCcr ==
  \/ /\ Doing("abort") /\ Aborts
     /\ ops' = Tail(ops) /\ failed' = NoCall /\ retried' = 0
     /\ UNCHANGED <<call, polls, ready, got, rc, slipped>>
  \/ /\ Doing("enable") /\ abt' = FALSE
     /\ Proceed
     /\ UNCHANGED <<wfifo, rfifo, command, pr, mem, cer, str, got, slipped>>

WriteOmr ==
  /\ Doing("run") \/ Doing("halt")
  /\ str' = Doing("run")
  /\ Proceed
  /\ UNCHANGED <<wfifo, rfifo, command, pr, mem, cer, abt, got, slipped>>

\* The chip is there when it has nothing to do and room for commands.
CheckPresence ==
  /\ Doing("check")
  /\ IF CED /\ WFR /\ WFE THEN Proceed ELSE Return("NO_DEVICE")
  /\ UNCHANGED <<chip, got, slipped>>

Execution ==
  \/ wait_sr("put", WFR)
  \/ wait_sr("get", RFR)
  \/ fifo_write_word
  \/ fifo_read_word
  \/ hd63484_wait_idle
  \/ WriteCcr
  \/ WriteOmr
  \/ CheckPresence

-----------------------------------------------------------------------------
\* After a hardware reset the chip is in abort; the program brings it up.
Init ==
  /\ wfifo = <<>> /\ rfifo = <<>> /\ command = <<>>
  /\ pr = [r \in Registers |-> 0] /\ mem = [a \in Addresses |-> 0]
  /\ cer = FALSE /\ abt = TRUE /\ str = FALSE
  /\ call = [fn |-> "init"] /\ ops = hd63484_init
  /\ polls = POLL_LIMIT /\ ready = FALSE /\ got = <<>>
  /\ rc = "OK" /\ slipped = FALSE /\ failed = NoCall /\ retried = 0

Next ==
  \/ \E c \in Calls : Call(c)
  \/ Execution
  \/ TakeWord
  \/ Execute

Spec == Init /\ [][Next]_vars

\* The processor goes on executing; nothing is assumed of the chip.
FairSpec == Spec /\ WF_vars(Execution)

-----------------------------------------------------------------------------
(* Correctness.                                                            *)

TypeOK ==
  /\ wfifo \in Seq(Word) /\ Len(wfifo) <= FIFO_WORDS
  /\ rfifo \in Seq(Word) /\ Len(rfifo) <= FIFO_WORDS
  /\ command \in Seq(Word) /\ Len(command) <= 4
  /\ pr \in [Registers -> Word] /\ mem \in [Addresses -> Word]
  /\ {cer, abt, str, ready, slipped} \subseteq BOOLEAN
  /\ call \in Calls \cup {NoCall, [fn |-> "init"]}
  /\ polls \in 1 .. POLL_LIMIT
  /\ rc \in {"OK", "PARAM", "TIMEOUT", "NO_DEVICE", "CMD"}

\* No word is written to a full FIFO or read from an empty one, whatever the chip does
\* between the reading of its status and the access.
NeverSlips == ~slipped

(***************************************************************************)
(* The driver implements the abstract frame buffer.  The register CL0 is   *)
(* taken to hold what it will hold when the chip has taken all the words   *)
(* that wait for it: a call that only writes registers does not wait.      *)
(***************************************************************************)
Waiting == command \o wfifo

\* The pairs of words that wait and write CL0; commands of other lengths come behind all of them.
Writes ==
  {k \in 1 .. Len(Waiting) \div 2 : /\ Waiting[2 * k - 1] = CMD_WPR + PR_CL0
                                  /\ \A j \in 1 .. k : NumParams(Waiting[2 * j - 1]) = 1}

\* What the last of them writes.
Settled ==
  IF Writes = {} THEN pr[PR_CL0] ELSE Waiting[2 * (CHOOSE k \in Writes : \A j \in Writes : j <= k)]

Answer == IF call = NoCall THEN [rc |-> rc, data |-> got] ELSE [rc |-> "none", data |-> <<>>]

Buffer == INSTANCE FrameBuffer WITH
  Register <- PR_CL0, store <- mem, register <- Settled, asked <- call, answer <- Answer, lost <- failed # NoCall

\* What the calls read and write lies within the frame buffer: the driver does not look.
Within(c) ==
  /\ Buffer!Covered(c) \subseteq Addresses
  /\ c.fn = "read_words" => c.addr .. c.addr + c.count - 1 \subseteq Addresses

ASSUME WithinAssumption == \A c \in Calls : ~BadParameter(c) => Within(c)

\* A call that returns OK has done what it says and nothing else, a register reads back what was
\* written last, a parameter error changes nothing, a command error is never the first failure, and
\* after a failure aborting the chip makes all of this true again.
Refines == Buffer!Spec

\* Every call returns, whatever the chip does: each wait has its limit (the polling loops of wait_sr
\* and hd63484_wait_idle).
CallReturns == (call # NoCall) ~> (call = NoCall)
=============================================================================
