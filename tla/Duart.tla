------------------------------- MODULE Duart -------------------------------
(***************************************************************************)
(* The receive side of the 68681 DUART driver: duart.c with the LOCK and   *)
(* UNLOCK macros of machine.h.  One CPU runs the program, which calls      *)
(* bios_getchar(port), and the interrupt handler, which preempts the       *)
(* program between any two of its steps unless LOCK has masked interrupts. *)
(* The handler moves characters from the DUART's receive FIFO into a ring  *)
(* buffer per channel; getchar takes them out.  Both drive the RTS line    *)
(* that tells the remote end whether it may send.                          *)
(*                                                                         *)
(* The program's critical section is split at the points where an          *)
(* interrupt would matter: rx_count is volatile, so rx_count-- is a load   *)
(* (in Fetch) and a store (in Store).                                      *)
(*                                                                         *)
(* External (the chip and the remote end): fifo, overrun, over, Arrive.    *)
(***************************************************************************)
EXTENDS Naturals, Sequences

CONSTANTS
  Char,             \* characters a remote end may send
  NUL,              \* what a buffer slot and the result register hold at first
  Bad,              \* a character received with a framing or parity error
  RX_BUFFER_SIZE, HIGH_WATER_MARK, LOW_WATER_MARK,
  FIFO_DEPTH,       \* depth of the chip's receive FIFO
  SLACK,            \* characters a remote may still send once RTS has dropped
  Talkers,          \* ports with a remote end that sends
  Readers,          \* ports the program reads from
  Timely            \* ports whose FIFO is always served before it overruns

Ports == {0, 1}     \* channels[]: 0 is channel A, 1 is channel B

ASSUME CharAssumption == NUL \notin Char /\ Bad \notin Char
ASSUME MarksAssumption ==
  /\ RX_BUFFER_SIZE \in Nat /\ HIGH_WATER_MARK \in Nat /\ LOW_WATER_MARK \in Nat
  /\ LOW_WATER_MARK < HIGH_WATER_MARK /\ HIGH_WATER_MARK <= RX_BUFFER_SIZE
ASSUME HardwareAssumption ==
  /\ FIFO_DEPTH \in Nat \ {0} /\ SLACK \in Nat
  /\ Talkers \subseteq Ports /\ Readers \subseteq Ports /\ Timely \subseteq Ports
\* What the marks leave free takes what the chip holds and the remote still sends.
ASSUME MarginAssumption == HIGH_WATER_MARK + FIFO_DEPTH + SLACK <= RX_BUFFER_SIZE + 1

VARIABLES
  rx_buff, rx_insert, rx_remove, rx_count, rts_asserted,  \* struct kduart_port
  rts,       \* rts[p]: the output pin of the DUART that is port p's RTS
  led,       \* the receive error LED
  masked,    \* are interrupts masked (by LOCK)?
  pc, port,  \* the program: its control point, and the port it reads
  ch, cnt,   \* its registers: the character fetched, the count loaded
  fifo,      \* fifo[p]: characters in the chip's receive FIFO
  overrun,   \* overrun[p]: the chip's overrun status bit
  over       \* over[p]: characters sent since port p's RTS dropped

ring == <<rx_buff, rx_insert, rx_remove, rx_count, rts_asserted, rts>>
prog == <<masked, pc, port, ch, cnt>>
chip == <<fifo, overrun, over>>
vars == <<ring, led, prog, chip>>

Init ==
  /\ rx_buff = [p \in Ports |-> [i \in 0 .. RX_BUFFER_SIZE - 1 |-> NUL]]
  /\ rx_insert = [p \in Ports |-> 0]
  /\ rx_remove = [p \in Ports |-> 0]
  /\ rx_count  = [p \in Ports |-> 0]
  /\ rts_asserted = [p \in Ports |-> FALSE]
  /\ rts = [p \in Ports |-> FALSE]
  /\ led = FALSE
  /\ masked = FALSE /\ pc = "init_b" /\ port = 0 /\ ch = NUL /\ cnt = 0
  /\ fifo = [p \in Ports |-> <<>>]
  /\ overrun = [p \in Ports |-> FALSE]
  /\ over = [p \in Ports |-> SLACK]

-----------------------------------------------------------------------------
(* Operators of the ring buffer and of its flow control.                   *)

WrapLate(i) == IF i > RX_BUFFER_SIZE THEN 0 ELSE i

\* An index after its increment.
Wrap(i) == IF i >= RX_BUFFER_SIZE THEN 0 ELSE i

AboveHigh(p, n) == n > HIGH_WATER_MARK /\ rts_asserted[p]
\* The character that makes the count n fills port p's buffer to the mark.
MustDeassert(p, n) == n = HIGH_WATER_MARK /\ rts_asserted[p]

BelowLow(p, n) == n < LOW_WATER_MARK /\ ~rts_asserted[p]
WrongSense(p, n) == n = LOW_WATER_MARK /\ rts_asserted[p]
\* Removing the character that leaves n in port p's buffer drains it to the mark.
MustReassert(p, n) == n = LOW_WATER_MARK /\ ~rts_asserted[p]

-----------------------------------------------------------------------------
(* setup_duart: channel B, then channel A, then the interrupt mask.        *)

InitChannel(p, from, to) ==
  /\ pc = from
  /\ pc' = to
  /\ rts_asserted' = [rts_asserted EXCEPT ![p] = TRUE]
  /\ rts' = [rts EXCEPT ![p] = TRUE]
  /\ over' = [over EXCEPT ![p] = 0]
  /\ rx_insert' = [rx_insert EXCEPT ![p] = 0]
  /\ rx_remove' = [rx_remove EXCEPT ![p] = 0]
  /\ rx_count'  = [rx_count  EXCEPT ![p] = 0]
  /\ UNCHANGED <<rx_buff, led, masked, port, ch, cnt, fifo, overrun>>

\* Ports whose receiver may interrupt once *duart_imr = 0x02 is written.
Imr == {0}

EnableInterrupts ==
  /\ pc = "imr"
  /\ pc' = "idle"
  /\ UNCHANGED <<ring, led, masked, port, ch, cnt, chip>>

Setup ==
  \/ InitChannel(1, "init_b", "init_a")
  \/ InitChannel(0, "init_a", "imr")
  \/ EnableInterrupts

SettingUp == {"init_b", "init_a", "imr"}

-----------------------------------------------------------------------------
(* duart_irq_handler: one character of each channel whose receiver is      *)
(* ready.  Only an interrupt the mask lets through brings the handler in;  *)
(* once in, it serves both channels.                                       *)

RxReady(p) == fifo[p] # <<>>

StatusIgnored(p) == FALSE
\* status & 0xf0: the overrun bit is the chip's, the others go with the character.
StatusError(p) == overrun[p] \/ Head(fifo[p]) = Bad

NotQuiteFull(p) == RxReady(p) /\ ~StatusError(p) /\ rx_count[p] <= RX_BUFFER_SIZE
Stores(p) == RxReady(p) /\ ~StatusError(p) /\ rx_count[p] < RX_BUFFER_SIZE
Discards(p) == RxReady(p) /\ ~Stores(p)
Deasserts(p) == Stores(p) /\ MustDeassert(p, rx_count[p] + 1)

Irq ==
  /\ ~masked /\ pc \notin SettingUp
  /\ \E p \in Imr : RxReady(p)
  /\ rx_buff' = [p \in Ports |->
        IF Stores(p) THEN [rx_buff[p] EXCEPT ![rx_insert[p]] = Head(fifo[p])]
                     ELSE rx_buff[p]]
  /\ rx_insert' = [p \in Ports |-> IF Stores(p) THEN Wrap(rx_insert[p] + 1)
                                                ELSE rx_insert[p]]
  /\ rx_count' = [p \in Ports |-> IF Stores(p) THEN rx_count[p] + 1 ELSE rx_count[p]]
  /\ rts_asserted' = [p \in Ports |-> rts_asserted[p] /\ ~Deasserts(p)]
  /\ rts'  = [p \in Ports |-> rts[p] /\ ~Deasserts(p)]
  /\ over' = [p \in Ports |-> IF Deasserts(p) THEN 0 ELSE over[p]]
  /\ led'  = (led \/ \E p \in Ports : Discards(p))
  /\ fifo' = [p \in Ports |-> IF RxReady(p) THEN Tail(fifo[p]) ELSE fifo[p]]
  /\ UNCHANGED <<rx_remove, prog, overrun>>

-----------------------------------------------------------------------------
(* bios_getchar(p): buffered_rx_char.                                      *)

Goto(from, to) == pc = from /\ pc' = to

Getchar(p) ==
  /\ Goto("idle", "wait")
  /\ port' = p
  /\ UNCHANGED <<ring, led, masked, ch, cnt, chip>>

\* while (channel->rx_count == 0);
SeeCharacter ==
  /\ Goto("wait", "lock")
  /\ rx_count[port] # 0
  /\ UNCHANGED <<ring, led, masked, port, ch, cnt, chip>>

LockForgotten ==
  /\ Goto("lock", "fetch")
  /\ UNCHANGED <<ring, led, masked, port, ch, cnt, chip>>

Lock ==
  /\ Goto("lock", "fetch")
  /\ masked' = TRUE
  /\ UNCHANGED <<ring, led, port, ch, cnt, chip>>

\* The character at rx_remove, rx_remove moved on, and the load of rx_count--.
Fetch ==
  /\ Goto("fetch", "store")
  /\ ch' = rx_buff[port][rx_remove[port]]
  /\ rx_remove' = [rx_remove EXCEPT ![port] = Wrap(@ + 1)]
  /\ cnt' = rx_count[port]
  /\ UNCHANGED <<rx_buff, rx_insert, rx_count, rts_asserted, rts, led, masked, port, chip>>

\* The store of rx_count--, and RTS asserted again at the low water mark.
Store ==
  /\ Goto("store", "unlock")
  /\ rx_count' = [rx_count EXCEPT ![port] = cnt - 1]
  /\ LET up == MustReassert(port, cnt - 1) IN
       /\ rts_asserted' = [rts_asserted EXCEPT ![port] = @ \/ up]
       /\ rts' = [rts EXCEPT ![port] = @ \/ up]
  /\ UNCHANGED <<rx_buff, rx_insert, rx_remove, led, masked, port, ch, cnt, chip>>

UnlockForgotten ==
  /\ Goto("unlock", "idle")
  /\ UNCHANGED <<ring, led, masked, port, ch, cnt, chip>>

Unlock ==
  /\ Goto("unlock", "idle")
  /\ masked' = FALSE
  /\ UNCHANGED <<ring, led, port, ch, cnt, chip>>

Reading == SeeCharacter \/ Lock \/ Fetch \/ Store \/ Unlock

-----------------------------------------------------------------------------
(* External: a character reaches the receiver of port p.  A remote end     *)
(* that honours RTS sends at most SLACK of them after RTS has dropped.  A  *)
(* character that finds the FIFO full is lost and sets the overrun status  *)
(* bit, which stays set until a CR_RESET_ERROR command the driver never    *)
(* issues.                                                                 *)
Arrive(p, c) ==
  /\ rts[p] \/ over[p] < SLACK
  /\ over' = [over EXCEPT ![p] = IF rts[p] THEN 0 ELSE @ + 1]
  /\ \/ /\ Len(fifo[p]) < FIFO_DEPTH
        /\ fifo' = [fifo EXCEPT ![p] = Append(@, c)]
        /\ UNCHANGED overrun
     \/ /\ Len(fifo[p]) = FIFO_DEPTH
        /\ p \notin Timely
        /\ overrun' = [overrun EXCEPT ![p] = TRUE]
        /\ UNCHANGED fifo
  /\ UNCHANGED <<ring, led, prog>>

Next ==
  \/ Setup
  \/ Irq
  \/ \E p \in Readers : Getchar(p)
  \/ Reading
  \/ \E p \in Talkers, c \in Char \cup {Bad} : Arrive(p, c)

Spec == Init /\ [][Next]_vars

(***************************************************************************)
(* Fairness.  The CPU keeps executing: setup and every step of getchar     *)
(* complete unless they wait for a character.  A pending interrupt is      *)
(* level-triggered, so it is taken at the first moment the mask allows;    *)
(* the program masks it over and over, hence strong fairness.  The program *)
(* comes back to read (the monitor's command loop does nothing else).      *)
(***************************************************************************)
Fairness ==
  /\ WF_vars(Setup)
  /\ WF_vars(Reading)
  /\ SF_vars(Irq)
  /\ \A p \in Readers : WF_vars(Getchar(p))

FairSpec == Spec /\ Fairness

-----------------------------------------------------------------------------
(* Correctness.                                                            *)

TypeOK ==
  /\ rx_buff \in [Ports -> [0 .. RX_BUFFER_SIZE - 1 -> Char \cup {NUL}]]
  /\ rx_insert \in [Ports -> 0 .. RX_BUFFER_SIZE - 1]
  /\ rx_remove \in [Ports -> 0 .. RX_BUFFER_SIZE - 1]
  /\ rx_count \in [Ports -> 0 .. RX_BUFFER_SIZE]
  /\ rts_asserted \in [Ports -> BOOLEAN] /\ rts \in [Ports -> BOOLEAN]
  /\ led \in BOOLEAN /\ masked \in BOOLEAN
  /\ pc \in SettingUp \cup {"idle", "wait", "lock", "fetch", "store", "unlock"}
  /\ port \in Ports /\ ch \in Char \cup {NUL} /\ cnt \in 0 .. RX_BUFFER_SIZE
  /\ fifo \in [Ports -> Seq(Char \cup {Bad})]
  /\ \A p \in Ports : Len(fifo[p]) <= FIFO_DEPTH
  /\ overrun \in [Ports -> BOOLEAN] /\ over \in [Ports -> 0 .. SLACK]

\* Characters of port p's buffer not yet fetched: rx_count, or one fewer while
\* getchar holds one whose removal it has not yet stored.
Held(p) == IF pc = "store" /\ port = p THEN rx_count[p] - 1 ELSE rx_count[p]

\* The slot of the i-th character after the oldest.
Slot(p, i) == IF rx_remove[p] + i >= RX_BUFFER_SIZE
              THEN rx_remove[p] + i - RX_BUFFER_SIZE
              ELSE rx_remove[p] + i

Contents(p) == [i \in 1 .. Held(p) |-> rx_buff[p][Slot(p, i - 1)]]

(***************************************************************************)
(* The two indices and the count agree in every state an interrupt can     *)
(* leave or find: rx_insert is Held characters after rx_remove, so neither *)
(* the handler nor getchar overtakes the other (duart.c 59-66, 301-312).   *)
(***************************************************************************)
RingConsistent == \A p \in Ports : rx_insert[p] = Slot(p, Held(p))

Configured(p) == pc # "init_b" /\ (p = 0 => pc # "init_a")

(***************************************************************************)
(* RTS follows the buffer: with RTS asserted the buffer is below the high  *)
(* water mark, and with RTS dropped it is above the low one, so the        *)
(* removals still to come must pass the test == LOW_WATER_MARK that        *)
(* asserts it again.  Both tests are equalities (duart.c 71, 311): a mark  *)
(* stepped over once would be missed until the next time round.            *)
(***************************************************************************)
FlowControl ==
  \A p \in Ports : Configured(p) =>
    /\ rts[p] <=> rts_asserted[p]
    /\ rts_asserted[p] => rx_count[p] < HIGH_WATER_MARK
    /\ ~rts_asserted[p] => rx_count[p] > LOW_WATER_MARK

(***************************************************************************)
(* The handler never has to drop a character for want of room: "This       *)
(* should only happen if the sending side has ignored our RTS signal"      *)
(* (duart.c 53-55), given MarginAssumption.                                *)
(***************************************************************************)
RoomForAll == \A p \in Ports : RxReady(p) => rx_count[p] < RX_BUFFER_SIZE

\* The ring buffers implement the bounded queues with hysteresis of SerialFifo.
Queue == INSTANCE SerialFifo WITH
  NoChar <- NUL, Size <- RX_BUFFER_SIZE, High <- HIGH_WATER_MARK, Low <- LOW_WATER_MARK,
  queue <- [p \in Ports |-> Contents(p)], open <- rts_asserted, handed <- ch
Refines == Queue!Spec

(***************************************************************************)
(* A dropped RTS is asserted again: the remote end of a port the program   *)
(* keeps reading is not stopped for ever.                                  *)
(***************************************************************************)
RtsReopens == \A p \in Readers : (Configured(p) /\ ~rts[p]) ~> rts[p]

\* A good character is at the head of the chip's FIFO while getchar(p) waits.
Waiting(p) ==
  pc = "wait" /\ port = p /\ fifo[p] # <<>> /\ Head(fifo[p]) # Bad

(***************************************************************************)
(* getchar returns when there is a good character to return.               *)
(***************************************************************************)
GetcharReturns == \A p \in Readers : Waiting(p) ~> (pc = "idle")
=============================================================================
