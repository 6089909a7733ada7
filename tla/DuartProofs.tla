---------------------------- MODULE DuartProofs ----------------------------
(***************************************************************************)
(* The receive driver is correct for every buffer size, every pair of      *)
(* marks and every character set the assumptions of Duart allow: its type  *)
(* invariant, the consistency of the ring, flow control and the absence of *)
(* loss for want of room are all consequences of one inductive invariant.  *)
(***************************************************************************)
EXTENDS Duart, SequenceTheorems, TLAPS

-----------------------------------------------------------------------------
(* The inductive invariant.                                                *)

\* Interrupts are masked in the critical section and nowhere else.
MaskInv == masked <=> pc \in {"fetch", "store", "unlock"}

\* Having seen a character, the program can rely on it to stay there, and the
\* count it loaded is still the count when it stores it back.
ReaderInv ==
  /\ pc \in {"lock", "fetch", "store"} => rx_count[port] > 0
  /\ pc = "store" => cnt = rx_count[port]

\* A channel not yet initialised is silent.
SilentInv ==
  \A p \in Ports : ~Configured(p) =>
    /\ rx_insert[p] = 0 /\ rx_remove[p] = 0 /\ rx_count[p] = 0
    /\ ~rts[p] /\ over[p] = SLACK /\ fifo[p] = <<>>

\* The buffer takes what the chip holds and the remote may still send.
RoomInv ==
  \A p \in Ports : (Configured(p) /\ ~rts[p]) =>
    rx_count[p] + Len(fifo[p]) + (SLACK - over[p]) <= RX_BUFFER_SIZE

IInv == /\ TypeOK /\ MaskInv /\ ReaderInv /\ SilentInv
        /\ RingConsistent /\ FlowControl /\ RoomInv

-----------------------------------------------------------------------------

USE DEF Ports, SettingUp

(***************************************************************************)
(* The driver starts in a state of the invariant.                          *)
(***************************************************************************)
LEMMA InitIInv == Init => IInv
<1> SUFFICES ASSUME Init PROVE IInv
  OBVIOUS
<1> USE MarksAssumption, HardwareAssumption DEF Init
<1>1. TypeOK
  BY DEF TypeOK
<1>2. MaskInv /\ ReaderInv /\ SilentInv
  BY DEF MaskInv, ReaderInv, SilentInv
<1>3. RingConsistent
  BY DEF RingConsistent, Slot, Held
<1>4. FlowControl /\ RoomInv
  BY DEF FlowControl, RoomInv, Configured
<1>5. QED
  BY <1>1, <1>2, <1>3, <1>4 DEF IInv

(***************************************************************************)
(* Initialising a channel.                                                 *)
(***************************************************************************)
LEMMA SetupIInv == IInv /\ Setup => IInv'
<1> SUFFICES ASSUME IInv, Setup PROVE IInv'
  OBVIOUS
<1> USE MarksAssumption, HardwareAssumption
<1>1. ASSUME NEW p \in Ports, NEW to \in {"init_a", "imr"},
             (p = 1 /\ to = "init_a" /\ pc = "init_b") \/ (p = 0 /\ to = "imr" /\ pc = "init_a"),
             InitChannel(p, pc, to)
      PROVE  IInv'
  <2> USE <1>1 DEF IInv, InitChannel, vars
  <2>1. TypeOK'
    BY DEF TypeOK
  <2>2. MaskInv' /\ ReaderInv'
    BY DEF MaskInv, ReaderInv, TypeOK
  <2>3. SilentInv'
    BY DEF SilentInv, TypeOK, Configured
  <2>4. RingConsistent'
    BY SMTT(30) DEF RingConsistent, Slot, Held, TypeOK
  <2>5. /\ rts'[p] = TRUE /\ rts_asserted'[p] = TRUE /\ rx_count'[p] = 0
        /\ \A q \in Ports \ {p} : Configured(q)' => Configured(q)
    BY DEF Configured, TypeOK
  <2>6. \A q \in Ports \ {p} : /\ rts'[q] = rts[q] /\ rts_asserted'[q] = rts_asserted[q]
                               /\ rx_count'[q] = rx_count[q]
                               /\ fifo'[q] = fifo[q] /\ over'[q] = over[q]
    BY DEF TypeOK
  <2>7. FlowControl'
    <3>1. 0 < HIGH_WATER_MARK
      OBVIOUS
    <3>2. SUFFICES ASSUME NEW q \in Ports, Configured(q)'
                   PROVE  /\ rts'[q] <=> rts_asserted'[q]
                          /\ rts_asserted'[q] => rx_count'[q] < HIGH_WATER_MARK
                          /\ ~rts_asserted'[q] => rx_count'[q] > LOW_WATER_MARK
      BY DEF FlowControl
    <3>3. CASE q = p
      BY <2>5, <3>1, <3>3
    <3>4. CASE q # p
      BY <2>5, <2>6, <3>2, <3>4 DEF FlowControl
    <3>5. QED
      BY <3>3, <3>4
  <2>8. RoomInv'
    BY <2>5, <2>6 DEF RoomInv
  <2>9. QED
    BY <2>1, <2>2, <2>3, <2>4, <2>7, <2>8
<1>2. CASE EnableInterrupts
  BY <1>2 DEF IInv, EnableInterrupts, ring, chip, TypeOK, MaskInv, ReaderInv, SilentInv,
              RingConsistent, Slot, Held, FlowControl, RoomInv, Configured
<1>3. QED
  BY <1>1, <1>2 DEF Setup, InitChannel

(***************************************************************************)
(* What one run of the handler does to the chip's FIFO of a port: nothing, *)
(* or the removal of its first character, a good one if it is stored.      *)
(***************************************************************************)
FifoEffect(p) ==
  /\ fifo'[p] \in Seq(Char \cup {Bad})
  /\ ~RxReady(p) => fifo'[p] = fifo[p]
  /\ RxReady(p) => Len(fifo'[p]) = Len(fifo[p]) - 1
  /\ Stores(p) => RxReady(p) /\ Head(fifo[p]) \in Char

LEMMA IrqFifo == TypeOK /\ Irq => \A p \in Ports : FifoEffect(p)
<1> SUFFICES ASSUME TypeOK, Irq, NEW p \in Ports PROVE FifoEffect(p)
  OBVIOUS
<1> USE DEF TypeOK, Irq, FifoEffect
<1>1. CASE ~RxReady(p)
  BY <1>1 DEF Stores
<1>2. CASE RxReady(p)
  <2>1. fifo[p] \in Seq(Char \cup {Bad}) /\ fifo[p] # <<>>
    BY <1>2 DEF RxReady
  <2>2. /\ Head(fifo[p]) \in Char \cup {Bad}
        /\ Tail(fifo[p]) \in Seq(Char \cup {Bad})
        /\ Len(Tail(fifo[p])) = Len(fifo[p]) - 1
    BY <2>1, HeadTailProperties
  <2>3. fifo'[p] = Tail(fifo[p])
    BY <1>2
  <2>4. Stores(p) => Head(fifo[p]) \in Char
    BY <2>2 DEF Stores, StatusError
  <2>5. QED
    BY <1>2, <2>2, <2>3, <2>4
<1>3. QED
  BY <1>1, <1>2

(***************************************************************************)
(* What it does to the ring buffer and the RTS line of a port.             *)
(***************************************************************************)
BuffEffect(p) ==
  /\ ~Stores(p) => rx_buff'[p] = rx_buff[p]
  /\ Stores(p) => rx_buff'[p] = [rx_buff[p] EXCEPT ![rx_insert[p]] = Head(fifo[p])]

CountEffect(p) ==
  /\ rx_remove'[p] = rx_remove[p]
  /\ ~Stores(p) => rx_insert'[p] = rx_insert[p] /\ rx_count'[p] = rx_count[p]
  /\ Stores(p) => /\ rx_insert'[p] = Wrap(rx_insert[p] + 1)
                  /\ rx_count[p] < RX_BUFFER_SIZE
                  /\ rx_count'[p] = rx_count[p] + 1

RtsEffect(p) ==
  /\ rts'[p] <=> rts[p] /\ ~Deasserts(p)
  /\ rts_asserted'[p] <=> rts_asserted[p] /\ ~Deasserts(p)
  /\ Deasserts(p) <=> Stores(p) /\ rx_count[p] + 1 = HIGH_WATER_MARK /\ rts_asserted[p]
  /\ Deasserts(p) => over'[p] = 0
  /\ ~Deasserts(p) => over'[p] = over[p]

LEMMA IrqRing ==
  Irq => \A p \in Ports : BuffEffect(p) /\ CountEffect(p) /\ RtsEffect(p)
<1> SUFFICES ASSUME Irq, NEW p \in Ports
             PROVE  BuffEffect(p) /\ CountEffect(p) /\ RtsEffect(p)
  OBVIOUS
<1>1. BuffEffect(p)
  BY Zenon DEF Irq, BuffEffect
<1>2. CountEffect(p)
  <2>1. rx_remove' = rx_remove
    BY DEF Irq
  <2>2. ~Stores(p) => rx_insert'[p] = rx_insert[p] /\ rx_count'[p] = rx_count[p]
    BY Zenon DEF Irq
  <2>3. Stores(p) => /\ rx_insert'[p] = Wrap(rx_insert[p] + 1)
                    /\ rx_count'[p] = rx_count[p] + 1
    BY Zenon DEF Irq
  <2>4. Stores(p) => rx_count[p] < RX_BUFFER_SIZE
    BY DEF Stores
  <2>5. QED
    BY <2>1, <2>2, <2>3, <2>4 DEF CountEffect
<1>3. RtsEffect(p)
  <2>1. /\ rts'[p] = (rts[p] /\ ~Deasserts(p))
        /\ rts_asserted'[p] = (rts_asserted[p] /\ ~Deasserts(p))
    BY Zenon DEF Irq
  <2>2. /\ Deasserts(p) => over'[p] = 0
        /\ ~Deasserts(p) => over'[p] = over[p]
    BY Zenon DEF Irq
  <2>3. Deasserts(p) <=> Stores(p) /\ rx_count[p] + 1 = HIGH_WATER_MARK /\ rts_asserted[p]
    BY DEF Deasserts, MustDeassert
  <2>4. QED
    BY <2>1, <2>2, <2>3 DEF RtsEffect
<1>4. QED
  BY <1>1, <1>2, <1>3

(***************************************************************************)
(* What the invariant says of one port, as the arithmetic needs it.        *)
(***************************************************************************)
PortNumbers(p) ==
  /\ rx_insert[p] \in 0 .. RX_BUFFER_SIZE - 1
  /\ rx_remove[p] \in 0 .. RX_BUFFER_SIZE - 1
  /\ rx_count[p] \in 0 .. RX_BUFFER_SIZE
  /\ over[p] \in 0 .. SLACK
  /\ Len(fifo[p]) \in 0 .. FIFO_DEPTH

LEMMA NumbersOfPort == TypeOK => \A p \in Ports : PortNumbers(p)
BY LenProperties DEF TypeOK, PortNumbers

LEMMA ConstantFacts ==
  /\ RX_BUFFER_SIZE \in Nat /\ HIGH_WATER_MARK \in Nat /\ LOW_WATER_MARK \in Nat
  /\ FIFO_DEPTH \in Nat /\ SLACK \in Nat
  /\ LOW_WATER_MARK < HIGH_WATER_MARK /\ HIGH_WATER_MARK <= RX_BUFFER_SIZE
BY MarksAssumption, HardwareAssumption

(***************************************************************************)
(* The handler preserves the invariant.                                    *)
(***************************************************************************)
LEMMA IrqIInv == IInv /\ Irq => IInv'
<1> SUFFICES ASSUME IInv, Irq PROVE IInv'
  OBVIOUS
<1> USE ConstantFacts
<1>r. \A p \in Ports : /\ BuffEffect(p) /\ CountEffect(p) /\ RtsEffect(p)
                      /\ FifoEffect(p) /\ PortNumbers(p)
  BY IrqRing, IrqFifo, NumbersOfPort DEF IInv
<1>0. pc \notin {"fetch", "store", "unlock"}
  BY DEF IInv, MaskInv, Irq
<1>1. pc' = pc /\ port' = port /\ masked' = masked /\ ch' = ch /\ cnt' = cnt
  BY DEF Irq, prog
<1>2. TypeOK'
  <2>1. ASSUME NEW p \in Ports
        PROVE  /\ rx_buff'[p] \in [0 .. RX_BUFFER_SIZE - 1 -> Char \cup {NUL}]
               /\ rx_insert'[p] \in 0 .. RX_BUFFER_SIZE - 1
               /\ rx_count'[p] \in 0 .. RX_BUFFER_SIZE
               /\ over'[p] \in 0 .. SLACK
               /\ fifo'[p] \in Seq(Char \cup {Bad}) /\ Len(fifo'[p]) <= FIFO_DEPTH
    <3>0. /\ BuffEffect(p) /\ CountEffect(p) /\ RtsEffect(p)
          /\ FifoEffect(p) /\ PortNumbers(p)
      BY <1>r
    <3>1. rx_buff'[p] \in [0 .. RX_BUFFER_SIZE - 1 -> Char \cup {NUL}]
      <4>1. rx_buff[p] \in [0 .. RX_BUFFER_SIZE - 1 -> Char \cup {NUL}]
        BY DEF IInv, TypeOK
      <4>2. CASE Stores(p)
        <5>1. Head(fifo[p]) \in Char
          BY <3>0, <4>2 DEF FifoEffect
        <5>2. rx_buff'[p] = [rx_buff[p] EXCEPT ![rx_insert[p]] = Head(fifo[p])]
          BY <3>0, <4>2 DEF BuffEffect
        <5>3. QED
          BY <4>1, <5>1, <5>2
      <4>3. CASE ~Stores(p)
        BY <3>0, <4>1, <4>3 DEF BuffEffect
      <4>4. QED
        BY <4>2, <4>3
    <3>2. rx_insert'[p] \in 0 .. RX_BUFFER_SIZE - 1 /\ rx_count'[p] \in 0 .. RX_BUFFER_SIZE
      BY <3>0, SMTT(30) DEF CountEffect, PortNumbers, Wrap
    <3>3. over'[p] \in 0 .. SLACK
      BY <3>0 DEF RtsEffect, PortNumbers
    <3>4. fifo'[p] \in Seq(Char \cup {Bad}) /\ Len(fifo'[p]) <= FIFO_DEPTH
      BY <3>0 DEF FifoEffect, PortNumbers
    <3>5. QED
      BY <3>1, <3>2, <3>3, <3>4
  <2>2. /\ rts_asserted' \in [Ports -> BOOLEAN] /\ rts' \in [Ports -> BOOLEAN]
        /\ led' \in BOOLEAN
    BY Zenon DEF IInv, TypeOK, Irq
  <2>3. /\ rx_buff' = [p \in Ports |-> rx_buff'[p]]
        /\ rx_insert' = [p \in Ports |-> rx_insert'[p]]
        /\ rx_count' = [p \in Ports |-> rx_count'[p]]
        /\ over' = [p \in Ports |-> over'[p]]
        /\ fifo' = [p \in Ports |-> fifo'[p]]
    BY DEF Irq
  <2>4. rx_remove' = rx_remove /\ overrun' = overrun
    BY DEF Irq
  <2>5. QED
    BY <1>1, <2>1, <2>2, <2>3, <2>4 DEF IInv, TypeOK
<1>3. MaskInv' /\ ReaderInv'
  <2>1. port \in Ports /\ rx_count'[port] >= rx_count[port]
    BY <1>r DEF CountEffect, PortNumbers, IInv, TypeOK
  <2>2. rx_count[port] \in Int /\ rx_count'[port] \in Int
    BY <1>r, <2>1 DEF CountEffect, PortNumbers
  <2>3. QED
    BY <1>0, <1>1, <2>1, <2>2 DEF IInv, MaskInv, ReaderInv
<1>4. SilentInv'
  <2> SUFFICES ASSUME NEW p \in Ports, ~Configured(p)
               PROVE  FALSE
    BY <1>1 DEF SilentInv, Configured
  <2>1. pc \in SettingUp
    BY DEF Configured
  <2>2. QED
    BY <2>1 DEF Irq
<1>5. RingConsistent'
  <2> SUFFICES ASSUME NEW p \in Ports
               PROVE  rx_insert'[p] = Slot(p, Held(p))'
    BY DEF RingConsistent
  <2>1. Held(p) = rx_count[p] /\ Held(p)' = rx_count'[p]
    BY <1>0, <1>1 DEF Held
  <2>2. rx_insert[p] = Slot(p, rx_count[p])
    BY <2>1 DEF IInv, RingConsistent
  <2>3. CountEffect(p) /\ PortNumbers(p)
    BY <1>r
  <2>n. /\ rx_insert[p] \in Int /\ rx_remove[p] \in Int /\ rx_count[p] \in Int
        /\ 0 <= rx_insert[p] /\ rx_insert[p] < RX_BUFFER_SIZE
        /\ 0 <= rx_remove[p] /\ rx_remove[p] < RX_BUFFER_SIZE
        /\ 0 <= rx_count[p] /\ rx_count[p] <= RX_BUFFER_SIZE
    BY <2>3 DEF PortNumbers
  <2>4. rx_insert'[p] = Slot(p, rx_count[p])'
    <3>1. CASE Stores(p)
      <4>1. /\ rx_insert'[p] = Wrap(rx_insert[p] + 1) /\ rx_remove'[p] = rx_remove[p]
            /\ rx_count'[p] = rx_count[p] + 1 /\ rx_count[p] < RX_BUFFER_SIZE
        BY <2>3, <3>1 DEF CountEffect
      <4>2. CASE rx_remove[p] + rx_count[p] >= RX_BUFFER_SIZE
        BY <2>2, <2>n, <4>1, <4>2 DEF Slot, Wrap
      <4>3. CASE rx_remove[p] + rx_count[p] < RX_BUFFER_SIZE
        BY <2>2, <2>n, <4>1, <4>3 DEF Slot, Wrap
      <4>4. QED
        BY <2>n, <4>2, <4>3
    <3>2. CASE ~Stores(p)
      <4>1. /\ rx_insert'[p] = rx_insert[p] /\ rx_remove'[p] = rx_remove[p]
            /\ rx_count'[p] = rx_count[p]
        BY <2>3, <3>2 DEF CountEffect
      <4>2. QED
        BY <2>2, <4>1 DEF Slot
    <3>3. QED
      BY <3>1, <3>2
  <2>5. QED
    BY <2>1, <2>4 DEF Slot
<1>6. FlowControl'
  <2> SUFFICES ASSUME NEW p \in Ports, Configured(p)
               PROVE  /\ rts'[p] <=> rts_asserted'[p]
                      /\ rts_asserted'[p] => rx_count'[p] < HIGH_WATER_MARK
                      /\ ~rts_asserted'[p] => rx_count'[p] > LOW_WATER_MARK
    BY <1>1 DEF FlowControl, Configured
  <2>1. /\ rts[p] <=> rts_asserted[p]
        /\ rts_asserted[p] => rx_count[p] < HIGH_WATER_MARK
        /\ ~rts_asserted[p] => rx_count[p] > LOW_WATER_MARK
    BY DEF IInv, FlowControl
  <2>2. RtsEffect(p) /\ CountEffect(p) /\ PortNumbers(p)
    BY <1>r
  <2>3. CASE ~Stores(p)
    BY <2>1, <2>2, <2>3 DEF RtsEffect, CountEffect
  <2>4. CASE Deasserts(p)
    BY <2>1, <2>2, <2>4 DEF RtsEffect, CountEffect
  <2>5. CASE Stores(p) /\ ~Deasserts(p)
    BY <2>1, <2>2, <2>5, SMTT(30) DEF RtsEffect, CountEffect, PortNumbers
  <2>6. QED
    BY <2>3, <2>4, <2>5
<1>7. RoomInv'
  <2> SUFFICES ASSUME NEW p \in Ports, Configured(p), ~rts'[p]
               PROVE  rx_count'[p] + Len(fifo'[p]) + (SLACK - over'[p]) <= RX_BUFFER_SIZE
    BY <1>1 DEF RoomInv, Configured
  <2>1. /\ rts[p] <=> rts_asserted[p]
        /\ ~rts[p] => rx_count[p] + Len(fifo[p]) + (SLACK - over[p]) <= RX_BUFFER_SIZE
    BY DEF IInv, FlowControl, RoomInv
  <2>2. /\ RtsEffect(p) /\ CountEffect(p) /\ FifoEffect(p) /\ PortNumbers(p)
    BY <1>r
  <2>3. Len(fifo'[p]) = IF RxReady(p) THEN Len(fifo[p]) - 1 ELSE Len(fifo[p])
    BY <2>2 DEF FifoEffect
  <2>4. Stores(p) => RxReady(p)
    BY DEF Stores
  <2>5. CASE ~rts[p]
    <3>1. ~rts_asserted[p] /\ ~Deasserts(p) /\ over'[p] = over[p]
      BY <2>1, <2>2, <2>5 DEF RtsEffect
    <3>0. /\ rx_count[p] \in Int /\ Len(fifo[p]) \in Int /\ over[p] \in Int
          /\ rx_count[p] + Len(fifo[p]) + (SLACK - over[p]) <= RX_BUFFER_SIZE
      BY <2>1, <2>2, <2>5 DEF PortNumbers
    <3>2. CASE Stores(p)
      <4>1. rx_count'[p] = rx_count[p] + 1 /\ Len(fifo'[p]) = Len(fifo[p]) - 1
        BY <2>2, <2>3, <2>4, <3>2 DEF CountEffect
      <4>2. QED
        BY <3>0, <3>1, <4>1
    <3>3. CASE ~Stores(p)
      <4>1. rx_count'[p] = rx_count[p]
        BY <2>2, <3>3 DEF CountEffect
      <4>2. Len(fifo'[p]) = Len(fifo[p]) \/ Len(fifo'[p]) = Len(fifo[p]) - 1
        BY <2>3
      <4>3. QED
        BY <3>0, <3>1, <4>1, <4>2, SMTT(30)
    <3>4. QED
      BY <3>2, <3>3
  <2>6. CASE rts[p]
    <3>1. Deasserts(p) /\ Stores(p) /\ rx_count[p] + 1 = HIGH_WATER_MARK /\ over'[p] = 0
      BY <2>2, <2>6 DEF RtsEffect
    <3>2. rx_count'[p] = HIGH_WATER_MARK /\ Len(fifo'[p]) <= FIFO_DEPTH - 1
      BY <2>2, <2>3, <2>4, <3>1 DEF CountEffect, PortNumbers
    <3>3. Len(fifo'[p]) \in Int
      BY <2>2, <2>3 DEF PortNumbers
    <3>4. QED
      BY <3>1, <3>2, <3>3, MarginAssumption
  <2>7. QED
    BY <2>5, <2>6
<1>8. QED
  BY <1>2, <1>3, <1>4, <1>5, <1>6, <1>7 DEF IInv

(***************************************************************************)
(* The steps of getchar that leave the buffers, the RTS lines and the chip *)
(* alone.                                                                  *)
(***************************************************************************)
Steady == /\ UNCHANGED <<ring, chip>>
          /\ pc \notin SettingUp \cup {"store"} /\ pc' \notin SettingUp \cup {"store"}

LEMMA SteadyKeeps ==
  IInv /\ Steady => SilentInv' /\ RingConsistent' /\ FlowControl' /\ RoomInv'
<1> SUFFICES ASSUME IInv, Steady
             PROVE  SilentInv' /\ RingConsistent' /\ FlowControl' /\ RoomInv'
  OBVIOUS
<1>1. \A p \in Ports : Configured(p) /\ Configured(p)'
  BY DEF Steady, Configured
<1>2. \A p \in Ports : Held(p)' = rx_count[p] /\ Held(p) = rx_count[p]
  BY DEF Steady, Held, ring
<1>3. SilentInv'
  BY <1>1 DEF SilentInv
<1>4. RingConsistent'
  BY <1>2 DEF IInv, RingConsistent, Steady, Slot, ring
<1>5. FlowControl' /\ RoomInv'
  BY <1>1 DEF IInv, FlowControl, RoomInv, Steady, ring, chip
<1>6. QED
  BY <1>3, <1>4, <1>5

LEMMA QuietStepIInv ==
  IInv /\ ((\E p \in Readers : Getchar(p)) \/ SeeCharacter \/ Lock \/ Unlock) => IInv'
<1> SUFFICES ASSUME IInv, (\E p \in Readers : Getchar(p)) \/ SeeCharacter \/ Lock \/ Unlock
             PROVE  IInv'
  OBVIOUS
<1> USE HardwareAssumption
<1>1. Steady
  BY DEF Steady, Getchar, SeeCharacter, Lock, Unlock, Goto
<1>2. TypeOK'
  BY DEF IInv, TypeOK, Getchar, SeeCharacter, Lock, Unlock, Goto, ring, chip
<1>3. MaskInv'
  BY DEF IInv, MaskInv, Getchar, SeeCharacter, Lock, Unlock, Goto
<1>4. ReaderInv'
  <2>1. CASE SeeCharacter
    <3>1. rx_count[port] \in Nat /\ rx_count[port] # 0
      BY <2>1, ConstantFacts DEF IInv, TypeOK, SeeCharacter
    <3>2. QED
      BY <2>1, <3>1 DEF ReaderInv, SeeCharacter, Goto, ring
  <2>2. CASE Lock
    BY <2>2 DEF IInv, ReaderInv, Lock, Goto, ring
  <2>3. CASE (\E p \in Readers : Getchar(p)) \/ Unlock
    BY <2>3 DEF ReaderInv, Getchar, Unlock, Goto
  <2>4. QED
    BY <2>1, <2>2, <2>3
<1>5. QED
  BY <1>1, <1>2, <1>3, <1>4, SteadyKeeps DEF IInv

(***************************************************************************)
(* Fetching the character moves the oldest end of the ring on.             *)
(***************************************************************************)
LEMMA FetchIInv == IInv /\ Fetch => IInv'
<1> SUFFICES ASSUME IInv, Fetch PROVE IInv'
  OBVIOUS
<1> USE ConstantFacts
<1>0. /\ pc = "fetch" /\ pc' = "store" /\ port' = port /\ masked' = masked
      /\ rx_insert' = rx_insert /\ rx_count' = rx_count
      /\ rts_asserted' = rts_asserted /\ rts' = rts /\ UNCHANGED chip
      /\ cnt' = rx_count[port]
  BY DEF Fetch, Goto
<1>1. port \in Ports /\ rx_count[port] > 0
  BY <1>0 DEF IInv, TypeOK, ReaderInv
<1>2. PortNumbers(port) /\ \A q \in Ports : PortNumbers(q)
  BY <1>1, NumbersOfPort DEF IInv
<1>n. /\ rx_remove[port] \in Int /\ rx_count[port] \in Int
      /\ 0 <= rx_remove[port] /\ rx_remove[port] < RX_BUFFER_SIZE
      /\ 1 <= rx_count[port] /\ rx_count[port] <= RX_BUFFER_SIZE
  <2>1. PortNumbers(port)
    BY <1>2
  <2>2. QED
    BY <1>1, <2>1 DEF PortNumbers
<1>3. /\ rx_remove'[port] = Wrap(rx_remove[port] + 1)
      /\ \A q \in Ports : q # port => rx_remove'[q] = rx_remove[q]
  BY <1>1 DEF Fetch, IInv, TypeOK
<1>4. TypeOK'
  <2>1. ch' \in Char \cup {NUL}
    BY <1>1, <1>2 DEF Fetch, IInv, TypeOK, PortNumbers
  <2>2. Wrap(rx_remove[port] + 1) \in 0 .. RX_BUFFER_SIZE - 1
    BY <1>n DEF Wrap
  <2>3. rx_remove' \in [Ports -> 0 .. RX_BUFFER_SIZE - 1]
    BY <1>1, <2>2 DEF Fetch, IInv, TypeOK
  <2>4. cnt' \in 0 .. RX_BUFFER_SIZE
    BY <1>0, <1>2 DEF PortNumbers
  <2>5. rx_buff' = rx_buff /\ led' = led
    BY DEF Fetch
  <2>6. QED
    BY <1>0, <2>1, <2>3, <2>4, <2>5 DEF IInv, TypeOK, chip
<1>5. MaskInv' /\ ReaderInv'
  BY <1>0, <1>1 DEF IInv, MaskInv, ReaderInv
<1>6. SilentInv' /\ FlowControl' /\ RoomInv'
  <2>1. \A q \in Ports : Configured(q) /\ Configured(q)'
    BY <1>0 DEF Configured
  <2>2. QED
    BY <1>0, <2>1 DEF IInv, SilentInv, FlowControl, RoomInv, chip
<1>7. RingConsistent'
  <2> SUFFICES ASSUME NEW q \in Ports PROVE rx_insert'[q] = Slot(q, Held(q))'
    BY DEF RingConsistent
  <2>1. Held(q) = rx_count[q] /\ rx_insert[q] = Slot(q, rx_count[q])
    BY <1>0 DEF IInv, RingConsistent, Held
  <2>2. CASE q # port
    <3>1. Held(q)' = rx_count[q]
      BY <1>0, <2>2 DEF Held
    <3>2. QED
      BY <1>0, <1>3, <2>1, <2>2, <3>1 DEF Slot
  <2>3. CASE q = port
    <3>1. Held(q)' = rx_count[q] - 1
      BY <1>0, <2>3 DEF Held
    <3>2. /\ rx_remove[q] \in Int /\ rx_count[q] \in Int
          /\ 0 <= rx_remove[q] /\ rx_remove[q] < RX_BUFFER_SIZE
          /\ 1 <= rx_count[q] /\ rx_count[q] <= RX_BUFFER_SIZE
      BY <1>n, <2>3
    <3>3. Slot(q, Held(q))' = Slot(q, rx_count[q])
      <4>1. rx_remove'[q] = Wrap(rx_remove[q] + 1)
        BY <1>3, <2>3
      <4>2. CASE rx_remove[q] + 1 >= RX_BUFFER_SIZE
        <5>1. rx_remove'[q] = 0 /\ rx_remove[q] = RX_BUFFER_SIZE - 1
          BY <3>2, <4>1, <4>2 DEF Wrap
        <5>2. QED
          BY <3>1, <3>2, <5>1 DEF Slot
      <4>3. CASE rx_remove[q] + 1 < RX_BUFFER_SIZE
        <5>1. rx_remove'[q] = rx_remove[q] + 1
          BY <3>2, <4>1, <4>3 DEF Wrap
        <5>2. QED
          BY <3>1, <3>2, <5>1 DEF Slot
      <4>4. QED
        BY <3>2, <4>2, <4>3
    <3>4. QED
      BY <1>0, <2>1, <3>3
  <2>4. QED
    BY <2>2, <2>3
<1>8. QED
  BY <1>4, <1>5, <1>6, <1>7 DEF IInv

(***************************************************************************)
(* Storing the count stores what is there less one, because no interrupt   *)
(* came between; RTS comes back at the low water mark and not below it.    *)
(***************************************************************************)
LEMMA StoreIInv == IInv /\ Store => IInv'
<1> SUFFICES ASSUME IInv, Store PROVE IInv'
  OBVIOUS
<1> USE ConstantFacts
<1>0. /\ pc = "store" /\ pc' = "unlock" /\ port' = port /\ masked' = masked
      /\ rx_insert' = rx_insert /\ rx_remove' = rx_remove /\ rx_buff' = rx_buff
      /\ led' = led /\ ch' = ch /\ cnt' = cnt /\ UNCHANGED chip
  BY DEF Store, Goto
<1>1. port \in Ports /\ rx_count[port] > 0 /\ cnt = rx_count[port]
  BY <1>0 DEF IInv, TypeOK, ReaderInv
<1>2. \A q \in Ports : PortNumbers(q)
  BY NumbersOfPort DEF IInv
<1>3. \A q \in Ports : Configured(q) /\ Configured(q)'
  BY <1>0 DEF Configured
<1>4. /\ rx_count'[port] = rx_count[port] - 1
      /\ rts'[port] <=> rts[port] \/ MustReassert(port, rx_count[port] - 1)
      /\ rts_asserted'[port] <=> rts_asserted[port] \/ MustReassert(port, rx_count[port] - 1)
  BY <1>1 DEF Store, IInv, TypeOK
<1>5. ASSUME NEW q \in Ports, q # port
      PROVE  /\ rx_count'[q] = rx_count[q]
             /\ rts'[q] = rts[q] /\ rts_asserted'[q] = rts_asserted[q]
  BY <1>5 DEF Store, IInv, TypeOK
<1>6. TypeOK'
  <2>1. cnt - 1 \in 0 .. RX_BUFFER_SIZE
    BY <1>1, <1>2, SMTT(30) DEF PortNumbers
  <2>2. rx_count' \in [Ports -> 0 .. RX_BUFFER_SIZE]
    BY <2>1 DEF Store, IInv, TypeOK
  <2>3. rts_asserted' \in [Ports -> BOOLEAN] /\ rts' \in [Ports -> BOOLEAN]
    BY Zenon DEF Store, IInv, TypeOK
  <2>4. QED
    BY <1>0, <2>2, <2>3 DEF IInv, TypeOK, chip
<1>7. MaskInv' /\ ReaderInv' /\ SilentInv'
  BY <1>0, <1>3 DEF IInv, MaskInv, ReaderInv, SilentInv
<1>8. RingConsistent'
  <2> SUFFICES ASSUME NEW q \in Ports PROVE rx_insert'[q] = Slot(q, Held(q))'
    BY DEF RingConsistent
  <2>1. rx_insert[q] = Slot(q, Held(q))
    BY DEF IInv, RingConsistent
  <2>2. Held(q)' = Held(q)
    BY <1>0, <1>4, <1>5 DEF Held
  <2>3. QED
    BY <1>0, <2>1, <2>2 DEF Slot
<1>9. FlowControl' /\ RoomInv'
  <2> SUFFICES ASSUME NEW q \in Ports
               PROVE  /\ rts'[q] <=> rts_asserted'[q]
                      /\ rts_asserted'[q] => rx_count'[q] < HIGH_WATER_MARK
                      /\ ~rts_asserted'[q] => rx_count'[q] > LOW_WATER_MARK
                      /\ ~rts'[q] => rx_count'[q] + Len(fifo[q]) + (SLACK - over[q])
                                       <= RX_BUFFER_SIZE
    BY <1>0 DEF FlowControl, RoomInv, chip
  <2>1. /\ rts[q] <=> rts_asserted[q]
        /\ rts_asserted[q] => rx_count[q] < HIGH_WATER_MARK
        /\ ~rts_asserted[q] => rx_count[q] > LOW_WATER_MARK
        /\ ~rts[q] => rx_count[q] + Len(fifo[q]) + (SLACK - over[q]) <= RX_BUFFER_SIZE
    BY <1>3 DEF IInv, FlowControl, RoomInv
  <2>2. /\ rx_count[q] \in Int /\ Len(fifo[q]) \in Int /\ over[q] \in Int
    BY <1>2 DEF PortNumbers
  <2>3. CASE q # port
    BY <1>5, <2>1, <2>3
  <2>4. CASE q = port
    <3>1. MustReassert(q, rx_count[q] - 1)
            <=> rx_count[q] - 1 = LOW_WATER_MARK /\ ~rts_asserted[q]
      BY DEF MustReassert
    <3>2. rx_count'[q] = rx_count[q] - 1
      BY <1>4, <2>4
    <3>3. CASE rts[q]
      <4>1. rts'[q] /\ rts_asserted'[q]
        BY <1>4, <2>1, <2>4, <3>3
      <4>2. QED
        BY <2>1, <2>2, <3>2, <3>3, <4>1
    <3>4. CASE ~rts[q] /\ rx_count[q] - 1 = LOW_WATER_MARK
      <4>1. rts'[q] /\ rts_asserted'[q]
        BY <1>4, <2>1, <2>4, <3>1, <3>4
      <4>2. QED
        BY <3>2, <3>4, <4>1
    <3>5. CASE ~rts[q] /\ rx_count[q] - 1 # LOW_WATER_MARK
      <4>1. ~rts'[q] /\ ~rts_asserted'[q]
        BY <1>4, <2>1, <2>4, <3>1, <3>5
      <4>2. rx_count'[q] > LOW_WATER_MARK
        BY <2>1, <2>2, <3>2, <3>5
      <4>3. rx_count'[q] <= rx_count[q] /\ rx_count'[q] \in Int
        BY <2>2, <3>2
      <4>4. rx_count'[q] + Len(fifo[q]) + (SLACK - over[q]) <= RX_BUFFER_SIZE
        BY <2>1, <2>2, <3>5, <4>3, SMTT(30)
      <4>5. QED
        BY <4>1, <4>2, <4>4
    <3>6. QED
      BY <3>3, <3>4, <3>5
  <2>5. QED
    BY <2>3, <2>4
<1>10. QED
  BY <1>6, <1>7, <1>8, <1>9 DEF IInv

(***************************************************************************)
(* A character arriving at the chip uses up the room it was promised.      *)
(***************************************************************************)
LEMMA ArriveIInv ==
  IInv /\ (\E p \in Talkers, c \in Char \cup {Bad} : Arrive(p, c)) => IInv'
<1> SUFFICES ASSUME IInv, NEW p \in Ports, NEW c \in Char \cup {Bad}, Arrive(p, c)
             PROVE  IInv'
  BY HardwareAssumption
<1> USE ConstantFacts
<1>0. /\ UNCHANGED <<ring, led, prog>>
      /\ rts[p] \/ over[p] < SLACK
  BY DEF Arrive
<1>1. \A q \in Ports : PortNumbers(q)
  BY NumbersOfPort DEF IInv
<1>2. /\ over'[p] = IF rts[p] THEN 0 ELSE over[p] + 1
      /\ over' \in [Ports -> 0 .. SLACK]
  <2>1. over' = [over EXCEPT ![p] = IF rts[p] THEN 0 ELSE over[p] + 1]
    BY DEF Arrive
  <2>2. over[p] \in 0 .. SLACK
    BY <1>1 DEF PortNumbers
  <2>3. (IF rts[p] THEN 0 ELSE over[p] + 1) \in 0 .. SLACK
    BY <1>0, <2>2
  <2>4. over \in [Ports -> 0 .. SLACK]
    BY DEF IInv, TypeOK
  <2>5. QED
    BY <2>1, <2>3, <2>4
<1>3. /\ fifo' \in [Ports -> Seq(Char \cup {Bad})]
      /\ Len(fifo'[p]) <= Len(fifo[p]) + 1 /\ Len(fifo'[p]) \in Nat
      /\ \A q \in Ports : Len(fifo'[q]) <= FIFO_DEPTH
      /\ overrun' \in [Ports -> BOOLEAN]
  <2>0. /\ fifo \in [Ports -> Seq(Char \cup {Bad})] /\ overrun \in [Ports -> BOOLEAN]
        /\ Len(fifo[p]) \in Nat /\ \A q \in Ports : Len(fifo[q]) <= FIFO_DEPTH
    BY LenProperties DEF IInv, TypeOK
  <2>1. CASE /\ Len(fifo[p]) < FIFO_DEPTH
             /\ fifo' = [fifo EXCEPT ![p] = Append(@, c)]
             /\ UNCHANGED overrun
    <3>1. /\ Append(fifo[p], c) \in Seq(Char \cup {Bad})
          /\ Len(Append(fifo[p], c)) = Len(fifo[p]) + 1
      BY <2>0, AppendProperties
    <3>2. /\ fifo'[p] = Append(fifo[p], c)
          /\ \A q \in Ports : q # p => fifo'[q] = fifo[q]
          /\ fifo' \in [Ports -> Seq(Char \cup {Bad})]
      BY <2>0, <2>1, <3>1
    <3>3. Len(fifo'[p]) <= FIFO_DEPTH
      BY <2>0, <2>1, <3>1, <3>2
    <3>4. QED
      BY <2>0, <2>1, <3>1, <3>2, <3>3
  <2>2. CASE overrun' = [overrun EXCEPT ![p] = TRUE] /\ UNCHANGED fifo
    BY <2>0, <2>2
  <2>3. QED
    BY <2>1, <2>2 DEF Arrive
<1>4. \A q \in Ports : q # p => fifo'[q] = fifo[q] /\ over'[q] = over[q]
  BY DEF Arrive, IInv, TypeOK
<1>5. TypeOK'
  BY <1>0, <1>2, <1>3 DEF IInv, TypeOK, ring, prog
<1>6. MaskInv' /\ ReaderInv' /\ RingConsistent' /\ FlowControl'
  BY <1>0 DEF IInv, MaskInv, ReaderInv, RingConsistent, Slot, Held, FlowControl, Configured,
              ring, prog
<1>7. SilentInv'
  <2>1. Configured(p)
    BY <1>0 DEF IInv, SilentInv
  <2>2. \A q \in Ports : Configured(q)' <=> Configured(q)
    BY <1>0 DEF Configured, prog
  <2>3. QED
    BY <1>0, <1>4, <2>1, <2>2 DEF IInv, SilentInv, ring
<1>8. RoomInv'
  <2> SUFFICES ASSUME NEW q \in Ports, Configured(q), ~rts[q]
               PROVE  rx_count[q] + Len(fifo'[q]) + (SLACK - over'[q]) <= RX_BUFFER_SIZE
    BY <1>0 DEF RoomInv, Configured, ring, prog
  <2>1. rx_count[q] + Len(fifo[q]) + (SLACK - over[q]) <= RX_BUFFER_SIZE
    BY DEF IInv, RoomInv
  <2>2. CASE q # p
    BY <1>4, <2>1, <2>2
  <2>3. CASE q = p
    <3>1. rx_count[q] \in Int /\ Len(fifo[q]) \in Int /\ over[q] \in Int
      <4>1. PortNumbers(q)
        BY <1>1
      <4>2. QED
        BY <4>1 DEF PortNumbers
    <3>2. over'[q] = over[q] + 1 /\ Len(fifo'[q]) <= Len(fifo[q]) + 1 /\ Len(fifo'[q]) \in Int
      BY <1>2, <1>3, <2>3
    <3>3. rx_count[q] + Len(fifo'[q]) + (SLACK - (over[q] + 1)) <= RX_BUFFER_SIZE
      <4> HIDE DEF Ports
      <4>1. \A r, f, g, o \in Int : r + f + (SLACK - o) <= RX_BUFFER_SIZE /\ g <= f + 1
              => r + g + (SLACK - (o + 1)) <= RX_BUFFER_SIZE
        OBVIOUS
      <4>2. QED
        BY <2>1, <3>1, <3>2, <4>1
    <3>4. QED
      BY <3>2, <3>3
  <2>4. QED
    BY <2>2, <2>3
<1>9. QED
  BY <1>5, <1>6, <1>7, <1>8 DEF IInv

(***************************************************************************)
(* The invariant is inductive.                                             *)
(***************************************************************************)
LEMMA StepIInv == IInv /\ [Next]_vars => IInv'
<1> SUFFICES ASSUME IInv, [Next]_vars PROVE IInv'
  OBVIOUS
<1>1. CASE Setup
  BY <1>1, SetupIInv
<1>2. CASE Irq
  BY <1>2, IrqIInv
<1>3. CASE (\E p \in Readers : Getchar(p)) \/ SeeCharacter \/ Lock \/ Unlock
  BY <1>3, QuietStepIInv
<1>4. CASE Fetch
  BY <1>4, FetchIInv
<1>5. CASE Store
  BY <1>5, StoreIInv
<1>6. CASE \E p \in Talkers, c \in Char \cup {Bad} : Arrive(p, c)
  BY <1>6, ArriveIInv
<1>7. CASE UNCHANGED vars
  BY <1>7 DEF vars, ring, prog, chip, IInv, TypeOK, MaskInv, ReaderInv, SilentInv,
              RingConsistent, Slot, Held, FlowControl, RoomInv, Configured
<1>8. QED
  BY <1>1, <1>2, <1>3, <1>4, <1>5, <1>6, <1>7 DEF Next, Reading

(***************************************************************************)
(* The inductive invariant holds in every reachable state.                 *)
(***************************************************************************)
THEOREM Invariance == Spec => []IInv
BY InitIInv, StepIInv, PTL DEF Spec

(***************************************************************************)
(* Every variable of the driver stays within its type: in particular the   *)
(* indices stay inside the buffer and rx_count within 0 .. RX_BUFFER_SIZE. *)
(***************************************************************************)
THEOREM TypeCorrect == Spec => []TypeOK
<1>1. IInv => TypeOK
  BY DEF IInv
<1>2. QED
  BY <1>1, Invariance, PTL

(***************************************************************************)
(* The handler and getchar never overtake one another.                     *)
(***************************************************************************)
THEOREM RingCorrect == Spec => []RingConsistent
<1>1. IInv => RingConsistent
  BY DEF IInv
<1>2. QED
  BY <1>1, Invariance, PTL

(***************************************************************************)
(* RTS is asserted below the high mark and dropped above the low one.      *)
(***************************************************************************)
THEOREM FlowControlCorrect == Spec => []FlowControl
<1>1. IInv => FlowControl
  BY DEF IInv
<1>2. QED
  BY <1>1, Invariance, PTL

(***************************************************************************)
(* With the margin the marks must leave, no character is dropped for want  *)
(* of room in the buffer.                                                  *)
(***************************************************************************)
THEOREM NoCharacterDroppedForRoom == Spec => []RoomForAll
<1>1. IInv => RoomForAll
  <2> SUFFICES ASSUME IInv, NEW p \in Ports, RxReady(p)
               PROVE  rx_count[p] < RX_BUFFER_SIZE
    BY DEF RoomForAll
  <2>1. PortNumbers(p)
    BY NumbersOfPort DEF IInv
  <2>2. Configured(p)
    BY DEF IInv, SilentInv, RxReady
  <2>3. CASE rts[p]
    <3>1. rx_count[p] < HIGH_WATER_MARK
      BY <2>2, <2>3 DEF IInv, FlowControl
    <3>2. QED
      BY <2>1, <3>1, ConstantFacts DEF PortNumbers
  <2>4. CASE ~rts[p]
    <3>1. rx_count[p] + Len(fifo[p]) + (SLACK - over[p]) <= RX_BUFFER_SIZE
      BY <2>2, <2>4 DEF IInv, RoomInv
    <3>2. fifo[p] \in Seq(Char \cup {Bad}) /\ fifo[p] # <<>>
      BY DEF IInv, TypeOK, RxReady
    <3>3. Len(fifo[p]) > 0
      BY <3>2, EmptySeq, LenProperties
    <3>4. QED
      BY <2>1, <3>1, <3>3, ConstantFacts DEF PortNumbers
  <2>5. QED
    BY <2>3, <2>4
<1>2. QED
  BY <1>1, Invariance, PTL

-----------------------------------------------------------------------------
(***************************************************************************)
(* The receive driver implements SerialFifo, for every buffer size, every  *)
(* pair of marks and every character set: each of its steps is a step of   *)
(* the queues, or leaves them alone.                                       *)
(*                                                                         *)
(* The queue of a port is what lies between its two indices (Contents).    *)
(* An interrupt appends to the queues of the channels it serves (Accept);  *)
(* Fetch, not Store, is where getchar takes its character (Take); a channel*)
(* being set up and the count that reaches the low mark open a queue.      *)
(***************************************************************************)

(* The contents of a ring.                                                 *)

LEMMA HeldNumber ==
  ASSUME IInv, NEW p \in Ports
  PROVE  Held(p) \in 0 .. RX_BUFFER_SIZE
<1>1. PortNumbers(p)
  BY NumbersOfPort DEF IInv
<1>2. pc = "store" /\ port = p => rx_count[p] > 0
  BY DEF IInv, ReaderInv
<1> QED BY <1>1, <1>2, ConstantFacts DEF Held, PortNumbers

LEMMA SlotNumber ==
  ASSUME IInv, NEW p \in Ports, NEW i \in 0 .. RX_BUFFER_SIZE - 1
  PROVE  Slot(p, i) \in 0 .. RX_BUFFER_SIZE - 1
<1>1. rx_remove[p] \in 0 .. RX_BUFFER_SIZE - 1
  BY NumbersOfPort DEF IInv, PortNumbers
<1> DEFINE r == rx_remove[p]
<1> HIDE DEF r
<1>2. r \in 0 .. RX_BUFFER_SIZE - 1 /\ Slot(p, i) = IF r + i >= RX_BUFFER_SIZE THEN r + i - RX_BUFFER_SIZE ELSE r + i
  BY <1>1 DEF r, Slot
<1> QED BY <1>2, ConstantFacts

LEMMA ContentsAre ==
  ASSUME IInv, NEW p \in Ports
  PROVE  /\ Contents(p) \in Seq(Char \cup {NUL})
         /\ Len(Contents(p)) = Held(p)
         /\ \A i \in 1 .. Held(p) : Contents(p)[i] = rx_buff[p][Slot(p, i - 1)]
<1>1. Held(p) \in Nat /\ Held(p) <= RX_BUFFER_SIZE
  BY HeldNumber, ConstantFacts
<1>2. \A i \in 1 .. Held(p) : rx_buff[p][Slot(p, i - 1)] \in Char \cup {NUL}
  <2> TAKE i \in 1 .. Held(p)
  <2>1. i - 1 \in 0 .. RX_BUFFER_SIZE - 1
    BY <1>1, ConstantFacts
  <2>2. Slot(p, i - 1) \in 0 .. RX_BUFFER_SIZE - 1
    BY <2>1, SlotNumber
  <2>3. rx_buff[p] \in [0 .. RX_BUFFER_SIZE - 1 -> Char \cup {NUL}]
    BY DEF IInv, TypeOK
  <2> DEFINE k == Slot(p, i - 1)
  <2> HIDE DEF k
  <2>4. rx_buff[p][k] \in Char \cup {NUL}
    BY <2>2, <2>3 DEF k
  <2> QED BY <2>4 DEF k
<1>3. Contents(p) \in [1 .. Held(p) -> Char \cup {NUL}]
  BY <1>2 DEF Contents
<1> QED BY <1>1, <1>3 DEF Contents

ContentsRead ==
  \A p \in Ports :
    /\ Contents(p) \in Seq(Char \cup {NUL})
    /\ Len(Contents(p)) = Held(p)
    /\ \A i \in 1 .. Held(p) : Contents(p)[i] = rx_buff[p][Slot(p, i - 1)]

LEMMA ContentsKnown == IInv => ContentsRead
BY ContentsAre DEF ContentsRead

\* The same after a step.
LEMMA ContentsKnownNext == IInv' => ContentsRead'
BY ContentsKnown, PTL

\* The empty queue.
LEMMA ContentsEmpty ==
  ASSUME IInv, NEW p \in Ports
  PROVE  Held(p) = 0 <=> Contents(p) = <<>>
<1>1. Contents(p) \in Seq(Char \cup {NUL}) /\ Len(Contents(p)) = Held(p)
  BY ContentsAre
<1> QED BY <1>1, EmptySeq

\* A step that leaves the ring of port p alone leaves its queue alone.
LEMMA ContentsStay ==
  ASSUME NEW p \in Ports, Held(p)' = Held(p),
         rx_buff'[p] = rx_buff[p], rx_remove'[p] = rx_remove[p]
  PROVE  Contents(p)' = Contents(p)
<1>1. \A i : Slot(p, i)' = Slot(p, i)
  BY DEF Slot
<1> QED BY <1>1 DEF Contents

\* The slots of a ring are not met twice on the way round.
LEMMA SlotsDiffer ==
  ASSUME IInv, NEW p \in Ports, NEW i \in Nat, NEW j \in Nat, i < j, j < RX_BUFFER_SIZE
  PROVE  Slot(p, i) # Slot(p, j)
<1>1. rx_remove[p] \in 0 .. RX_BUFFER_SIZE - 1
  BY NumbersOfPort DEF IInv, PortNumbers
<1> DEFINE r == rx_remove[p]
<1> HIDE DEF r
<1>2. r \in 0 .. RX_BUFFER_SIZE - 1
  BY <1>1 DEF r
<1>3. (IF r + i >= RX_BUFFER_SIZE THEN r + i - RX_BUFFER_SIZE ELSE r + i)
       # (IF r + j >= RX_BUFFER_SIZE THEN r + j - RX_BUFFER_SIZE ELSE r + j)
  BY <1>2, ConstantFacts
<1> QED BY <1>3 DEF r, Slot

-----------------------------------------------------------------------------
(* What each step does to the queues.                                      *)

\* The handler appends a character to the queue of every channel it stores for.
LEMMA IrqAppends ==
  ASSUME IInv, IInv', Irq, NEW p \in Ports
  PROVE  /\ Stores(p) => /\ Head(fifo[p]) \in Char /\ Len(Contents(p)) < RX_BUFFER_SIZE
                         /\ Contents(p)' = Append(Contents(p), Head(fifo[p]))
                         /\ Len(Contents(p)') = rx_count[p] + 1
         /\ ~Stores(p) => Contents(p)' = Contents(p)
<1>1. BuffEffect(p) /\ CountEffect(p) /\ FifoEffect(p) /\ PortNumbers(p)
  BY IrqRing, IrqFifo, NumbersOfPort DEF IInv
<1>2. pc # "store" /\ pc' = pc
  BY DEF IInv, MaskInv, Irq, prog
<1>3. Held(p) = rx_count[p] /\ Held(p)' = rx_count'[p]
  BY <1>2 DEF Held
<1>4. CASE ~Stores(p)
  <2>1. Held(p)' = Held(p) /\ rx_buff'[p] = rx_buff[p] /\ rx_remove'[p] = rx_remove[p]
    BY <1>1, <1>3, <1>4 DEF BuffEffect, CountEffect
  <2> QED BY <1>4, <2>1, ContentsStay
<1>5. CASE Stores(p)
  <2> DEFINE n == rx_count[p]
             c == Head(fifo[p])
             old == Contents(p)
             new == Contents(p)'
             in == rx_insert[p]
  <2>1. /\ c \in Char /\ n \in Nat /\ n < RX_BUFFER_SIZE /\ rx_count'[p] = n + 1
        /\ rx_buff'[p] = [rx_buff[p] EXCEPT ![in] = c] /\ rx_remove'[p] = rx_remove[p]
    BY <1>1, <1>5, ConstantFacts DEF FifoEffect, CountEffect, BuffEffect, PortNumbers
  <2>2. /\ old \in Seq(Char \cup {NUL}) /\ Len(old) = n
        /\ \A i \in 1 .. n : old[i] = rx_buff[p][Slot(p, i - 1)]
    BY <1>3, ContentsAre
  <2>3. /\ new \in Seq(Char \cup {NUL}) /\ Len(new) = n + 1
        /\ \A i \in 1 .. n + 1 : new[i] = rx_buff'[p][Slot(p, i - 1)']
    <3>1. /\ new \in Seq(Char \cup {NUL}) /\ Len(new) = Held(p)'
          /\ \A i \in 1 .. Held(p)' : new[i] = rx_buff'[p][Slot(p, i - 1)']
      BY ContentsKnownNext DEF ContentsRead
    <3> HIDE DEF new
    <3> QED BY <1>3, <2>1, <3>1
  <2>4. \A i \in Nat : Slot(p, i)' = Slot(p, i)
    BY <2>1 DEF Slot
  <2>5. in = Slot(p, n) /\ in \in 0 .. RX_BUFFER_SIZE - 1
    BY <1>1, <1>3 DEF IInv, RingConsistent, PortNumbers
  <2>6. rx_buff[p] \in [0 .. RX_BUFFER_SIZE - 1 -> Char \cup {NUL}]
    BY DEF IInv, TypeOK
  <2> DEFINE app == Append(old, c)
  <2>7. /\ app \in Seq(Char \cup {NUL}) /\ Len(app) = n + 1 /\ app[n + 1] = c
        /\ \A i \in 1 .. n : app[i] = old[i]
    <3> HIDE DEF old, c
    <3> QED BY <2>1, <2>2, AppendProperties
  <2>8. ASSUME NEW i \in 1 .. n + 1 PROVE new[i] = app[i]
    <3>1. i - 1 \in Nat /\ i - 1 <= n /\ i - 1 < RX_BUFFER_SIZE
      <4>1. n \in Nat /\ n < RX_BUFFER_SIZE /\ i \in 1 .. n + 1 /\ RX_BUFFER_SIZE \in Nat
        BY <2>1, <2>8, ConstantFacts
      <4> HIDE DEF n
      <4> QED BY <4>1
    <3>2. new[i] = rx_buff'[p][Slot(p, i - 1)]
      <4> HIDE DEF new
      <4> QED BY <2>3, <2>4, <2>8, <3>1
    <3>3. Slot(p, i - 1) \in 0 .. RX_BUFFER_SIZE - 1
      <4>1. i - 1 \in 0 .. RX_BUFFER_SIZE - 1
        BY <3>1, ConstantFacts
      <4> QED BY <4>1, SlotNumber
    <3>4. CASE i = n + 1
      <4>1. Slot(p, i - 1) = in
        BY <2>1, <2>5, <3>4
      <4>2. rx_buff'[p][in] = c
        BY <2>1, <2>5, <2>6
      <4> HIDE DEF new, app, c
      <4> QED BY <2>7, <3>2, <3>4, <4>1, <4>2
    <3>5. CASE i # n + 1
      <4>1. i \in 1 .. n /\ i - 1 < n
        BY <2>1, <2>8, <3>5
      <4>2. Slot(p, i - 1) # in
        BY <2>1, <2>5, <3>1, <4>1, SlotsDiffer
      <4>3. rx_buff'[p][Slot(p, i - 1)] = rx_buff[p][Slot(p, i - 1)]
        <5> DEFINE k == Slot(p, i - 1)
        <5> HIDE DEF k, c
        <5> QED BY <2>1, <2>6, <3>3, <4>2 DEF k
      <4>4. new[i] = old[i]
        <5> HIDE DEF new, old
        <5> QED BY <2>2, <3>2, <4>1, <4>3
      <4> HIDE DEF new, app, old
      <4> QED BY <2>7, <4>1, <4>4
    <3> QED BY <3>4, <3>5
  <2>9. new = app
    <3> HIDE DEF new, app
    <3> QED BY <2>3, <2>7, <2>8, SeqEqual
  <2>10. Len(old) < RX_BUFFER_SIZE /\ Len(new) = n + 1
    BY <2>1, <2>2, <2>3
  <2> QED BY <1>5, <2>1, <2>9, <2>10
<1> QED BY <1>4, <1>5

\* Fetch takes the first character of the queue.
LEMMA FetchTakes ==
  ASSUME IInv, IInv', Fetch
  PROVE  /\ port \in Ports /\ Contents(port) # <<>>
         /\ ch' = Head(Contents(port)) /\ Contents(port)' = Tail(Contents(port))
         /\ \A p \in Ports : p # port => Contents(p)' = Contents(p)
<1> DEFINE p == port
           n == rx_count[p]
           r == rx_remove[p]
           old == Contents(p)
<1>1. /\ pc = "fetch" /\ pc' = "store" /\ port' = port /\ rx_count' = rx_count
      /\ rx_buff' = rx_buff /\ ch' = rx_buff[p][r]
  BY DEF Fetch, Goto
<1>2. port \in Ports /\ n > 0 /\ PortNumbers(p)
  BY <1>1, NumbersOfPort DEF IInv, TypeOK, ReaderInv
<1>3. rx_remove'[p] = Wrap(r + 1) /\ \A q \in Ports : q # p => rx_remove'[q] = rx_remove[q]
  BY <1>2 DEF Fetch, IInv, TypeOK
<1>4. Held(p) = n /\ Held(p)' = n - 1 /\ \A q \in Ports : q # p => Held(q)' = Held(q)
  BY <1>1 DEF Held
<1>5. n \in Nat /\ n <= RX_BUFFER_SIZE /\ r \in 0 .. RX_BUFFER_SIZE - 1 /\ RX_BUFFER_SIZE \in Nat
  BY <1>2, ConstantFacts DEF PortNumbers
<1>6. /\ old \in Seq(Char \cup {NUL}) /\ Len(old) = n
      /\ \A i \in 1 .. n : old[i] = rx_buff[p][Slot(p, i - 1)]
  BY <1>2, <1>4, ContentsAre
<1>7. \A i \in 0 .. n - 1 : Slot(p, i)' = Slot(p, i + 1)
  <2> TAKE i \in 0 .. n - 1
  <2>1. rx_remove'[port'] = IF r + 1 >= RX_BUFFER_SIZE THEN 0 ELSE r + 1
    BY <1>1, <1>3 DEF Wrap
  <2>2. Slot(p, i + 1) = IF r + (i + 1) >= RX_BUFFER_SIZE THEN r + (i + 1) - RX_BUFFER_SIZE
                         ELSE r + (i + 1)
    BY DEF Slot
  <2> DEFINE s == rx_remove'[port']
  <2>3. Slot(p, i)' = IF s + i >= RX_BUFFER_SIZE THEN s + i - RX_BUFFER_SIZE ELSE s + i
    BY DEF Slot
  <2> HIDE DEF r, n, s
  <2>4. s = IF r + 1 >= RX_BUFFER_SIZE THEN 0 ELSE r + 1
    BY <2>1 DEF s
  <2>5. i \in Int /\ i + 1 <= RX_BUFFER_SIZE /\ 0 <= i
    BY <1>5
  <2> QED BY <1>5, <2>2, <2>3, <2>4, <2>5
<1> DEFINE new == Contents(p)'
<1>8. /\ new \in Seq(Char \cup {NUL}) /\ Len(new) = n - 1
      /\ \A i \in 1 .. n - 1 : new[i] = rx_buff[p][Slot(p, i)]
  <2>1. /\ new \in Seq(Char \cup {NUL}) /\ Len(new) = Held(p)'
        /\ \A i \in 1 .. Held(p)' : new[i] = rx_buff'[port'][Slot(p, i - 1)']
    BY <1>1, <1>2, ContentsKnownNext DEF ContentsRead
  <2>2. ASSUME NEW i \in 1 .. n - 1 PROVE new[i] = rx_buff[p][Slot(p, i)]
    <3>1. i - 1 \in 0 .. n - 1 /\ (i - 1) + 1 = i
      BY <1>5
    <3>2. Slot(p, i - 1)' = Slot(p, i)
      BY <1>7, <3>1
    <3> HIDE DEF new
    <3> QED BY <1>1, <1>4, <2>1, <3>2
  <2> QED BY <1>4, <2>1, <2>2
<1>9. old # <<>>
  <2> HIDE DEF old
  <2> QED BY <1>2, <1>5, <1>6, EmptySeq
<1>10. /\ Head(old) = old[1] /\ Tail(old) \in Seq(Char \cup {NUL}) /\ Len(Tail(old)) = n - 1
       /\ \A i \in 1 .. n - 1 : Tail(old)[i] = old[i + 1]
  <2> HIDE DEF old
  <2>1. /\ Tail(old) \in Seq(Char \cup {NUL}) /\ Len(Tail(old)) = n - 1
        /\ \A i \in 1 .. Len(Tail(old)) : Tail(old)[i] = old[i + 1]
    BY <1>6, <1>9, HeadTailProperties
  <2> QED BY <1>6, <1>9, <2>1
<1>11. ch' = Head(old)
  <2>1. Slot(p, 1 - 1) = r
    BY <1>5 DEF Slot
  <2>2. 1 \in 1 .. n
    BY <1>2, <1>5
  <2>3. old[1] = rx_buff[p][r]
    <3> HIDE DEF old
    <3> QED BY <1>6, <2>1, <2>2
  <2> QED BY <1>1, <1>10, <2>3
<1>12. new = Tail(old)
  <2>1. ASSUME NEW i \in 1 .. n - 1 PROVE new[i] = Tail(old)[i]
    <3>1. i + 1 \in 1 .. n /\ (i + 1) - 1 = i
      BY <1>5
    <3>2. old[i + 1] = rx_buff[p][Slot(p, (i + 1) - 1)]
      <4> HIDE DEF old
      <4> QED BY <1>6, <3>1
    <3> HIDE DEF old, new
    <3> QED BY <1>8, <1>10, <3>1, <3>2
  <2> HIDE DEF old, new
  <2> QED BY <1>8, <1>10, <2>1, SeqEqual
<1>13. ASSUME NEW q \in Ports, q # port PROVE Contents(q)' = Contents(q)
  BY <1>1, <1>3, <1>4, <1>13, ContentsStay
<1> QED BY <1>2, <1>9, <1>11, <1>12, <1>13

-----------------------------------------------------------------------------
(* The refinement.                                                         *)

queues == [p \in Ports |-> Contents(p)]

LEMMA QueuesNext ==
  ASSUME NEW f, \A p \in Ports : Contents(p)' = f[p]
  PROVE  queues' = [p \in Ports |-> f[p]]
BY DEF queues

Stutter == queues' = queues /\ rts_asserted' = rts_asserted /\ ch' = ch

LEMMA StutterMaps == Stutter => [Queue!Next]_(Queue!vars)
BY DEF Stutter, queues, Queue!vars

LEMMA InitMaps == Init => Queue!Init
<1> SUFFICES ASSUME Init PROVE Queue!Init
  OBVIOUS
<1>1. \A p \in Ports : Held(p) = 0
  BY DEF Init, Held
<1>2. IInv
  BY InitIInv
<1>3. \A p \in Ports : Contents(p) = <<>>
  BY <1>1, <1>2, ContentsEmpty
<1> QED BY <1>3 DEF Init, Queue!Init

\* Accept: the ports in D are the channels the handler stores for.
LEMMA IrqMaps ==
  ASSUME IInv, IInv', Irq
  PROVE  [Queue!Next]_(Queue!vars)
<1> DEFINE D == {p \in Ports : Stores(p)}
<1>0. ch' = ch
  BY DEF Irq, prog
<1>1. ASSUME NEW p \in Ports
      PROVE  rts_asserted'[p] = (rts_asserted[p] /\ ~(p \in D /\ Len(Contents(p)') = HIGH_WATER_MARK))
  <2>1. rts_asserted'[p] = (rts_asserted[p] /\ ~Deasserts(p))
    BY Zenon DEF Irq
  <2>2. Deasserts(p) <=> Stores(p) /\ rx_count[p] + 1 = HIGH_WATER_MARK /\ rts_asserted[p]
    BY DEF Deasserts, MustDeassert
  <2>3. Stores(p) => Len(Contents(p)') = rx_count[p] + 1
    BY IrqAppends
  <2> QED BY <2>1, <2>2, <2>3
<1>2. rts_asserted' = [p \in Ports |-> rts_asserted'[p]]
  BY DEF Irq
<1>3. CASE D = {}
  <2>1. \A p \in Ports : Contents(p)' = Contents(p)
    BY <1>3, IrqAppends
  <2>2. \A p \in Ports : rts_asserted'[p] = rts_asserted[p]
    BY <1>1, <1>3 DEF IInv, TypeOK
  <2>3. rts_asserted = [p \in Ports |-> rts_asserted[p]]
    BY DEF IInv, TypeOK
  <2>4. rts_asserted' = rts_asserted
    BY <1>2, <2>2, <2>3
  <2> QED BY <1>0, <2>1, <2>4, StutterMaps DEF Stutter, queues
<1>4. CASE D # {}
  <2>1. PICK any \in Char : TRUE
    BY <1>4, IrqAppends
  <2> DEFINE c == [p \in Ports |-> IF p \in D THEN Head(fifo[p]) ELSE any]
  <2>2. c \in [Ports -> Char] /\ D \in (SUBSET Ports) \ {{}}
    BY <1>4, <2>1, IrqAppends
  <2>3. \A p \in D : Len(Contents(p)) < RX_BUFFER_SIZE
    BY IrqAppends
  <2>4. \A p \in Ports : Contents(p)' = IF p \in D THEN Append(Contents(p), c[p]) ELSE Contents(p)
    BY IrqAppends
  <2>5. /\ queues \in [Ports -> Seq(Char \cup {NUL})]
        /\ \A p \in Ports : queues[p] = Contents(p) /\ queues'[p] = Contents(p)'
    BY ContentsAre DEF queues
  <2> HIDE DEF c, D
  <2>6. queues' = [p \in Ports |-> IF p \in D THEN Append(queues[p], c[p]) ELSE queues[p]]
    BY <2>4, <2>5 DEF queues
  <2>7. rts_asserted' = [p \in Ports |-> rts_asserted[p] /\ ~(p \in D /\ Len(queues'[p]) = HIGH_WATER_MARK)]
    BY <1>1, <1>2, <2>5
  <2>8. \A p \in D : Len(queues[p]) < RX_BUFFER_SIZE
    BY <2>2, <2>3, <2>5
  <2>9. Queue!Accept
    BY <1>0, <2>2, <2>6, <2>7, <2>8, Zenon DEF Queue!Accept, queues
  <2> QED BY <2>9 DEF Queue!Next
<1> QED BY <1>3, <1>4

\* Take: getchar fetches the oldest character.
LEMMA FetchMaps ==
  ASSUME IInv, IInv', Fetch
  PROVE  [Queue!Next]_(Queue!vars)
<1>1. PICK q \in Ports : q = port
  BY DEF IInv, TypeOK
<1>2. port' = port /\ rts_asserted' = rts_asserted
  BY DEF Fetch
<1>3. /\ Contents(q) # <<>> /\ ch' = Head(Contents(q)) /\ Contents(q)' = Tail(Contents(q))
      /\ \A p \in Ports : p # q => Contents(p)' = Contents(p)
  BY <1>1, <1>2, FetchTakes
<1>4. /\ queues = [p \in Ports |-> Contents(p)] /\ queues[q] = Contents(q)
      /\ queues' = [p \in Ports |-> Contents(p)']
  BY DEF queues
<1>5. queues' = [queues EXCEPT ![q] = Tail(queues[q])]
  BY <1>3, <1>4
<1>6. queues[q] # <<>> /\ ch' = Head(queues[q])
  BY <1>3, <1>4
<1>7. Queue!Take(q)
  BY <1>2, <1>5, <1>6 DEF Queue!Take, queues
<1> QED BY <1>7 DEF Queue!Next

\* Open, or nothing at all: port q's RTS is asserted, its queue drained to the mark.
LEMMA OpenMaps ==
  ASSUME IInv, NEW q \in Ports, queues' = queues, ch' = ch,
         rts_asserted' = [rts_asserted EXCEPT ![q] = TRUE],
         Len(Contents(q)) <= LOW_WATER_MARK
  PROVE  [Queue!Next]_(Queue!vars)
<1>1. CASE rts_asserted[q]
  <2>1. rts_asserted' = rts_asserted
    BY <1>1 DEF IInv, TypeOK
  <2> QED BY <2>1, StutterMaps DEF Stutter
<1>2. CASE ~rts_asserted[q]
  <2>1. queues[q] = Contents(q)
    BY DEF queues
  <2>2. Queue!Open(q)
    BY <1>2, <2>1 DEF Queue!Open, queues
  <2> QED BY <2>2 DEF Queue!Next
<1> QED BY <1>1, <1>2

\* A step that touches neither ring nor flow control.
LEMMA SameRingMaps ==
  ASSUME UNCHANGED <<rx_buff, rx_remove, rx_count, rts_asserted, ch>>,
         pc # "store", pc' # "store"
  PROVE  [Queue!Next]_(Queue!vars)
<1>1. \A p \in Ports : Held(p)' = Held(p)
  BY DEF Held
<1>2. \A p \in Ports : Contents(p)' = Contents(p)
  BY <1>1, ContentsStay
<1> QED BY <1>2, StutterMaps DEF Stutter, queues

LEMMA InitChannelMaps ==
  ASSUME IInv, NEW q \in Ports, ~Configured(q), pc # "store", pc' # "store",
         rx_buff' = rx_buff, ch' = ch,
         rts_asserted' = [rts_asserted EXCEPT ![q] = TRUE],
         rx_remove' = [rx_remove EXCEPT ![q] = 0], rx_count' = [rx_count EXCEPT ![q] = 0]
  PROVE  [Queue!Next]_(Queue!vars)
<1>2. rx_remove[q] = 0 /\ rx_count[q] = 0
  BY DEF IInv, SilentInv
<1>3. /\ rx_buff' = rx_buff /\ ch' = ch
      /\ rts_asserted' = [rts_asserted EXCEPT ![q] = TRUE]
      /\ \A p \in Ports : rx_remove'[p] = rx_remove[p] /\ rx_count'[p] = rx_count[p]
  BY <1>2 DEF IInv, TypeOK
<1>4. \A p \in Ports : Held(p)' = Held(p)
  BY <1>3 DEF Held
<1>5. \A p \in Ports : Contents(p)' = Contents(p)
  BY <1>3, <1>4, ContentsStay
<1>6. Held(q) = 0
  BY <1>2 DEF Held
<1>7. Len(Contents(q)) <= LOW_WATER_MARK
  BY <1>6, ContentsAre, ConstantFacts
<1>8. queues' = queues
  BY <1>5 DEF queues
<1> QED BY <1>3, <1>7, <1>8, OpenMaps

\* Store only makes good what Fetch did; at the low mark it opens the queue.
LEMMA StoreMaps ==
  ASSUME IInv, Store
  PROVE  [Queue!Next]_(Queue!vars)
<1>1. PICK q \in Ports : q = port
  BY DEF IInv, TypeOK
<1>2. /\ pc = "store" /\ pc' = "unlock" /\ port' = port
      /\ rx_buff' = rx_buff /\ rx_remove' = rx_remove /\ ch' = ch
      /\ cnt = rx_count[q]
  BY <1>1 DEF Store, Goto, IInv, ReaderInv
<1>3. rx_count' = [rx_count EXCEPT ![q] = cnt - 1]
  BY <1>1 DEF Store
<1>4. \A p \in Ports : Held(p)' = Held(p)
  BY <1>1, <1>2, <1>3 DEF Held, IInv, TypeOK
<1>5. \A p \in Ports : Contents(p)' = Contents(p)
  BY <1>2, <1>4, ContentsStay
<1>6. queues' = queues
  BY <1>5 DEF queues
<1> DEFINE up == MustReassert(q, cnt - 1)
<1>7. rts_asserted' = [rts_asserted EXCEPT ![q] = rts_asserted[q] \/ up]
  BY <1>1 DEF Store
<1>8. CASE up
  <2>1. Held(q) = LOW_WATER_MARK
    BY <1>1, <1>2, <1>8 DEF Held, MustReassert
  <2>2. Len(Contents(q)) <= LOW_WATER_MARK
    BY <2>1, ContentsAre, ConstantFacts
  <2>3. rts_asserted' = [rts_asserted EXCEPT ![q] = TRUE]
    BY <1>7, <1>8
  <2> QED BY <1>2, <1>6, <2>2, <2>3, OpenMaps
<1>9. CASE ~up
  <2>1. rts_asserted' = rts_asserted
    BY <1>7, <1>9 DEF IInv, TypeOK
  <2> QED BY <1>2, <1>6, <2>1, StutterMaps DEF Stutter
<1> QED BY <1>8, <1>9

LEMMA StepMaps ==
  ASSUME IInv, IInv', [Next]_vars
  PROVE  [Queue!Next]_(Queue!vars)
<1>1. CASE Setup
  <2>1. CASE InitChannel(1, "init_b", "init_a")
    <3>1. 1 \in Ports /\ ~Configured(1)
      BY <2>1 DEF Ports, Configured, InitChannel
    <3> QED BY <2>1, <3>1, InitChannelMaps DEF InitChannel
  <2>2. CASE InitChannel(0, "init_a", "imr")
    <3>1. 0 \in Ports /\ ~Configured(0)
      BY <2>2 DEF Ports, Configured, InitChannel
    <3> QED BY <2>2, <3>1, InitChannelMaps DEF InitChannel
  <2>3. CASE EnableInterrupts
    BY <2>3, SameRingMaps DEF EnableInterrupts, ring
  <2> QED BY <1>1, <2>1, <2>2, <2>3 DEF Setup
<1>2. CASE Irq
  BY <1>2, IrqMaps
<1>3. CASE Fetch
  BY <1>3, FetchMaps
<1>4. CASE Store
  BY <1>4, StoreMaps
<1>5. CASE (\E p \in Readers : Getchar(p)) \/ SeeCharacter \/ Lock \/ Unlock
  BY <1>5, SameRingMaps DEF Getchar, SeeCharacter, Lock, Unlock, Goto, ring
<1>6. CASE (\E p \in Talkers, c \in Char \cup {Bad} : Arrive(p, c)) \/ UNCHANGED vars
  <2>1. UNCHANGED <<ring, prog>>
    BY <1>6 DEF Arrive, vars
  <2>2. \A p \in Ports : Held(p)' = Held(p)
    BY <2>1 DEF Held, ring, prog
  <2>3. \A p \in Ports : Contents(p)' = Contents(p)
    BY <2>1, <2>2, ContentsStay DEF ring
  <2>4. ch' = ch /\ rts_asserted' = rts_asserted
    BY <2>1 DEF ring, prog
  <2> QED BY <2>3, <2>4, StutterMaps DEF Stutter, queues
<1> QED BY <1>1, <1>2, <1>3, <1>4, <1>5, <1>6 DEF Next, Reading

\* The driver is the two bounded queues SerialFifo promises: nothing duplicated,
\* reordered or invented, closed at the high mark and opened at the low one only.
THEOREM Implements == Spec => Refines
<1>1. Init => Queue!Init
  BY InitMaps
<1>2. IInv /\ IInv' /\ [Next]_vars => [Queue!Next]_(Queue!vars)
  BY StepMaps
<1> QED BY <1>1, <1>2, Invariance, PTL DEF Spec, Refines, Queue!Spec
=============================================================================
