-------------------------------- MODULE SetUp --------------------------------
(***************************************************************************)
(* setup.c: what main does before it takes commands, and what it needs of  *)
(* detect.c, safeio.c, vectors.c, pit.c and duart.c: which devices there   *)
(* are, who serves their interrupts and the traps, and the order in which  *)
(* all that comes about.  A board says what is plugged in:                 *)
(*   present   the devices that answer on the bus or the I2C bus           *)
(*   floats    is an access nobody answers ended all the same, with ones   *)
(*             on the data lines?  Otherwise it is a bus error             *)
(*   faulty    does the display stop answering after it was found?         *)
(*   jumpers   the places of JB2, 0 to 5, where one is set                 *)
(* The log has every state an interrupt could come in.                     *)
(***************************************************************************)
EXTENDS Traps, FiniteSets
LOCAL INSTANCE TLC
LOCAL INSTANCE SequencesExt

PIT_VECTOR_NUMBER   == 68
DUART_VECTOR_NUMBER == 64
VEC_BUS_ERROR       == 2

\* The vectors copied from ROM, those of the processor and those of the devices.
cpu_vectors ==
  [n \in 0 .. 63 |-> CASE n = 0 -> "_INITIAL_STACK" [] n = 1 -> "_start"
                       [] n = VEC_BUS_ERROR -> "_bus_err_exception" [] OTHER -> "_not_handled"]
user_vectors == [n \in 64 .. 255 |-> "_not_handled"]
vectors == cpu_vectors @@ user_vectors

\* As main is entered: interrupts masked, devices reset.
Entered ==
  [vectors |-> vectors, masked |-> TRUE, irq |-> [pit |-> -1, duart |-> -1], tivr |-> 15,
   ready |-> {}, found |-> {}, xr |-> FALSE, told |-> <<>>, hung |-> FALSE]

\* Every step works on the last state of the log, unless it is hung.
Now(log) == log[Len(log)]
Then(log, s) == IF Now(log).hung THEN log ELSE Append(log, s)

set_isr_handler(log, n, isr) ==
  IF n \notin 0 .. 255 THEN log ELSE Then(log, [Now(log) EXCEPT !.vectors[n] = isr])

(***************************************************************************)
(* Looking for devices.                                                    *)
(***************************************************************************)
\* The flag is set, and the frame is left as it is.
_bus_err_exception(frame) == [flag |-> TRUE, frame |-> frame]
\* rte runs the data cycle again whose fault the frame still tells of.
Reruns(frame) == Bit(WordAt(frame, 10), SSW_DF) = 1
DataFault(vector) ==
  Frame([fmt |-> 10, vector |-> vector, sr |-> 8192, pc |-> 700, fault |-> 800, ssw |-> 2^SSW_DF + 2^SSW_RW + 5])

\* What a byte of a device reads as: -1 after a bus error, if it ever returns from that.
peek(board, device) ==
  LET handled == _bus_err_exception(DataFault(VEC_BUS_ERROR))
  IN CASE device \in board.present -> [hung |-> FALSE, value |-> 15]
       [] device \notin board.present /\ board.floats -> [hung |-> FALSE, value |-> 255]
       [] OTHER -> [hung |-> Reruns(handled.frame), value |-> IF handled.flag THEN -1 ELSE 0]

\* The status of the ACRTC is read as it is.
is_acrtc_present(board) ==
  IF "acrtc" \in board.present THEN [hung |-> FALSE, value |-> 35]
  ELSE [hung |-> ~board.floats /\ Reruns(DataFault(VEC_BUS_ERROR)), value |-> 255]
\* All bits of 0x23 are set.
Idle(status) == Bit(status, 0) = 1 /\ Bit(status, 1) = 1 /\ Bit(status, 5) = 1

probe_hardware(log, board) ==
  LET looks == [d \in {"pit", "duart"} |-> peek(board, d)] @@ ("acrtc" :> is_acrtc_present(board))
      there == {d \in {"pit", "duart"} : looks[d].value # -1}
                 \cup (IF Idle(looks["acrtc"].value) THEN {"acrtc"} ELSE {})
                 \cup (board.present \cap {"rtc", "oled"})
  IN Then(log, [Now(log) EXCEPT !.found = there, !.hung = \E d \in DOMAIN looks : looks[d].hung])

(***************************************************************************)
(* The timer and the serial ports.                                         *)
(***************************************************************************)
DISABLE_IRQS(log) == Then(log, [Now(log) EXCEPT !.masked = TRUE])
ENABLE_IRQS(log)  == Then(log, [Now(log) EXCEPT !.masked = FALSE])

\* A timer that runs interrupts through the vector it was given.
_claim_pit(log) ==
  LET ivr  == Now(log).tivr
      isr  == set_isr_handler(DISABLE_IRQS(log), ivr, "pit_isr_handler")
      runs == Then(isr, [Now(isr) EXCEPT !.irq["pit"] = ivr])
  IN ENABLE_IRQS(runs)

\* The clock is timed by ticks: they have to come.
Ticking(s, board) ==
  /\ "pit" \in board.present /\ ~s.masked
  /\ s.irq["pit"] # -1 /\ s.vectors[s.irq["pit"]] = "pit_isr_handler"
setup_duart(log, board, is_xr) ==
  LET timed   == Then(log, [Now(log) EXCEPT !.xr = is_xr, !.hung = ~Ticking(Now(log), board)])
      isr     == set_isr_handler(timed, DUART_VECTOR_NUMBER, "duart_irq_handler")
      enabled == Then(isr, [Now(isr) EXCEPT !.irq["duart"] = DUART_VECTOR_NUMBER,
                                            !.ready = @ \cup {"duart"}])
  IN enabled

(***************************************************************************)
(* The banner, and setup.                                                  *)
(***************************************************************************)
\* A line printed; nothing is printed before the serial port works.
Tell(log, what) ==
  Then(log, [Now(log) EXCEPT !.told = Append(@, what), !.hung = "duart" \notin Now(log).ready])
Made(log, what) == Then(log, [Now(log) EXCEPT !.ready = @ \cup {what}])

TellIf(log, what) == IF what \in Now(log).found THEN Tell(log, what) ELSE log
\* A display that cannot be initialised is told of, and not used.
Disabled(log, board) ==
  IF "oled" \in Now(log).found /\ board.faulty
  THEN LET told == Tell(log, "disabling") IN Then(told, [Now(told) EXCEPT !.found = @ \ {"oled"}])
  ELSE log
jumper_txt == <<"TxA_EN", "TxB_EN", "XR_EN", "EMU_Boot", "Experimental", "ACRTC_MODE">>
pr_jumpers(log, jumpers) ==
  FoldLeft(LAMBDA l, k : IF k - 1 \in jumpers THEN Tell(l, jumper_txt[k]) ELSE l, log, <<1, 2, 3, 4, 5, 6>>)
pr_banner(log, board) ==
  LET first    == Tell(Tell(log, "ram"), "duart")
      hardware == FoldLeft(TellIf, first, <<"pit", "acrtc", "rtc", "oled">>)
      firmware == Tell(pr_jumpers(Disabled(hardware, board), board.jumpers), "firmware")
      time     == IF "rtc" \in Now(firmware).found THEN Tell(firmware, "time") ELSE firmware
  IN IF "oled" \in Now(time).found THEN Made(time, "splash") ELSE time

Activate(log) == Made(Tell(log, "Activating block devices"), "block devices")
MountsDisks(log, board) ==
  IF 4 \in board.jumpers THEN Made(Tell(log, "Attempting mounts"), "mounts") ELSE log

setup(board) ==
  LET sized  == Made(Made(<<Entered>>, "ram_end"), "heap")
      probed == probe_hardware(sized, board)
      pit    == IF "pit" \in Now(probed).found
                THEN _claim_pit(Then(probed, [Now(probed) EXCEPT !.tivr = PIT_VECTOR_NUMBER])) ELSE probed
      duart  == setup_duart(pit, board, 2 \in board.jumpers)
      traps  == set_isr_handler(set_isr_handler(Made(duart, "constants"), 32, "trap0_handler"), 46, "trap14_handler")
  IN MountsDisks(Activate(pr_banner(traps, board)), board)
=============================================================================
