-------------------------- MODULE ClockRegisters --------------------------
(***************************************************************************)
(* What ds1307.c promises the commands above it: the real-time clock is a  *)
(* file of registers, written and read a run of bytes at a time.           *)
(*                                                                         *)
(*   - a write stores its bytes in order at consecutive registers, wrapping*)
(*     after the last, and nothing else ever changes a register; how far it*)
(*     got is not reported once the first byte could be sent, and only a   *)
(*     fault of the device stops it early;                                 *)
(*   - a read returns what the registers hold, cut short at the last       *)
(*     register, or -1;                                                    *)
(*   - -1 means that the device did not answer, and that nothing was done. *)
(*                                                                         *)
(* I2c implements this module, bit by bit (I2c!Refines).                   *)
(***************************************************************************)
EXTENDS Integers, Sequences

CONSTANTS
  NREG,      \* registers of the clock
  Value,     \* what a register holds
  Request,   \* what may be asked: records with a field op
  None, Pending

VARIABLES
  regs,      \* regs[r]: what register r holds
  request,   \* the request being served, or None
  stored,    \* bytes of it stored so far
  fault,     \* has the device failed to answer during it?
  reply      \* <<result, bytes read>>, or Pending

vars == <<regs, request, stored, fault, reply>>

Init ==
  /\ regs \in [0 .. NREG - 1 -> Value]
  /\ request = None /\ stored = 0 /\ fault = FALSE
  /\ reply = <<0, <<>>>>

Call(r) ==
  /\ request = None /\ (r.op \in {"read", "write"} => r.addr < NREG)
  /\ request' = r /\ stored' = 0 /\ fault' = FALSE /\ reply' = Pending
  /\ UNCHANGED regs

\* A register there is not: nothing happens.
Reject ==
  /\ request = None /\ \E r \in Request : r.op \in {"read", "write"} /\ r.addr >= NREG
  /\ reply' = <<-1, <<>>>>
  /\ UNCHANGED <<regs, request, stored, fault>>

\* The next byte of a write reaches its register.
Store ==
  /\ request # None /\ request.op = "write" /\ ~fault
  /\ stored < Len(request.data)
  /\ regs' = [regs EXCEPT ![(request.addr + stored) % NREG] = request.data[stored + 1]]
  /\ stored' = stored + 1
  /\ UNCHANGED <<request, fault, reply>>

Fault ==
  /\ request # None /\ fault' = TRUE
  /\ UNCHANGED <<regs, request, stored, reply>>

Within(r) == IF r.addr + r.n > NREG THEN NREG - r.addr ELSE r.n

Answers(r) ==
  CASE r.op = "read"  -> {<<Within(r), [i \in 1 .. Within(r) |-> regs[r.addr + i - 1]]>>}
    [] r.op = "write" -> IF fault \/ stored = Len(r.data) THEN {<<Len(r.data), <<>>>>} ELSE {}
    [] r.op = "probe" -> {<<IF fault THEN 0 ELSE 1, <<>>>>}
    [] OTHER          -> {<<0, <<>>>>}

Return ==
  /\ request # None
  /\ \/ reply' \in Answers(request)
     \/ fault /\ stored = 0 /\ reply' = <<-1, <<>>>>
  /\ request' = None /\ stored' = 0 /\ fault' = FALSE
  /\ UNCHANGED regs

Next == Reject \/ (\E r \in Request : Call(r)) \/ Store \/ Fault \/ Return

Spec == Init /\ [][Next]_vars
=============================================================================
