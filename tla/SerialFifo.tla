---------------------------- MODULE SerialFifo ----------------------------
(***************************************************************************)
(* What the receive side of the serial driver promises its callers and the *)
(* remote ends of the lines, one bounded first-in first-out queue per      *)
(* port:                                                                   *)
(*                                                                         *)
(*   - a character handed over by getchar is the oldest one accepted and   *)
(*     not yet handed over: none is duplicated, reordered or invented;     *)
(*   - the remote is told to stop in the very step that fills the queue to *)
(*     HIGH, and is only invited to resume once it has drained to LOW.     *)
(*                                                                         *)
(* Duart implements this module (Duart!Refines).                           *)
(***************************************************************************)
EXTENDS Naturals, Sequences

CONSTANTS Ports, Char, NoChar, Size, High, Low

VARIABLES
  queue,   \* queue[p]: characters accepted on port p and not yet handed over
  open,    \* open[p]: is the remote of port p invited to send?
  handed   \* the last character handed to a caller

vars == <<queue, open, handed>>

Init ==
  /\ queue  = [p \in Ports |-> <<>>]
  /\ open   = [p \in Ports |-> FALSE]
  /\ handed = NoChar

\* The ports in D each accept one character; a queue that reaches High closes.
Accept ==
  \E D \in (SUBSET Ports) \ {{}}, c \in [Ports -> Char] :
    /\ \A p \in D : Len(queue[p]) < Size
    /\ queue' = [p \in Ports |-> IF p \in D THEN Append(queue[p], c[p])
                                            ELSE queue[p]]
    /\ open'  = [p \in Ports |-> open[p] /\ ~(p \in D /\ Len(queue'[p]) = High)]
    /\ UNCHANGED handed

\* A caller takes the oldest character of port p.
Take(p) ==
  /\ queue[p] # <<>>
  /\ handed' = Head(queue[p])
  /\ queue'  = [queue EXCEPT ![p] = Tail(@)]
  /\ UNCHANGED open

\* The remote is invited to send (again), only with the queue drained.
Open(p) ==
  /\ ~open[p]
  /\ Len(queue[p]) <= Low
  /\ open' = [open EXCEPT ![p] = TRUE]
  /\ UNCHANGED <<queue, handed>>

Next == Accept \/ \E p \in Ports : Take(p) \/ Open(p)

Spec == Init /\ [][Next]_vars
=============================================================================
