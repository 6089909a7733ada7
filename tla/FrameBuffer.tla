---------------------------- MODULE FrameBuffer ----------------------------
(***************************************************************************)
(* What the display driver promises its caller: a memory of words and a    *)
(* drawing register behind one call at a time.  A call that is answered    *)
(* "OK" has done what it says and nothing else.  A call that is answered   *)
(* with a timeout loses the memory: from then on nothing is promised until *)
(* the chip has been aborted.  A parameter error changes nothing.          *)
(***************************************************************************)
EXTENDS Integers, Sequences

CONSTANTS
  Addresses,  \* of the words of the frame buffer
  MEM_WIDTH,  \* words a raster has
  Register,   \* the number of the drawing register
  NoCall

VARIABLES
  store,     \* the frame buffer
  register,  \* the drawing register the program writes and reads back
  asked,     \* the call that is being served, or NoCall
  answer,    \* what the last call was answered, once it was, and the words it brought back
  lost       \* a call has failed and the chip was not aborted since

vars == <<store, register, asked, answer, lost>>

Resets == {"init", "abort"}

\* The words a call writes, and what it writes there.
Covered(c) ==
  CASE c.fn = "write_words" -> c.addr .. c.addr + Len(c.data) - 1
    [] c.fn = "fill_words"  -> c.addr .. c.addr + c.count - 1
    [] c.fn = "clear_area"  -> {c.addr + MEM_WIDTH * i + j : i \in 0 .. c.lines - 1, j \in 0 .. c.words - 1}
    [] OTHER -> {}

Wanted(c, a) == IF c.fn = "write_words" THEN c.data[a - c.addr + 1] ELSE c.value

Done(c) ==
  /\ \A a \in Covered(c) : store[a] = Wanted(c, a)
  /\ c.fn = "wpr" /\ c.reg = Register => register = c.value
  /\ c.fn = "init" => register = 0

\* What it brings back; of other registers nothing is promised.
Replied(c) ==
  CASE c.fn = "read_words" -> answer.data = [i \in 1 .. c.count |-> store[c.addr + i - 1]]
    [] c.fn = "rpr" -> c.reg = Register => answer.data = <<register>>
    [] OTHER -> answer.data = <<>>

Init == register = 0 /\ ~lost /\ \A a \in Addresses : store[a] = 0

Ask ==
  /\ asked = NoCall /\ asked' # NoCall
  /\ answer' = [rc |-> "none", data |-> <<>>]
  /\ UNCHANGED <<store, register, lost>>

\* A call with a bad parameter.
Refuse ==
  /\ asked = NoCall
  /\ answer' = [rc |-> "PARAM", data |-> <<>>]
  /\ UNCHANGED <<store, register, asked, lost>>

\* Nothing but the words of the call is written, with nothing but their values.
OnlyAsAsked ==
  /\ \A a \in Addresses : store'[a] # store[a] => a \in Covered(asked) /\ store'[a] = Wanted(asked, a)
  /\ \/ UNCHANGED register
     \/ asked.fn \in Resets
     \/ asked.fn = "wpr" /\ asked.reg = Register /\ register' = asked.value

Work == asked # NoCall /\ ~lost /\ OnlyAsAsked /\ UNCHANGED <<asked, answer, lost>>

Succeed ==
  /\ asked # NoCall /\ ~lost /\ OnlyAsAsked
  /\ answer'.rc = "OK" /\ \E c \in {asked} : Done(c)' /\ Replied(c)'
  /\ asked' = NoCall /\ lost' = FALSE

GiveUp ==
  /\ asked # NoCall /\ ~lost /\ OnlyAsAsked
  /\ answer'.rc = "TIMEOUT"
  /\ asked' = NoCall /\ lost' = TRUE

Drift == lost /\ lost'

Recover ==
  /\ lost /\ ~lost'
  /\ asked # NoCall /\ asked.fn \in Resets
  /\ UNCHANGED <<store, asked, answer>>

Next == Ask \/ Refuse \/ Work \/ Succeed \/ GiveUp \/ Drift \/ Recover

Spec == Init /\ [][Next]_vars
=============================================================================
