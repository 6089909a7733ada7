------------------------------ MODULE MCAcrtc ------------------------------
(***************************************************************************)
(* A frame buffer of two rasters, written with a word that is a command    *)
(* word too.                                                               *)
(***************************************************************************)
EXTENDS Acrtc

MCAddresses == 0 .. 2

MCCalls ==
  {[fn |-> f] : f \in {"init", "abort", "start", "stop"}} \cup
  {[fn |-> "wpr", reg |-> 0, value |-> CMD_WT], [fn |-> "wpr", reg |-> 32, value |-> 0],
   [fn |-> "rpr", reg |-> 0],
   [fn |-> "write_words", dn |-> 1, addr |-> 1, data |-> <<0, CMD_WT>>],
   [fn |-> "read_words", dn |-> 1, addr |-> 1, count |-> 2],
   [fn |-> "fill_words", dn |-> 1, addr |-> 1, value |-> 0, count |-> 1],
   [fn |-> "clear_area", dn |-> 1, addr |-> 0, words |-> 1, lines |-> 2, value |-> 0],
   [fn |-> "clear_area", dn |-> 1, addr |-> 0, words |-> 0, lines |-> 2, value |-> 0]}
=============================================================================
