------------------------------- MODULE MCI2c -------------------------------
(***************************************************************************)
(* A bus with three-bit bytes, a clock of three registers and a display.   *)
(***************************************************************************)
EXTENDS I2c, TLC

MCAddress == "DS1307" :> 2 @@ "SH1107" :> 1
MCInitial == {5}

MCall(f, d, r, seq, k) == [fn |-> f, dev |-> d, reg |-> r, data |-> seq, n |-> k]

\* Reads within the registers, up to the last, past it, and of a register there is not; writes
\* that wrap from the last register onto the first; calls on the other device.
MCCalls ==
  {MCall("ds1307_read", Clock, r, <<>>, k) : r \in {0, 2, 3}, k \in {1, 2}} \cup
  {MCall("ds1307_write", Clock, 2, <<6, 2>>, 0)} \cup
  {MCall("ds1307_write", Clock, 1, <<3>>, 0)} \cup
  {MCall(f, "SH1107", 1, <<4, 2>>, 0) : f \in {"sh1107_data_burst", "sh1107_display_vertical"}} \cup
  {MCall("i2c_probe", d, 0, <<>>, 0) : d \in Devices}
=============================================================================
