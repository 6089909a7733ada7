------------------------------ MODULE MCLoader ------------------------------
(***************************************************************************)
(* Loading in decimal: three files that between them hold every kind of    *)
(* record, lines that are none, and both line ends, and a line that alters *)
(* or loses one character anywhere.                                        *)
(***************************************************************************)
EXTENDS Loader, SequencesExt, FiniteSetsExt

\* The two digits of a byte, and the n bytes of an address.
Digits(b) == <<b \div BASE, b % BASE>>
AddressBytesOf(a, n) == [k \in 1 .. n |-> (a \div BASE^(2 * (n - k))) % BASE^2]

\* The record of type t: its bytes, with the count before and the checksum behind.
MCRecord(t, bytes) ==
  LET counted == <<Len(bytes) + 1>> \o bytes
      xsum == (BASE^2 - 1) - (FoldSeq(+, 0, counted) % BASE^2)
  IN  <<S, t>> \o FlattenSeq([k \in 1 .. Len(counted) + 1 |->
                                Digits(IF k <= Len(counted) THEN counted[k] ELSE xsum)])

MCLine(t, a, data) == MCRecord(t, AddressBytesOf(a, AddressDigits(t) \div 2) \o data)

MCFiles ==
  { <<MCLine(0, 0, <<65>>) \o <<CR>>, MCLine(1, 1000, <<1, 30>>) \o <<CR>>,
      MCLine(1, 1002, <<7>>) \o <<CR>>, MCLine(1, 1003, <<8>>) \o <<CR>>,
      MCLine(8, 1001, <<>>) \o <<CR>>>>,
    <<MCLine(2, 20, <<99>>) \o <<CR, LF>>, MCRecord(5, <<0, 1>>) \o <<CR, LF>>,
      MCLine(2, 30, <<40>>) \o <<CR, LF>>, MCLine(9, 9690, <<>>) \o <<CR, LF>>>>,
    <<<<Other, 1, CR>>, MCLine(3, 5, <<8, 9>>) \o <<Space, CR>>, <<S, 4, CR>>,
      MCLine(7, 6, <<>>) \o <<Space, CR>>>> }

MCAltered == {0, 1, 5, 9, S, CR, LF, Other}
=============================================================================
