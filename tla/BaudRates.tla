------------------------------ MODULE BaudRates ------------------------------
(***************************************************************************)
(* Setting the baud rates of the two channels (duart.c): one bit of one    *)
(* register selects the table of both, each has a bit of its own that      *)
(* extends it on an xr68c681, and an index into the table.                 *)
(***************************************************************************)
EXTENDS Integers, Sequences
LOCAL INSTANCE SequencesExt

Channels == {0, 1}

baud_rate_table ==
  << <<50, 110, 134, 200, 300, 600, 1200, 1050, 2400, 4800, 7200, 9600, 38400>>,
     <<75, 110, 134, 150, 300, 600, 1200, 2000, 2400, 4800, 1800, 9600, 19200>>,
     <<75, 110, 134, 150, 3600, 14400, 28800, 57600, 115200, 4800, 1800, 9600, 19200>>,
     <<50, 110, 134, 200, 3600, 14400, 28800, 57600, 115200, 4800, 7200, 9600, 38400>> >>

find_baudrate(baud, table) ==
  IF \E i \in DOMAIN table : table[i] = baud
  THEN CHOOSE i \in DOMAIN table : table[i] = baud /\ \A j \in 1 .. i - 1 : table[j] # baud
  ELSE 0

\* The table that is taken, 0 if the rate is in none, and the bits that go with it.
TableOf(hw, baud) ==
  LET has == {t \in 1 .. (IF hw.is_xr68c681 THEN 4 ELSE 2) : find_baudrate(baud, baud_rate_table[t]) # 0}
  IN IF has = {} THEN 0 ELSE CHOOSE t \in has : \A u \in has : t <= u
Acr(table) == table \in {2, 4}
Extended(chip, channel, table) == table > 2

Halved(hw, baud) == IF hw.clock_doubled THEN baud \div 2 ELSE baud
Selected(chip, channel, table, offset) ==
  [extended |-> [chip.extended EXCEPT ![channel] = Extended(chip, channel, table)],
   acr |-> Acr(table),
   csr |-> [chip.csr EXCEPT ![channel] = offset]]
set_baud(hw, chip, channel, baud) ==
  LET table == TableOf(hw, Halved(hw, baud))
  IN IF table = 0 THEN [ok |-> FALSE, chip |-> chip]
     ELSE [ok |-> TRUE, chip |-> Selected(chip, channel, table,
                                          find_baudrate(Halved(hw, baud), baud_rate_table[table]))]

\* Its first choice is in every chip's tables.
DefaultRate(hw) ==
  IF hw.is_xr68c681 THEN IF hw.clock_doubled THEN 230400 ELSE 115200 ELSE 38400
init_duart_channel(hw, chip, channel) == set_baud(hw, chip, channel, DefaultRate(hw)).chip

PowerUp == [extended |-> [c \in Channels |-> FALSE], acr |-> FALSE, csr |-> [c \in Channels |-> 1]]
setup_duart(hw) == init_duart_channel(hw, init_duart_channel(hw, PowerUp, 1), 0)

bios_set_baud(hw, chip, port, baud) ==
  IF port > 1 THEN [ok |-> FALSE, chip |-> chip] ELSE set_baud(hw, chip, port, baud)

\* What a sequence of calls comes to, call after call.
baud_rates(hw, calls) ==
  LET Then(log, call) ==
        Append(log, bios_set_baud(hw, log[Len(log)].chip, call.port, call.baud))
  IN FoldLeft(Then, <<[ok |-> TRUE, chip |-> setup_duart(hw)]>>, calls)

(***************************************************************************)
(* The chip: which row of its tables a channel runs by.                    *)
(***************************************************************************)
Row(hw, chip, channel) ==
  (IF chip.acr THEN 2 ELSE 1)
    + (IF ~hw.is_xr68c681 \/ ~chip.extended[channel] THEN 0 ELSE 2)
RateOf(hw, chip, channel) ==
  baud_rate_table[Row(hw, chip, channel)][chip.csr[channel]] * (IF hw.clock_doubled THEN 2 ELSE 1)
=============================================================================
