------------------------------- MODULE StartUp -------------------------------
(***************************************************************************)
(* From reset to main: the checksum of the ROM (rom_sum.asm, and           *)
(* patch_sum.py, which puts it there), the test of the first RAM           *)
(* (ram_test.asm), what mon_crt0.asm copies and clears for main, and the   *)
(* size of the RAM (memory.c).  What is wrong with the RAM is a fault, a   *)
(* record with its kind.                                                   *)
(***************************************************************************)
EXTENDS Integers, Sequences
LOCAL INSTANCE SequencesExt
LOCAL INSTANCE FiniteSetsExt

CONSTANTS
  ROM_BITS,     \* the bits of a long of the ROM
  ADDRESS_LINES,\* the address lines to the longs of the RAM under test
  LANE_BITS,    \* the data lines of each of its four byte lanes
  DBRA          \* the bits of the counter of a dbra loop

----------------------------------------------------------------------------
(* The checksum. *)

Ones == 2^ROM_BITS - 1
AddFolded(sum, long) == ((sum + long) % 2^ROM_BITS) + ((sum + long) \div 2^ROM_BITS)
ones_sum(rom) == FoldLeft(AddFolded, 0, rom)
patch_sum(rom, off) == [rom EXCEPT ![off] = Ones - ones_sum([rom EXCEPT ![off] = 0])]
\* 0 if it is good
rom_checksum(rom) == Ones - ones_sum(rom)

----------------------------------------------------------------------------
(* The RAM: rows of longs behind address and data lines.  `bus' is what was *)
(* last on the data lines; a line nobody drives keeps it.                   *)

Rows  == 0 .. 2^ADDRESS_LINES - 1
WIDTH == 4 * LANE_BITS
Lanes == 0 .. 3
Bit(v, b) == (v \div 2^b) % 2
With(v, b, x) == v + (x - Bit(v, b)) * 2^b
Joined(v, a, b) == With(With(v, a, Bit(v, a) * Bit(v, b)), b, Bit(v, a) * Bit(v, b))
Not(v) == 2^WIDTH - 1 - v
\* Lane 0 is that of the most significant byte.
LaneOf(v, lane) == (v \div 2^((3 - lane) * LANE_BITS)) % 2^LANE_BITS
FromLanes(byte) == MapThenSumSet(LAMBDA l : byte[l] * 2^((3 - l) * LANE_BITS), Lanes)

RowOf(fault, row) ==
  CASE fault.kind = "address line stuck" -> With(row, fault.line, fault.at)
    [] fault.kind = "address lines joined" -> Joined(row, fault.line, fault.with)
    [] OTHER -> row
OnLines(fault, v) ==
  CASE fault.kind = "data line stuck" -> With(v, fault.line, fault.at)
    [] fault.kind = "data lines joined" -> Joined(v, fault.line, fault.with)
    [] OTHER -> v
Strobed(fault, lanes) ==
  CASE fault.kind = "strobe missing" -> lanes \ {fault.lane}
    [] fault.kind = "strobes joined" ->
         lanes \cup (IF lanes \cap {fault.lane, fault.with} = {} THEN {} ELSE {fault.lane, fault.with})
    [] OTHER -> lanes
Kept(fault, row, v) ==
  IF fault.kind = "cell stuck" /\ row = fault.row THEN With(v, fault.line, fault.at) ELSE v

Stored(fault, ram, row, lanes, v) ==
  LET there == RowOf(fault, row)
      value == OnLines(fault, v)
      byte(l) == LaneOf(IF l \in Strobed(fault, lanes) THEN value ELSE ram.cells[there], l)
  IN [cells |-> [ram.cells EXCEPT ![there] = Kept(fault, there, FromLanes([l \in Lanes |-> byte(l)]))],
      bus |-> value]
Fetched(fault, ram, row) ==
  LET there == RowOf(fault, row)
      value == OnLines(fault, ram.cells[there])
  IN CASE fault.kind = "chip missing" /\ there >= fault.row -> ram.bus
       [] fault.kind = "data line floating" -> With(value, fault.line, Bit(ram.bus, fault.line))
       [] OTHER -> value

----------------------------------------------------------------------------
(* ram_test, stage by stage: what is written, and what is expected.         *)

Write(row, v) == [row |-> row, lanes |-> Lanes, value |-> v]
WriteLanes(lanes, v) == [row |-> 0, lanes |-> lanes, value |-> v]
Expect(row, v) == [row |-> row, lanes |-> {}, value |-> v]

WalkingBit ==
  FlattenSeq([k \in 1 .. WIDTH |->
    <<Write(0, 2^(k - 1)), Write(1, Not(2^(k - 1))), Expect(0, 2^(k - 1))>>])
\* The bytes $11, $22 ... $88
Word(a, b, c, d) == FromLanes([l \in Lanes |-> <<a, b, c, d>>[l + 1]])
LongsOnly ==
  <<Write(0, 0), Write(0, Word(1, 2, 3, 4)), Expect(0, Word(1, 2, 3, 4)),
    Write(0, Word(1, 2, 5, 6)), Expect(0, Word(1, 2, 5, 6)),
    Write(0, Word(7, 8, 5, 6)), Expect(0, Word(7, 8, 5, 6))>>
ByteLanes ==
  <<Write(0, 0)>>
  \o [k \in 1 .. 4 |-> WriteLanes({k - 1}, Word(k, k, k, k))]
  \o <<Expect(0, Word(1, 2, 3, 4)),
       WriteLanes({2, 3}, Word(5, 6, 5, 6)), Expect(0, Word(1, 2, 5, 6)),
       WriteLanes({0, 1}, Word(7, 8, 7, 8)), Expect(0, Word(7, 8, 5, 6))>>
Address(row) == 4 * row
PowersOfTwo == <<0>> \o [k \in 1 .. ADDRESS_LINES |-> 2^(k - 1)]
AllRows == [k \in 1 .. 2^ADDRESS_LINES |-> k - 1]
FillVerify(rows, pattern) ==
  [k \in DOMAIN rows |-> Write(rows[k], pattern[rows[k]])]
  \o [k \in DOMAIN rows |-> Expect(rows[k], pattern[rows[k]])]
Itself     == [row \in Rows |-> Address(row)]
Complement == [row \in Rows |-> Not(Address(row))]

Stages ==
  <<WalkingBit, ByteLanes, FillVerify(PowersOfTwo, Complement),
    FillVerify(AllRows, Itself), FillVerify(AllRows, Complement)>>

Then(fault, s, op) ==
  LET found == Fetched(fault, s.ram, op.row)
  IN CASE s.failed -> s
       [] ~s.failed /\ op.lanes # {} ->
            [s EXCEPT !.ram = Stored(fault, @, op.row, op.lanes, op.value)]
       [] ~s.failed /\ op.lanes = {} ->
            [s EXCEPT !.ram.bus = found, !.failed = (found # op.value)]
Stage(fault, s, n) ==
  IF s.d0 # 0 THEN s
  ELSE LET after == FoldLeft(LAMBDA t, op : Then(fault, t, op), s, Stages[n])
       IN [after EXCEPT !.d0 = IF after.failed THEN n ELSE 0]
\* D0: the stage that failed, 0 if none
ram_test(ram, fault) ==
  FoldLeft(LAMBDA s, n : Stage(fault, s, n), [ram |-> ram, failed |-> FALSE, d0 |-> 0],
           [n \in DOMAIN Stages |-> n])

----------------------------------------------------------------------------
(* What main finds.                                                         *)

\* The loop ends behind the first vector that is 0.
Vectors(vectors) ==
  {k \in DOMAIN vectors : \A j \in 1 .. k - 1 : vectors[j] # 0}
\* The longs copied: as many as there are bytes, counted in one word.
LongsCopied(data_length) == ((data_length - 1) % 2^DBRA) + 1

_start(board) ==
  LET test == ram_test(board.ram, board.fault)
  IN CASE rom_checksum(board.rom) # 0 -> [code |-> "31"]
       [] rom_checksum(board.rom) = 0 /\ test.d0 # 0 -> [code |-> "36", stage |-> test.d0]
       [] OTHER -> [code |-> "11",
                    vectors |-> Vectors(board.vectors),
                    data |-> {k \in 1 .. board.data : k <= LongsCopied(4 * board.data)}]

\* The end of the RAM in megabytes: what was written where it is mirrored is
\* overwritten.
get_ram_end(megabytes) ==
  LET Poke(mem, write) == [mem EXCEPT ![write[1] % megabytes] = write[2]]
      mem == FoldLeft(Poke, [mb \in 0 .. megabytes - 1 |-> 0], <<<<1, 1>>, <<3, 3>>, <<5, 5>>, <<2, 255>>>>)
      Holds(places) == \A p \in places : mem[p % megabytes] = p
  IN CASE Holds({1, 3, 5}) -> 8
       [] ~Holds({1, 3, 5}) /\ Holds({1, 3}) -> 4
       [] OTHER -> 2
=============================================================================
