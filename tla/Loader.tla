------------------------------- MODULE Loader -------------------------------
(***************************************************************************)
(* The load command, load_cmd.c: it waits for the console to receive       *)
(* something, with a time limit kept by the timer's ticks (pit.c), and then*)
(* reads S-records one character at a time until a termination record has  *)
(* been seen.  Data is stored in memory as it arrives.                     *)
(*                                                                         *)
(* External, modelled from how the code uses them: the remote, which sends *)
(* a file of S-records, and the line, on which characters are altered, and *)
(* lost as the serial driver drops those that arrive damaged.              *)
(*                                                                         *)
(* A character is a number: the hexadecimal digits are 0 .. BASE - 1, with *)
(* the digits of record types among them, and the rest come behind.        *)
(***************************************************************************)
EXTENDS Integers, Sequences, FiniteSets

CONSTANTS
  BASE,        \* 16 in the code
  SECONDS,     \* how long to wait for the remote: 60 seconds
  TPS,         \* ticks per second: 1000
  MaxTicks,    \* bound: the tick counter stops here
  Files,       \* what a remote may send: sequences of lines, each with its line end
  Altered,     \* what an altered character may become
  MaxDamage,   \* bound: lines damaged, each by one character altered or lost
  MaxLoads     \* bound: load commands given

S == BASE        CR == BASE + 1        LF == BASE + 2        Space == BASE + 3
Other == BASE + 4
Char == 0 .. Other

\* How many values a byte has, of two digits, and an address, of four bytes.
ByteValues == BASE * BASE
AddressSpace == ByteValues * ByteValues * ByteValues * ByteValues
Byte == 0 .. ByteValues - 1

ASSUME LoaderAssumption ==
  /\ BASE \in Nat /\ BASE >= 10 /\ SECONDS \in Nat /\ TPS \in Nat
  /\ MaxTicks \in Nat /\ MaxTicks > SECONDS * TPS + 1
  /\ MaxDamage \in Nat /\ MaxLoads \in Nat
  /\ Files \subseteq Seq(Seq(Char)) /\ Altered \subseteq Char

-----------------------------------------------------------------------------
(* The form of what a remote sends.                                        *)

Types == {0, 1, 2, 3, 5, 7, 8, 9}
Data == {1, 2, 3}
Termination == {7, 8, 9}

AddressDigits(t) == CASE t \in {0, 1, 9} -> 4 [] t \in {2, 8} -> 6 [] OTHER -> 8

\* What the count has to cover: the address and the checksum.
Least(t) == AddressDigits(t) \div 2 + 1

\* The number n digits of line l make, from the i-th character on.
Number(l, i, n) ==
  LET f[k \in Nat] == IF k = 0 THEN 0 ELSE f[k - 1] * BASE + l[i + k - 1]
  IN  f[n]

\* The bytes of a record: its count, then the address, the data and the checksum that it counts.
ByteOf(l, k) == Number(l, 2 * k + 1, 2)
CountOf(l) == ByteOf(l, 1)
NumberOf(l) == Number(l, 5, AddressDigits(l[2]))
DataCount(l) == CountOf(l) - Least(l[2])
DataByte(l, k) == ByteOf(l, Least(l[2]) + k)

\* The sum of the first n bytes.
SumOf(l, n) ==
  LET f[k \in Nat] == IF k = 0 THEN 0 ELSE (f[k - 1] + ByteOf(l, k)) % ByteValues
  IN  f[n]

\* A line ends with a carriage return, and perhaps a newline.
EndOf(l) == IF l[Len(l)] = LF THEN Len(l) - 1 ELSE Len(l)

\* A whole record: all digits its count asks for, and blanks behind them.
WholeRecord(l) ==
  /\ Len(l) >= 5 /\ l[1] = S /\ l[2] \in Types
  /\ l[3] < BASE /\ l[4] < BASE
  /\ CountOf(l) >= IF l[2] = 5 THEN 3 ELSE Least(l[2])
  /\ 4 + 2 * CountOf(l) < EndOf(l)
  /\ \A i \in 3 .. 4 + 2 * CountOf(l) : l[i] < BASE
  /\ l[2] \in Data => NumberOf(l) + DataCount(l) <= AddressSpace
  /\ l[2] \in Termination => /\ DataCount(l) = 0
                             /\ ByteOf(l, CountOf(l) + 1) = (ByteValues - 1) - SumOf(l, CountOf(l))

\* A line that is none, and does not look like one up to its type.
NoRecord(l) ==
  /\ l[1] \notin {CR, LF} /\ l[1] >= BASE
  /\ l[1] = S => Len(l) >= 3 /\ l[2] \notin Types \cup {CR} /\ l[3] >= BASE

\* A line of either kind: records begin nowhere but at its beginning.
WellFormed(l) ==
  /\ Len(l) >= 2 /\ EndOf(l) >= 2 /\ l[EndOf(l)] = CR
  /\ \A i \in 2 .. EndOf(l) - 1 : l[i] \notin {S, CR}
  /\ WholeRecord(l) \/ NoRecord(l)

\* The areas of data records are apart, and a termination record is the last.
Consistent(f) ==
  /\ \A i, j \in 1 .. Len(f) :
       f[i][1] = S /\ f[j][1] = S /\ f[i][2] \in Data /\ f[j][2] \in Data /\ i # j =>
         \/ NumberOf(f[i]) + DataCount(f[i]) <= NumberOf(f[j])
         \/ NumberOf(f[j]) + DataCount(f[j]) <= NumberOf(f[i])
  /\ \A i \in 1 .. Len(f) : f[i][1] = S /\ f[i][2] \in Termination => i = Len(f)

ASSUME FilesAssumption ==
  \A f \in Files : Consistent(f) /\ \A i \in 1 .. Len(f) : WellFormed(f[i])

VARIABLES
  pit_ticks,    \* the timer's count
  timed_out,    \* the count at which the wait is over
  file,         \* the lines the remote sends
  sending,      \* has it begun?
  line, col,    \* the place of the next character
  pc,           \* where the command is, "idle" when it is not running
  type,         \* of the record being read
  digits,       \* digits read of the current field
  value,        \* and what they came to
  count, bad,   \* the count of the record; is it or the address malformed?
  address,      \* the address, moved on as bytes are stored
  left,         \* bytes of data or name still to come
  name,         \* the name read so far
  calculated_xsum,
  res,          \* what the record comes to: "OK", "NOT_OK" or "DONE"
  mem,          \* what has been stored, by address
  go_address, program_name,
  loads,
  hurt,         \* lines in which a character was altered or lost (not in the code)
  lost,         \* has a character been lost? (not in the code)
  strayed       \* has a name been read on past its line? (not in the code)

timer == <<pit_ticks, timed_out>>
remote == <<file, sending, line, col, hurt, lost, strayed>>
record == <<type, digits, value, count, bad, address, left, name, calculated_xsum, res>>
results == <<mem, go_address, program_name>>
vars == <<timer, remote, pc, record, results, loads>>

Init ==
  /\ pit_ticks = 0 /\ timed_out = 0
  /\ file = <<>> /\ sending = FALSE /\ line = 1 /\ col = 1 /\ hurt = {} /\ lost = FALSE
  /\ strayed = FALSE
  /\ pc = "idle"
  /\ type = 0 /\ digits = 0 /\ value = 0 /\ count = 0 /\ bad = FALSE /\ address = 0 /\ left = 0
  /\ name = <<>> /\ calculated_xsum = 0 /\ res = "OK"
  /\ mem = <<>> /\ go_address = 0 /\ program_name = <<>>
  /\ loads = 0

-----------------------------------------------------------------------------
(* The timer, and the wait for the first character.                        *)

\* One tick at most falls between the clearing of the counter and its reading back.
Tick ==
  /\ pc \in {"reset", "poll", "ticks"} /\ pit_ticks < IF pc = "reset" THEN 1 ELSE MaxTicks
  /\ pit_ticks' = pit_ticks + 1
  /\ UNCHANGED <<timed_out, remote, pc, record, results, loads>>

RemoteBegins ==
  /\ pc \in {"reset", "poll", "ticks"} /\ ~sending
  /\ sending' = TRUE
  /\ UNCHANGED <<timer, file, line, col, hurt, lost, strayed, pc, record, results, loads>>

\* The command is given, and the counter is cleared.
handle_load_command(f) ==
  /\ pc = "idle" /\ loads < MaxLoads
  /\ loads' = loads + 1
  /\ file' = f /\ sending' = FALSE /\ line' = 1 /\ col' = 1 /\ hurt' = {} /\ lost' = FALSE
  /\ strayed' = FALSE
  /\ pit_ticks' = 0 /\ pc' = "reset"
  /\ UNCHANGED <<timed_out, record, results>>

\* Interrupts are enabled again before the counter is read back.
ResetReturns ==
  /\ pc = "reset"
  /\ timed_out' = pit_ticks + SECONDS * TPS
  /\ pc' = "poll"
  /\ UNCHANGED <<pit_ticks, remote, record, results, loads>>

\* The count is of no interest once the wait is over, and is not kept.
WaitOver == pit_ticks' = 0 /\ timed_out' = 0

kchar_available ==
  /\ pc = "poll"
  /\ IF sending THEN pc' = "start" /\ WaitOver ELSE pc' = "ticks" /\ UNCHANGED timer
  /\ UNCHANGED <<remote, record, results, loads>>

Expired == pit_ticks > timed_out

ReadTicks ==
  /\ pc = "ticks"
  /\ IF Expired THEN pc' = "idle" /\ WaitOver ELSE pc' = "poll" /\ UNCHANGED timer
  /\ UNCHANGED <<remote, record, results, loads>>

-----------------------------------------------------------------------------
(* load_single_srec, character by character.                               *)

\* A count or an address the record cannot have.
Refused(t, c, a) ==
  \/ t = 0 /\ (a # 0 \/ c < 3)
  \/ t = 5 /\ c # 3
  \/ t \notin {0, 5} /\ c < Least(t)

Width == IF pc = "address" THEN AddressDigits(type) ELSE 2

\* Start reading a field of hexadecimal digits.
Field(f) == pc' = f /\ digits' = 0 /\ value' = 0

\* Go on to the end of the line, the record having come to r.
Rest(r) == pc' = "rest" /\ res' = r /\ UNCHANGED <<digits, value>>

\* A termination record ends the load whatever is wrong with it.
Ends(r) == IF type \in Termination THEN "DONE" ELSE r

\* The first character; a newline before it is skipped.
Start(c) ==
  /\ pc \in {"start", "second"}
  /\ \/ c = LF /\ pc = "start" /\ pc' = "second"
     \/ c = S /\ pc' = "type"
     \/ c = CR /\ pc' = "start"
     \/ c \notin {S, CR} /\ (c = LF => pc = "second") /\ pc' = "garbage"
  /\ UNCHANGED <<record, results>>

GarbageToNewline(c) ==
  /\ pc = "garbage"
  /\ pc' = IF c = LF THEN "start" ELSE "garbage"
  /\ UNCHANGED <<record, results>>

\* A line that is no record is skipped.
Garbage(c) ==
  /\ pc = "garbage"
  /\ pc' = IF c = CR THEN "start" ELSE "garbage"
  /\ UNCHANGED <<record, results>>

XsumKept == calculated_xsum
XsumCleared == 0

Type(c) ==
  /\ pc = "type"
  /\ type' = c /\ name' = <<>> /\ bad' = FALSE /\ calculated_xsum' = XsumCleared
  /\ IF c \in Types THEN Field("count") /\ UNCHANGED res ELSE Rest("OK")
  /\ UNCHANGED <<count, address, left, results>>

\* The count has been read.
Count(v, err) ==
  /\ pc = "count"
  /\ count' = v /\ bad' = err /\ Field("address")
  /\ UNCHANGED <<address, left, name, res, results>>

\* The address has been read.
Address(v, err) ==
  /\ pc = "address"
  /\ address' = v
  /\ LET n == IF type \in Data \cup {0} THEN count - Least(type) ELSE 0
     IN  IF bad \/ err \/ Refused(type, count, v) THEN Rest(Ends("NOT_OK")) /\ UNCHANGED left
         ELSE /\ left' = n /\ UNCHANGED res
              /\ Field(IF n = 0 THEN "sum" ELSE IF type = 0 THEN "name" ELSE "data")
  /\ UNCHANGED <<count, bad, name, results>>

StoreBehind(a, v) == [x \in DOMAIN mem \cup {a + 1} |-> IF x = a + 1 THEN v ELSE mem[x]]
\* *address++ = val, whatever the checksum will say
StoreAt(a, v) == [x \in DOMAIN mem \cup {a} |-> IF x = a THEN v ELSE mem[x]]

\* A byte of data has been read.
ReadData(v, err) ==
  /\ pc = "data"
  /\ IF err THEN Rest("NOT_OK") /\ UNCHANGED <<mem, address, left>>
     ELSE /\ mem' = StoreAt(address, v)
          /\ address' = (address + 1) % AddressSpace /\ left' = left - 1
          /\ Field(IF left = 1 THEN "sum" ELSE "data") /\ UNCHANGED res
  /\ UNCHANGED <<count, bad, name, go_address, program_name>>

\* A byte of the name has been read; what is wrong with it is not looked at.
Name(v) ==
  /\ pc = "name"
  /\ name' = Append(name, v) /\ left' = left - 1
  /\ Field(IF left = 1 THEN "sum" ELSE "name")
  /\ UNCHANGED <<count, bad, address, res, results>>

XsumUnchecked(v) == TRUE
\* compare_xsums
XsumMatches(v) == v = (ByteValues - 1) - calculated_xsum

\* The checksum has been read, and is 0 if it could not be.
compare_xsums(v) ==
  /\ pc = "sum"
  /\ program_name' = IF type = 0 /\ XsumMatches(v) THEN name ELSE program_name
  /\ go_address' = IF type \in Termination /\ XsumMatches(v) THEN address ELSE go_address
  /\ Rest(Ends(IF XsumMatches(v) \/ type = 0 THEN "OK" ELSE "NOT_OK"))
  /\ UNCHANGED <<count, bad, address, left, name, mem>>

FieldRead(v, err) ==
  Count(v, err) \/ Address(v, err) \/ ReadData(v, err) \/ Name(v) \/ compare_xsums(v)

\* get_hex_bytes: a field ends with its last digit, or with the first character that is none.
Hex(c) ==
  /\ pc \in {"count", "address", "data", "name", "sum"}
  /\ UNCHANGED type
  /\ IF c >= BASE THEN FieldRead(0, TRUE) /\ UNCHANGED calculated_xsum
     ELSE /\ calculated_xsum' = IF digits % 2 = 0 THEN calculated_xsum
                                ELSE (calculated_xsum + (value % BASE) * BASE + c) % ByteValues
          /\ IF digits + 1 = Width THEN FieldRead(value * BASE + c, FALSE)
             ELSE /\ digits' = digits + 1 /\ value' = value * BASE + c
                  /\ UNCHANGED <<pc, count, bad, address, left, name, res, results>>

RestStrict(c) == "NOT_OK"
\* Anything but space behind a record spoils it, a termination record too.
RestComesTo(c) == IF c \in {LF, Space} THEN res ELSE "NOT_OK"

SkipRest(c) ==
  /\ pc = "rest"
  /\ IF c = CR THEN pc' = (IF res = "DONE" THEN "idle" ELSE "start") /\ UNCHANGED res
               ELSE res' = RestComesTo(c) /\ UNCHANGED pc
  /\ UNCHANGED <<type, digits, value, count, bad, address, left, name, calculated_xsum, results>>

Handle(c) == Start(c) \/ Garbage(c) \/ Type(c) \/ Hex(c) \/ SkipRest(c)

-----------------------------------------------------------------------------
(* The line.                                                               *)

Reading == pc \notin {"idle", "reset", "poll", "ticks"}
More == line <= Len(file)

Exposed == line \notin hurt /\ Cardinality(hurt) < MaxDamage

\* The remote's place moves on.
Onward ==
  /\ IF col < Len(file[line]) THEN line' = line /\ col' = col + 1 ELSE line' = line + 1 /\ col' = 1
  /\ strayed' = (strayed \/ (col' = 1 /\ pc' = "name"))

\* kgetchar, with the next character as it was sent, or altered on the way.
ReadChar ==
  /\ Reading /\ More
  /\ \E c \in {file[line][col]} \cup (IF Exposed THEN Altered ELSE {}) :
       /\ Handle(c)
       /\ hurt' = IF c = file[line][col] THEN hurt ELSE hurt \cup {line}
  /\ Onward
  /\ UNCHANGED <<timer, file, sending, lost, loads>>

\* A character gets lost.
LoseChar ==
  /\ Reading /\ More /\ Exposed
  /\ hurt' = hurt \cup {line} /\ lost' = TRUE
  /\ UNCHANGED <<timer, file, sending, pc, record, results, loads>>
  /\ Onward

Step == ResetReturns \/ kchar_available \/ ReadTicks \/ ReadChar

Next == Tick \/ RemoteBegins \/ (\E f \in Files : handle_load_command(f)) \/ Step \/ LoseChar

\* The timer ticks, and the CPU goes on executing.
Fairness == WF_vars(Tick) /\ WF_vars(Step)

Spec == Init /\ [][Next]_vars
FairSpec == Spec /\ Fairness

-----------------------------------------------------------------------------
(* Properties.                                                             *)

\* Types.
TypeOK ==
  /\ pit_ticks \in 0 .. MaxTicks /\ timed_out \in Nat
  /\ file \in Files \cup {<<>>} /\ {sending, lost, strayed} \subseteq BOOLEAN
  /\ line \in 1 .. Len(file) + 1 /\ col \in Nat \ {0} /\ hurt \subseteq 1 .. Len(file)
  /\ pc \in {"idle", "reset", "poll", "ticks", "start", "second", "garbage", "type", "count",
             "address", "data", "name", "sum", "rest"}
  /\ type \in Char /\ digits \in 0 .. 7 /\ value \in 0 .. AddressSpace - 1
  /\ count \in Byte /\ bad \in BOOLEAN /\ address \in 0 .. AddressSpace - 1 /\ left \in Byte
  /\ name \in Seq(Byte) /\ calculated_xsum \in Byte /\ res \in {"OK", "NOT_OK", "DONE"}
  /\ \A a \in DOMAIN mem : a \in Nat /\ mem[a] \in Byte
  /\ go_address \in Nat /\ program_name \in Seq(Byte) /\ loads \in 0 .. MaxLoads

\* What line i of the file says.
Kind(i) == file[i][2]
IsRecord(i) == file[i][1] = S
AddressOf(i) == NumberOf(file[i])
DataBytes(i) == DataCount(file[i])
DataOf(i) == [k \in 1 .. DataBytes(i) |-> DataByte(file[i], k)]

\* Its data are in memory.
Stored(i) ==
  \A k \in 1 .. DataBytes(i) : /\ AddressOf(i) + k - 1 \in DOMAIN mem
                               /\ mem[AddressOf(i) + k - 1] = DataOf(i)[k]

\* Is line i sure to be met at its beginning?  The record before it ends where its line does:
\* not damaged, nor a count record, whose address is read four digits too long (load_cmd.c:246).
InStep(i) == i = 1 \/ (i - 1 \notin hurt /\ ~(IsRecord(i - 1) /\ Kind(i - 1) = 5))

\* Damage does not spread: a data record that arrives whole, behind a line that did, is in memory
\* when its line is over, whatever happened to the lines before these.  (The exception is a name
\* read on past its line, as errors in a name are not looked at: of a name record that is damaged,
\* or of another that loses its type and has zeros where a name record's address is.)
Contained ==
  \A i \in 1 .. Len(file) :
    line = i + 1 /\ col = 1 /\ IsRecord(i) /\ Kind(i) \in Data /\ i \notin hurt /\ InStep(i) /\ ~strayed
      => Stored(i)

\* Nothing is stored but what a record of the file says, where it says, unless the record being
\* read is itself damaged: the data of a damaged one is in memory before its checksum is looked at.
StoresTheFile ==
  [][line \notin hurt' =>
       \A a \in DOMAIN mem' :
         \/ a \in DOMAIN mem /\ mem'[a] = mem[a]
         \/ /\ Kind(line) \in Data
            /\ \E k \in 1 .. DataBytes(line) :
                 a = AddressOf(line) + k - 1 /\ mem'[a] = DataOf(line)[k]]_mem

\* The go address is only ever that of a termination record of the file: a character altered in
\* one is found out by the checksum.  (But not one of the type, which the checksum does not cover,
\* nor one in a record that is not met at its beginning.  And a checksum that cannot be read
\* counts as 0, which a record with a character lost may match.)
GoesWhereTold ==
  [][go_address' # go_address =>
       \/ Kind(line) \in Termination /\ go_address' = AddressOf(line)
       \/ line \in hurt /\ (type # Kind(line) \/ ~InStep(line))
       \/ lost]_vars

\* The load ends: a remote that does not begin is given up, and a file that arrives whole, with
\* no count record in it, is read to its termination record.
HasCount == \E i \in 1 .. Len(file) : IsRecord(i) /\ Kind(i) = 5
LoadReturns == pc # "idle" ~> (pc = "idle" \/ hurt # {} \/ HasCount)

\* And has stored all of it by then, and remembered where to start.
LoadedWhole ==
  pc = "idle" /\ sending /\ hurt = {} /\ ~HasCount /\ line > 1 =>
    \A i \in 1 .. Len(file) :
      IsRecord(i) =>
        /\ Kind(i) \in Termination => go_address = AddressOf(i)
        /\ Kind(i) \in Data => Stored(i)
=============================================================================
