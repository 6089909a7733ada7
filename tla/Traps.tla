-------------------------------- MODULE Traps --------------------------------
(***************************************************************************)
(* What the monitor is entered by once it runs: system calls, from the     *)
(* library's functions (unistd and others) through syscall, the trap and   *)
(* trap0_handler to the monitor's function and back; and exceptions nobody *)
(* handles, from the frame the processor pushes to catch_exception's       *)
(* report.  Both find their way about a stack by fixed offsets, so the     *)
(* stack is modelled by its 16-bit words: a number is a word of its own,   *)
(* or one half of a long.                                                  *)
(***************************************************************************)
EXTENDS Integers, Sequences
LOCAL INSTANCE SequencesExt

CONSTANTS
  Real,       \* where a library function has a path made absolute
  UserErrno,  \* the address of the errno a system call fills in
  Pid         \* what getpid returns in a program, 2

Word(v) == <<[half |-> "none", of |-> v]>>
Long(v) == <<[half |-> "high", of |-> v], [half |-> "low", of |-> v]>>
Longs(vs) == FlattenSeq([k \in DOMAIN vs |-> Long(vs[k])])

\* What is read at an offset from sp: what was pushed there, or neither.
Neither == -99
Holds(stack, off, half) ==
  off % 2 = 0 /\ off \div 2 + 1 \in DOMAIN stack /\ stack[off \div 2 + 1].half = half
WordAt(stack, off) == IF Holds(stack, off, "none") THEN stack[off \div 2 + 1].of ELSE Neither
LongAt(stack, off) ==
  IF Holds(stack, off, "high") /\ Holds(stack, off + 2, "low") THEN stack[off \div 2 + 1].of ELSE Neither
LongsAt(stack, off, n) == [k \in 1 .. n |-> LongAt(stack, off + 4 * (k - 1))]
Popped(stack, bytes) == SubSeq(stack, bytes \div 2 + 1, Len(stack))

(***************************************************************************)
(* Exception frames, as the processor pushes them; e says what happened.   *)
(***************************************************************************)
Padding(words) == [k \in 1 .. words |-> Word(0)[1]]
Format(e) ==
  CASE e.fmt \in {0, 1} -> <<>>
    [] e.fmt = 2 -> Long(e.instruction)
    [] e.fmt = 9 -> Long(e.instruction) \o Padding(4)
    [] e.fmt = 10 -> Padding(1) \o Word(e.ssw) \o Padding(2) \o Long(e.fault) \o Padding(6)
    [] e.fmt = 11 -> Padding(1) \o Word(e.ssw) \o Padding(2) \o Long(e.fault) \o Padding(36)
Frame(e) == Word(e.sr) \o Long(e.pc) \o Word(4096 * e.fmt + 4 * e.vector) \o Format(e)

(***************************************************************************)
(* System calls.                                                           *)
(***************************************************************************)
BIOS ==
  [putchar |-> 0, getchar |-> 1, char_available |-> 2, exit |-> 3, ticks |-> 4, open |-> 5,
   close |-> 6, creat |-> 7, read |-> 8, write |-> 9, reset_ticks |-> 10, chdir |-> 11,
   getcwd |-> 12, malloc |-> 13, free |-> 14, getdents |-> 15, test |-> 16, seek |-> 17]

trap0_call_table ==
  <<"bios_putchar", "bios_getchar", "bios_char_available", "bios_exit", "bios_ticks", "bios_open",
    "bios_close", "bios_creat", "bios_read", "bios_write", "bios_reset_ticks", "bios_chdir",
    "bios_getcwd", "bios_malloc", "bios_free", "bios_getdents", "bios_test", "bios_seek",
    "bios_isatty">>

\* How many of the parameters the monitor's function has.
Arity(fn) ==
  CASE fn \in {"bios_ticks", "bios_reset_ticks"} -> 0
    [] fn \in {"bios_getchar", "bios_char_available", "bios_close", "bios_chdir", "bios_isatty"} -> 1
    [] fn \in {"bios_putchar", "bios_exit", "bios_open", "bios_creat", "bios_getcwd", "bios_malloc",
               "bios_free"} -> 2
    [] OTHER -> 3

\* d1 to d7 and a0 to a6, which the caller wants back.
Registers == [k \in 1 .. 14 |-> 500 + k]
ReturnAddress == 600
Trap0 == [fmt |-> 0, vector |-> 32, sr |-> 8192, pc |-> 700]

\* The function called with what, where errno is copied to, what registers the caller
\* gets back, and where it goes on; of a number out of bounds only the latter two.
trap0_handler(stack) ==
  LET saved  == Longs(Registers) \o stack
      number == LongAt(saved, 68)
      pushed == Longs(LongsAt(saved, 72, 3)) \o saved
      after  == Popped(pushed, 12)
      back   == [regs |-> LongsAt(after, 0, 14), pc |-> LongAt(Popped(after, 56), 2)]
  IN IF number \in 0 .. Len(trap0_call_table) - 1
     THEN LET fn == trap0_call_table[number + 1]
          IN  back @@ [fn |-> fn, args |-> LongsAt(pushed, 0, Arity(fn)), err_num |-> LongAt(after, 84)]
     ELSE back @@ [fn |-> "none"]
do_trap0(number, p) ==
  trap0_handler(Frame(Trap0) \o Long(ReturnAddress) \o Longs(<<number>> \o p \o <<UserErrno>>))

\* mem: the program's errno, and the monitor's.  what: what the function called
\* returns, and the errno it sets, if it fails.  A number out of bounds leaves
\* err_num what the stack had there (left).
syscall(mem, number, p, what) ==
  LET trap == do_trap0(number, p)
      kernel == IF trap.fn # "none" /\ what.errno # 0 THEN what.errno ELSE mem.kernel
      err_num == IF trap.fn # "none" /\ trap.err_num = UserErrno THEN kernel ELSE what.left
  IN [trap |-> trap, res |-> IF trap.fn = "none" THEN -1 ELSE what.result,
      mem |-> [kernel |-> kernel, errno |-> IF err_num # 0 THEN err_num ELSE mem.errno]]

\* The library's functions.  A path is made absolute first, where it can be.
Asks(name, p1, p2, p3) == [number |-> BIOS[name], p |-> <<p1, p2, p3>>]
putchar(c)              == Asks("putchar", 0, c, 0)
getchar                 == Asks("getchar", 0, 0, 0)
char_available          == Asks("char_available", 0, 0, 0)
ticks                   == Asks("ticks", 0, 0, 0)
reset_ticks             == Asks("reset_ticks", 0, 0, 0)
exit(code)              == Asks("exit", code, Pid, 0)
malloc(size)            == Asks("malloc", size, Pid, 0)
free(ptr)               == Asks("free", ptr, Pid, 0)
open(flags)             == Asks("open", Real, flags, 0)
creat(pathname, mode)   == Asks("creat", pathname, mode, 0)
close(fd)               == Asks("close", fd, 0, 0)
chdir                   == Asks("chdir", Real, 0, 0)
getcwd(buf, size)       == Asks("getcwd", buf, size, 0)
read(fd, buff, count)   == Asks("read", fd, buff, count)
write(fd, buff, count)  == Asks("write", fd, buff, count)
getdents(fd, dirp, count)  == Asks("getdents", fd, dirp, count)
lseek(fd, offset, whence)  == Asks("seek", fd, offset, whence)
Library(fn, a) ==
  CASE fn = "putchar" -> putchar(a[1])     [] fn = "getchar" -> getchar
    [] fn = "char_available" -> char_available
    [] fn = "ticks" -> ticks               [] fn = "reset_ticks" -> reset_ticks
    [] fn = "exit" -> exit(a[1])           [] fn = "malloc" -> malloc(a[1])
    [] fn = "free" -> free(a[1])           [] fn = "open" -> open(a[2])
    [] fn = "creat" -> creat(a[1], a[2])   [] fn = "close" -> close(a[1])
    [] fn = "chdir" -> chdir               [] fn = "getcwd" -> getcwd(a[1], a[2])
    [] fn = "read" -> read(a[1], a[2], a[3])
    [] fn = "write" -> write(a[1], a[2], a[3])
    [] fn = "getdents" -> getdents(a[1], a[2], a[3])
    [] fn = "lseek" -> lseek(a[1], a[2], a[3])
Returned(fn, a, res) ==
  CASE fn = "putchar" -> a[1]
    [] fn = "getcwd" -> IF res = 0 THEN 0 ELSE a[1]
    [] OTHER -> res
call(mem, c) ==
  IF c.fn \in {"open", "chdir"} /\ ~c.resolves
  THEN [trap |-> [fn |-> "none"], res |-> -1, mem |-> mem]
  ELSE LET asks == Library(c.fn, c.args)
           made == syscall(mem, asks.number, asks.p, c.what)
       IN  [made EXCEPT !.res = Returned(c.fn, c.args, @)]
Calls(cs) ==
  LET after[n \in 0 .. Len(cs)] ==
        IF n = 0 THEN [mem |-> [kernel |-> 0, errno |-> 0]] ELSE call(after[n - 1].mem, cs[n])
  IN  [n \in DOMAIN cs |-> after[n]]

(***************************************************************************)
(* Exceptions.                                                             *)
(***************************************************************************)
Times(n, name) == [k \in 1 .. n |-> name]
exception_names ==
  <<"Reset: initial SSP", "Reset: initial PC", "Bus error", "Address error", "Illegal instruction",
    "Divide by zero", "CHK/CHK2", "TRAPcc/TRAPV", "Privilege violation", "Trace", "Line A emulator",
    "Line F emulator", "", "Coprocessor protocol violation", "Format error", "Uninitialized interrupt">>
  \o Times(8, "") \o <<"Spurious interrupt">> \o Times(7, "Autovector interrupt") \o Times(16, "TRAP")
  \o <<"FPU branch/set on unordered", "FPU inexact result", "FPU divide by zero", "FPU underflow",
       "FPU operand error", "FPU overflow", "FPU signaling NaN", "", "MMU configuration error">>
  \o Times(7, "")

\* A slip the properties must notice: the two frames of bus cycles are taken for one another.
BusFramesSwapped(fmt) ==
  CASE fmt \in {0, 1} -> 8 [] fmt = 2 -> 12 [] fmt = 9 -> 20 [] fmt = 10 -> 92 [] fmt = 11 -> 32
    [] OTHER -> 0
frame_size(fmt) ==
  CASE fmt \in {0, 1} -> 8 [] fmt = 2 -> 12 [] fmt = 9 -> 20 [] fmt = 10 -> 32 [] fmt = 11 -> 92
    [] OTHER -> 0

Bit(word, b) == (word \div 2^b) % 2
SR_SUPERVISOR == 13
SSW_FC == 15
SSW_FB == 14
SSW_DF == 8
SSW_RW == 6

\* What catch_exception makes of the stack it is shown, which begins at address sp:
\* the user's stack pointer, fifteen registers, the frame.
catch_exception(context, sp) ==
  LET f    == Popped(context, 64)
      fv   == WordAt(f, 6)
      fmt  == fv \div 4096
      vec  == (fv % 4096) \div 4
      size == frame_size(fmt)
      ssw  == WordAt(f, 10)
      name == IF vec >= 64 THEN "User-defined vector"
              ELSE IF exception_names[vec + 1] = "" THEN "Unassigned/reserved" ELSE exception_names[vec + 1]
  IN [name |-> name, vec |-> vec,
      number |-> IF vec \in 25 .. 31 THEN vec - 24 ELSE IF vec \in 32 .. 47 THEN vec - 32 ELSE -1,
      pc |-> LongAt(f, 2), sr |-> WordAt(f, 0), supervisor |-> Bit(WordAt(f, 0), SR_SUPERVISOR) = 1,
      instruction |-> IF fmt \in {2, 9} THEN LongAt(f, 8) ELSE -1,
      data |-> IF fmt \in {10, 11} /\ Bit(ssw, SSW_DF) = 1
               THEN <<IF Bit(ssw, SSW_RW) = 1 THEN "read" ELSE "write", LongAt(f, 16), ssw % 8>> ELSE <<>>,
      fetch |-> fmt \in {10, 11} /\ (Bit(ssw, SSW_FB) = 1 \/ Bit(ssw, SSW_FC) = 1),
      dregs |-> LongsAt(context, 4, 8), aregs |-> LongsAt(context, 36, 7), usp |-> LongAt(context, 0),
      ssp |-> IF size > 0 THEN sp + 64 + size ELSE -1]

\* e.regs: d0 to d7 and a0 to a6; the stack ends at address e.ssp.
_not_handled(e) ==
  LET context == Longs(<<e.usp>> \o e.regs) \o Frame(e)
  IN  catch_exception(context, e.ssp - 2 * Len(context))
=============================================================================
