# MicroMon: specification, model checking and proofs

MicroMon is the boot monitor of the Mega-Micros SBC-3 (a 68030 board): a program in ROM that
initialises the hardware, offers a command line on a serial port, loads and runs user programs,
and serves their system calls. This directory holds TLA+ models of its parts, the TLC runs that
check them on small instances, and proofs of what holds for every instance.

Paths below are relative to the repository's `src/`.

## The system

One CPU runs one program at a time: the monitor's command loop, or a user program started by
`go`, which calls back into the monitor through `trap #0`. The only concurrency is between that
program and two interrupt handlers (DUART receive, PIT tick), and with the hardware outside the
CPU. There is no preemption other than interrupts, no locking other than `LOCK`/`UNLOCK`
(interrupts masked and restored), and nothing is persisted.

| Component | State | Operations | Interacts with |
|---|---|---|---|
| Serial driver, receive (`lib/machine/duart.c`) | per channel: ring buffer, two indices, count, RTS flag | `duart_irq_handler`, `bios_getchar`, `setup_duart` | the chip and remote ends; every reader of characters |
| Serial driver, transmit, lines, baud (`duart.c`) | mode and clock registers shared by the channels | `bios_putchar`, `bios_gets`, `bios_set_baud` | the command interpreter, `ser1`/`ser2` commands |
| Heap (`micromon/heap.c`) | free list, allocated list, counters, all in the heap's own headers | `bios_malloc`, `bios_free`, `clean_heap` | user programs, `bios_exit` |
| Virtual filesystem (`lib/machine/filesystems.c`) | 20 descriptors, 4 mounts, 6 drivers, the current directory | open, close, read, seek, chdir, opendir | libc streams above, ext2 and the DUART driver below |
| ext2 (`lib/machine/ext2fs/`) | one block buffer per mount, a block follower per file | mount, search, open, read, seek | block devices |
| Block devices, CF driver (`block_devices*`, `cf.c`, `_cf.asm`) | device table; the card's registers | read a block; wait loops | ext2 |
| I2C, DS1307, SH1107 (`micromon/i2c.c`, `ds1307.c`, `sh1107.c`, `rtc_cmd.c`) | two open-drain lines; the clock's registers; a frame buffer | start, stop, read/write byte; read/write time; draw, display | `rtc` commands, start-up banner |
| S-record loader (`load_cmd.c`) | running checksum, `go_address`, `program_name`, memory | `load` | the serial port, `go` |
| Programs (`go_cmd.c`, `bios_calls.c`, `trap0.asm`) | `go_env`, `go_address`, `errno`; stream and directory tables | go, exit, 19 system calls | heap, files |
| Start-up (`mon_crt0.asm`, `rom_sum.asm`, `ram_test.asm`, `setup.c`, `exceptions.c`) | which devices there are; the vectors | reset, set-up, the report of an exception | every driver |
| Timer (`pit.c`) | `pit_ticks` | tick, ticks, reset, idle | `load`'s timeout |
| Commands (`main.c`, `expr.c`, `dump_cmd.c`, `disasm_cmd.c`, ...) | the line, what dump and disassemble go on from | one command after another | all of the above |
| C library (`lib/`) | streams, `errno` | paths, numbers, dates, streams | system calls |
| HD63484 display (`tests/acrtc/`) | the chip's FIFOs and registers; a text context | configure, draw, write text | the chip |
| MMU library (`programs/mmutest/`), ELF lister (`elftools/`) | tables in memory; a file | build tables; list | the processor; a host |
| Programs beside the monitor (`programs/m680x0dis`, `testtool`, `farmhouse`) | a file; an address, a window, a mounted disk; a game | list a file; dump, evaluate, show; play a line | the monitor's library and drivers, copied |

### What is hard, and what makes each part correct

* **Serial receive.** The handler and `getchar` share a ring and a count with only a short masked
  section between them, and both drive RTS, with tests for equality with a water mark. Correct: no
  character is lost for want of room, duplicated or reordered; a remote that was stopped is
  started again; `getchar` returns when there is something to return.
* **Heap.** All bookkeeping is in the heap itself and outlives the items it described. Splitting and
  merging must keep sizes, links and counters in step. Correct: the items tile memory, callers never
  share any, `free` acts on what its caller holds and nothing else, `exit` reclaims exactly one
  process's items.
* **Files.** Errors half way through an operation leave state behind (a descriptor, a mount pointer,
  a block in a buffer), and one block buffer serves several purposes. Correct: reads deliver the
  file's bytes in order and then end; descriptors are neither leaked nor shared.
* **I2C.** A protocol on two wires, driven access by access, with a slave that may hold one of them
  or stop answering. Correct: nobody drives a line high, starts and stops are where they are meant,
  and a clock that answers is read and written as its registers are.
* **Loader, programs.** Errors discovered after their effects; codes that change meaning on the way.
  Correct: damage spreads no further than the line behind it; nothing is stored or started that the
  file does not say; a program's descriptors are accounted for when it has ended.
* **Start-up.** Code that runs before there is RAM, tested by nothing but the board. Correct: a
  damaged ROM and faulty RAM are noticed; devices are found before they are used.
* **Display.** A chip that takes words when it likes and is only polled. Correct: no word is lost,
  every call returns, and the words on its FIFO are those of the call.
* **Functions with much arithmetic** (opcodes, expressions, paths, pixels, registers). Correct: what a
  definition that shares nothing with them says.

PROJECT.json lists every hazard at its line with the properties that cover it. Two have none: closing
a descriptor that is not open (`filesystems.c:378`), which is a fault in `Monitor`, and searching a
directory block that could not be read (`e2search.c:84`), which `Vfs` models with every outcome and
promises nothing about.

## Modules

State machines:

| Module | Models | Proved about in |
|---|---|---|
| `SerialFifo` | what the receive driver promises: a bounded FIFO per port that closes at the high mark and opens at the low one | |
| `Duart` | the receive side of `duart.c` | `DuartProofs` |
| `Heap` | `heap.c` and the heap's part of `bios_exit` | `HeapProofs` |
| `Ext2`, `Vfs`, `MCVfs` | the ext2 reader's operators; the descriptor table over one mounted filesystem; a small disk for it | `VfsProofs` |
| `ClockRegisters` | what `ds1307.c` promises: a file of registers, read and written a run of bytes at a time | |
| `I2c`, `MCI2c` | the bus, access by access, with a clock and a display on it | `I2cFraming`, `I2cRefinement` |
| `Loader`, `MCLoader` | the load command, character by character, with the timer | `LoaderProofs` |
| `Monitor` | the life of programs and what they leave open | `MonitorProofs` |
| `FrameBuffer` | what the HD63484 driver promises: a memory behind one call at a time | |
| `Acrtc`, `MCAcrtc` | the driver's command FIFO protocol against the chip | `AcrtcProofs` |

Functions, all called by `Algorithms` and `MCAlgorithms`, with the definition each is compared with:

| Module | Models | Compared with |
|---|---|---|
| `Disassembler` | `disasm_cmd.c`: which instruction an opcode is, its words, the command | `M68030`, the instruction set by its fields; the program that was put in memory |
| `Expression` | `expr.c`: lexer, parser, evaluation | `Arithmetic`, a grammar and its meaning |
| `Paths` | `realpath`, `dirname`, `basename`, `find_mount`, `chdir`, `bios_open`'s way to a mount point | a walk along the parts, in the same module |
| `Disks` | `bd_init`, `vfs_init`, mounting ext2, finding inodes, the CF driver's waits, partition tables | what is on the media |
| `Commands` | line editing, the command table, splitting, dump, eval, ser, rtc | what is on the screen and what its words ask for, in the same module |
| `BaudRates` | the tables and registers of both channels | the rates asked for |
| `StartUp` | ROM checksum and its tool, RAM test, copying and clearing, RAM size | faults of the board |
| `SetUp` | `setup.c`, `detect.c`, `safeio.c`, vectors, in their order | what is plugged in |
| `Traps` | system calls through library, trap and table and back; exceptions from frame to report | the call that was made, the exception that happened |
| `Numbers` | `vsnprintf`, `vsscanf`, `strtol`, `itoa`; `gmtime_r`, `asctime_r` | what the text is worth; days counted by leap years |
| `Panel` | `sh1107.c` | characters placed a point at a time |
| `AcrtcConfig` | `hd63484.c`'s configurations and registers | what the registers show, in the same module |
| `AcrtcText` | `hd63484_text.c` | `GlassTerminal`, characters painted a point at a time |
| `Mmu` | `mmu.h`, `mmu.c`, the paged example, and the 68030's table walk (external) | the page an address names |
| `Elf` | `elf.c`, `ed.c` on a host of either byte order | the file as it was made |
| `M680x0dis` | `m680x0dis/main.c`, the disassembler of files | the instructions the file was made of |
| `TestTool` | `testtool/`: lines, dumps, expressions, the clock's memory, superblock, groups, inodes, blocks | what is in memory, in the clock and on the disk |
| `Farmhouse` | `farmhouse.c`, a game | what a player needs to have done, in `Algorithms` |

### Duart

| Model | Code |
|---|---|
| `rx_buff`, `rx_insert`, `rx_remove`, `rx_count`, `rts_asserted` | `struct kduart_port`, one per port |
| `rts[p]` | the output pin written through `duart_opr_set`/`duart_opr_reset` |
| `led` | output bit 0x40, the receive error LED |
| `masked` | the interrupt mask of SR between `LOCK` and `UNLOCK` |
| `pc`, `port`, `ch`, `cnt` | the program's position in `buffered_rx_char` and its registers |
| `fifo`, `overrun`, `over`, `Arrive` | external: the chip's FIFO and overrun bit, the remote end's overshoot after RTS drops |
| `InitChannel`, `EnableInterrupts` | `init_duart_channel` for B then A, the write to `duart_imr` |
| `Irq` | `duart_irq_handler`: one character of each channel that is ready |
| `Getchar`, `SeeCharacter`, `Lock`, `Fetch`, `Store`, `Unlock` | `bios_getchar`, the spin, and the critical section, with `rx_count--` as the load and the store it is |

The handler is one step: it runs with its own interrupt level masked, and the program cannot run
in the middle of it. The program's critical section is several steps because only `LOCK` keeps the
handler out; dropping `LOCK` (a mutant) loses characters. Interrupts are only let in by channel A's
receiver (`Imr`), and once in the handler serves both.

Bounds. RX_BUFFER_SIZE is 16 in the code, with marks 10 and 2; `DuartLive` uses 4/2/1 and
`DuartPortB` 5/3/1, the smallest with room between the marks, above and below them, and with an index
wrap inside every combination. FIFO_DEPTH is 3 on the 68681; 2 gives empty, full and in between. SLACK, the
characters a remote sends after RTS drops, is 1. `MarginAssumption` ties them: the code's 16/10 with
a FIFO of 3 leaves a slack of 4. `DuartLive` has both ports sending, characters damaged and lost to
overrun, and port A read, with a FIFO that is served in time (`Timely`): after an overrun the driver discards
everything (see findings), and `getchar` would wait for ever. All characters are alike there, so that
the run ends; that different characters keep their order is what `DuartProofs` proves.

Fairness. The CPU keeps executing (weak fairness of set-up and of the steps of getchar), and a
pending interrupt is level-triggered, so it is taken at the first unmasked moment (strong
fairness, as the program masks and unmasks for ever). The program keeps coming back to read, as
the command loop does. Nothing is assumed of the remote end.

### Heap

Memory is a map from addresses to the header last written there, so a header survives its item,
as it does in memory. `heap` is the memory, the two list heads and the two counters; `held` is what
the callers were given and have not given back; `damaged` says that an item was unlinked through a
link that does not lead back to it. Every operation of `heap.c` is an operator with the code's name;
`Malloc`, `Free` and `Exit` are the system calls, which run to the end without interruption.
`Free` takes any address and any process, so double frees, frees of swallowed items and frees of
other processes' items are all in. Address `NULL` is part of memory because `insert_in_allocated`
writes there when the allocated list is empty. The loops along a list are recursive functions: `Walk`
is where a loop stands after so many links, and what a loop finds is the least such number with a property.

Bounds. 11 units of heap with 1-unit headers and requests of 1 and 3 units by two processes: up to
five items, so an item can be freed at the head, between two free ones, between a free and a held
one, and at the tail; splits with and without a surplus. Deadlock is not checked: a damaged heap
ends the behaviour by design.

After the first step through a stale link the model stops (`damaged`), because from there on the
code writes through pointers that mean something else; `HeapStaleLink` shows that it happens, and
`HeapSound` shows what holds until then.

### Ext2 and Vfs

| Model | Code |
|---|---|
| `file` | `vfs_files`; `buffer` is the block the descriptor's buffer was filled from |
| `mp` | the mount point's `block_buffer`, `block_num_in_buffer`, `block_in_buffer_valid`, and in `holds` the block the bytes came from |
| `search` | what `ext2_open` and `e2_search` hold on the stack |
| `user` | not in the code: what the descriptor's user asked for, where it expects its next byte, and whether it got the right ones |
| `i_block`, `i_size`, `inode_table`, `entries`, `indexes` | the disk, as constants: the monitor mounts read-only |
| `ReadFsBlock`, `NextBlock`, `StartOf`, `SetUp` | `ext2_read_fs_block`, `ext2_get_next_block_num`, `ext2_reset_block_follower`, `ext2_init_block_follower` |
| `OpenForWriting`, `Open`, `SearchRoot`, `SearchBlock`, `OpenFound` | `bios_open` with `ext2_open` and `e2_search` inlined, a step per block |
| `ReadBuffered`, `ReadNext` | `bios_read`, without and with a call of `ext2_read` |
| `SeekNear`, `SeekFar` | `bios_seek` with `ext2_seek` and `seek_to` |

A block is known by its number, a byte by its block and index, and what a buffer holds by where it
came from, which is all that is needed to tell whether a program reads the right file. A read of the
device may fail at any point, leaving `Junk`; a directory block that is not one (or is `Junk`) may
match any name, none, or be searched for ever (`hung`, which is why deadlock is not checked).
`bios_open` hands the descriptor out whatever the filesystem answered, so the model's descriptors
include those of failed opens, with what their last user left in them. Promises are made to `clean`
users only: those whose name exists and none of whose reads failed.

`DiskAssumption` and `SizesAssumption` say what disks are covered: files end within the single indirect block,
and the root directory's blocks come before its first hole. Double and triple indirect blocks are
refused by the code itself (`e2blocks.c:155-162`), and come back as holes. At boot nothing is open:
the three opens of `//ser1` and `//ser2` find no mount point of that name and fail
(`filesystems.c:184-194`).

Bounds. One direct block number in an inode (12 in the code), two numbers in an indirect block (512)
and two bytes in a block (2048): a root directory with a block on either side of the indirect block,
and a file of three bytes that starts with a hole and ends in the middle of an indirect block. Two
descriptors, which are reused and compete for the mount point's buffer; reads of one byte and of
three, so that a block is read in pieces, exactly and in excess; one of the descriptors may seek.

### I2c and ClockRegisters

| Model | Code |
|---|---|
| `ddr`, `latch` | PCDDR and PCDR of the 68230, the two bits of the bus |
| `routine`, `at`, `byte`, `bit`, `nack` | the routine of `i2c.c` being executed and its locals |
| `call`, `stage`, `done`, `buf`, `ret` | `ds1307_read`, `ds1307_write`, `sh1107.c`'s bursts, the probes |
| `slave`, `regs` | external: the devices, and the clock's registers |
| `Access` | one access of the CPU to a register of the port (`Clear`, `Drive`, `Release`, `Sample`, `Await`) |
| `Begin`, `Continue`, `Return`, `Reject` | the calls above `i2c.c`, a step for each routine they call |

A line is low when anyone drives it low; devices react to edges. A device may refuse to answer at any
byte, and may hold the clock line at any `Await`; `LetGo(d)` is weakly fair, as the master waits
without a limit (a device that never lets go hangs the monitor). The instance has bytes of three bits, a clock
of three registers and a display: reads within, up to and past the last register and of a register
there is not, writes that wrap behind the last, bursts, probes. `Refines` hides the whole bus: the clock
is a `ClockRegisters`.

### Loader

Every character is a step, from the wait for the console (with `timed_out`, a count of `pit_ticks`
that the timer moves on) through record type, count, address, data and checksum to the end of the
line. The remote sends one of three files with every record type, lines that are no records and both
line ends; up to two of their lines are damaged by a character that is altered or lost. `BASE` is the number of
hexadecimal digits there are, 10 instead of 16; a byte is two of them. Fairness: the CPU executes and the timer ticks;
nothing is assumed of the remote, so `LoadReturns` speaks of files sent to their end.

`FilesAssumption` says what a file is: each line (`WellFormed`) is a record with all the digits its count asks for
and an address that does not wrap (`WholeRecord`), or something that does not look like one (`NoRecord`); an S or a
carriage return is only where a line begins or ends; areas do not overlap, and a termination record is last and has
the right checksum (`Consistent`). Data records may have wrong checksums, as nothing depends on them. Three
variables are not in the code: which lines were altered (`hurt`), whether a character was lost (`lost`), and whether
a line ended while a name was being read (`strayed`).

The properties have exceptions, each of them something the code does:

* `Contained` is not promised behind a count record, which is read four digits too long (a finding), nor once a name
  has strayed: errors in the digits of a name are not looked at, so a name goes on into the following lines, as many
  as its bytes need. A record that loses its type and has zeros where a name record has its address is such a name.
* `GoesWhereTold` is what the checksum gives: a termination record with one character altered is found out, wherever
  that character is. But the checksum does not cover the type, with which the number of digits of the address
  changes; a record that is not met at its beginning (the newline before it altered to an S, its own S to a digit) is
  read one character on, and with the right digits its checksum fits again; and a checksum that cannot be read is taken for 0, which the sum of a record
  that lost a character may ask for.

### Monitor

Who has the processor, which descriptors are open, and who holds each: a stream or directory of one
of the two copies of the C library (the monitor's lives on, the program's is cleared by `crt0`), a variable
of the program, or nobody any more (`left`). Programs open, close, fault and exit with any code; the
monitor's own `cat` and `dir` commands run in between. Three descriptors, two streams, one
directory and codes 0 to 2 let every table run out. `MonitorProofs` is for any size.

### Acrtc and FrameBuffer

A call is a list of operations (wait for a bit of the status register, write or read a word) made
from `hd63484.c`; `Execution` does the next, and the chip, which is external, begins and finishes commands
whenever it likes or never. A wait gives up after `POLL_LIMIT` readings; then words of the call
may be in the FIFO, so nothing is promised until the program aborts the chip (`lost` in `FrameBuffer`), and a
call that failed may be tried again. `FrameBuffer` promises one of the chip's registers, CL0 (`Register`), which is
`Settled` when the words that wait have been taken. `NeverSlips` says that no word is written to a full FIFO or taken
from an empty one, even then. `Callable` are the calls of `hd63484.h` with arguments as wide as C has them;
a program makes those of `Calls`. Two readings, FIFOs of two words (the chip's hold 8) and three words of memory with
rasters of two; only the CPU is fair.

### Algorithms

`call` is a function and its input, any of those `MCAlgorithms` lists; one step puts what the function
returns into `result`. These functions run without anybody in between, so nothing is lost by making
each one step, and the comparison is an invariant. Where a function goes wrong the invariant leaves
exactly those inputs out and says so, and the finding is in PROJECT.json. The inputs:

| Functions | Inputs |
|---|---|
| disassembler | all 65536 opcodes; every extension word for those with an index |
| listing | programs of up to four instructions of one to four words in a memory of 64 bytes, up to three commands, refused ones among them |
| evaluator | longs of 6 bits; all texts of up to 5 of 7 symbols and up to 4 of 10; chains of two operators with and without parentheses; names |
| paths | all paths of up to five parts of six kinds, from every directory, with two mounts |
| mounting | ROM disks and pairs of cards: present or not, one, three or ten groups, wrong superblocks, any of some blocks unreadable, little memory |
| commands | every abbreviation of every command and slips of it, all short lines with backspaces, sessions of up to three lines |
| rtc | clocks at the end of a second, up to midnight on New Year's Eve; halted; answering neither, one or both; up to three arguments |
| baud rates | all pairs of calls of 21 rates and both channels, both chips and clocks |
| start-up | ROMs of three longs of 3 bits with one changed; every single fault of an 8 by 16 RAM; vectors and data of every length |
| set-up | every set of five devices, boards that end an access nobody answers or do not, a display that fails, 64 jumper settings |
| system calls | every pair of 17 calls with four outcomes, and sequences of open, read and close |
| exceptions | every vector in formats 0 and 1; formats 2 and 9; bus faults with every status |
| numbers, dates | all conversions of all numbers of 6 bits and of pairs; every day of 1970-73, 1999-2001, 2024 and 2037 |
| OLED display | 4 by 6 points; texts of up to 6 characters, two fonts, each byte of the bus refused |
| HD63484 text | words of 4 bits, surfaces of 6 by 7 pixels of 1, 2 and 4 bits in both orders, strings of up to 3 of 6 keys, settings changed between, any x |
| HD63484 registers | every format; timings and every field at the ends of the registers; splits and windows; pairs of later changes |
| translation | pages of 32 KB, 4 KB and 256 bytes, one to four levels, windows, protection, missing pages; 48 addresses by 4 function codes, read and written |
| ELF | real structures; both hosts; every type; flags up to pairs; files cut at every length; each byte of the identification damaged |
| files disassembled | four instructions of any kind, cut off by up to one instruction's words, options in any order, names missing and unknown |
| partition tables | four entries of up to two sectors in two orders with and without gaps, unreadable, unsigned; two cards |
| diagnostic tool | three dumps in a row, every other command and slips of it, erasures, on boards that are sound and others; a disk of two groups with bad blocks |
| game | a game that is won, and what becomes of it with any line left out, moved, added or waited before; games played again |

The sizes are chosen so that each boundary (a register, a word, a page, a level, a column, the
window of a dump) is met from both sides.

## Runs

| Run | Properties | Shows |
|---|---|---|
| `duart_live` | `RingConsistent`, `FlowControl`, `RoomForAll`, `Refines`, `RtsReopens`, `GetcharReturns` | the driver implements `SerialFifo`; a stopped remote is started again; getchar returns |
| `duart_port_b` | violation of `GetcharReturns` | `getchar(1)` never returns on a port whose receive interrupt is not enabled |
| `heap_sound` | `Tiling`, `CallersServed`, `FreesWhatIsHeld`, `ExitReclaims` | the lists tile the heap up to the first stale link |
| `heap_stale_link` | violation of `FreeListSound` | the free list comes to hold an allocated item |
| `vfs_reads` | `MountBufferSound`, `OpensWhatIsNamed`, `DeliversFile`, `NothingCutOff` | a descriptor is on the right file and delivers it, with a device that fails |
| `vfs_eof` | violation of `StopsAtEnd` | a file read in pieces is delivered past its end |
| `vfs_seek` | violation of `SeeksLand` | after a successful seek the bytes of another place are read |
| `i2c_clock` | `NeverDrivesHigh`, `Framed`, `Refines`, `CallReturns` | the bus's protocol; the clock is a `ClockRegisters` |
| `loader_damaged` | `Contained`, `LoadedWhole`, `StoresTheFile`, `GoesWhereTold`, `LoadReturns` | damage does not spread; only what the file says is stored, and started unless the damage cannot be seen |
| `monitor_files` | `Accounted`, `ArgsPassed`, `ExitComesHome` | descriptors are accounted for, arguments arrive, go returns with the code |
| `acrtc_commands` | `NeverSlips`, `Refines`, `CallReturns` | the display driver implements `FrameBuffer`, and no wait is for ever |
| `algorithms` | `NamedRight`, `EvaluatesRight`, `PathsResolve`, `MountsWhatIsThere`, `LinesObeyed`, `StartsSound`, `NumbersReadBack`, `ScreenShowsText`, `ChipSetAsAsked`, `TrapsServed`, `MapsTranslate` | every function of `Algorithms` does what its definition says |

Some of the last have named parts: `NamedRight` those of the listing, of files and of ELF files (`ListingFollows`,
`FileListed`, `ElfListed`), `LinesObeyed` those of the rtc command, the game and the diagnostic tool (`ClockObeys`,
`GamePlayed`, `Diagnosed`), `StartsSound` the set-up's (`SetUpSound`),
`NumbersReadBack` the dates' (`DatesRight`), `ChipSetAsAsked` the baud rates' (`RatesSet`), `ScreenShowsText` the OLED display's (`PanelShowsText`),
`MountsWhatIsThere` that inodes are found (`InodesFound`) and partitions read (`PartitionsRead`). Deadlock is not checked where a function returns
once, a remote may stop sending, or the code itself ends the behaviour.

Each property of a passing run has a mutant: a plausible slip in the code's operators, kept beside
the operator it would replace, under which the property fails.

## Proofs

`DuartProofs` proves `Spec => []TypeOK`, `[]RingConsistent`, `[]FlowControl` and `[]RoomForAll` for
every buffer size, pair of marks, FIFO depth, slack and character set that `MarksAssumption`,
`HardwareAssumption` and `MarginAssumption` allow (the first two say the constants are natural
numbers and the marks ordered; the third is what the comment in the handler means by the sending
side not ignoring RTS).

None of the four is inductive alone. `IInv` adds: interrupts are masked exactly in the critical
section (`MaskInv`); having seen a character the program still finds it, and the count it loaded is
still the count when it stores it (`ReaderInv`, which is what `LOCK` is for); a channel not yet set
up is silent (`SilentInv`); with RTS dropped, what is buffered, what the chip holds and what the
remote may still send fit together in the buffer (`RoomInv`). There is one lemma per action (the
steps of getchar that touch neither ring nor chip share one), and what the handler does to one
port is stated first (`FifoEffect`, `BuffEffect`, `CountEffect`, `RtsEffect`) so that the arithmetic
is about a single port.

`VfsProofs` proves `Spec => []TypeOK`, `[]MountBufferSound`, `[]OpensWhatIsNamed`, `[]DeliversFile` and
`[]NothingCutOff` for every disk that `DiskAssumption`, `SizesAssumption` and `RootAssumption` allow
(well-formed tables and directory; files that end in the single indirect block, as far as the code
goes), every number of descriptors, block size and set of read lengths and offsets, and a device
that may fail at any read. Its `IInv` says of each descriptor with a clean user who has not seeked
(`InStep`): within the file, either its buffer is used up and the follower is at the block wanted next
(`BufferUsedUp`), or the buffer is that block, the index is at the byte wanted next, and the follower
is one block on (`BufferAtPlace`). `DeliversFile` alone says nothing of the next read. For
`OpensWhatIsNamed` the search must know what it has looked through (`LookedThrough`): when it comes
to the hole behind the last block without having met an unreadable one, the name is in no block. The
lemmas go from the buffer (`ReadFsBlockSound`) and the follower (`NextBlockInOrder`: one step on from block k
is block k + 1) over places (`OffsetAfter`, `FollowersBlock`) and the copy (`CopySteps`, shared by the
read that fills the buffer and the one that does not) to one lemma per action.

`DuartProofs` proves `Spec => Refines` over the same invariant: every step of `Duart` is a step of
`SerialFifo` or leaves it alone. A port's queue is what lies between its two indices; an interrupt
appends to the queues of the channels it serves (`Accept`), `Fetch`, not `Store`, is where getchar takes
its character (`Take`), and a channel being set up or a count that comes down to the low mark opens a
queue (`Open`). This is the order of characters, which the run does not tell apart.

`MonitorProofs` proves `Spec => []TypeOK`, `[]Accounted`, `[]ArgsPassed` and `ExitComesHome` for every size of the
tables and every set of codes. `Accounted` is a statement about a sum of sets of tuples; the inductive
invariant (`FileTypes`, `RunTypes`, `EachUsedOnce`) says the same of each descriptor: it is open as
long as exactly one stream, directory or variable has it, or a program left it.

`I2cFraming` proves `Spec => []NeverDrivesHigh` and `Spec => Framed` for every width of a byte, every set of calls
and every set of devices. That the latch of a driven line is low is not inductive, as a line becomes an output one
access after its latch was cleared: `DriveIsSafe` says the latch is low wherever the next access drives the line,
which follows from the order of accesses in every routine (`Careful`, closed under concatenation).
For `Framed`: SDA is everyone's, as an acknowledgement is a device that holds it, and a
byte read is what a device makes of it. So `FInv` says where the devices are (`InPhase`): for every
access of every routine, what the port drives, whether the clock is high, and how many bits of a byte each
device has heard, sent or acknowledged, unless it has dropped out, which it may anywhere (`Off`). `Control`
ties routines to the parts of a call and to the bits of the byte: whether a device is to send after its
address is the last bit it heard, which must be the one the master sent (`AllTold`). What one device does
at one edge (`FallsFrom`, `RisesFrom`) gives what all do (`FallTogether`, `RiseTogether`), then a lemma
per routine (`...Goes`) and one for what follows it (`...Keeps`). That a device holds the clock matters only
where the master awaits it, so `LetGo` disturbs nothing else.

`I2cRefinement` proves `Spec => Refines` on top of that: the calls of `ds1307.c`, bit by bit, are those of
`ClockRegisters`. All steps of the bus are stuttering but two, the falling edge at which the clock
acknowledges a data byte (`Store`) and the one at which the device called first does not answer (`Fault`). To know
that they are the right steps, and that the answer is right in the end, `RInv` follows the byte over the wire:
what a device has heard after k pulses is the byte's first k bits (`HeardRight`), which are what the stage of the
call asks for (`BytesRight`); whoever has another address is out by the end of it (`OthersOut`); the master's `nack`
is the device's refusal (`FaultKnown`); the clock's pointer is at the register after the bytes stored or sent
(`StoredRight`, `PointerRight`, `SentRight`), and what was read is what it sent (`ReadRight`). Every conjunct is an
invariant of the instance `i2c_clock` (TLC) before it is proved. An edge of the bus is one of five things
(`Edge`: a rise, a fall, a start, a stop, or nothing the devices see); a `...Kept` lemma takes each part of `RInv`
through them, a `...Refines` lemma through each step of the driver, and the `...Maps` lemmas say which step of
`ClockRegisters` each is. Shifting is division by a power of two with a variable exponent, of which the backends know
nothing: `Pow2` is a recursive function, `Pow2Is` shows that it is one by the well-foundedness of the numbers,
and `DivisionIs` and `Halves` that a byte is its first bits, doubled, and one more. The assumptions are those of the module
(addresses differ, calls are made as the code makes them, `NoneAssumption`: no request is the absence of one).
The same invariants give `[]TypeOK` of `I2c`, with `TypeInv`: what a device has heard fits in the pulses it has counted
(`Sized`), without which nothing bounds the byte it stores or points with.

`HeapProofs` proves `[]TypeOK`, `[]Tiling`, `[]CallersServed` and the action properties
`FreesWhatIsHeld` and `ExitReclaims` for every size of heap, header and smallest payload and all requests. `IInv`
is that an undamaged heap is `Sound` with some set of free and some set of allocated items and some
`ranks`: ranks order the items of each list as the list has them (`Listed`, with the free list by address), the items
tile memory (`Tiles`), links lead back, counters count, and each allocated item is held by one caller. `Tiling`,
`CallersServed` and `SortedUntilDamaged` are consequences; they are not inductive, because they say what a walk meets
and not what is linked. The lists are of any length, so the proofs need induction. It comes from well-founded sets:
a set of numbers that is not empty has a least member (`LeastOfNats`), hence a set with 0 and all
successors has every number (`ByInduction`). With it `WalkExists` shows that the recursive function is
one, `WalkInOrder` that a walk meets the items in their order, and `WalkMeetsAll` that it meets every one. Then
a lemma for each operator of `heap.c` (unlink, insert in order, split, merge), and one for each system
call. `ItemsSigned` says that every item bears the signature of its list, and `OnlyMallocDamages`
that it takes a `malloc` to come upon the stale link, never a `free` or an `exit`.

`AcrtcProofs` proves `[]TypeOK` and `[]NeverSlips` for every FIFO, polling limit and frame buffer. `NeverSlips` is
about the moment of an access; `IInv` adds that a status the driver has read still holds
(`StatusHolds`: the chip only ever makes room in the FIFO that is written, and adds to the one that is
read), that what is left of a call can be executed (`Executing`: each access behind the wait for its
bit), and that the chip can finish what it has begun (`Begun`).

It also proves `Spec => Refines`: the driver and its chip implement `FrameBuffer`. The chip may lag behind by as much as its
FIFO holds, and a call that only writes a register returns while its words still wait. So `RInv` speaks of
the words that wait: what is left of a call is the end of its program (`Content`), and as long as no
call has failed, the words waiting are those the call has written and the chip has not executed
(`Queue`), every command executed had its effect (`Effects`: the pointer is where the next word goes, the
words before it are stored or read, the register holds what was written), and only pairs of words, writes
to a register, are ever left over from a call before (`Leftover`). Every program is pairs first and at most one other
command behind them (`Pairs`, `Rest`), after the accesses to control registers with which `init` and `abort` begin
(`Lead`). The register `FrameBuffer` promises is `Settled`, what CL0 will hold once the words that wait are
executed: taking a command from the FIFO is then a stuttering step unless it writes or reads memory. There is a lemma
per operation of the driver (`...Refines`), one for the words the chip takes, one for each command it executes,
and `NextOf...` say of each function which operation comes next. After a failure nothing is promised but that `abort`
empties both FIFOs. The one assumption beside the sizes and the widths of arguments is `WithinAssumption`: what calls
write and read lies within the frame buffer, as the driver never looks and the chip's pointer would wrap around.
The invariant was an invariant of two instances (TLC, with its witnesses bounded) before it was proved.

`LoaderProofs` proves `[]TypeOK`, `[]Contained`, `[]LoadedWhole` and the action properties `StoresTheFile` and `GoesWhereTold` for
every base of ten digits or more, every set of well-formed files of any length, and any number of lines with a character
altered, in any way, or lost (`LoaderAssumption`, `FilesAssumption`). There are two inductive invariants, and
one of types.

The first says what the loader knows of the line it is in. As long as the line has arrived unaltered and was met at
its beginning, `Track` puts the loader at each character exactly where the file is: a field of `digits` digits begun
so many characters ago, `value` what they come to, `calculated_xsum` the sum of the bytes before, the bytes of data read
so far in memory. Of a line met in the middle of something `Known` says less, but enough for it to be over when the line
is: a field ends at the carriage return, which is no digit, unless it is a name's. `Followed` joins the two for each
line, `Entry` says where a line is begun, `Whole` that the data of each line that was in step is stored and
nobody has stored over it, and `SoFar` what an undamaged load has done. `Places` and `Begun` are about the remote. The
lemmas go from numbers made of digits (`ReadsExists`, `NumberStep`) and sums (`SumStep`) over one per field of a record
to one per action.

The second (`AimInv`) is for `GoesWhereTold`. In a termination record with a character altered the loader is where it
would be in the file's line with that character replaced (`Heard`, `AlteredOnce`, `Altering`), unless the type was
what changed, or the count, with which an address is refused as soon as it is read (`Aimed`). One digit altered
changes a byte and with it the sum (`ByteDiffers`, `SumDiffers`), and the sum or the checksum, whichever was hit, is
no longer what the other one says (`NoMatch`). `Wrapped` says that such a record does not go on into the next line to
any effect, `Typed` that no type is read elsewhere than in the second place.

The third (`TypeInv`) is for `[]TypeOK`: a number being read is no more than the digits of its field make (`Fitting`), and
something is left wherever a byte of data or of a name is waited for.

Two of the proofs first failed for a reason: `Contained` without `strayed` was false for records that are turned into
names, and `GoesWhereTold` without `InStep` for lines altered next to each other. The instance had no lines with zeros
and digits in the places it takes; now it has.

Only model-checked:

* Liveness (`RtsReopens`, `GetcharReturns`, the two `CallReturns`, `LoadReturns`), which is out of the prover's
  reach.
* The functions of `Algorithms`: recursions over data, some by recursive operators, compared on inputs
  one by one.

## Findings

PROJECT.json has every finding with its lines. Four have a run:

* `duart_port_b`: only channel A's receive interrupt is enabled (`duart.c:285`); the user guide
  promises both ports.
* `heap_stale_link`: `bios_malloc` does not link the item after a surplus back to it
  (`heap.c:351-354`); unlinking that item later corrupts both lists.
* `vfs_eof`: `bios_read` sets `position` to the bytes of the last read (`filesystems.c:474`), so the
  end of a file read in pieces is never noticed; `cat` never ends.
* `vfs_seek`: `seek_to` reads the block before the target's, and none for the first
  (`e2file.c:187-199`), and answers as if it had landed.

The others were met while modelling, and are left out by name in the property they would break:

* Files: a failed open hands out its descriptor; subdirectories are ignored; group descriptors are read
  from bitmaps; a card alone in the second slot is taken for the first; unreadable indirect blocks read as
  zeros; closedir closes nothing; exit closes nothing.
* Heap: vector 4 is overwritten when the allocated list is empty; neighbours are not always merged.
* Serial: an overrun is never reset, so the channel is deaf afterwards; port 1's lines are echoed on port 0.
* Loader: a load whose records were damaged is reported as good; an S5 record's count is read with the wrong
  number of digits; an unreadable checksum counts as 0.
* Commands: the set commands take their own name for the address; `go` and `rtc` read words behind their
  arguments; `rtc date` and `rtc time` ignore three arguments; dumps of words overlap.
* Evaluator, disassembler, numbers, dates: hexadecimal numbers with zeros, MOVEM and the long
  multiplications, decimal numbers with a leading zero, padded negative numbers, every day of January.
* Start-up: a bus error's handler lets the access repeat, so absent devices are not found but waited for
  on boards whose bus reports them; the RAM of a 4 MB board is sized wrong; without a timer set-up never ends.
* Displays: the 16th row of the OLED font is the next character's; tabs may overrun the row buffer of
  the HD63484's text; the presence check takes an open bus for a chip.
* Programs: who shows the toy car on turn 40, 50 or 60 of the farmhouse game may win and die at once;
  `partition_read` reads card 0 whosever the partition is; a dump of the last bytes of memory never ends.
* MMU library: the transparent example matches nothing; status bits are in wrong places. ELF lister:
  a flag in octal, a table read behind its end.

## Plan

In this order; each with its own inputs, properties and mutants.

1. Subdirectories, `getdents` and `readdir` in `Vfs`, with several mounts, and `fgets` and `fread` above it.
2. `mktime`, once something calls it.

## Not modelled

* Code that nothing calls or links: `duart2.c`, `test_ram`, `e2dir.c`, `e2endian.c`'s host part,
  `idle`, the PIT's ports, `vfs_shutdown`.
* The set commands, which never get as far as storing (a finding); stubs that return an error.
* `mktime`, `ctime`, strings, `%s`, `%c` and floating point; text of messages, operands and banners.
* fread, fgets, readdir, getdents, isatty.
* Of the HD63484 driver set_colors, move_abs, the raster counter and printf's buffer; of the MMU
  library the flushing of its cache, ptest and the reading of registers.
* Fonts and images, which are data; the adventure game, a port of others' program that is mostly data; small
  tests of single functions under `src/programs`.
* In `M680x0dis` addresses do not wrap at 2^32, and what an operand may be is what the monitor's disassembler
  makes of it. In `TestTool` what is no number counts as 0, as it does in the code where a number is asked for, and a dump that would
  reach the last line of the address space, which never ends, is left out. `Farmhouse` leaves out all texts.

What the chips do is modelled only as the drivers see it, from how they use it.
