--------------------------------- MODULE Elf ---------------------------------
(***************************************************************************)
(* The tool that lists an ELF file (elf.c), run on a host of either  *)
(* byte order: where it seeks, what it reads, which fields it swaps, what  *)
(* it refuses and what it prints.  A file is a sequence of bytes, a field  *)
(* the bytes of its value, the most significant one first.                 *)
(***************************************************************************)
EXTENDS Integers, Sequences
LOCAL INSTANCE SequencesExt
LOCAL INSTANCE FiniteSetsExt
LOCAL INSTANCE Functions

(* The structures of elf.h: the names of their fields, and their sizes. *)
Elf32_Ehdr ==
  <<<<"e_ident", 16>>, <<"e_type", 2>>, <<"e_machine", 2>>, <<"e_version", 4>>, <<"e_entry", 4>>,
    <<"e_phoff", 4>>, <<"e_shoff", 4>>, <<"e_flags", 4>>, <<"e_ehsize", 2>>, <<"e_phentsize", 2>>,
    <<"e_phnum", 2>>, <<"e_shentsize", 2>>, <<"e_shnum", 2>>, <<"e_shstrndx", 2>>>>
Words(names) == [k \in DOMAIN names |-> <<names[k], 4>>]
Elf32_Phdr ==
  Words(<<"p_type", "p_offset", "p_vaddr", "p_paddr", "p_filesz", "p_memsz", "p_flags", "p_align">>)
Elf32_Shdr ==
  Words(<<"sh_name", "sh_type", "sh_flags", "sh_addr", "sh_offset", "sh_size", "sh_link", "sh_info",
          "sh_addralign", "sh_entsize">>)

sizeof(struct) == FoldLeft(LAMBDA n, field : n + field[2], 0, struct)
offsetof(struct, k) == sizeof(SubSeq(struct, 1, k - 1))
Names(struct) == {field[1] : field \in Range(struct)}
Value(field) == FoldLeft(LAMBDA n, b : 256 * n + b, 0, field)
Bit(field, k) == (field[Len(field) - k \div 8] \div 2^(k % 8)) % 2 = 1

\* What read() leaves in a structure: the host takes the bytes in its own order.
Stored(file, at, struct, little) ==
  [name \in Names(struct) |->
     LET k == CHOOSE k \in DOMAIN struct : struct[k][1] = name
         raw == SubSeq(file, at + offsetof(struct, k) + 1, at + offsetof(struct, k) + struct[k][2])
     IN  IF little /\ name # "e_ident" THEN Reverse(raw) ELSE raw]
Readable(file, at, struct) == at + sizeof(struct) <= Len(file)

__builtin_bswap(hdr, fields) == [name \in DOMAIN hdr |-> IF name \in fields THEN Reverse(hdr[name]) ELSE hdr[name]]

ElfData2Lsb == 1
ElfData2Msb == 2
endian_mismatch(hdr, little) == hdr.e_ident[6] = (IF little THEN ElfData2Msb ELSE ElfData2Lsb)
sanitize_elf_hdr(hdr, mismatch) == IF mismatch THEN __builtin_bswap(hdr, DOMAIN hdr \ {"e_ident"}) ELSE hdr
sanitize_elf_phdr(phdr, mismatch) == IF mismatch THEN __builtin_bswap(phdr, DOMAIN phdr) ELSE phdr
sanitize_elf_shdr(shdr, mismatch) == IF mismatch THEN __builtin_bswap(shdr, DOMAIN shdr) ELSE shdr

(* What is refused. *)
ELFMAG == <<127, 69, 76, 70>>
ET_EXEC == 2
EM_68K == 4
valid_header(hdr) ==
  /\ SubSeq(hdr.e_ident, 1, 4) = ELFMAG
  /\ hdr.e_ident[7] = 1
  /\ \A k \in 10 .. 16 : hdr.e_ident[k] = 0
target_is_68k(hdr) ==
  /\ hdr.e_ident[5] = 1 /\ hdr.e_ident[6] = ElfData2Msb
  /\ Value(hdr.e_type) = ET_EXEC /\ Value(hdr.e_machine) = EM_68K

(* What is printed. *)
Unbounded == "read behind a table"   \* whatever lies there
Classes == <<"NONE", "32-Bit", "64-Bit">>
Endian == <<"NONE", "LSB First", "MSB First">>
Listed(table, n) == IF n < Len(table) THEN table[n + 1] ELSE "Unknown"
dump_elf_hdr(hdr) ==
  [is |-> "header", class |-> Listed(Classes, hdr.e_ident[5]), data |-> Listed(Endian, hdr.e_ident[6]), fields |-> hdr]

dump_elf_phdr(phdr) ==
  [is |-> "program", fields |-> phdr, rwx |-> [k \in 1 .. 3 |-> Bit(phdr.p_flags, 3 - k)]]

Types ==
  <<"NULL", "PROGBITS", "SYMTAB", "STRTAB", "RELA", "HASH", "DYNAMIC", "NOTE", "NOBITS", "REL", "SHLIB", "DYNSYM",
    "*UNDEF*", "*UNDEF*", "INIT_ARRAY", "FINI_ARRAY", "PREINIT_ARRAY", "GROUP", "SYMTAB_SHNDX", "RELR">>
\* The size of the table of pointers in bytes is taken for the number of its entries.
TypesSize == 8 * Len(Types)
TypeName(n) == IF n >= TypesSize THEN "Undefined" ELSE IF n < Len(Types) THEN Types[n + 1] ELSE Unbounded
\* The bits of a flag's mask; SH_EXECINSTR is written in octal.
SectionFlags ==
  [SH_WRITE |-> {0}, SH_ALLOC |-> {1}, SH_EXECINSTR |-> {2, 10}, SH_MERGE |-> {4}, SH_STRINGS |-> {5},
   SH_INFO_LINK |-> {6}, SH_LINK_ORDER |-> {7}, SH_OS_NONCONFORMING |-> {8}, SH_GROUP |-> {9}, SH_TLS |-> {10},
   SH_COMPRESSED |-> {11}]
Text(names, at) ==
  LET ends == {k \in at + 1 .. Len(names) : names[k] = 0}
  IN  IF ends = {} THEN Unbounded ELSE SubSeq(names, at + 1, Min(ends) - 1)
dump_elf_shdr(shdr, names) ==
  [is |-> "section", name |-> Text(names, Value(shdr.sh_name)), type |-> TypeName(Value(shdr.sh_type)),
   flags |-> {f \in DOMAIN SectionFlags : \E k \in SectionFlags[f] : Bit(shdr.sh_flags, k)}, fields |-> shdr]

\* A table: each entry is read behind the last, and listed, until one cannot be read.
Entries(file, at, count, struct) == {i \in 0 .. count - 1 : Readable(file, at + i * sizeof(struct), struct)}
Fail(shown) == [rc |-> "NOT_OK", shown |-> shown]

load_elf(file, little) ==
  IF ~Readable(file, 0, Elf32_Ehdr) THEN Fail(<<>>) ELSE
  LET raw == Stored(file, 0, Elf32_Ehdr, little)
      mismatch == endian_mismatch(raw, little)
      hdr == sanitize_elf_hdr(raw, mismatch)
      header == <<dump_elf_hdr(hdr)>>
      PhdrAt(i) == Value(hdr.e_phoff) + i * sizeof(Elf32_Phdr)
      read_elf_phdr(i) == sanitize_elf_phdr(Stored(file, PhdrAt(i), Elf32_Phdr, little), mismatch)
      programs == [i \in 1 .. Cardinality(Entries(file, Value(hdr.e_phoff), Value(hdr.e_phnum), Elf32_Phdr)) |->
                     dump_elf_phdr(read_elf_phdr(i - 1))]
      read_elf_shdr(at) == sanitize_elf_shdr(Stored(file, at, Elf32_Shdr, little), mismatch)
      offs == Value(hdr.e_shoff) + Value(hdr.e_shentsize) * Value(hdr.e_shstrndx)
      strtab == read_elf_shdr(offs)
      namesAt == Value(strtab.sh_offset)
      names == SubSeq(file, namesAt + 1, namesAt + Value(strtab.sh_size))
      sections == [i \in 1 .. Cardinality(Entries(file, Value(hdr.e_shoff), Value(hdr.e_shnum), Elf32_Shdr)) |->
                     dump_elf_shdr(read_elf_shdr(Value(hdr.e_shoff) + (i - 1) * sizeof(Elf32_Shdr)), names)]
  IN  IF ~valid_header(hdr) \/ ~target_is_68k(hdr) THEN Fail(header)
      ELSE IF \/ Len(programs) < Value(hdr.e_phnum)
              \/ ~Readable(file, offs, Elf32_Shdr)
              \/ Len(names) < Value(strtab.sh_size)
           THEN Fail(header \o programs)
      ELSE [rc |-> IF Len(sections) < Value(hdr.e_shnum) THEN "NOT_OK" ELSE "OK",
            shown |-> header \o programs \o sections]
=============================================================================
