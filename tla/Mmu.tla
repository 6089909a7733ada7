--------------------------------- MODULE Mmu ---------------------------------
(***************************************************************************)
(* mmutest's library for the processor's memory management unit (mmu.h and *)
(* mmu.c) and its two examples (hello.c): the registers and descriptors it *)
(* builds, bit by bit, and the unit itself, which takes them apart again   *)
(* as the MC68030's manual says.  A long is its two halves, <<high, low>>. *)
(***************************************************************************)
EXTENDS Integers, Sequences, FiniteSets

Field(half, b, n) == (half \div 2^b) % 2^n
Zero == <<0, 0>>

----------------------------------------------------------------------------
(* mmu.h *)

DT_INVALID == 0
DT_PAGE == 1
DT_TABLE_SHORT == 2

\* limit_is_lower: without it the limit of 0 lets index 0 pass, and no other.
m68030_make_root_ptr(table, dt, limit_is_lower) ==
  <<<<32768 * limit_is_lower, dt % 4>>, <<table[1], table[2] - (table[2] % 16)>>>>

TC_E == 15
m68030_make_tc(c) ==
  <<2^TC_E * c.enable + (c.page_size_exp % 16) * 16 + (c.initial_shift % 16),
    (c.tia % 16) * 4096 + (c.tib % 16) * 256 + (c.tic % 16) * 16 + (c.tid % 16)>>

\* Bits 2, 3, 6 and 7: write protected, used, cache inhibited, and supervisor only.
m68030_make_table_descriptor(next, dt, write_protect, supervisor_only) ==
  <<next[1],
    LET address == next[2] - (next[2] % 16)
    IN  address + (dt % 4) + 4 * write_protect
          + (IF supervisor_only = 1 /\ Field(address, 7, 1) = 0 THEN 128 ELSE 0)>>
\* A slip the properties must notice: the bit that tells a page was used.
ProtectsByUse(page, cache_inhibit, write_protect) ==
  <<page[1], page[2] - (page[2] % 4) + DT_PAGE + 64 * cache_inhibit + 8 * write_protect>>
m68030_make_page_descriptor(page, cache_inhibit, write_protect) ==
  <<page[1], page[2] - (page[2] % 4) + DT_PAGE + 64 * cache_inhibit + 4 * write_protect>>

m68030_make_tt(c) == <<c.logical_base * 256 + c.logical_mask, (c.low_bits % 2^15) + 2^15 * c.enable>>

----------------------------------------------------------------------------
(* The unit.  Memory is a set of tables of descriptors, each at an address. *)

Index(c, level) == <<c.tia, c.tib, c.tic, c.tid>>[level]
Decoded(tc) ==
  [enable |-> Field(tc[1], TC_E, 1), page_size_exp |-> Field(tc[1], 4, 4), initial_shift |-> Field(tc[1], 0, 4),
   tia |-> Field(tc[2], 12, 4), tib |-> Field(tc[2], 8, 4), tic |-> Field(tc[2], 4, 4), tid |-> Field(tc[2], 0, 4)]
Sane(c) ==
  /\ c.page_size_exp >= 8 /\ c.tia > 0
  /\ c.initial_shift + c.tia + c.tib + c.tic + c.tid + c.page_size_exp = 32
\* Bits of a long: the n from bit b on.
Slice(long, b, n) ==
  IF b >= 16 THEN Field(long[1], b - 16, n)
  ELSE IF b + n <= 16 THEN Field(long[2], b, n)
  ELSE Field(long[2], b, 16 - b) + 2^(16 - b) * Field(long[1], 0, n - (16 - b))

Fault(why) == [ok |-> FALSE, why |-> why]
\* A window lets an access through untranslated.
Transparent(tt, addr, access) ==
  /\ Field(tt[2], 15, 1) = 1
  /\ \A b \in 0 .. 7 : Field(tt[1], b, 1) = 1 \/ Field(tt[1], 8 + b, 1) = Field(addr[1], 8 + b, 1)
  /\ Field(tt[2], 8, 1) = 1 \/ Field(tt[2], 9, 1) = (IF access.write THEN 0 ELSE 1)
  /\ \A b \in 0 .. 2 : Field(tt[2], b, 1) = 1 \/ Field(tt[2], 4 + b, 1) = Field(access.fc, b, 1)

DescriptorAt(tables, base, index) ==
  LET here == {t \in tables : t.at = <<base[1], base[2] - (base[2] % 16)>> /\ index \in DOMAIN t.entries}
  IN IF here = {} THEN Zero ELSE (CHOOSE t \in here : TRUE).entries[index]
\* From table to table; below the last there are pages only.
Walk(mmu, tables, addr, write) ==
  LET c == Decoded(mmu.tc)
      levels == {l \in 1 .. 4 : \A k \in 1 .. l : Index(c, k) > 0}
      top[l \in 0 .. 4] == IF l = 0 THEN 32 - c.initial_shift ELSE top[l - 1] - Index(c, l)
      from[l \in 0 .. 4] ==
        IF l = 0 THEN [dt |-> Field(mmu.crp[1][2], 0, 2), desc |-> mmu.crp[2], wp |-> FALSE, below |-> 32]
        ELSE IF l \notin levels \/ from[l - 1].dt # DT_TABLE_SHORT THEN from[l - 1]
        ELSE LET index == Slice(addr, top[l], Index(c, l))
                 limited == l = 1 /\ Field(mmu.crp[1][1], 15, 1) = 0 /\ index > Field(mmu.crp[1][1], 0, 15)
                 desc == IF limited THEN Zero ELSE DescriptorAt(tables, from[l - 1].desc, index)
             IN [dt |-> Field(desc[2], 0, 2), desc |-> desc,
                 wp |-> from[l - 1].wp \/ Field(desc[2], 2, 1) = 1, below |-> top[l]]
      found == from[4]
  IN IF found.dt # DT_PAGE THEN Fault("invalid")
     ELSE IF found.wp /\ write THEN Fault("write protected")
     ELSE [ok |-> TRUE,
           addr |-> <<IF found.below >= 16 THEN found.desc[1] - (found.desc[1] % 2^(found.below - 16))
                                                + (addr[1] % 2^(found.below - 16)) ELSE found.desc[1],
                      IF found.below >= 16 THEN addr[2]
                      ELSE found.desc[2] - (found.desc[2] % 2^found.below) + (addr[2] % 2^found.below)>>]
Translated(mmu, tables, addr, access) ==
  IF Decoded(mmu.tc).enable = 0 \/ Transparent(mmu.tt0, addr, access) \/ Transparent(mmu.tt1, addr, access)
  THEN [ok |-> TRUE, addr |-> addr]
  ELSE Walk(mmu, tables, addr, access.write)

----------------------------------------------------------------------------
(* mmu.c and hello.c.  Enabling the unit with a TC that is not sane is an   *)
(* exception, and leaves it off.                                            *)

AtReset == [tc |-> Zero, crp |-> <<Zero, Zero>>, tt0 |-> Zero, tt1 |-> Zero, exception |-> FALSE]
m68030_set_tc(mmu, tc) ==
  IF Decoded(tc).enable = 1 /\ ~Sane(Decoded(tc))
  THEN [mmu EXCEPT !.tc = <<tc[1] - 2^TC_E, tc[2]>>, !.exception = TRUE]
  ELSE [mmu EXCEPT !.tc = tc]
m68030_mmu_enable(mmu) ==
  m68030_set_tc(mmu, <<mmu.tc[1] + (IF Field(mmu.tc[1], TC_E, 1) = 1 THEN 0 ELSE 2^TC_E), mmu.tc[2]>>)
m68030_mmu_disable(mmu) == m68030_set_tc(mmu, <<mmu.tc[1] % 2^TC_E, mmu.tc[2]>>)

example_transparent_identity_map(mmu) ==
  LET tt0 == m68030_make_tt([logical_base |-> 0, logical_mask |-> 255, enable |-> 1, low_bits |-> 0])
  IN  m68030_mmu_enable([mmu EXCEPT !.tt0 = tt0, !.tt1 = Zero])

\* The tables of a tree: every entry of a table leads to the next, those of the last to
\* pages, as the caller maps them.
TreeTables(c, tables, pages) ==
  {[at |-> tables[l], entries |->
      [i \in 0 .. 2^Index(c, l) - 1 |->
         IF l < Len(tables)
         THEN m68030_make_table_descriptor(tables[l + 1], DT_TABLE_SHORT, IF pages.protects = l THEN 1 ELSE 0, 0)
         ELSE IF i \in pages.missing THEN Zero
         ELSE m68030_make_page_descriptor(pages.at[i], IF i \in pages.inhibited THEN 1 ELSE 0,
                                          IF i \in pages.protected THEN 1 ELSE 0)]] :
     l \in DOMAIN tables}
example_paged_setup(mmu, c, a_table) ==
  LET crp == m68030_make_root_ptr(a_table, DT_TABLE_SHORT, 1)
      set == m68030_set_tc([mmu EXCEPT !.crp = crp], m68030_make_tc(c))
  IN m68030_mmu_enable([set EXCEPT !.tt0 = Zero, !.tt1 = Zero])
=============================================================================
