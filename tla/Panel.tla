-------------------------------- MODULE Panel --------------------------------
(***************************************************************************)
(* The OLED display of the monitor (sh1107.c): a frame buffer in memory,   *)
(* pages of bytes that are eight rows high, in which pixels and characters *)
(* are drawn; and the commands and bursts that carry it to the display's   *)
(* own memory, over an I2C bus whose every byte may be refused.            *)
(***************************************************************************)
EXTENDS Integers, Sequences
LOCAL INSTANCE SequencesExt
LOCAL INSTANCE FiniteSetsExt

CONSTANTS
  PAGES,        \* pages of the display, 16
  PAGE_ROWS,         \* rows of a page, bits of a byte: 8
  PANEL_WIDTH,        \* columns, 128
  NIBBLE,       \* the base of the digits a column is sent by, 16
  COLUMN_OFFSET \* the column of the display's memory that is shown first, 0x60

HEIGHT == PAGES * PAGE_ROWS

----------------------------------------------------------------------------
(* The frame buffer: framebuffer[page][x] is the set of bits that are on.   *)

sh1107_clear == [page \in 0 .. PAGES - 1 |-> [x \in 0 .. PANEL_WIDTH - 1 |-> {}]]
Outside(x, y) == x < 0 \/ x >= PANEL_WIDTH \/ y < 0 \/ y >= HEIGHT
sh1107_set_pixel(fb, x, y, on) ==
  IF Outside(x, y) THEN fb
  ELSE [fb EXCEPT ![y \div PAGE_ROWS][x] = IF on THEN @ \cup {y % PAGE_ROWS} ELSE @ \ {y % PAGE_ROWS}]

\* A font's characters are numbered from 0, the blank; width is how far apart their
\* rows are in font_chars, which holds the columns that are on, row by row.
Printable(font, c) == IF c \in DOMAIN font.char_widths THEN c ELSE 0
sh1107_pch(fb, x, y, c, font) ==
  LET char   == Printable(font, c)
      wid    == font.char_widths[char]
      row(i) == font.font_chars[char * font.width + i]
      pixels == [k \in 1 .. font.height * wid |-> <<(k - 1) % wid, (k - 1) \div wid>>]
      Draw(b, p) == sh1107_set_pixel(b, x + p[1], y + p[2], p[1] \in row(p[2]))
  IN IF Outside(x, y) THEN [fb |-> fb, wid |-> 0]
     ELSE [fb |-> FoldLeft(Draw, fb, pixels), wid |-> wid]

NL == -10
Wrapped(s, font) ==
  IF s.x < PANEL_WIDTH THEN s
  ELSE [s EXCEPT !.x = 0, !.y = IF @ + font.height >= HEIGHT THEN 0 ELSE @ + font.height]
Put(s, ch, font) ==
  IF ch = NL THEN Wrapped([s EXCEPT !.x = 0, !.y = @ + font.height], font)
  ELSE LET drawn == sh1107_pch(s.fb, s.x, s.y, ch, font)
       IN  Wrapped([s EXCEPT !.fb = drawn.fb, !.x = @ + drawn.wid], font)
sh1107_pstr(fb, x, y, str, font) ==
  FoldLeft(LAMBDA s, ch : Put(s, ch, font), [fb |-> fb, x |-> x, y |-> y], str).fb

----------------------------------------------------------------------------
(* The display, as its maker describes it: commands, some of which take the *)
(* next one for their argument, and data, which fill a page column after    *)
(* column.                                                                  *)

Chip(ram) == [ram |-> ram, page |-> 0, column |-> 0, awaits |-> "", set |-> <<>>]
\* Column addresses have two digits.
Obeyed(chip, cmd) ==
  CASE chip.awaits # "" -> [chip EXCEPT !.set = Append(@, <<chip.awaits, cmd.arg>>), !.awaits = ""]
    [] chip.awaits = "" /\ cmd.op = "page" -> [chip EXCEPT !.page = cmd.arg]
    [] chip.awaits = "" /\ cmd.op = "column low" -> [chip EXCEPT !.column = NIBBLE * (@ \div NIBBLE) + cmd.arg]
    [] chip.awaits = "" /\ cmd.op = "column high" -> [chip EXCEPT !.column = NIBBLE * cmd.arg + (@ % NIBBLE)]
    [] chip.awaits = "" /\ cmd.op = "argument" -> chip
    [] chip.awaits = "" /\ cmd.op \in {"start line", "contrast", "multiplex", "offset", "clock",
                                       "precharge", "deselect", "charge pump"} ->
         [chip EXCEPT !.awaits = cmd.op]
    [] OTHER -> [chip EXCEPT !.set = Append(@, <<cmd.op, 0>>)]
Filled(chip, byte) ==
  [chip EXCEPT !.ram[chip.page][chip.column] = byte, !.column = (@ + 1) % PANEL_WIDTH]

----------------------------------------------------------------------------
(* The bus: bytes are counted, and those in `refused' are not acknowledged. *)

Delivered(kind, chip, byte) == IF kind = "command" THEN Obeyed(chip, byte) ELSE Filled(chip, byte)
\* The address, what kind of bytes follow, and those, up to the first that is refused.
Transfer(bus, kind, bytes) ==
  LET last == bus.sent + 2 + Len(bytes)
      bad  == {n \in bus.refused : n \in bus.sent + 1 .. last}
      sent == IF bad = {} THEN last ELSE Min(bad)
      good == IF bad = {} THEN Len(bytes) ELSE sent - 1 - bus.sent - 2
  IN [bus EXCEPT !.sent = sent, !.failed = bad # {},
                 !.chip = FoldLeft(LAMBDA chip, byte : Delivered(kind, chip, byte), @, SubSeq(bytes, 1, good))]

Command(op, arg) == [op |-> op, arg |-> arg]
sh1107_command(bus, cmd) == Transfer(bus, "command", <<cmd>>)
sh1107_data_burst(bus, buf) == Transfer(bus, "data", buf)

\* What is asked of the display, commands and their arguments.
Asked ==
  <<Command("off", 0), Command("start line", 0), Command("argument", 0),
    Command("contrast", 0), Command("argument", 47), Command("page mode", 0),
    Command("remap", 0), Command("scan", 0), Command("multiplex", 0), Command("argument", HEIGHT - 1),
    Command("offset", 0), Command("argument", 96), Command("clock", 0), Command("argument", 81),
    Command("precharge", 0), Command("argument", 34), Command("deselect", 0), Command("argument", 53),
    Command("charge pump", 0), Command("argument", 138), Command("not inverted", 0),
    Command("show memory", 0), Command("on", 0)>>
sh1107_init(bus) ==
  LET Or(r, cmd) == LET done == sh1107_command(r.bus, cmd)
                    IN  [bus |-> done, err |-> r.err \/ done.failed]
  IN FoldLeft(Or, [bus |-> bus, err |-> FALSE], Asked)

sh1107_set_page(bus, page) == sh1107_command(bus, Command("page", page))
sh1107_set_column(bus, col) ==
  LET c == col + COLUMN_OFFSET
      low == sh1107_command(bus, Command("column low", c % NIBBLE))
  IN sh1107_command(low, Command("column high", (c \div NIBBLE) % NIBBLE))
sh1107_display(bus, fb) ==
  LET Page(b, page) ==
        sh1107_data_burst(sh1107_set_column(sh1107_set_page(b, page), 0), [k \in 1 .. PANEL_WIDTH |-> fb[page][k - 1]])
  IN FoldLeft(Page, bus, [k \in 1 .. PAGES |-> k - 1])
=============================================================================
