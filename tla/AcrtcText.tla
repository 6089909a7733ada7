------------------------------ MODULE AcrtcText ------------------------------
(***************************************************************************)
(* Text on the HD63484's frame buffer (tests/acrtc/hd63484_text.c): runs   *)
(* of glyphs are composed, raster by raster, into words of pixels; words   *)
(* of which a run covers a part are read first.  Every call is a function  *)
(* from a machine [mem, t], the frame buffer and the text context, to the  *)
(* machine it leaves and what it returns.  The driver's calls are taken to *)
(* succeed (see Acrtc for those that do not).                              *)
(***************************************************************************)
EXTENDS Integers, Sequences, FiniteSets
LOCAL INSTANCE FiniteSetsExt
LOCAL INSTANCE Folds
LOCAL INSTANCE SequencesExt

CONSTANTS
  WORD_BITS,      \* bits of a word of the frame buffer, 16
  TEXT_BUF_WORDS, \* words the row buffer holds, 128
  CHUNK_MAX,      \* most characters composed in one pass, 32
  TAB             \* columns from one tab stop to the next, 8

LSB_FIRST == 0
MSB_FIRST == 1

-----------------------------------------------------------------------------
(* Pixels in words.                                                        *)

bpp_of(s) == 2^s.gbm
color_mask(s) == 2^bpp_of(s) - 1
Ppw(s) == WORD_BITS \div bpp_of(s)

\* The bit at which pixel `slot' of a word begins, 0 being the leftmost pixel.
pix_shift(s, slot) ==
  IF s.order = MSB_FIRST THEN WORD_BITS - bpp_of(s) * (slot + 1) ELSE bpp_of(s) * slot

Pixel(s, word, slot) == (word \div 2^pix_shift(s, slot)) % 2^bpp_of(s)

\* The word with these pixels.
Composed(s, pixels) == MapThenSumSet(LAMBDA slot : pixels[slot] * 2^pix_shift(s, slot), DOMAIN pixels)

word_pattern(s, color) == Composed(s, [slot \in 0 .. Ppw(s) - 1 |-> color % 2^bpp_of(s)])

words_per_line(s) == (s.width * bpp_of(s) + WORD_BITS - 1) \div WORD_BITS

-----------------------------------------------------------------------------
(* Glyphs: of every character of a font a row of inked or bare pixels for  *)
(* every raster.                                                           *)

BlankCell(f) == [row \in 0 .. f.height - 1 |-> [px \in 0 .. f.width - 1 |-> FALSE]]

glyph_for(f, c) ==
  IF c \in DOMAIN f.glyphs THEN f.glyphs[c]
  ELSE IF "?" \in DOMAIN f.glyphs THEN f.glyphs["?"] ELSE BlankCell(f)

CellWidth(t)  == t.font.width * t.scale
CellHeight(t) == t.font.height * t.scale

\* Characters that fit into the row buffer wherever in a word they begin.
max_run(s, f, scale) ==
  LET m == (TEXT_BUF_WORDS * Ppw(s) - (Ppw(s) - 1)) \div (f.width * scale)
  IN  IF m > CHUNK_MAX THEN CHUNK_MAX ELSE m

-----------------------------------------------------------------------------
(* One run.                                                                *)

\* A slip the properties must notice: the last word is only read if the first one is not.
IsReadOnce(t, k, n, lead, tail) == t.transparent \/ (k = 0 /\ lead # 0) \/ (k = n - 1 /\ tail # 0 /\ lead = 0)

\* Of the k-th of n words whether it is read before it is written: an end of which the run
\* covers a part, or any that is drawn over.
IsRead(t, k, n, lead, tail) ==
  t.transparent \/ (k = 0 /\ lead # 0) \/ (k = n - 1 /\ tail # 0 /\ (n > 1 \/ lead = 0))

\* Raster gy of a run that begins at pixel x: its words, those of the buffer left in between.
Raster(mem, t, x, addr, gy, glyphs) ==
  LET s == t.surf
      cw == CellWidth(t)
      end_px == x + Len(glyphs) * cw
      first_word == x \div Ppw(s)
      nwords == (end_px - 1) \div Ppw(s) - first_word + 1
      old(k) == IF IsRead(t, k, nwords, x % Ppw(s), end_px % Ppw(s)) THEN mem[addr + k] ELSE 0
      on(p) == glyphs[1 + (p - x) \div cw][gy \div t.scale][((p - x) % cw) \div t.scale]
      pixel(k, slot) ==
        LET p == (first_word + k) * Ppw(s) + slot
        IN CASE p \notin x .. end_px - 1 -> Pixel(s, old(k), slot)
             [] p \in x .. end_px - 1 ->
                  IF on(p) THEN t.fg % 2^bpp_of(s)
                  ELSE IF t.transparent THEN Pixel(s, old(k), slot) ELSE t.bg % 2^bpp_of(s)
  IN  [k \in 0 .. nwords - 1 |-> Composed(s, [slot \in 0 .. Ppw(s) - 1 |-> pixel(k, slot)])]

Stored(mem, addr, words) ==
  [a \in DOMAIN mem |-> IF a - addr \in DOMAIN words THEN words[a - addr] ELSE mem[a]]

RunWords(t, x, n) == (x + n * CellWidth(t) - 1) \div Ppw(t.surf) - x \div Ppw(t.surf) + 1

\* The rasters of a run, from the top, as far as the surface reaches.
draw_run(mem, t, x, y, glyphs) ==
  LET s == t.surf
      drawn(m, gy) ==
        LET addr == s.base_addr + (y + gy) * s.mem_width + x \div Ppw(s)
        IN  IF y + gy >= s.height THEN m ELSE Stored(m, addr, Raster(m, t, x, addr, gy, glyphs))
  IN CASE glyphs = <<>> -> [rc |-> "OK", mem |-> mem]
       [] glyphs # <<>> /\ RunWords(t, x, Len(glyphs)) > TEXT_BUF_WORDS -> [rc |-> "PARAM", mem |-> mem]
       [] OTHER -> [rc |-> "OK", mem |-> FoldLeft(drawn, mem, [i \in 1 .. CellHeight(t) |-> i - 1])]

-----------------------------------------------------------------------------
(* Regions.                                                                *)

fill_rows(mem, t, y0, nrows) ==
  LET s == t.surf
      filled == UNION {{s.base_addr + y * s.mem_width + k : k \in 0 .. words_per_line(s) - 1} :
                         y \in {r \in y0 .. y0 + nrows - 1 : r < s.height}}
  IN  [a \in DOMAIN mem |-> IF a \in filled THEN word_pattern(s, t.bg) ELSE mem[a]]

\* Raster y goes up by one line of text.
MovedUp(t, mem, y) ==
  LET s == t.surf
      src == s.base_addr + y * s.mem_width
      dst == src - CellHeight(t) * s.mem_width
  IN  Stored(mem, dst, [k \in 0 .. words_per_line(s) - 1 |-> mem[src + k]])

\* The rasters that move, in the order in which they do.
Moving(t) == [i \in 1 .. (t.rows - 1) * CellHeight(t) |-> CellHeight(t) + i - 1]

scroll_up(mem, t) ==
  LET moved == FoldLeft(LAMBDA m, y : MovedUp(t, m, y), mem, Moving(t))
  IN  fill_rows(moved, t, (t.rows - 1) * CellHeight(t), CellHeight(t))

newline(m) ==
  LET t == m.t
  IN CASE t.row + 1 < t.rows -> [m EXCEPT !.t.col = 0, !.t.row = @ + 1]
       [] t.row + 1 >= t.rows /\ t.scroll ->
            [m EXCEPT !.t.col = 0, !.t.row = t.rows - 1, !.mem = scroll_up(m.mem, t)]
       [] OTHER -> [m EXCEPT !.t.col = 0, !.t.row = 0, !.mem = fill_rows(m.mem, t, 0, CellHeight(t))]

-----------------------------------------------------------------------------
(* Settings.                                                               *)

\* The grid for a font and scale; if there is none nothing changes.
apply_geometry(t, f, scale) ==
  LET cols == t.surf.width \div (f.width * scale)
      rows == t.surf.height \div (f.height * scale)
  IN  IF scale \notin 1 .. 32 \/ f.width \notin 1 .. 16 \/ f.height < 1 THEN [rc |-> "PARAM", t |-> t]
      ELSE IF max_run(t.surf, f, scale) = 0 \/ cols = 0 \/ rows = 0 THEN [rc |-> "PARAM", t |-> t]
      ELSE [rc |-> "OK",
            t |-> [t EXCEPT !.font = f, !.scale = scale, !.cols = cols, !.rows = rows,
                            !.col = IF @ > cols THEN cols ELSE @,
                            !.row = IF @ >= rows THEN rows - 1 ELSE @]]

hd63484_text_init(surf, font) ==
  apply_geometry([surf |-> surf, font |-> font, fg |-> color_mask(surf), bg |-> 0, transparent |-> FALSE,
                  scroll |-> TRUE, scale |-> 1, col |-> 0, row |-> 0, cols |-> 0, rows |-> 0],
                 font, 1)

hd63484_text_set_colors(t, fg, bg) ==
  [t EXCEPT !.fg = fg % 2^bpp_of(t.surf), !.bg = bg % 2^bpp_of(t.surf)]

hd63484_text_set_cursor(t, col, row) ==
  [t EXCEPT !.col = IF col >= t.cols THEN t.cols - 1 ELSE col,
            !.row = IF row >= t.rows THEN t.rows - 1 ELSE row]

hd63484_text_clear(m) ==
  [m EXCEPT !.mem = fill_rows(m.mem, m.t, 0, m.t.surf.height), !.t.col = 0, !.t.row = 0]

-----------------------------------------------------------------------------
(* Output.                                                                 *)

is_ctrl(c) == c \in {"NL", "CR", "BS", "HT"}

Glyphs(t, chars) == [i \in DOMAIN chars |-> glyph_for(t.font, chars[i])]

\* A run drawn at the cursor, which goes on behind it.
AtCursor(m, glyphs) ==
  LET drawn == draw_run(m.mem, m.t, m.t.col * CellWidth(m.t), m.t.row * CellHeight(m.t), glyphs)
  IN  [m EXCEPT !.mem = drawn.mem, !.rc = drawn.rc, !.t.col = @ + Len(glyphs)]

\* The line is only left when something is to be drawn behind its end.
LazyWrap(m) == IF m.t.col >= m.t.cols THEN newline(m) ELSE m

Gap(t) == LET gap == TAB - (t.col % TAB) IN IF gap > t.cols - t.col THEN t.cols - t.col ELSE gap

Tabbed(m) == AtCursor(m, [i \in 1 .. Gap(m.t) |-> BlankCell(m.t.font)])

\* How many characters from the first on are drawn in one run.
RunLength(t, s) ==
  Max({n \in 0 .. Len(s) : /\ n <= max_run(t.surf, t.font, t.scale) /\ t.col + n <= t.cols
                           /\ \A i \in 1 .. n : ~is_ctrl(s[i])})

RECURSIVE write_impl(_, _)
write_impl(m, s) ==
  IF s = <<>> \/ m.rc # "OK" THEN m
  ELSE CASE Head(s) = "NL" -> write_impl(newline(m), Tail(s))
         [] Head(s) = "CR" -> write_impl([m EXCEPT !.t.col = 0], Tail(s))
         [] Head(s) = "BS" -> write_impl([m EXCEPT !.t.col = IF @ = 0 THEN 0 ELSE @ - 1], Tail(s))
         [] Head(s) = "HT" -> write_impl(Tabbed(LazyWrap(m)), Tail(s))
         [] OTHER ->
              LET w == LazyWrap(m)
                  n == RunLength(w.t, s)
              IN  write_impl(AtCursor(w, Glyphs(w.t, SubSeq(s, 1, n))), SubSeq(s, n + 1, Len(s)))

RECURSIVE hd63484_text_draw(_, _, _, _)
hd63484_text_draw(m, x, y, s) ==
  LET t == m.t
      cw == CellWidth(t)
      n == Max({k \in 0 .. Len(s) : k <= max_run(t.surf, t.font, t.scale) /\ x + k * cw <= t.surf.width})
      drawn == draw_run(m.mem, t, x, y, Glyphs(t, SubSeq(s, 1, n)))
  IN  IF m.rc # "OK" \/ s = <<>> \/ x + cw > t.surf.width \/ y >= t.surf.height THEN m
      ELSE hd63484_text_draw([m EXCEPT !.mem = drawn.mem, !.rc = drawn.rc], x + n * cw, y,
                             SubSeq(s, n + 1, Len(s)))

\* One call of a program.
Resized(m, applied) == [m EXCEPT !.t = applied.t, !.rc = applied.rc]

TextCall(m, c) ==
  LET fresh == [m EXCEPT !.rc = "OK"]
  IN CASE c.fn = "write"       -> write_impl(fresh, c.s)
       [] c.fn = "draw"        -> hd63484_text_draw(fresh, c.x, c.y, c.s)
       [] c.fn = "clear"       -> hd63484_text_clear(fresh)
       [] c.fn = "scale"       -> Resized(fresh, apply_geometry(m.t, m.t.font, c.scale))
       [] c.fn = "font"        -> Resized(fresh, apply_geometry(m.t, c.font, m.t.scale))
       [] c.fn = "colors"      -> [fresh EXCEPT !.t = hd63484_text_set_colors(m.t, c.fg, c.bg)]
       [] c.fn = "cursor"      -> [fresh EXCEPT !.t = hd63484_text_set_cursor(m.t, c.col, c.row)]
       [] c.fn = "transparent" -> [fresh EXCEPT !.t.transparent = c.on]
       [] c.fn = "scroll"      -> [fresh EXCEPT !.t.scroll = c.on]

\* A program's calls, one after the other: the machine after each, the first before any.
Sequence(m, calls) ==
  LET after[n \in 0 .. Len(calls)] == IF n = 0 THEN m ELSE TextCall(after[n - 1], calls[n])
  IN  after
=============================================================================
