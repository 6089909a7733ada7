--------------------------- MODULE GlassTerminal ---------------------------
(***************************************************************************)
(* What the text functions of the HD63484 driver promise to show           *)
(* (tests/acrtc/hd63484_text.h): a picture of coloured points, on which    *)
(* characters are painted one at a time.  There are no words, no runs and  *)
(* no buffers here.                                                        *)
(***************************************************************************)
EXTENDS Integers, Sequences

CONSTANTS
  WORD_BITS, \* bits of a word of the frame buffer
  TAB        \* columns from one tab stop to the next

\* The pixel of a raster stored in words, counted from the left.
Seen(surf, mem, x, y) ==
  LET bpp == 2^surf.gbm
      bit == x * bpp
      word == mem[surf.base_addr + y * surf.mem_width + bit \div WORD_BITS]
      from == IF surf.order = 1 THEN WORD_BITS - bpp - (bit % WORD_BITS) ELSE bit % WORD_BITS
  IN  (word \div 2^from) % 2^bpp

Points(surf) == (0 .. surf.width - 1) \X (0 .. surf.height - 1)
Picture(surf, mem) == [p \in Points(surf) |-> Seen(surf, mem, p[1], p[2])]

\* A terminal: the picture, how large its cells are and what it paints with.
Wide(d) == d.font.width * d.scale
High(d) == d.font.height * d.scale
Cols(d) == d.width \div Wide(d)
Rows(d) == d.height \div High(d)

Background(d, p) == IF d.transparent THEN d.picture[p] ELSE d.bg

\* One character cell, its left upper corner at a point; what is not ink is background.
Painted(d, x, y, ink(_, _)) ==
  [d EXCEPT !.picture =
    [p \in DOMAIN d.picture |->
       IF p[1] \notin x .. x + Wide(d) - 1 \/ p[2] \notin y .. y + High(d) - 1 THEN d.picture[p]
       ELSE IF ink((p[1] - x) \div d.scale, (p[2] - y) \div d.scale) THEN d.fg
       ELSE Background(d, p)]]

Ink(d, c, px, row) ==
  LET shown == IF c \in DOMAIN d.font.glyphs THEN c ELSE "?"
  IN  shown \in DOMAIN d.font.glyphs /\ d.font.glyphs[shown][row][px]

Character(d, c, x, y) == Painted(d, x, y, LAMBDA px, row : Ink(d, c, px, row))
Bare(d, x, y) == Painted(d, x, y, LAMBDA px, row : FALSE)

\* The next line: below, or what is shown moves up, or the first one, wiped.
Below(d) ==
  CASE d.row < Rows(d) - 1 -> [d EXCEPT !.col = 0, !.row = @ + 1]
    [] d.row = Rows(d) - 1 /\ d.scroll ->
         [d EXCEPT !.col = 0, !.picture =
           [p \in DOMAIN d.picture |->
              CASE p[2] < (Rows(d) - 1) * High(d) -> d.picture[<<p[1], p[2] + High(d)>>]
                [] p[2] \in (Rows(d) - 1) * High(d) .. Rows(d) * High(d) - 1 -> d.bg
                [] OTHER -> d.picture[p]]]
    [] OTHER ->
         [d EXCEPT !.col = 0, !.row = 0, !.picture =
           [p \in DOMAIN d.picture |-> IF p[2] < High(d) THEN d.bg ELSE d.picture[p]]]

OnLine(d) == IF d.col = Cols(d) THEN Below(d) ELSE d
Here(d, paint(_, _, _)) == [paint(d, d.col * Wide(d), d.row * High(d)) EXCEPT !.col = @ + 1]

\* Cells are wiped up to the next tab stop or the end of the line.
ToTabStop(d) ==
  LET stop == (d.col \div TAB + 1) * TAB
      end == IF stop < Cols(d) THEN stop ELSE Cols(d)
      wiped[col \in d.col .. end] == IF col = d.col THEN d ELSE Here(wiped[col - 1], Bare)
  IN  wiped[end]

Typed(d, c) ==
  CASE c = "NL" -> Below(d)
    [] c = "CR" -> [d EXCEPT !.col = 0]
    [] c = "BS" -> [d EXCEPT !.col = IF @ > 0 THEN @ - 1 ELSE 0]
    [] c = "HT" -> ToTabStop(OnLine(d))
    [] OTHER -> Here(OnLine(d), LAMBDA e, x, y : Character(e, c, x, y))

Written(d, s) ==
  LET after[n \in 0 .. Len(s)] == IF n = 0 THEN d ELSE Typed(after[n - 1], s[n])
  IN  after[Len(s)]

\* Characters side by side, as many as fit in whole.
Drawn(d, x, y, s) ==
  LET after[n \in 0 .. Len(s)] ==
        IF n = 0 \/ x + n * Wide(d) > d.width THEN IF n = 0 THEN d ELSE after[n - 1]
        ELSE Character(after[n - 1], s[n], x + (n - 1) * Wide(d), y)
  IN  after[Len(s)]

\* A grid of at least one cell; the cursor stays on it, or behind the end of a line.
Gridded(d, font, scale) ==
  LET g == [d EXCEPT !.font = font, !.scale = scale]
  IN  IF scale \notin 1 .. 32 \/ Cols(g) = 0 \/ Rows(g) = 0 THEN [d EXCEPT !.refused = TRUE]
      ELSE [g EXCEPT !.col = IF @ < Cols(g) THEN @ ELSE Cols(g), !.row = IF @ < Rows(g) THEN @ ELSE Rows(g) - 1]

Asked(d, c) ==
  LET e == [d EXCEPT !.refused = FALSE]
  IN CASE c.fn = "write"       -> Written(e, c.s)
       [] c.fn = "draw"        -> Drawn(e, c.x, c.y, c.s)
       [] c.fn = "clear"       -> [e EXCEPT !.picture = [p \in DOMAIN @ |-> e.bg], !.col = 0, !.row = 0]
       [] c.fn = "scale"       -> Gridded(e, e.font, c.scale)
       [] c.fn = "font"        -> Gridded(e, c.font, e.scale)
       [] c.fn = "colors"      -> [e EXCEPT !.fg = c.fg % e.colors, !.bg = c.bg % e.colors]
       [] c.fn = "cursor"      -> [e EXCEPT !.col = IF c.col < Cols(e) THEN c.col ELSE Cols(e) - 1,
                                            !.row = IF c.row < Rows(e) THEN c.row ELSE Rows(e) - 1]
       [] c.fn = "transparent" -> [e EXCEPT !.transparent = c.on]
       [] c.fn = "scroll"      -> [e EXCEPT !.scroll = c.on]

Terminal(surf, font, mem) ==
  [picture |-> Picture(surf, mem), width |-> surf.width, height |-> surf.height, colors |-> 2^(2^surf.gbm),
   font |-> font, scale |-> 1, fg |-> 2^(2^surf.gbm) - 1, bg |-> 0, transparent |-> FALSE, scroll |-> TRUE,
   col |-> 0, row |-> 0, refused |-> FALSE]

\* The terminal before any and after each of the calls.
Shows(surf, font, mem, calls) ==
  LET after[n \in 0 .. Len(calls)] ==
        IF n = 0 THEN Terminal(surf, font, mem) ELSE Asked(after[n - 1], calls[n])
  IN  after
=============================================================================
