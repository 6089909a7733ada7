----------------------------- MODULE AcrtcConfig ----------------------------
(***************************************************************************)
(* How the HD63484 driver configures the chip (tests/acrtc/hd63484.c): the *)
(* timing of a screen in pixels becomes a configuration, the configuration *)
(* is validated and becomes the values of the chip's registers.            *)
(***************************************************************************)
EXTENDS Integers, FiniteSets, TLC

Flag(b, value) == IF b THEN value ELSE 0
Bit(v, value) == (v \div value) % 2 = 1

UPPER == 0
BASE == 1
LOWER == 2
WINDOW == 3
Screens == 0 .. 3

GAI_8 == 3
GAI_NONE == 5
GAI_HALF == 7
ACM_SINGLE == 0
RSM_NON_INTERLACE == 0

\* The addresses of the registers, and of those that each screen has.
REG_CCR == 2
REG_OMR == 4
REG_DCR == 6
REG_HSR == 130
REG_HDR == 132
REG_VSR == 134
REG_VDR == 136
REG_SP == UPPER :> 140 @@ BASE :> 138 @@ LOWER :> 142
REG_BCR == 144
REG_HWR == 146
REG_VWS == 148
REG_VWW == 150
REG_RAR(n) == 192 + 8 * n
REG_MWR(n) == 194 + 8 * n
REG_SARH(n) == 196 + 8 * n
REG_SARL(n) == 198 + 8 * n
Unused == {152, 154, 156} \cup {224, 226, 228, 230, 232, 234}

\* Bits of the display control register: enabled, and displayed.
DCR_DSP == 32768
DCR_EN == UPPER :> 8192 @@ LOWER :> 2048 @@ WINDOW :> 512
DCR_SE == UPPER :> 4096 @@ BASE :> 16384 @@ LOWER :> 1024 @@ WINDOW :> 256

-----------------------------------------------------------------------------
(* Configurations.                                                         *)

Blank ==
  [enable |-> FALSE, display |-> FALSE, height |-> 0, start_addr |-> 0, start_dot |-> 0,
   mem_width |-> 0, character |-> FALSE, first_raster |-> 0, last_raster |-> 0]

Zeroed ==
  [master |-> FALSE, drawing_priority |-> FALSE, window_smooth_scroll |-> FALSE, static_ram |-> FALSE,
   cursor_skew |-> 0, disp_skew |-> 0, gai |-> 0, acm |-> ACM_SINGLE, rsm |-> RSM_NON_INTERLACE,
   gbm |-> 0, irq_mask |-> 0, hc |-> 0, hsw |-> 0, hds |-> 0, hdw |-> 0, vc |-> 0, vsw |-> 0, vds |-> 0,
   hws |-> 0, hww |-> 0, vws |-> 0, vww |-> 0, screen |-> [n \in Screens |-> Blank], dsp_mode |-> FALSE,
   attr |-> 0, blink_control |-> 0, zero_unused_regs |-> FALSE]

hd63484_config_default ==
  [Zeroed EXCEPT !.master = TRUE, !.zero_unused_regs = TRUE,
                 !.screen[BASE].enable = TRUE, !.screen[BASE].display = TRUE]

hd63484_pixels_per_mcycle(gbm, gai, acm) ==
  LET ppw == 16 \div 2^gbm
      ppmc == IF gai = GAI_HALF THEN ppw \div 2 ELSE ppw * 2^gai
  IN  CASE gbm > 4 \/ gai \notin (0 .. GAI_8) \cup {GAI_HALF} -> 0
        [] acm # ACM_SINGLE -> ppmc \div 2
        [] OTHER -> ppmc

hd63484_mem_width_words(pixels, gbm) == ((pixels * 2^gbm + 15) \div 16) % 65536

\* What the screens above and below leave of the rasters shown.
Left(rasters, screen) == IF ~screen.enable THEN rasters
                         ELSE IF rasters >= screen.height THEN rasters - screen.height ELSE 0
\* A slip the properties must notice: the lower screen's rasters are forgotten.
BaseHeightAlone(c, t) == Left(t.v_active, c.screen[UPPER])
BaseHeight(c, t) == Left(Left(t.v_active, c.screen[UPPER]), c.screen[LOWER])

\* The configuration is changed even if nothing is left for the base screen.
hd63484_config_set_timing(c, t) ==
  LET ppmc == hd63484_pixels_per_mcycle(c.gbm, c.gai, c.acm)
      timed == [c EXCEPT
        !.hc  = ((t.h_active + t.h_front + t.h_sync + t.h_back) \div ppmc) % 65536,
        !.hsw = t.h_sync \div ppmc, !.hds = t.h_back \div ppmc, !.hdw = t.h_active \div ppmc,
        !.vc  = (t.v_active + t.v_front + t.v_sync + t.v_back) % 65536,
        !.vsw = t.v_sync, !.vds = t.v_back]
  IN CASE c.rsm # RSM_NON_INTERLACE -> [rc |-> "UNSUPPORTED", cfg |-> c]
       [] c.rsm = RSM_NON_INTERLACE /\ ppmc = 0 -> [rc |-> "PARAM", cfg |-> c]
       [] OTHER ->
            IF \E part \in {t.h_active, t.h_front, t.h_sync, t.h_back} : part % ppmc # 0
              THEN [rc |-> "PARAM", cfg |-> c]
            ELSE IF BaseHeight(c, t) = 0 THEN [rc |-> "PARAM", cfg |-> timed]
            ELSE [rc |-> "OK", cfg |-> [timed EXCEPT !.screen[BASE].height = BaseHeight(c, t)]]

-----------------------------------------------------------------------------
(* Which configurations are accepted.                                      *)

HorizontalValid(c) ==
  /\ c.hc \in 1 .. 256 /\ c.hsw \in 2 .. 31 /\ c.hds \in 1 .. 256 /\ c.hdw \in 1 .. 256
  /\ c.hsw + c.hds + c.hdw <= c.hc
  /\ c.acm # ACM_SINGLE => c.hdw % 2 = 0

\* The rasters of the screens above one another.
SplitHeights(c) ==
  Flag(c.screen[UPPER].enable, c.screen[UPPER].height) + c.screen[BASE].height
    + Flag(c.screen[LOWER].enable, c.screen[LOWER].height)

VerticalValid(c) ==
  /\ c.vc \in 1 .. 4095 /\ c.vsw \in 1 .. 31 /\ c.vds \in 1 .. 256
  /\ c.vsw + c.vds + SplitHeights(c) <= c.vc

ScreenValid(n, s) ==
  /\ s.mem_width \in 1 .. 4095 /\ s.start_addr < 2^20 /\ s.start_dot <= 15
  /\ s.character => s.first_raster <= 31 /\ s.last_raster <= 31
  /\ n # WINDOW => s.height \in 1 .. 4095

WindowValid(c) ==
  /\ c.hws \in 1 .. 256 /\ c.hww \in 1 .. 256 /\ c.vws \in 1 .. 4096 /\ c.vww \in 1 .. 4095
  /\ c.vws >= c.vds
  /\ c.acm # ACM_SINGLE => c.hww % 2 = 0 /\ c.hws % 2 = c.hds % 2

hd63484_config_validate(c) ==
  /\ c.gbm <= 4 /\ c.cursor_skew <= 3 /\ c.disp_skew <= 3
  /\ c.rsm \in {0, 2, 3} /\ c.acm \in {0, 2, 3} /\ c.gai \in (0 .. GAI_8) \cup {GAI_NONE, GAI_HALF}
  /\ HorizontalValid(c)
  /\ c.screen[BASE].enable
  /\ \A n \in Screens : c.screen[n].enable => ScreenValid(n, c.screen[n])
  /\ VerticalValid(c)
  /\ c.screen[WINDOW].enable => WindowValid(c)

-----------------------------------------------------------------------------
(* Registers, those written as a function from their addresses.            *)

build_omr(c) ==
  Flag(c.master, 32768) + Flag(c.drawing_priority, 8192) + Flag(c.window_smooth_scroll, 4096)
  + (c.cursor_skew % 4) * 1024 + (c.disp_skew % 4) * 256 + Flag(c.static_ram, 128)
  + (c.gai % 8) * 16 + (c.acm % 4) * 4 + (c.rsm % 4)

build_dcr(c) ==
  LET bits(n) == Flag(c.screen[n].enable, DCR_EN[n] + Flag(c.screen[n].display, DCR_SE[n]))
  IN  c.attr + Flag(c.dsp_mode, DCR_DSP) + Flag(c.screen[BASE].display, DCR_SE[BASE])
      + bits(UPPER) + bits(LOWER) + bits(WINDOW)

write_sar(n, addr, dot) ==
  REG_SARH(n) :> (dot % 16) * 256 + ((addr \div 65536) % 16) @@ REG_SARL(n) :> addr % 65536

TimingRegisters(c) ==
  REG_HSR :> (c.hc - 1) * 256 + (c.hsw % 32) @@ REG_HDR :> (c.hds - 1) * 256 + c.hdw - 1
  @@ REG_VSR :> c.vc % 4096 @@ REG_VDR :> (c.vds - 1) * 256 + (c.vsw % 32)
  @@ [r \in {REG_SP[n] : n \in {m \in DOMAIN REG_SP : c.screen[m].enable \/ m = BASE}} |->
        c.screen[CHOOSE n \in DOMAIN REG_SP : REG_SP[n] = r].height % 4096]
  @@ REG_BCR :> c.blink_control

WindowRegisters(c) ==
  REG_HWR :> (c.hws - 1) * 256 + c.hww - 1 @@ REG_VWS :> (c.vws - 1) % 4096 @@ REG_VWW :> c.vww % 4096

ScreenRegisters(n, s) ==
  (IF s.character THEN REG_RAR(n) :> (s.last_raster % 32) * 256 + (s.first_raster % 32) ELSE <<>>)
  @@ REG_MWR(n) :> Flag(s.character, 32768) + (s.mem_width % 4096)
  @@ write_sar(n, s.start_addr, s.start_dot)

ScreensRegisters(c) ==
  LET of(n) == IF c.screen[n].enable THEN ScreenRegisters(n, c.screen[n]) ELSE <<>>
  IN  of(UPPER) @@ of(BASE) @@ of(LOWER) @@ of(WINDOW)

\* What initialisation leaves in the registers, started at last.
hd63484_init(c) ==
  IF ~hd63484_config_validate(c) THEN [rc |-> "PARAM", regs |-> <<>>]
  ELSE [rc |-> "OK",
        regs |-> TimingRegisters(c)
                 @@ (IF c.screen[WINDOW].enable THEN WindowRegisters(c) ELSE <<>>)
                 @@ ScreensRegisters(c)
                 @@ (IF c.zero_unused_regs THEN [r \in Unused |-> 0] ELSE <<>>)
                 @@ REG_DCR :> build_dcr(c)
                 @@ REG_CCR :> (c.gbm % 8) * 256 + c.irq_mask
                 @@ REG_OMR :> build_omr(c) + 16384]

\* Calls that change a register behind its shadow.
Without(v, value) == IF Bit(v, value) THEN v - value ELSE v

hd63484_set_screen_visibility(regs, screen, enable, display) ==
  LET en == IF screen = BASE THEN 0 ELSE DCR_EN[screen]
      cleared == Without(IF en = 0 THEN regs[REG_DCR] ELSE Without(regs[REG_DCR], en), DCR_SE[screen])
  IN  IF screen \notin Screens THEN regs
      ELSE [regs EXCEPT ![REG_DCR] = cleared + Flag(enable, en) + Flag(display, DCR_SE[screen])]

hd63484_set_screen_start(regs, screen, addr, dot) ==
  IF screen > 3 \/ addr >= 2^20 \/ dot > 15 THEN regs ELSE write_sar(screen, addr, dot) @@ regs

-----------------------------------------------------------------------------
\* Where text can be drawn: what is seen of a screen, as far as there is memory for it.
hd63484_surface_from_config(c, screen) ==
  LET sc == c.screen[screen]
      mw_px == sc.mem_width * (16 \div 2^c.gbm)
      ppmc == hd63484_pixels_per_mcycle(c.gbm, c.gai, c.acm)
      vis == IF ppmc = 0 THEN mw_px ELSE (IF screen = WINDOW THEN c.hww ELSE c.hdw) * ppmc
  IN CASE screen > 3 \/ ~sc.enable -> [rc |-> "PARAM"]
       [] screen <= 3 /\ sc.enable /\ sc.character -> [rc |-> "UNSUPPORTED"]
       [] OTHER -> [rc |-> "OK", dn |-> screen, base_addr |-> sc.start_addr, mem_width |-> sc.mem_width,
                    gbm |-> c.gbm, width |-> (IF vis < mw_px THEN vis ELSE mw_px) % 65536,
                    height |-> IF screen = WINDOW THEN c.vww ELSE sc.height]

------------------------------------------------------------------------------
(* External: what the HD63484 shows with its registers set, after the      *)
(* register tables in the header of its driver (tests/acrtc/hd63484.h).    *)

Field(regs, r, from, bits) == IF r \in DOMAIN regs THEN (regs[r] \div 2^from) % 2^bits ELSE 0

\* Memory cycles of a line: in all, sync, from there to the picture, the picture.
LineCycles(regs) ==
  [total |-> Field(regs, 130, 8, 8) + 1, sync |-> Field(regs, 130, 0, 5),
   back |-> Field(regs, 132, 8, 8) + 1, active |-> Field(regs, 132, 0, 8) + 1]

\* Rasters of a frame.
FrameRasters(regs) ==
  [total |-> Field(regs, 134, 0, 12), sync |-> Field(regs, 136, 0, 5), back |-> Field(regs, 136, 8, 8) + 1]

\* Pixels of a memory cycle: the words of it, or half of one, and the pixels of a word.
CyclePixels(regs) ==
  LET word == 16 \div 2^Field(regs, 2, 8, 3)
      increment == Field(regs, 4, 4, 3)
      cycle == IF increment = 7 THEN word \div 2 ELSE word * 2^increment
  IN  IF Field(regs, 4, 2, 2) = 0 THEN cycle ELSE cycle \div 2

\* The screens: upper, base, lower and window.  The base screen is always enabled.
Enabled(regs, n) == n = 1 \/ Field(regs, 6, CASE n = 0 -> 13 [] n = 2 -> 11 [] OTHER -> 9, 1) = 1
Displayed(regs, n) ==
  Field(regs, 6, CASE n = 0 -> 12 [] n = 1 -> 14 [] n = 2 -> 10 [] OTHER -> 8, 1) = 1
Height(regs, n) == Field(regs, CASE n = 0 -> 140 [] n = 1 -> 138 [] n = 2 -> 142 [] OTHER -> 150, 0, 12)
FirstWord(regs, n) == Field(regs, 196 + 8 * n, 0, 4) * 65536 + Field(regs, 198 + 8 * n, 0, 16)
FirstDot(regs, n) == Field(regs, 196 + 8 * n, 8, 4)
WordsAcross(regs, n) == Field(regs, 194 + 8 * n, 0, 12)
HasCharacters(regs, n) == Field(regs, 194 + 8 * n, 15, 1) = 1
CharacterRasters(regs, n) == [first |-> Field(regs, 192 + 8 * n, 0, 5), last |-> Field(regs, 192 + 8 * n, 8, 5)]
Window(regs) ==
  [left |-> Field(regs, 146, 8, 8) + 1, across |-> Field(regs, 146, 0, 8) + 1,
   top |-> Field(regs, 148, 0, 12) + 1, down |-> Field(regs, 150, 0, 12)]
==============================================================================
