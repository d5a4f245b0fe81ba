---------------------------- MODULE VgaController ----------------------------
(***************************************************************************)
(* The picture timing, src/pong/VGA_controller.sv: the 50 MHz clock is     *)
(* halved to a pixel clock, which runs the two nested counters and the two *)
(* sync registers.  The top level (src/pong/lab62.sv) feeds ~vs to the     *)
(* game as its frame clock.                                                *)
(***************************************************************************)
EXTENDS Integers

CONSTANTS
  hpixels, vlines,      \* last column and last line (799, 524)
  HSyncFirst, HSyncEnd, \* hs is low from HSyncFirst up to HSyncEnd (656, 752)
  VSyncA, VSyncB,       \* the two values vc + 1 is compared with (490, 491)
  HVisible, VVisible    \* size of the visible picture (640, 480)

ASSUME PictureAssumption ==
  /\ hpixels \in Nat /\ HSyncFirst \in Nat /\ HSyncEnd \in Nat /\ HVisible \in Nat
  /\ vlines \in Nat /\ VSyncA \in Nat /\ VSyncB \in Nat /\ VVisible \in Nat
  /\ 0 < HVisible /\ HVisible < HSyncFirst /\ HSyncFirst < HSyncEnd
  /\ HSyncEnd <= hpixels
  /\ 0 < VVisible /\ VVisible + 1 < VSyncA /\ VSyncB = VSyncA + 1
  /\ VSyncB < vlines

VARIABLES vga_reset, clkdiv, hc, vc, hs, vs

vgaVars == <<vga_reset, clkdiv, hc, vc, hs, vs>>

(* Registers power up at 0, the sync registers too: both pulses are on.    *)
VgaInit ==
  /\ vga_reset = FALSE
  /\ clkdiv = 0 /\ hc = 0 /\ vc = 0 /\ hs = 0 /\ vs = 0

(* hsync_proc and vsync_proc read the counters before they advance.        *)
HsyncProcOpen ==  \* mutant: the end of the pulse is not tested
  hs' = IF hc + 1 >= HSyncFirst THEN 0 ELSE 1

HsyncProc == hs' = IF hc + 1 >= HSyncFirst /\ hc + 1 < HSyncEnd THEN 0 ELSE 1
VsyncProcEarly ==  \* mutant: the pulse follows the picture at once
  vs' = IF vc + 1 \in {VVisible, VVisible + 1} THEN 0 ELSE 1

VsyncProc == vs' = IF vc + 1 \in {VSyncA, VSyncB} THEN 0 ELSE 1

CounterProcShort ==  \* mutant: wraps a line early
  /\ hc' = IF hc = hpixels THEN 0 ELSE hc + 1
  /\ vc' = IF hc # hpixels THEN vc ELSE IF vc + 1 = vlines THEN 0 ELSE vc + 1

CounterProcStuck ==  \* mutant: the column counter saturates
  /\ hc' = IF hc = hpixels THEN hpixels ELSE hc + 1
  /\ vc' = IF hc # hpixels THEN vc ELSE IF vc = vlines THEN 0 ELSE vc

CounterProc ==
  /\ hc' = IF hc = hpixels THEN 0 ELSE hc + 1
  /\ vc' = IF hc # hpixels THEN vc ELSE IF vc = vlines THEN 0 ELSE vc + 1

(* The Clk edge on which clkdiv rises: the pixel clock.                    *)
PixelEdge ==
  /\ ~vga_reset /\ clkdiv = 0
  /\ clkdiv' = 1
  /\ CounterProc /\ HsyncProc /\ VsyncProc
  /\ UNCHANGED vga_reset

(* The Clk edge on which clkdiv falls.                                     *)
HalfEdge ==
  /\ ~vga_reset /\ clkdiv = 1
  /\ clkdiv' = 0
  /\ UNCHANGED <<vga_reset, hc, vc, hs, vs>>

(* The Reset input, which lab62.sv ties to 0.                              *)
PressVgaReset ==
  /\ ~vga_reset
  /\ vga_reset' = TRUE
  /\ clkdiv' = 0 /\ hc' = 0 /\ vc' = 0 /\ hs' = 0 /\ vs' = 0

ReleaseVgaReset ==
  /\ vga_reset
  /\ vga_reset' = FALSE
  /\ UNCHANGED <<clkdiv, hc, vc, hs, vs>>

VgaNext == PixelEdge \/ HalfEdge \/ PressVgaReset \/ ReleaseVgaReset

VgaSpec == VgaInit /\ [][VgaNext]_vgaVars

(* The 50 MHz clock keeps running.                                         *)
VgaFairSpec == VgaSpec /\ WF_vgaVars(PixelEdge) /\ WF_vgaVars(HalfEdge)

display == hc < HVisible /\ vc < VVisible

(* lab62.sv: frame_clk is ~VGA_VS.                                         *)
FrameClkRises == vs = 1 /\ vs' = 0
-----------------------------------------------------------------------------
VgaTypeOK ==
  /\ vga_reset \in BOOLEAN /\ clkdiv \in 0..1
  /\ hc \in 0..hpixels /\ vc \in 0..vlines
  /\ hs \in 0..1 /\ vs \in 0..1

(* No sync pulse while pixels are shown, once the counters run: the pulses *)
(* are registered one clock before the counter they belong to, and still   *)
(* neither starts early nor ends late.                                     *)
SyncOutsidePicture == (hs = 0 \/ vs = 0) /\ (hc # 0 \/ vc # 0) => ~display

(* The frame clock of the game rises only while nothing is shown, so that  *)
(* the piece never moves in the middle of a picture; Reset is the one      *)
(* exception, its edge is a frame edge too.                                *)
FrameEdgeInBlanking == [][FrameClkRises => ~display' \/ vga_reset']_vgaVars

(* "vertical sync pulse is 2 lines(800 pixels) long at line 490-491"       *)
(* (VGA_controller.sv:98): once the counters run, vs is low on those lines *)
(* alone.                                                                  *)
PulseOnItsLines == vs = 0 /\ (hc # 0 \/ vc # 0) => vc \in {VSyncA, VSyncB}

(* The nested counters and the registered pulses are one sweep with a      *)
(* fixed place for each pulse: lines of equal length, one vertical pulse   *)
(* of two lines per sweep, and a Reset in any phase of the halved clock    *)
(* starts it over.  Where the vertical pulse begins is what the code makes *)
(* of VSyncA, a pixel into the line before it; PulseOnItsLines has what    *)
(* the comment says of it.                                                 *)
Sweep == INSTANCE Raster
           WITH Line <- hpixels + 1, Lines <- vlines + 1,
                HPulse <- HSyncFirst..(HSyncEnd - 1),
                VFirst <- (VSyncA - 1) * (hpixels + 1) + 1,
                VLength <- 2 * (hpixels + 1),
                pos <- vc * (hpixels + 1) + hc

SweepsPicture == Sweep!Spec

(* Unless Reset is held or pressed for ever, the frame clock keeps rising. *)
FramesKeepComing == (<>[]~vga_reset) => []<><<FrameClkRises>>_vgaVars
=============================================================================
