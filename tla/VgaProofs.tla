------------------------------ MODULE VgaProofs ------------------------------
(***************************************************************************)
(* Proofs about the picture timing, for every size of the picture that     *)
(* PictureAssumption allows.                                               *)
(***************************************************************************)
EXTENDS VgaController, TLAPS

(* Where the counters are determines the two sync registers, but for the   *)
(* start after a reset, when both pulses are on.  The vertical pulse is    *)
(* registered on the last column of a line, so it begins and ends one      *)
(* column after the start of its lines.                                    *)
AtStart == hc = 0 /\ vc = 0 /\ hs = 0 /\ vs = 0

InHPulse == HSyncFirst <= hc /\ hc < HSyncEnd

InVPulse ==
  \/ vc = VSyncA - 1 /\ hc >= 1
  \/ vc = VSyncA
  \/ vc = VSyncB /\ hc = 0

Registered ==
  \/ AtStart
  \/ /\ hs = IF InHPulse THEN 0 ELSE 1
     /\ vs = IF InVPulse THEN 0 ELSE 1

IInv == VgaTypeOK /\ Registered

LEMMA InitIInv == VgaInit => IInv
<1> SUFFICES ASSUME VgaInit PROVE IInv
  OBVIOUS
<1>1. vga_reset \in BOOLEAN
  BY DEF VgaInit
<1>2. VgaTypeOK
  BY <1>1, PictureAssumption DEF VgaInit, VgaTypeOK
<1> QED  BY <1>2 DEF VgaInit, IInv, Registered, AtStart

(* A pixel clock keeps the counters in the picture and sets both pulses to *)
(* what belongs to the place the counters move to.                         *)
LEMMA PixelEdgeKeeps ==
  ASSUME IInv, PixelEdge
  PROVE  IInv'
<1> USE PictureAssumption
<1>1. hc \in 0..hpixels /\ vc \in 0..vlines
  BY DEF IInv, VgaTypeOK
<1>2. /\ hc' = IF hc = hpixels THEN 0 ELSE hc + 1
      /\ vc' = IF hc # hpixels THEN vc ELSE IF vc = vlines THEN 0 ELSE vc + 1
  BY DEF PixelEdge, CounterProc
<1>3. hs' = IF InHPulse' THEN 0 ELSE 1
  BY <1>1, <1>2 DEF PixelEdge, HsyncProc, InHPulse
<1>4. vs' = IF InVPulse' THEN 0 ELSE 1
  <2>1. vs' = IF vc = VSyncA - 1 \/ vc = VSyncA THEN 0 ELSE 1
    BY <1>1 DEF PixelEdge, VsyncProc
  <2> QED  BY <1>1, <1>2, <2>1 DEF InVPulse
<1>5. VgaTypeOK'
  BY <1>1, <1>2, <1>3, <1>4 DEF IInv, VgaTypeOK, PixelEdge
<1> QED  BY <1>3, <1>4, <1>5 DEF IInv, Registered

LEMMA StepIInv == IInv /\ [VgaNext]_vgaVars => IInv'
<1> SUFFICES ASSUME IInv, [VgaNext]_vgaVars PROVE IInv'
  OBVIOUS
<1>1. CASE PixelEdge
  BY <1>1, PixelEdgeKeeps
<1>2. CASE HalfEdge
  BY <1>2 DEF HalfEdge, IInv, VgaTypeOK, Registered, AtStart, InHPulse, InVPulse
<1>3. CASE PressVgaReset
  BY <1>3, PictureAssumption DEF PressVgaReset, IInv, VgaTypeOK, Registered, AtStart
<1>4. CASE ReleaseVgaReset
  BY <1>4 DEF ReleaseVgaReset, IInv, VgaTypeOK, Registered, AtStart, InHPulse, InVPulse
<1>5. CASE UNCHANGED vgaVars
  BY <1>5 DEF vgaVars, IInv, VgaTypeOK, Registered, AtStart, InHPulse, InVPulse
<1> QED  BY <1>1, <1>2, <1>3, <1>4, <1>5 DEF VgaNext

LEMMA Invariance == VgaSpec => []IInv
BY InitIInv, StepIInv, PTL DEF VgaSpec

(* Counters and registers of VGA_controller.sv stay in their ranges.       *)
THEOREM VgaTypeCorrect == VgaSpec => []VgaTypeOK
<1>1. IInv => VgaTypeOK
  BY DEF IInv
<1> QED  BY <1>1, Invariance, PTL

(* No sync pulse of VGA_controller.sv reaches into the picture.            *)
THEOREM SyncOutside == VgaSpec => []SyncOutsidePicture
<1>1. IInv => SyncOutsidePicture
  BY PictureAssumption
     DEF IInv, VgaTypeOK, Registered, AtStart, InHPulse, InVPulse, SyncOutsidePicture, display
<1> QED  BY <1>1, Invariance, PTL

(* The frame clock of the game rises in the blanking only, or on the edge  *)
(* of Reset.                                                               *)
THEOREM FrameEdgeBlanked == VgaSpec => FrameEdgeInBlanking
<1>1. IInv /\ [VgaNext]_vgaVars => [FrameClkRises => ~display' \/ vga_reset']_vgaVars
  <2> SUFFICES ASSUME IInv, VgaNext, FrameClkRises PROVE ~display' \/ vga_reset'
    OBVIOUS
  <2>1. CASE PixelEdge
    BY <2>1, PictureAssumption
       DEF IInv, VgaTypeOK, PixelEdge, CounterProc, VsyncProc, FrameClkRises, display
  <2>2. CASE PressVgaReset
    BY <2>2 DEF PressVgaReset
  <2>3. CASE HalfEdge \/ ReleaseVgaReset
    BY <2>3 DEF HalfEdge, ReleaseVgaReset, FrameClkRises
  <2> QED  BY <2>1, <2>2, <2>3 DEF VgaNext
<1> QED  BY <1>1, Invariance, PTL DEF VgaSpec, FrameEdgeInBlanking

-----------------------------------------------------------------------------
(* Lines and columns as one position.                                      *)

(* The whole of a line comes before the next line.                         *)
LEMMA LinesInOrder ==
  ASSUME NEW a \in Nat, NEW b \in Nat, NEW n \in Nat, a < b
  PROVE  a * n + n <= b * n
<1> DEFINE d == b - a - 1
<1>1. d \in Nat
  OBVIOUS
<1>2. d * n \in Nat
  BY <1>1
<1>3. (a + 1 + d) * n = a * n + n + d * n
  BY <1>1
<1> QED  BY <1>2, <1>3

(* The column is what is left of the position.                             *)
LEMMA ColumnOfPosition ==
  ASSUME NEW v \in Nat, NEW n \in Nat, NEW h \in Nat, h < n
  PROVE  (v * n + h) % n = h
<1> DEFINE p == v * n + h
           q == p \div n
           r == p % n
<1>1. q \in Nat /\ r \in 0..(n - 1) /\ p = q * n + r
  OBVIOUS
<1>2. q >= v
  <2> SUFFICES ASSUME q < v PROVE FALSE
    BY <1>1
  <2>1. q * n + n <= v * n
    BY LinesInOrder, <1>1
  <2> QED  BY <1>1, <2>1
<1>3. q <= v
  <2> SUFFICES ASSUME v < q PROVE FALSE
    BY <1>1
  <2>1. v * n + n <= q * n
    BY LinesInOrder, <1>1
  <2> QED  BY <1>1, <2>1
<1> QED  BY <1>1, <1>2, <1>3

Pos == vc * (hpixels + 1) + hc
Total == (hpixels + 1) * (vlines + 1)

(* A pixel clock moves the position on by one, around at the end.          *)
LEMMA PositionAdvances ==
  ASSUME VgaTypeOK, CounterProc
  PROVE  /\ Pos \in 0..(Total - 1)
         /\ Pos' = (Pos + 1) % Total
<1> USE PictureAssumption
<1> DEFINE n == hpixels + 1
<1>1. hc \in 0..hpixels /\ vc \in 0..vlines /\ n \in Nat /\ n > 0
  BY DEF VgaTypeOK
<1>2. Pos = vc * n + hc /\ Pos' = vc' * n + hc' /\ Total = (vlines + 1) * n
  BY <1>1 DEF Pos, Total
<1>3. vc * n + n <= (vlines + 1) * n
  <2>1. vc < vlines + 1 /\ vlines + 1 \in Nat /\ vc \in Nat
    BY <1>1
  <2> QED  BY <1>1, <2>1, LinesInOrder
<1>4. vc * n \in Nat /\ (vlines + 1) * n \in Nat /\ Total \in Nat /\ Total > 0
  BY <1>1, <1>2, <1>3
<1>5. Pos \in 0..(Total - 1)
  <2> HIDE DEF n
  <2>1. hc < n /\ hc \in Nat
    BY <1>1 DEF n
  <2> QED  BY <1>1, <1>2, <1>3, <1>4, <2>1
<1>6. CASE hc # hpixels
  <2>1. vc' = vc /\ hc' = hc + 1 /\ hc + 1 < n
    BY <1>1, <1>6 DEF CounterProc
  <2>2. Pos' = Pos + 1 /\ Pos + 1 < Total
    BY <1>1, <1>2, <1>3, <1>4, <2>1
  <2> QED  BY <1>4, <1>5, <2>2
<1>7. CASE hc = hpixels /\ vc # vlines
  <2>1. vc' = vc + 1 /\ hc' = 0 /\ vc + 1 < vlines + 1
    BY <1>1, <1>7 DEF CounterProc
  <2>2. vc' * n = vc * n + n
    BY <1>1, <2>1
  <2>3. (vc + 1) * n + n <= (vlines + 1) * n
    BY <1>1, <2>1, LinesInOrder
  <2>4. Pos' = Pos + 1 /\ Pos + 1 < Total
    BY <1>1, <1>2, <1>4, <1>7, <2>1, <2>2, <2>3
  <2> QED  BY <1>4, <1>5, <2>4
<1>8. CASE hc = hpixels /\ vc = vlines
  <2>1. vc' = 0 /\ hc' = 0
    BY <1>8 DEF CounterProc
  <2>2. Pos' = 0
    BY <1>1, <1>2, <2>1
  <2>3. Pos + 1 = Total
    BY <1>1, <1>2, <1>8
  <2>4. Total % Total = 0
    BY <1>4
  <2> QED  BY <1>5, <2>2, <2>3, <2>4
<1> QED  BY <1>5, <1>6, <1>7, <1>8

(* The levels at a place are the ones a display expects at its position.   *)
LEMMA LevelsOfPosition ==
  ASSUME VgaTypeOK
  PROVE  /\ Sweep!HLevel(Pos) = IF InHPulse THEN 0 ELSE 1
         /\ Sweep!VLevel(Pos) = IF InVPulse THEN 0 ELSE 1
<1> USE PictureAssumption
<1> DEFINE n == hpixels + 1
           first == (VSyncA - 1) * n + 1
<1>1. hc \in 0..hpixels /\ vc \in 0..vlines /\ n \in Nat /\ n > 0 /\ hc < n
  BY DEF VgaTypeOK
<1>2. Pos = vc * n + hc /\ vc * n \in Nat
  BY <1>1 DEF Pos
<1>3. Pos % n = hc
  BY <1>1, <1>2, ColumnOfPosition
<1>4. Sweep!HLevel(Pos) = IF InHPulse THEN 0 ELSE 1
  BY <1>1, <1>3 DEF Sweep!HLevel, InHPulse
<1>5. /\ Sweep!VLevel(Pos) = IF first <= Pos /\ Pos < first + 2 * n THEN 0 ELSE 1
      /\ first \in Nat
  BY <1>1 DEF Sweep!VLevel
<1>6. /\ VSyncA - 1 \in Nat /\ VSyncA + 1 \in Nat
      /\ VSyncA * n = (VSyncA - 1) * n + n
      /\ (VSyncA + 1) * n = (VSyncA - 1) * n + 2 * n
  BY <1>1
<1>7. CASE vc < VSyncA - 1
  <2>1. vc * n + n <= (VSyncA - 1) * n
    BY <1>1, <1>6, <1>7, LinesInOrder
  <2>2. Pos < first /\ ~InVPulse
    BY <1>1, <1>2, <1>7, <2>1 DEF InVPulse
  <2> QED  BY <1>2, <1>4, <1>5, <2>2
<1>8. CASE vc \in {VSyncA - 1, VSyncA, VSyncA + 1}
  <2>1. (first <= Pos /\ Pos < first + 2 * n) <=> InVPulse
    BY <1>1, <1>2, <1>6, <1>8 DEF InVPulse
  <2> QED  BY <1>4, <1>5, <2>1
<1>9. CASE vc > VSyncA + 1
  <2>1. (VSyncA + 1) * n + n <= vc * n
    BY <1>1, <1>6, <1>9, LinesInOrder
  <2>2. Pos >= first + 2 * n /\ ~InVPulse
    BY <1>1, <1>2, <1>6, <1>9, <2>1 DEF InVPulse
  <2> QED  BY <1>2, <1>4, <1>5, <2>2
<1> QED  BY <1>1, <1>7, <1>8, <1>9

LEMMA SweepInit == VgaInit => Sweep!Init
BY PictureAssumption DEF VgaInit, Sweep!Init

LEMMA SweepStep ==
  IInv /\ IInv' /\ [VgaNext]_vgaVars => [Sweep!Advance \/ Sweep!Restart]_(Sweep!vars)
<1> SUFFICES ASSUME IInv, IInv', [VgaNext]_vgaVars
             PROVE  [Sweep!Advance \/ Sweep!Restart]_(Sweep!vars)
  OBVIOUS
<1> USE PictureAssumption
<1>1. CASE PixelEdge
  <2>1. Pos' = (Pos + 1) % Total
    BY <1>1, PositionAdvances DEF PixelEdge, IInv
  <2>2. ~AtStart'
    BY <1>1 DEF PixelEdge, CounterProc, VsyncProc, HsyncProc, AtStart, IInv, VgaTypeOK
  <2>3. hs' = (IF InHPulse THEN 0 ELSE 1)' /\ vs' = (IF InVPulse THEN 0 ELSE 1)'
    BY <2>2 DEF IInv, Registered
  <2>4. hs' = Sweep!HLevel(Pos)' /\ vs' = Sweep!VLevel(Pos)'
    <3>1. (VgaTypeOK => /\ Sweep!HLevel(Pos) = IF InHPulse THEN 0 ELSE 1
                     /\ Sweep!VLevel(Pos) = IF InVPulse THEN 0 ELSE 1)'
      BY LevelsOfPosition, PTL
    <3> QED  BY <2>3, <3>1 DEF IInv
  <2> QED  BY <2>1, <2>4 DEF Sweep!Advance, Sweep!HLevel, Sweep!VLevel, Pos, Total
<1>2. CASE HalfEdge \/ ReleaseVgaReset \/ UNCHANGED vgaVars
  BY <1>2 DEF HalfEdge, ReleaseVgaReset, vgaVars, Sweep!vars
<1>3. CASE PressVgaReset
  BY <1>3 DEF PressVgaReset, Sweep!Restart
<1> QED  BY <1>1, <1>2, <1>3 DEF VgaNext

(* VGA_controller.sv sweeps the picture: one position and two levels that  *)
(* depend on nothing else, for every size of lines and frames.             *)
THEOREM SweepRefinement == VgaSpec => SweepsPicture
BY SweepInit, SweepStep, Invariance, PTL DEF VgaSpec, SweepsPicture, Sweep!Spec
=============================================================================
