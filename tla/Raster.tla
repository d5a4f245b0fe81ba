------------------------------- MODULE Raster --------------------------------
(***************************************************************************)
(* What a display sees of src/pong/VGA_controller.sv: one position that    *)
(* sweeps the picture without end, and two sync levels that depend on      *)
(* nothing but the position.                                               *)
(***************************************************************************)
EXTENDS Integers

CONSTANTS Line,      \* pixel clocks of a line
          Lines,     \* lines of a frame
          HPulse,    \* columns at which hs is low
          VFirst,    \* first position at which vs is low
          VLength    \* and for how many it stays low

VARIABLES pos, hs, vs

vars == <<pos, hs, vs>>

Init == pos = 0 /\ hs = 0 /\ vs = 0

HLevel(p) == IF p % Line \in HPulse THEN 0 ELSE 1
VLevel(p) == IF VFirst <= p /\ p < VFirst + VLength THEN 0 ELSE 1

Advance ==
  /\ pos' = (pos + 1) % (Line * Lines)
  /\ hs' = HLevel(pos')
  /\ vs' = VLevel(pos')

(* A reset starts the picture over, with both pulses on.                   *)
Restart == pos' = 0 /\ hs' = 0 /\ vs' = 0

Spec == Init /\ [][Advance \/ Restart]_vars
=============================================================================
