------------------------- MODULE GameLogicRefinement -------------------------
(***************************************************************************)
(* How the registers of Game_Logic.sv implement the column game of         *)
(* ColumnDrop, and the invariant this rests on.                            *)
(***************************************************************************)
EXTENDS GameLogic

-----------------------------------------------------------------------------
(* The four column registers always agree: they power up equal, get the    *)
(* same motion, and nothing loads the piece's own columns.                 *)
Aligned == \A i \in Squares : blockX[i] = blockX[1]

(* The squares fill all rows from the first to the last.                   *)
Contiguous ==
  \A i \in 1..3 : blockY[i] <= blockY[i + 1] /\ blockY[i + 1] <= blockY[i] + 1

AboveFloor == \A i \in Squares : blockY[i] < board_height

(* Column c of Board is a pile that starts at row r.                       *)
PileFrom(c, r) ==
  \A q \in 0..(board_height - 1) : <<q, c>> \in Board <=> q >= r

Stacked == \A c \in Cols : \E r \in 0..board_height : PileFrom(c, r)

BoardAboveFloor == Board \subseteq (0..(board_height - 1)) \X Cols

(* What every state satisfies: the landed squares of each column are one   *)
(* pile without holes, since the piece is a contiguous bar that lands only *)
(* on the floor, on a pile or inside one, or beyond the board, where it    *)
(* leaves nothing.                                                         *)
PileInv ==
  /\ Aligned /\ Contiguous /\ AboveFloor /\ Stacked /\ BoardAboveFloor

-----------------------------------------------------------------------------
Pile == [c \in Cols |-> CHOOSE r \in 0..board_height : PileFrom(c, r)]

Drop == INSTANCE ColumnDrop
          WITH pile <- Pile, x <- blockX[1], dir <- blockXMotion,
               top <- blockY[1], bottom <- blockY[4], speed <- blockYMotion

(* Every step of the registers is a step of the column game, or changes    *)
(* nothing it can see: the bar goes on as the last press of Reset has left *)
(* it, also through the walls; it falls only through free squares, lands   *)
(* only where it touches something or beyond the board, and never twice.   *)
PlaysColumnDrop == Drop!Spec
=============================================================================
