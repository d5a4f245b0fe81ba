------------------------------ MODULE GameLogic ------------------------------
(***************************************************************************)
(* The game engine, src/pong/Game_Logic.sv: a frame divider, the column    *)
(* registers of the moving piece, its row registers with the board of      *)
(* landed squares, and the sampling of the keyboard.                       *)
(*                                                                         *)
(* One action per clock edge.  The divider and MoveX_Block run on          *)
(* frame_clk; MoveY_Block runs on move_clk, a register the divider writes, *)
(* so its edge follows the frame edge at once and its step is part of the  *)
(* frame's action.  Input_Block runs on Clk and on the edge of Reset, but  *)
(* the game's only instance, lab62.sv:231, leaves Clk open: a press of     *)
(* Reset is all that samples the keyboard, and the motion it finds is      *)
(* added at every frame until the next press.                              *)
(*                                                                         *)
(* color and piece_rotation are left out: nothing reads the second, and    *)
(* the first only leaves on an output.                                     *)
(***************************************************************************)
EXTENDS Integers

CONSTANTS
  board_width,      \* last column a piece may enter (11)
  board_height,     \* rows 0 .. board_height exist (18)
  frames_per_move,  \* the divider wraps when frame_count exceeds it (13)
  XMod,             \* column registers hold 0 .. XMod - 1 (64: six bits)
  BoardBits         \* bits of a row of Board (16)

ASSUME BoardAssumption ==
  /\ board_width \in Nat \ {0} /\ board_height \in Nat /\ board_height >= 3
  /\ BoardBits \in Nat /\ board_width < BoardBits
  /\ XMod \in Nat /\ BoardBits <= XMod
ASSUME DividerAssumption ==  \* frame_count has six bits
  frames_per_move \in Nat /\ frames_per_move <= 62

VARIABLES
  reset,         \* the Reset input, a push button
  frame_count, move_clk,
  blockX, blockY,                  \* columns and rows of the four squares
  blockXMotion, blockYMotion,
  piece_count,                     \* index of the piece to come
  Board                            \* the <<row, column>> bits that are set

gameVars == <<reset, frame_count, move_clk, blockX, blockY,
          blockXMotion, blockYMotion, piece_count, Board>>

Squares == 1..4
Keys == {"A", "D", "other"}
Rows == 0..board_height
Cols == 0..(BoardBits - 1)

\* Pieces[p][0][i][5:3]: the rows of piece p's squares, relative to the top.
PieceRows ==
  [p \in 0..2 |-> IF p = 1 THEN <<0, 0, 1, 1>> ELSE <<0, 1, 1, 2>>]

\* Pieces[p][0][i][2:0]: the columns of the same squares.
PieceCols ==
  [p \in 0..2 |-> IF p = 1 THEN <<0, 1, 0, 1>> ELSE <<0, 0, 1, 1>>]

-----------------------------------------------------------------------------
(* Every register powers up at 0; the Reset button may be held already.    *)
GameInit ==
  /\ reset \in BOOLEAN
  /\ frame_count = 0 /\ move_clk = 0
  /\ blockX = [i \in Squares |-> 0]
  /\ blockY = [i \in Squares |-> 0]
  /\ blockXMotion = 0 /\ blockYMotion = 0
  /\ piece_count = 0
  /\ Board = {}

-----------------------------------------------------------------------------
(* Input_Block: a motion for the frames to come, from the key held down.   *)
MotionFor(key) ==
  IF key = "A" /\ \A i \in Squares : blockX[i] > 0 THEN -1
  ELSE IF key = "D" /\ \A i \in Squares : blockX[i] < board_width THEN 1
  ELSE 0

SampleKeyNoFall ==  \* mutant: the default of blockYMotion is lost
  /\ \E key \in Keys : blockXMotion' = MotionFor(key)
  /\ blockYMotion' = 0

SampleKey ==
  /\ \E key \in Keys : blockXMotion' = MotionFor(key)
  /\ blockYMotion' = 1

(* The edge of Reset clears the divider's count and samples the key.       *)
PressReset ==
  /\ ~reset
  /\ reset' = TRUE
  /\ frame_count' = 0
  /\ SampleKey
  /\ UNCHANGED <<move_clk, blockX, blockY, piece_count, Board>>

ReleaseReset ==
  /\ reset
  /\ reset' = FALSE
  /\ UNCHANGED <<frame_count, move_clk, blockX, blockY,
                 blockXMotion, blockYMotion, piece_count, Board>>

-----------------------------------------------------------------------------
(* MoveX_Block.  The assignments of its Reset branch are overridden by the *)
(* ones that follow it, so every frame adds the motion, modulo the width.  *)
WrapX(n) ==
  IF n < 0 THEN n + XMod ELSE IF n >= XMod THEN n - XMod ELSE n

MovedXFirstOnly ==  \* mutant: one of the four assignments only
  [blockX EXCEPT ![1] = WrapX(@ + blockXMotion)]

MovedX == [i \in Squares |-> WrapX(blockX[i] + blockXMotion)]

(* What every edge of frame_clk does.                                      *)
FrameEdge ==
  /\ blockX' = MovedX
  /\ UNCHANGED <<reset, blockXMotion, blockYMotion>>

(* The divider under Reset: the count is held, move_clk is not assigned.   *)
FrameHeld ==
  /\ reset
  /\ FrameEdge
  /\ frame_count' = 0
  /\ UNCHANGED <<move_clk, blockY, piece_count, Board>>

(* The divider counting: move_clk falls or stays low.                      *)
FrameCounted ==
  /\ ~reset /\ frame_count <= frames_per_move
  /\ FrameEdge
  /\ frame_count' = frame_count + 1
  /\ move_clk' = 0
  /\ UNCHANGED <<blockY, piece_count, Board>>

(* The divider wrapping: move_clk rises.                                   *)
MoveEdge ==
  /\ ~reset /\ frame_count > frames_per_move
  /\ move_clk = 0
  /\ FrameEdge
  /\ frame_count' = 0
  /\ move_clk' = 1

(* MoveY_Block reads the columns in the very step that writes them: the    *)
(* build may let it see the old or the new ones.                           *)
SeenX == {blockX, MovedX}

NextRow(i) == blockY[i] + blockYMotion

BlockedByFloor(xs) ==  \* mutant: the test of Board is missing
  \E i \in Squares : NextRow(i) >= board_height

Blocked(xs) ==
  \E i \in Squares : \/ <<NextRow(i), xs[i]>> \in Board
                     \/ NextRow(i) >= board_height

\* Beyond the last bit of a row a write is lost and a read brings anything.
Beyond(xs) == \E i \in Squares : xs[i] >= BoardBits

Footprint(xs) ==
  {c \in {<<blockY[i], xs[i]>> : i \in Squares} : c[2] < BoardBits}

FrameFall ==
  /\ MoveEdge
  /\ \E xs \in SeenX : ~Blocked(xs)
  /\ blockY' = [i \in Squares |-> NextRow(i)]
  /\ UNCHANGED <<piece_count, Board>>

FrameLandAlone ==  \* mutant: the landed piece replaces the board
  /\ MoveEdge
  /\ \E xs \in SeenX : (Blocked(xs) \/ Beyond(xs)) /\ Board' = Footprint(xs)
  /\ blockY' = PieceRows[piece_count]
  /\ piece_count' = IF piece_count = 2 THEN 0 ELSE piece_count + 1

FrameLand ==
  /\ MoveEdge
  /\ \E xs \in SeenX : /\ Blocked(xs) \/ Beyond(xs)
                       /\ Board' = Board \cup Footprint(xs)
  /\ blockY' = PieceRows[piece_count]
  /\ piece_count' = IF piece_count = 2 THEN 0 ELSE piece_count + 1

-----------------------------------------------------------------------------
Frame == FrameHeld \/ FrameCounted \/ FrameFall \/ FrameLand

GameNext == PressReset \/ ReleaseReset \/ Frame

GameSpec == GameInit /\ [][GameNext]_gameVars

(* frame_clk keeps running; nobody has to touch the Reset button.          *)
GameFairness == WF_gameVars(Frame)

GameFairSpec == GameSpec /\ GameFairness
-----------------------------------------------------------------------------
(* Every register within its width.                                        *)
GameTypeOK ==
  /\ reset \in BOOLEAN
  /\ frame_count \in 0..(frames_per_move + 1) /\ move_clk \in 0..1
  /\ blockX \in [Squares -> 0..(XMod - 1)]
  /\ blockY \in [Squares -> Rows]
  /\ blockXMotion \in {-1, 0, 1} /\ blockYMotion \in 0..1
  /\ piece_count \in 0..2
  /\ Board \subseteq Rows \X Cols

(* Nothing hangs in the air: a landed square rests on the floor (the last  *)
(* row MoveY_Block lets a piece reach) or on another landed square,        *)
(* whatever moves sideways and lands inside the stack.                     *)
NoHoles ==
  \A c \in Board : c[1] = board_height - 1 \/ <<c[1] + 1, c[2]>> \in Board

(* move_clk is high for one frame only, so that its next edge is never     *)
(* swallowed, also when Reset interrupts the count.                        *)
MoveClkPulse == move_clk = 1 => frame_count <= frames_per_move

(* A landed square stays: no step, a Reset included, clears a bit of       *)
(* Board.                                                                  *)
LandedStay == [][Board \subseteq Board']_gameVars

(* Before the first press of Reset the motion down is 0 and no piece falls *)
(* at all.  Once Reset has been pressed, and unless it is held for ever,   *)
(* pieces keep landing, inside the well or outside of it.                  *)
PiecesKeepLanding ==
  <>(~reset /\ <>reset) /\ <>[]~reset => []<><<FrameLand>>_gameVars

=============================================================================
