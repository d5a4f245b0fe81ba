-------------------------- MODULE GameLogicProofs ---------------------------
(***************************************************************************)
(* Proofs about the game engine, for every size of the board, every length *)
(* of the divider and every width of the registers.                        *)
(***************************************************************************)
EXTENDS GameLogicRefinement, TLAPS

(* Every piece of the table is a contiguous bar of two or three rows.      *)
LEMMA PieceRowsShape ==
  ASSUME NEW p \in 0..2
  PROVE  /\ PieceRows[p] \in [Squares -> 0..2]
         /\ PieceRows[p][1] = 0 /\ PieceRows[p][4] \in 1..2
         /\ \A i \in 1..3 : /\ PieceRows[p][i] <= PieceRows[p][i + 1]
                            /\ PieceRows[p][i + 1] <= PieceRows[p][i] + 1
<1>1. CASE p = 1
  BY <1>1 DEF PieceRows, Squares
<1>2. CASE p # 1
  BY <1>2 DEF PieceRows, Squares
<1> QED  BY <1>1, <1>2

(* The column adder stays within the width of the registers.               *)
LEMMA MovedXType ==
  ASSUME GameTypeOK
  PROVE  MovedX \in [Squares -> 0..(XMod - 1)]
<1> USE BoardAssumption
<1>1. ASSUME NEW i \in Squares PROVE WrapX(blockX[i] + blockXMotion) \in 0..(XMod - 1)
  <2>1. blockX[i] \in 0..(XMod - 1) /\ blockXMotion \in {-1, 0, 1}
    BY DEF GameTypeOK
  <2> QED  BY <2>1 DEF WrapX
<1> QED  BY <1>1 DEF MovedX

(* A piece that is not blocked has room below all its squares.             *)
LEMMA FallType ==
  ASSUME GameTypeOK, NEW xs \in SeenX, ~Blocked(xs)
  PROVE  \A i \in Squares : NextRow(i) \in 0..(board_height - 1)
<1>1. ASSUME NEW i \in Squares PROVE NextRow(i) \in 0..(board_height - 1)
  <2>1. blockY[i] \in Nat /\ blockYMotion \in Nat
    BY BoardAssumption DEF GameTypeOK, Rows
  <2>2. ~(NextRow(i) >= board_height)
    BY DEF Blocked
  <2> QED  BY <2>1, <2>2, BoardAssumption DEF NextRow
<1> QED  BY <1>1

(* Landing writes only bits that Board has.                                *)
LEMMA FootprintType ==
  ASSUME GameTypeOK, NEW xs \in SeenX
  PROVE  Footprint(xs) \subseteq Rows \X Cols
<1>1. xs \in [Squares -> 0..(XMod - 1)]
  BY MovedXType DEF SeenX, GameTypeOK
<1>2. ASSUME NEW c \in Footprint(xs) PROVE c \in Rows \X Cols
  <2>1. PICK i \in Squares : c = <<blockY[i], xs[i]>>
    BY DEF Footprint
  <2>2. blockY[i] \in Rows /\ xs[i] \in 0..(XMod - 1) /\ xs[i] < BoardBits
    BY <1>1, <2>1 DEF Footprint, GameTypeOK
  <2>3. xs[i] \in Cols
    BY <2>2, BoardAssumption DEF Cols
  <2> QED  BY <2>1, <2>2, <2>3
<1> QED  BY <1>2

-----------------------------------------------------------------------------
(* Every register of Game_Logic.sv keeps to its width.                     *)
THEOREM TypeCorrect == GameSpec => []GameTypeOK
<1>1. GameInit => GameTypeOK
  <2> SUFFICES ASSUME GameInit PROVE GameTypeOK
    OBVIOUS
  <2>1. 0 \in Rows /\ 0 \in 0..(XMod - 1) /\ 0 \in 0..(frames_per_move + 1)
    BY BoardAssumption, DividerAssumption DEF Rows
  <2>2. /\ blockX \in [Squares -> 0..(XMod - 1)]
        /\ blockY \in [Squares -> Rows]
    BY <2>1 DEF GameInit
  <2>3. reset \in BOOLEAN /\ Board \subseteq Rows \X Cols
    BY Zenon DEF GameInit
  <2>4. /\ frame_count \in 0..(frames_per_move + 1) /\ move_clk \in 0..1
        /\ blockXMotion \in {-1, 0, 1} /\ blockYMotion \in 0..1
        /\ piece_count \in 0..2
    BY <2>1 DEF GameInit
  <2> QED  BY <2>2, <2>3, <2>4 DEF GameTypeOK
<1>2. GameTypeOK /\ [GameNext]_gameVars => GameTypeOK'
  <2> SUFFICES ASSUME GameTypeOK, [GameNext]_gameVars PROVE GameTypeOK'
    OBVIOUS
  <2>0. ASSUME SampleKey
        PROVE  blockXMotion' \in {-1, 0, 1} /\ blockYMotion' \in 0..1
    BY <2>0 DEF SampleKey, MotionFor
  <2>1. ASSUME FrameEdge
        PROVE  /\ blockX' \in [Squares -> 0..(XMod - 1)]
               /\ UNCHANGED <<reset, blockXMotion, blockYMotion>>
    BY <2>1, MovedXType DEF FrameEdge
  <2>3. CASE PressReset
    BY <2>3, <2>0, DividerAssumption DEF PressReset, GameTypeOK
  <2>4. CASE ReleaseReset
    BY <2>4 DEF ReleaseReset, GameTypeOK
  <2>5. CASE FrameHeld
    BY <2>5, <2>1, DividerAssumption DEF FrameHeld, GameTypeOK
  <2>6. CASE FrameCounted
    BY <2>6, <2>1, DividerAssumption DEF FrameCounted, GameTypeOK
  <2>7. CASE FrameFall
    <3>1. blockY' \in [Squares -> Rows]
      <4>1. \A i \in Squares : NextRow(i) \in Rows
        BY <2>7, FallType, BoardAssumption DEF FrameFall, Rows
      <4> QED  BY <4>1, <2>7 DEF FrameFall
    <3>2. frame_count' = 0 /\ move_clk' = 1
      BY <2>7 DEF FrameFall, MoveEdge
    <3> QED  BY <3>1, <3>2, <2>7, <2>1, DividerAssumption
             DEF FrameFall, MoveEdge, GameTypeOK
  <2>8. CASE FrameLand
    <3>1. blockY' \in [Squares -> Rows] /\ piece_count' \in 0..2
      BY <2>8, PieceRowsShape, BoardAssumption DEF FrameLand, GameTypeOK, Rows
    <3>2. Board' \subseteq Rows \X Cols
      BY <2>8, FootprintType DEF FrameLand, GameTypeOK
    <3>3. frame_count' = 0 /\ move_clk' = 1
      BY <2>8 DEF FrameLand, MoveEdge
    <3> QED  BY <3>1, <3>2, <3>3, <2>8, <2>1, DividerAssumption
             DEF FrameLand, MoveEdge, GameTypeOK
  <2>9. CASE UNCHANGED gameVars
    BY <2>9 DEF gameVars, GameTypeOK
  <2> QED  BY <2>3, <2>4, <2>5, <2>6, <2>7, <2>8, <2>9 DEF GameNext, Frame
<1> QED  BY <1>1, <1>2, PTL DEF GameSpec

-----------------------------------------------------------------------------
(* The squares of the bar, spelled out: their rows rise from the first to  *)
(* the last, and every row in between is one of theirs.                    *)
LEMMA BarRows ==
  ASSUME GameTypeOK, Contiguous
  PROVE  /\ \A i \in Squares : /\ blockY[i] \in Nat
                               /\ blockY[1] <= blockY[i] /\ blockY[i] <= blockY[4]
         /\ \A q \in Nat : blockY[1] <= q /\ q <= blockY[4]
                              => \E i \in Squares : q = blockY[i]
<1>1. blockY[1] \in Nat /\ blockY[2] \in Nat /\ blockY[3] \in Nat /\ blockY[4] \in Nat
  BY BoardAssumption DEF GameTypeOK, Squares, Rows
<1>2. /\ blockY[1] <= blockY[2] /\ blockY[2] <= blockY[1] + 1
      /\ blockY[2] <= blockY[3] /\ blockY[3] <= blockY[2] + 1
      /\ blockY[3] <= blockY[4] /\ blockY[4] <= blockY[3] + 1
  BY DEF Contiguous
<1>3. \A i \in Squares : i = 1 \/ i = 2 \/ i = 3 \/ i = 4
  BY DEF Squares
<1>4. ASSUME NEW q \in Nat, blockY[1] <= q, q <= blockY[4]
      PROVE  q = blockY[1] \/ q = blockY[2] \/ q = blockY[3] \/ q = blockY[4]
  BY <1>1, <1>2, <1>4
<1>5. 1 \in Squares /\ 2 \in Squares /\ 3 \in Squares /\ 4 \in Squares
  BY DEF Squares
<1> QED  BY <1>1, <1>2, <1>3, <1>4, <1>5

(* The four columns MoveY_Block sees agree, old or new.                    *)
LEMMA SeenAligned ==
  ASSUME GameTypeOK, Aligned, NEW xs \in SeenX
  PROVE  /\ xs \in [Squares -> 0..(XMod - 1)]
         /\ \A i \in Squares : xs[i] = xs[1]
         /\ \A i \in Squares : MovedX[i] = MovedX[1]
<1>1. 1 \in Squares
  BY DEF Squares
<1>2. \A i \in Squares : MovedX[i] = MovedX[1]
  BY <1>1 DEF MovedX, Aligned
<1> QED  BY <1>2, MovedXType DEF SeenX, GameTypeOK, Aligned

(* A bar with a column of the board is not beyond it.                      *)
LEMMA BeyondColumn ==
  ASSUME GameTypeOK, Aligned, NEW xs \in SeenX, xs[1] \in Cols
  PROVE  ~Beyond(xs)
<1>1. xs[1] \in Nat /\ xs[1] < BoardBits
  BY BoardAssumption DEF Cols
<1>2. \A i \in Squares : xs[i] = xs[1]
  BY SeenAligned
<1> QED  BY <1>1, <1>2, BoardAssumption DEF Beyond

(* A blocked bar reaches down to the pile of its column.                   *)
LEMMA BlockedReachesPile ==
  ASSUME GameTypeOK, PileInv, NEW xs \in SeenX, Blocked(xs), xs[1] \in Cols,
         NEW r \in 0..board_height, PileFrom(xs[1], r)
  PROVE  blockY[4] + blockYMotion >= r
<1>1. PICK i \in Squares : \/ <<NextRow(i), xs[i]>> \in Board
                          \/ NextRow(i) >= board_height
  BY DEF Blocked
<1>2. /\ blockY[i] \in Nat /\ blockY[4] \in Nat
      /\ blockY[i] <= blockY[4] /\ blockYMotion \in 0..1
  BY BarRows, 4 \in Squares DEF PileInv, GameTypeOK, Squares
<1>3. NextRow(i) \in Nat /\ NextRow(i) <= blockY[4] + blockYMotion
  BY <1>2 DEF NextRow
<1>4. CASE <<NextRow(i), xs[i]>> \in Board
  <2>1. xs[i] = xs[1]
    BY SeenAligned DEF PileInv
  <2>2. NextRow(i) \in 0..(board_height - 1) /\ <<NextRow(i), xs[1]>> \in Board
    BY <1>4, <2>1 DEF PileInv, BoardAboveFloor
  <2>3. NextRow(i) >= r
    BY <2>2 DEF PileFrom
  <2> QED  BY <2>3, <1>2, <1>3, BoardAssumption
<1>5. CASE NextRow(i) >= board_height
  BY <1>5, <1>2, <1>3, BoardAssumption
<1> QED  BY <1>1, <1>4, <1>5

(* Landing raises the pile of the column to the top of the bar.            *)
LEMMA LandedPile ==
  ASSUME GameTypeOK, PileInv, NEW xs \in SeenX, Blocked(xs), xs[1] \in Cols,
         Board' = Board \cup Footprint(xs),
         NEW r \in 0..board_height, PileFrom(xs[1], r),
         NEW s, s = IF blockY[1] < r THEN blockY[1] ELSE r
  PROVE  s \in 0..board_height /\ PileFrom(xs[1], s)'
<1>1. /\ \A i \in Squares : /\ blockY[i] \in Nat
                             /\ blockY[1] <= blockY[i] /\ blockY[i] <= blockY[4]
      /\ \A q \in Nat : blockY[1] <= q /\ q <= blockY[4]
                           => \E i \in Squares : q = blockY[i]
  BY BarRows DEF PileInv
<1>2. 1 \in Squares /\ 4 \in Squares
  BY DEF Squares
<1>3. r \in Nat /\ r <= board_height
  BY BoardAssumption
<1>4. blockY[4] + 1 >= r
  <2>1. blockYMotion \in 0..1 /\ blockY[4] \in Nat
    BY <1>1, <1>2 DEF GameTypeOK
  <2> QED  BY <2>1, <1>3, BlockedReachesPile
<1>5. xs[1] < BoardBits /\ xs[1] \in Nat
  BY BoardAssumption DEF Cols
<1>6. \A q \in Nat : <<q, xs[1]>> \in Footprint(xs)
                     <=> \E i \in Squares : q = blockY[i]
  BY SeenAligned, <1>5 DEF Footprint, PileInv
<1>7. ASSUME NEW q \in 0..(board_height - 1)
      PROVE  <<q, xs[1]>> \in Board' <=> q >= s
  <2>1. q \in Nat
    BY BoardAssumption
  <2>2. <<q, xs[1]>> \in Board' <=> q >= r \/ \E i \in Squares : q = blockY[i]
    BY <1>6, <2>1 DEF PileFrom
  <2>3. ASSUME q >= r \/ \E i \in Squares : q = blockY[i] PROVE q >= s
    BY <2>1, <2>3, <1>1, <1>2, <1>3
  <2>4. ASSUME q >= s, ~(q >= r) PROVE \E i \in Squares : q = blockY[i]
    BY <2>1, <2>4, <1>1, <1>2, <1>3, <1>4
  <2> QED  BY <2>2, <2>3, <2>4
<1>8. s \in 0..board_height
  BY <1>1, <1>2, <1>3, BoardAssumption
<1> QED  BY <1>7, <1>8 DEF PileFrom

(* The other columns keep theirs.                                          *)
LEMMA OtherPile ==
  ASSUME GameTypeOK, Aligned, NEW xs \in SeenX, Board' = Board \cup Footprint(xs),
         NEW c \in Cols, c # xs[1], NEW r, PileFrom(c, r)
  PROVE  PileFrom(c, r)'
<1>1. ASSUME NEW q \in 0..(board_height - 1) PROVE <<q, c>> \notin Footprint(xs)
  BY SeenAligned DEF Footprint
<1> QED  BY <1>1 DEF PileFrom

-----------------------------------------------------------------------------
(* PileInv is inductive.                                                   *)
LEMMA PileInvInit == GameInit => PileInv
<1> SUFFICES ASSUME GameInit PROVE PileInv
  OBVIOUS
<1>1. Aligned /\ Contiguous /\ AboveFloor
  BY BoardAssumption DEF GameInit, Aligned, Contiguous, AboveFloor, Squares
<1>2. Stacked
  <2>1. ASSUME NEW c \in Cols PROVE PileFrom(c, board_height)
    BY BoardAssumption DEF GameInit, PileFrom
  <2>2. board_height \in 0..board_height
    BY BoardAssumption
  <2> QED  BY <2>1, <2>2 DEF Stacked
<1>3. BoardAboveFloor
  BY DEF GameInit, BoardAboveFloor
<1> QED  BY <1>1, <1>2, <1>3 DEF PileInv

LEMMA PileInvStep == GameTypeOK /\ PileInv /\ [GameNext]_gameVars => PileInv'
<1> SUFFICES ASSUME GameTypeOK, PileInv, [GameNext]_gameVars PROVE PileInv'
  OBVIOUS
<1>1. ASSUME UNCHANGED <<blockX, blockY, Board>> PROVE PileInv'
  BY <1>1 DEF PileInv, Aligned, Contiguous, AboveFloor, Stacked, PileFrom,
              BoardAboveFloor
<1>2. ASSUME FrameEdge PROVE Aligned'
  BY <1>2, SeenAligned DEF FrameEdge, Aligned, PileInv, SeenX
<1>3. ASSUME FrameEdge, UNCHANGED <<blockY, Board>> PROVE PileInv'
  BY <1>2, <1>3 DEF PileInv, Contiguous, AboveFloor, Stacked, PileFrom,
                    BoardAboveFloor
<1>4. CASE FrameFall
  <2>1. Aligned'
    BY <1>2, <1>4 DEF FrameFall, MoveEdge
  <2>2. \A i \in Squares : blockY'[i] = blockY[i] + blockYMotion
    BY <1>4 DEF FrameFall, NextRow
  <2>3. \A i \in Squares : blockY[i] \in Nat /\ blockYMotion \in Nat
    BY BarRows DEF PileInv, GameTypeOK
  <2>4. Contiguous'
    <3>1. \A i \in 1..3 : i \in Squares /\ i + 1 \in Squares
      BY DEF Squares
    <3> QED  BY <2>2, <2>3, <3>1 DEF PileInv, Contiguous
  <2>5. AboveFloor'
    <3>1. \A i \in Squares : NextRow(i) \in 0..(board_height - 1)
      BY <1>4, FallType DEF FrameFall
    <3> QED  BY <3>1, <2>2, BoardAssumption DEF NextRow, AboveFloor
  <2>6. Stacked' /\ BoardAboveFloor'
    BY <1>4 DEF FrameFall, PileInv, Stacked, PileFrom, BoardAboveFloor
  <2> QED  BY <2>1, <2>4, <2>5, <2>6 DEF PileInv
<1>5. CASE FrameLand
  <2>1. Aligned'
    BY <1>2, <1>5 DEF FrameLand, MoveEdge
  <2>2. blockY' = PieceRows[piece_count] /\ piece_count \in 0..2
    BY <1>5 DEF FrameLand, GameTypeOK
  <2>3. Contiguous'
    BY <2>2, PieceRowsShape DEF Contiguous
  <2>4. AboveFloor'
    BY <2>2, PieceRowsShape, BoardAssumption DEF AboveFloor
  <2>5. PICK xs \in SeenX : /\ Blocked(xs) \/ Beyond(xs)
                            /\ Board' = Board \cup Footprint(xs)
    BY <1>5 DEF FrameLand
  <2>8. ASSUME xs[1] \in Cols PROVE Blocked(xs)
    BY <2>5, <2>8, BeyondColumn DEF PileInv
  <2>6. Stacked'
    <3>1. ASSUME NEW c \in Cols PROVE \E r \in 0..board_height : PileFrom(c, r)'
      <4>1. PICK r \in 0..board_height : PileFrom(c, r)
        BY DEF PileInv, Stacked
      <4>2. CASE c = xs[1]
        BY <4>1, <4>2, <2>5, <2>8, LandedPile
      <4>3. CASE c # xs[1]
        BY <4>1, <4>3, <2>5, OtherPile DEF PileInv
      <4> QED  BY <4>2, <4>3
    <3> QED  BY <3>1 DEF Stacked
  <2>7. BoardAboveFloor'
    <3>1. ASSUME NEW c \in Footprint(xs)
          PROVE  c \in (0..(board_height - 1)) \X Cols
      <4>1. PICK i \in Squares : c = <<blockY[i], xs[i]>>
        BY DEF Footprint
      <4>2. c \in Rows \X Cols
        BY FootprintType
      <4>3. blockY[i] \in 0..(board_height - 1)
        BY BoardAssumption DEF PileInv, AboveFloor, GameTypeOK, Rows
      <4> QED  BY <4>1, <4>2, <4>3
    <3> QED  BY <3>1, <2>5 DEF PileInv, BoardAboveFloor
  <2> QED  BY <2>1, <2>3, <2>4, <2>6, <2>7 DEF PileInv
<1>6. CASE PressReset \/ ReleaseReset \/ UNCHANGED gameVars
  BY <1>1, <1>6 DEF PressReset, ReleaseReset, gameVars
<1>7. CASE FrameHeld \/ FrameCounted
  BY <1>3, <1>7 DEF FrameHeld, FrameCounted
<1> QED  BY <1>4, <1>5, <1>6, <1>7 DEF GameNext, Frame

(* Each column of landed squares is one pile, the four columns agree and   *)
(* the bar is contiguous, however Reset, keys and frames interleave and    *)
(* wherever the bar has walked to.                                         *)
THEOREM PilesCorrect == GameSpec => []PileInv
<1>1. GameSpec => []GameTypeOK
  BY TypeCorrect
<1> QED  BY <1>1, PileInvInit, PileInvStep, PTL DEF GameSpec

(* No landed square of any column hangs in the air.                        *)
THEOREM NoHolesCorrect == GameSpec => []NoHoles
<1>1. PileInv => NoHoles
  <2> SUFFICES ASSUME PileInv, NEW c \in Board, c[1] # board_height - 1
               PROVE  <<c[1] + 1, c[2]>> \in Board
    BY DEF NoHoles
  <2>1. c = <<c[1], c[2]>> /\ c[1] \in 0..(board_height - 1) /\ c[2] \in Cols
    BY DEF PileInv, BoardAboveFloor
  <2>2. PICK r \in 0..board_height : PileFrom(c[2], r)
    BY <2>1 DEF PileInv, Stacked
  <2>3. c[1] >= r
    BY <2>1, <2>2 DEF PileFrom
  <2>4. c[1] + 1 \in 0..(board_height - 1) /\ c[1] + 1 >= r
    BY <2>1, <2>3, BoardAssumption
  <2> QED  BY <2>2, <2>4 DEF PileFrom
<1> QED  BY <1>1, PilesCorrect, PTL

(* A landed square is never cleared.                                       *)
THEOREM LandedStays == GameSpec => LandedStay
<1>1. [GameNext]_gameVars => [Board \subseteq Board']_gameVars
  BY DEF GameNext, Frame, PressReset, ReleaseReset, FrameHeld,
         FrameCounted, FrameFall, FrameLand
<1> QED  BY <1>1, PTL DEF GameSpec, LandedStay

-----------------------------------------------------------------------------
(* The mapping is well defined: in a state of PileInv, a column's pile     *)
(* starts at exactly one row.                                              *)
LEMMA PileValue ==
  ASSUME Stacked, NEW c \in Cols
  PROVE  /\ Pile[c] \in 0..board_height
         /\ PileFrom(c, Pile[c])
         /\ \A r \in 0..board_height : PileFrom(c, r) => r = Pile[c]
<1>2. \E r \in 0..board_height : PileFrom(c, r)
  BY DEF Stacked
<1>3. Pile[c] \in 0..board_height /\ PileFrom(c, Pile[c])
  BY <1>2 DEF Pile
<1>4. ASSUME NEW r \in 0..board_height, NEW s \in 0..board_height,
             PileFrom(c, r), PileFrom(c, s), r < s
      PROVE  FALSE
  <2>1. r \in 0..(board_height - 1)
    BY <1>4, BoardAssumption
  <2>2. <<r, c>> \in Board <=> r >= r
    BY <2>1, <1>4 DEF PileFrom
  <2>3. <<r, c>> \in Board <=> r >= s
    BY <2>1, <1>4 DEF PileFrom
  <2>4. r >= r /\ ~(r >= s)
    BY <1>4, BoardAssumption
  <2> QED  BY <2>2, <2>3, <2>4
<1>5. ASSUME NEW r \in 0..board_height, PileFrom(c, r) PROVE r = Pile[c]
  BY <1>3, <1>4, <1>5, BoardAssumption
<1> QED  BY <1>3, <1>5

PileDetermined ==
  Stacked => \A c \in Cols, r \in 0..board_height :
               PileFrom(c, r) => r = Pile[c]

LEMMA PileUnique == PileDetermined
BY PileValue DEF PileDetermined

LEMMA MapInit == GameInit => Drop!Init
<1> SUFFICES ASSUME GameInit PROVE Drop!Init
  OBVIOUS
<1>1. Stacked
  BY PileInvInit DEF PileInv
<1>2. ASSUME NEW c \in Cols PROVE Pile[c] = board_height
  <2>1. PileFrom(c, board_height) /\ board_height \in 0..board_height
    BY BoardAssumption DEF GameInit, PileFrom
  <2> QED  BY <2>1, <1>1, PileValue
<1>3. Pile = [c \in Cols |-> board_height]
  BY <1>2 DEF Pile
<1> QED  BY <1>3 DEF GameInit, Drop!Init, Drop!Columns, Cols, Squares

(* A press of Reset.                                                       *)
LEMMA MapPress ==
  ASSUME GameTypeOK, PileInv, PressReset, Pile' = Pile
  PROVE  Drop!Press
<1>1. PICK key \in Keys : blockXMotion' = MotionFor(key)
  BY DEF PressReset, SampleKey
<1>2. 1 \in Squares
  BY DEF Squares
<1>3. /\ blockXMotion' \in {-1, 0, 1}
      /\ blockXMotion' = -1 => blockX[1] > 0
      /\ blockXMotion' = 1 => blockX[1] < board_width
  BY <1>1, <1>2 DEF MotionFor
<1>4. blockYMotion' = 1 /\ blockX' = blockX /\ blockY' = blockY
  BY DEF PressReset, SampleKey
<1> QED  BY <1>3, <1>4 DEF Drop!Press

(* Every frame walks.                                                      *)
LEMMA MapWalk ==
  ASSUME GameTypeOK, FrameEdge
  PROVE  /\ Drop!Walk
         /\ blockX'[1] = MovedX[1]
<1>1. blockX'[1] = MovedX[1] /\ MovedX[1] = WrapX(blockX[1] + blockXMotion)
  BY DEF FrameEdge, MovedX, Squares
<1>2. MovedX[1] \in 0..(XMod - 1)
  BY MovedXType, 1 \in Squares DEF Squares
<1>3. blockX[1] \in Int /\ blockXMotion \in Int /\ XMod \in Int
  BY BoardAssumption, 1 \in Squares DEF GameTypeOK, Squares
<1>4. WrapX(blockX[1] + blockXMotion) - (blockX[1] + blockXMotion) \in {-XMod, 0, XMod}
  BY <1>3 DEF WrapX
<1> QED  BY <1>1, <1>2, <1>4 DEF FrameEdge, Drop!Walk

LEMMA MapFall ==
  ASSUME GameTypeOK, PileInv, FrameFall, Pile' = Pile
  PROVE  Drop!Fall
<1>1. 1 \in Squares /\ 4 \in Squares
  BY DEF Squares
<1>2. FrameEdge
  BY DEF FrameFall, MoveEdge
<1>3. PICK xs \in SeenX : ~Blocked(xs)
  BY DEF FrameFall
<1>4. xs[1] \in {blockX[1], blockX'[1]}
  BY <1>2, MapWalk DEF SeenX
<1>5. blockY'[1] = NextRow(1) /\ blockY'[4] = NextRow(4)
  BY <1>1 DEF FrameFall
<1>6. NextRow(4) \in 0..(board_height - 1)
  BY <1>1, <1>3, FallType
<1>7. NextRow(4) < board_height
  BY <1>6, BoardAssumption
<1>8. ASSUME xs[1] \in Cols PROVE NextRow(4) < Pile[xs[1]]
  <2>1. xs[4] = xs[1]
    BY <1>1, SeenAligned DEF PileInv
  <2>2. <<NextRow(4), xs[1]>> \notin Board
    BY <1>1, <1>3, <2>1 DEF Blocked
  <2>3. Pile[xs[1]] \in 0..board_height /\ PileFrom(xs[1], Pile[xs[1]])
    BY <1>8, PileValue DEF PileInv
  <2>4. ~(NextRow(4) >= Pile[xs[1]])
    BY <1>6, <2>2, <2>3 DEF PileFrom
  <2> QED  BY <1>6, <2>3, <2>4, BoardAssumption
<1> QED  BY <1>4, <1>5, <1>7, <1>8 DEF NextRow, Drop!Fall, Drop!Reached, Drop!Columns, Cols

LEMMA MapLand ==
  ASSUME GameTypeOK, GameTypeOK', PileInv, PileInv', FrameLand
  PROVE  Drop!Land
<1>1. FrameEdge
  BY DEF FrameLand, MoveEdge
<1>2. PICK xs \in SeenX : /\ Blocked(xs) \/ Beyond(xs)
                          /\ Board' = Board \cup Footprint(xs)
  BY DEF FrameLand
<1>3. xs[1] \in {blockX[1], blockX'[1]}
  BY <1>1, MapWalk DEF SeenX
<1>4. blockY'[1] = 0 /\ blockY'[4] \in 1..2
  BY PieceRowsShape DEF FrameLand, GameTypeOK
<1>5. ASSUME NEW c \in Cols, NEW t \in 0..board_height, PileFrom(c, t)'
      PROVE  Pile'[c] = t
  <2>1. PileDetermined'
    BY PileUnique, PTL
  <2> QED  BY <1>5, <2>1 DEF PileDetermined, PileInv
<1>6. ASSUME NEW c \in Cols, c # xs[1] PROVE Pile'[c] = Pile[c]
  <2>1. Pile[c] \in 0..board_height /\ PileFrom(c, Pile[c])
    BY PileValue DEF PileInv
  <2> QED  BY <1>5, <1>6, <2>1, <1>2, OtherPile DEF PileInv
<1>7. CASE xs[1] \in Cols
  <2> DEFINE r == Pile[xs[1]]
             s == IF blockY[1] < r THEN blockY[1] ELSE r
  <2>1. Blocked(xs)
    BY <1>2, <1>7, BeyondColumn DEF PileInv
  <2>2. r \in 0..board_height /\ PileFrom(xs[1], r)
    BY <1>7, PileValue DEF PileInv
  <2>3. blockY[4] + blockYMotion >= r
    BY <2>1, <1>7, <2>2, BlockedReachesPile
  <2>4. Pile'[xs[1]] = s
    BY <1>2, <1>5, <1>7, <2>1, <2>2, LandedPile
  <2>5. Pile' = [Pile EXCEPT ![xs[1]] = s]
    BY <1>6, <1>7, <2>4 DEF Pile
  <2> QED  BY <1>3, <1>4, <1>7, <2>3, <2>5 DEF Drop!Land, Drop!Reached, Drop!Columns, Cols
<1>8. CASE xs[1] \notin Cols
  <2>1. \A c \in Cols : Pile'[c] = Pile[c]
    BY <1>6, <1>8
  <2>2. Pile' = Pile
    BY <2>1 DEF Pile
  <2> QED  BY <1>3, <1>4, <1>8, <2>2 DEF Drop!Land, Drop!Columns, Cols
<1> QED  BY <1>7, <1>8

LEMMA MapStep ==
  ASSUME GameTypeOK, GameTypeOK', PileInv, PileInv', [GameNext]_gameVars
  PROVE  [Drop!Next]_(Drop!vars)
<1>1. ASSUME Board' = Board PROVE Pile' = Pile
  BY <1>1 DEF Pile, PileFrom
<1>2. CASE FrameFall
  <2>1. FrameEdge /\ Pile' = Pile
    BY <1>1, <1>2 DEF FrameFall, MoveEdge
  <2> QED  BY <1>2, <2>1, MapWalk, MapFall DEF Drop!Next, Drop!Frame
<1>3. CASE FrameLand
  <2>1. FrameEdge
    BY <1>3 DEF FrameLand, MoveEdge
  <2> QED  BY <1>3, <2>1, MapWalk, MapLand DEF Drop!Next, Drop!Frame
<1>4. CASE FrameHeld \/ FrameCounted
  <2>1. FrameEdge /\ UNCHANGED <<blockY, Board>>
    BY <1>4 DEF FrameHeld, FrameCounted
  <2> QED  BY <1>1, <2>1, MapWalk DEF Drop!Next, Drop!Frame
<1>5. CASE PressReset
  BY <1>1, <1>5, MapPress DEF PressReset, Drop!Next
<1>6. CASE ReleaseReset \/ UNCHANGED gameVars
  <2>1. UNCHANGED <<blockX, blockY, blockXMotion, blockYMotion, Board>>
    BY <1>6 DEF ReleaseReset, gameVars
  <2> QED  BY <1>1, <2>1 DEF Drop!vars
<1> QED  BY <1>2, <1>3, <1>4, <1>5, <1>6 DEF GameNext, Frame

(* Game_Logic.sv as lab62.sv wires it implements the column game.          *)
THEOREM Refinement == GameSpec => PlaysColumnDrop
<1>1. GameTypeOK /\ GameTypeOK' /\ PileInv /\ PileInv' /\ [GameNext]_gameVars
        => [Drop!Next]_(Drop!vars)
  BY MapStep
<1> QED  BY <1>1, MapInit, TypeCorrect, PilesCorrect, PTL
         DEF GameSpec, Drop!Spec, PlaysColumnDrop

-----------------------------------------------------------------------------
(* move_clk is high for one frame only, so the divider never wraps while   *)
(* it is high and no edge of it is swallowed, whatever Reset does.         *)
THEOREM MoveClkPulses == GameSpec => []MoveClkPulse
<1>1. GameInit => MoveClkPulse
  BY DEF GameInit, MoveClkPulse
<1>2. GameTypeOK /\ MoveClkPulse /\ [GameNext]_gameVars => MoveClkPulse'
  <2> SUFFICES ASSUME GameTypeOK, MoveClkPulse, [GameNext]_gameVars PROVE MoveClkPulse'
    OBVIOUS
  <2> USE DividerAssumption
  <2>1. CASE FrameHeld \/ MoveEdge \/ PressReset
    BY <2>1 DEF FrameHeld, MoveEdge, PressReset, MoveClkPulse
  <2>2. CASE FrameCounted
    BY <2>2 DEF FrameCounted, MoveClkPulse
  <2>3. CASE ReleaseReset \/ UNCHANGED gameVars
    BY <2>3 DEF ReleaseReset, gameVars, MoveClkPulse
  <2> QED  BY <2>1, <2>2, <2>3 DEF GameNext, Frame, FrameFall, FrameLand
<1> QED  BY <1>1, <1>2, TypeCorrect, PTL DEF GameSpec
=============================================================================
