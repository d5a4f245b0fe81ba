------------------------------- MODULE MCParts -------------------------------
(***************************************************************************)
(* Model checking of the parts that share no variable with any other: the  *)
(* game engine, the picture timing, the register access over SPI, the      *)
(* alarms and the file descriptors.  No step of one reads what another     *)
(* keeps, so each behaves the same whatever the others do, and it is       *)
(* enough to let one of them move: `part`, chosen at the start.            *)
(*                                                                         *)
(* lab62.sv makes the game's frame clock from the picture timing's vs: the *)
(* game is checked with frame edges at any time, those of FrameClkRises    *)
(* among them, and that they keep coming is PictureKeepsComing.            *)
(***************************************************************************)
EXTENDS GameLogicRefinement, VgaController, SpiMaster, AlarmList, FileTable

VARIABLE part

partVars == <<part, gameVars, vgaVars, spiVars, alarmVars, fileVars>>

Init ==
  /\ part \in {"game", "picture", "spi", "alarms", "files"}
  /\ GameInit /\ (part # "game" => ~reset)
  /\ VgaInit /\ SpiInit /\ AlarmInit /\ FileInit

GameMoves ==
  part = "game" /\ UNCHANGED <<part, vgaVars, spiVars, alarmVars, fileVars>>
PictureMoves ==
  part = "picture" /\ UNCHANGED <<part, gameVars, spiVars, alarmVars, fileVars>>
SpiMoves ==
  part = "spi" /\ UNCHANGED <<part, gameVars, vgaVars, alarmVars, fileVars>>
AlarmsMove ==
  part = "alarms" /\ UNCHANGED <<part, gameVars, vgaVars, spiVars, fileVars>>
FilesMove ==
  part = "files" /\ UNCHANGED <<part, gameVars, vgaVars, spiVars, alarmVars>>

Next ==
  \/ GameNext /\ GameMoves
  \/ VgaNext /\ PictureMoves
  \/ SpiNext /\ SpiMoves
  \/ AlarmNext /\ AlarmsMove
  \/ FileNext /\ FilesMove

(* The fairness of the parts' own specifications.                          *)
Spec ==
  /\ Init /\ [][Next]_partVars
  /\ WF_partVars(Frame /\ GameMoves)
  /\ WF_partVars(PixelEdge /\ PictureMoves) /\ WF_partVars(HalfEdge /\ PictureMoves)
  /\ WF_partVars(Program /\ SpiMoves) /\ WF_partVars(Core /\ SpiMoves)

(* FramesKeepComing, where the picture timing is the part that moves.      *)
PictureKeepsComing == part = "picture" => FramesKeepComing
=============================================================================
