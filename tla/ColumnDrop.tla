----------------------------- MODULE ColumnDrop ------------------------------
(***************************************************************************)
(* The game that src/pong/Game_Logic.sv plays in lab62.sv, seen from       *)
(* outside: a vertical bar of one to three squares walks the way it was    *)
(* last told to, round the range of its column register, falls row by row  *)
(* and is added to the pile of the column it is in.  It is told only by    *)
(* presses of Reset, and only then do the walls count; columns beyond the  *)
(* board have no pile.  The only thing to know about a column is the row   *)
(* its pile starts at.                                                     *)
(***************************************************************************)
EXTENDS Integers

CONSTANTS board_width,   \* the last column inside the walls
          board_height,  \* the floor: piles start at this row
          BoardBits,     \* columns of the board
          XMod           \* columns the bar can be in

VARIABLES pile,         \* pile[c]: the topmost landed row of column c
          x, dir,       \* column of the bar, and its motion sideways
          top, bottom,  \* its first and its last row
          speed         \* its motion down

vars == <<pile, x, dir, top, bottom, speed>>

Columns == 0..(BoardBits - 1)

(* Nothing falls until Reset is pressed for the first time.                *)
Init ==
  /\ pile = [c \in Columns |-> board_height]
  /\ x = 0 /\ dir = 0
  /\ top = 0 /\ bottom = 0 /\ speed = 0

Press ==
  /\ dir' \in {0} \cup {d \in {-1} : x > 0} \cup {d \in {1} : x < board_width}
  /\ speed' = 1
  /\ UNCHANGED <<pile, x, top, bottom>>

Walk ==
  /\ x' \in 0..(XMod - 1) /\ x' - (x + dir) \in {-XMod, 0, XMod}
  /\ UNCHANGED <<dir, speed>>

Reached == bottom + speed

(* Falling and landing go by the column the bar leaves or by the one it    *)
(* enters.                                                                 *)
Fall ==
  /\ Reached < board_height
  /\ \E c \in {x, x'} : c \in Columns => Reached < pile[c]
  /\ top' = top + speed /\ bottom' = Reached
  /\ UNCHANGED pile

Land ==
  /\ \E c \in {x, x'} :
       \/ /\ c \in Columns /\ Reached >= pile[c]
          /\ pile' = [pile EXCEPT ![c] = IF top < @ THEN top ELSE @]
       \/ c \notin Columns /\ UNCHANGED pile
  /\ top' = 0 /\ bottom' \in 1..2

Frame == Walk /\ (UNCHANGED <<pile, top, bottom>> \/ Fall \/ Land)

Next == Press \/ Frame

Spec == Init /\ [][Next]_vars
=============================================================================
