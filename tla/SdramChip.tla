------------------------------ MODULE SdramChip ------------------------------
(***************************************************************************)
(* The SDRAM next to the FPGA, as far as src/pong/v/Sdram_Control drives   *)
(* it: open rows, page bursts that run until a precharge, a read latency   *)
(* of CL clocks, a mode register.  External to the repository.             *)
(***************************************************************************)
EXTENDS Integers, Sequences

CONSTANTS PageSize,  \* columns of a row (1024: COLSIZE is 10)
          PageCount, \* rows of a bank (8192)
          BankCount, \* banks (4)
          SC_CL      \* read latency in clocks (3)

ASSUME ChipAssumption ==
  PageSize \in Nat \ {0} /\ PageCount \in Nat \ {0} /\ BankCount \in Nat \ {0}

Idle == -1     \* a bank without an open row
Unknown == -2  \* a bank that was never precharged since power-up

RowOf(a) == (a \div PageSize) % PageCount
ColOf(a) == a % PageSize
BankOf(a) == a \div (PageSize * PageCount)
CellAt(bank, row, col) == (bank * PageCount + row) * PageSize + col

Cells == 0..(BankCount * PageCount * PageSize - 1)
NoBurst == [op |-> "none", bank |-> 0, col |-> 0]

(* Nothing is known of the open rows after power-up.                       *)
PoweredUp ==
  [mode |-> FALSE,
   row |-> [b \in 0..(BankCount - 1) |-> Unknown],
   burst |-> NoBurst,
   pipe |-> [i \in 1..SC_CL |-> 0],
   mem |-> [a \in Cells |-> 0]]

(* The burst that moves a word in the clock in which pins are sampled.     *)
ActiveBurst(chip, pins) ==
  CASE pins.op \in {"READ", "WRITE"} ->
         [op |-> pins.op, bank |-> pins.bank, col |-> pins.sa]
    [] pins.op \in {"PRE", "BST"} -> NoBurst
    [] OTHER -> chip.burst

BurstCell(chip, burst) ==
  LET row == chip.row[burst.bank]
  IN  CellAt(burst.bank, IF row < 0 THEN 0 ELSE row, burst.col)

(* One clock: the chip samples pins, data bus and mask.                    *)
ChipStep(chip, pins, dq, dqm) ==
  LET burst == ActiveBurst(chip, pins)
      word == IF burst.op = "READ" THEN chip.mem[BurstCell(chip, burst)] ELSE 0
  IN  [mode |-> chip.mode \/ pins.op = "MRS",
       row |-> CASE pins.op = "ACT" -> [chip.row EXCEPT ![pins.bank] = pins.sa]
                 [] pins.op = "PRE" /\ pins.a10 ->
                      [b \in DOMAIN chip.row |-> Idle]
                 [] pins.op = "PRE" /\ ~pins.a10 ->
                      [chip.row EXCEPT ![pins.bank] = Idle]
                 [] OTHER -> chip.row,
       burst |-> IF burst.op = "none" THEN NoBurst
                 ELSE [burst EXCEPT !.col = (@ + 1) % PageSize],
       pipe |-> [i \in 1..SC_CL |-> IF i = 1 THEN word ELSE chip.pipe[i - 1]],
       mem |-> IF burst.op = "WRITE" /\ dqm = 0
               THEN [chip.mem EXCEPT ![BurstCell(chip, burst)] = dq]
               ELSE chip.mem]
=============================================================================
