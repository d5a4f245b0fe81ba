--------------------------- MODULE SdramController ---------------------------
(***************************************************************************)
(* The SDRAM controller of src/pong/v/Sdram_Control, clock by clock: the   *)
(* port logic of Sdram_Control.v with its two FIFOs, control_interface.v   *)
(* (command decoder, refresh timer, power-up sequence) and command.v       *)
(* (arbiter and pin sequencer).  Each module's registers are one record;   *)
(* an action Tick is one rising edge of the 100 MHz clock, on which every  *)
(* always block reads the old registers.  The host's side of the FIFOs     *)
(* runs on a clock of its own and is interleaved.                          *)
(*                                                                         *)
(* RESET_N is tied to 1 in lab62.sv; registers power up at 0.  Page mode   *)
(* (SC_PM = 1) is the only one compiled, and lab62.sv fixes both lengths   *)
(* at one word.                                                            *)
(***************************************************************************)
EXTENDS SdramChip

CONSTANTS
  INIT_PER,      \* clocks of NOP before the power-up sequence (24000)
  REF_PER,       \* clocks between refreshes (1024)
  SC_RCD,        \* clocks from activate to read or write (3)
  MAX_ADDR,      \* WR_MAX_ADDR = RD_MAX_ADDR (25'h1ffffff)
  FifoLag,       \* clocks until the controller sees a host's push or pop
  Words,         \* data the host writes
  Bases,         \* addresses the host loads
  MaxFifo        \* bound: words the host keeps in the write FIFO

LENGTH == 1      \* WR_LENGTH = RD_LENGTH = 9'h01
TimerMod == 65536
InitStep == 20   \* distance of the commands of the power-up sequence
InitEnd == INIT_PER + 10 * InitStep + 1

ASSUME ControllerAssumption ==
  /\ INIT_PER \in Nat \ {0} /\ REF_PER \in Nat \ {0} /\ REF_PER + 200 < TimerMod
  /\ SC_RCD = 3 /\ SC_CL = 3 /\ FifoLag \in Nat \ {0} /\ MaxFifo \in Nat
  /\ MAX_ADDR \in Cells /\ Bases \subseteq 0..MAX_ADDR

VARIABLES
  ci,              \* registers of control_interface.v
  cm,              \* registers of command.v
  ctl,             \* registers of Sdram_Control.v
  chip,            \* the SDRAM
  wq, rq,          \* contents of the write and of the read FIFO
  q,               \* output register of the write FIFO
  wPush, rPop,     \* host's pushes and pops of the last FifoLag clocks
  WR_LOAD, RD_LOAD, WR_ADDR, RD_ADDR

hostVars == <<WR_LOAD, RD_LOAD, WR_ADDR, RD_ADDR>>
coreVars == <<ci, cm, ctl, chip, q>>
vars == <<coreVars, wq, rq, wPush, rPop, hostVars>>

NOP == [op |-> "NOP", sa |-> 0, bank |-> 0, a10 |-> FALSE]

(* A line counts, for each i, the events of the last i clocks.             *)
NoEvents == [i \in 1..FifoLag |-> 0]
Record(line) == [i \in 1..FifoLag |-> line[i] + 1]
Shift(line) == [i \in 1..FifoLag |-> IF i = 1 THEN 0 ELSE line[i - 1]]
Pending(line) == line[FifoLag]

(* What the controller sees of the FIFOs: write_side_fifo_rusedw and       *)
(* read_side_fifo_wusedw lag behind the other side's doings.               *)
write_side_fifo_rusedw ==
  IF wq = <<>> \/ Pending(wPush) >= Len(wq) THEN 0 ELSE Len(wq) - Pending(wPush)
read_side_fifo_wusedw == Len(rq) + Pending(rPop)

-----------------------------------------------------------------------------
Init ==
  /\ ci = [READA |-> FALSE, WRITEA |-> FALSE, SADDR |-> 0, CMD_ACK |-> FALSE,
           timer |-> 0, REF_REQ |-> FALSE, init_timer |-> 0,
           REFRESH |-> FALSE, PRECHARGE |-> FALSE, LOAD_MODE |-> FALSE,
           INIT_REQ |-> FALSE]
  /\ cm = [do |-> {}, initial |-> FALSE, done |-> FALSE, delay |-> 0,
           rw_flag |-> FALSE, rp |-> 0, rp_done |-> FALSE, ex |-> FALSE,
           oe4 |-> FALSE, OE |-> FALSE, rw_shift |-> 0, do_rw |-> FALSE,
           CM_ACK |-> FALSE, REF_ACK |-> FALSE, pins |-> NOP]
  /\ ctl = [ST |-> 0, CMD |-> 0, Pre_RD |-> FALSE, Pre_WR |-> FALSE,
            Read |-> FALSE, Write |-> FALSE, OUT_VALID |-> FALSE,
            IN_REQ |-> FALSE, mWR_DONE |-> FALSE, mRD_DONE |-> FALSE,
            mWR |-> FALSE, mRD |-> FALSE, WR_MASK |-> FALSE,
            RD_MASK |-> FALSE, mADDR |-> 0, rWR_ADDR |-> 0, rRD_ADDR |-> 0,
            flag |-> FALSE, PM_STOP |-> FALSE, pins |-> NOP, DQM |-> 0,
            mDATAOUT |-> 0]
  /\ chip = PoweredUp
  /\ wq = <<>> /\ rq = <<>> /\ q = 0
  /\ wPush = NoEvents /\ rPop = NoEvents
  /\ WR_LOAD = FALSE /\ RD_LOAD = FALSE /\ WR_ADDR = 0 /\ RD_ADDR = 0

-----------------------------------------------------------------------------
(* Refresh timer: the request stays up until the arbiter takes it.         *)
RefreshRequestPulse == ci.timer = 0
RefreshRequest ==
  ci.timer = 0 \/ (ci.REF_REQ /\ ~cm.REF_ACK /\ ~ci.INIT_REQ)

(* When the power-up sequence asks for refreshes.                          *)
RefreshTimesNine ==  \* mutant: one refresh too many, in the mode's clock
  {INIT_PER + k * InitStep : k \in 2..10}
RefreshTimes == {INIT_PER + k * InitStep : k \in 2..9}

(* control_interface.v.                                                    *)
ControlInterface ==
  LET t == ci.init_timer
  IN  [READA |-> ctl.CMD = 1, WRITEA |-> ctl.CMD = 2, SADDR |-> ctl.mADDR,
       CMD_ACK |-> cm.CM_ACK /\ ~ci.CMD_ACK,
       timer |-> IF cm.REF_ACK THEN REF_PER
                 ELSE IF ci.INIT_REQ THEN REF_PER + 200
                 ELSE (ci.timer + TimerMod - 1) % TimerMod,
       REF_REQ |-> RefreshRequest,
       init_timer |-> IF t < InitEnd THEN t + 1 ELSE t,
       INIT_REQ |-> t < INIT_PER,
       PRECHARGE |-> t = INIT_PER + InitStep,
       REFRESH |-> t \in RefreshTimes,
       LOAD_MODE |-> t = INIT_PER + 10 * InitStep]

-----------------------------------------------------------------------------
(* command.v: the commands requested, and which of them start on this      *)
(* clock.  Accesses give way to a pending refresh.                         *)
Commands == {"refresh", "reada", "writea", "precharge", "load_mode"}
Requested(c) ==
  CASE c = "refresh" -> /\ ci.REF_REQ \/ ci.REFRESH
                        /\ ~cm.rp_done
                        /\ cm.do \cap {"reada", "writea"} = {}
    [] c = "reada" -> ci.READA /\ ~cm.rp_done /\ ~ci.REF_REQ
    [] c = "writea" -> ci.WRITEA /\ ~cm.rp_done /\ ~ci.REF_REQ
    [] c = "precharge" -> ci.PRECHARGE
    [] c = "load_mode" -> ci.LOAD_MODE

AcceptedWhenBusy == {c \in Commands : c \notin cm.do /\ Requested(c)}
Accepted == {c \in Commands : ~cm.done /\ c \notin cm.do /\ Requested(c)}

(* The pin sequencer.  SA[10] is !SC_PM, hence low, for every precharge;   *)
(* without a command the pins still show the address of the request.       *)
Pins ==
  LET a == ci.SADDR
      pins(op, sa, bank) == [op |-> op, sa |-> sa, bank |-> bank, a10 |-> FALSE]
  IN  IF "refresh" \in cm.do THEN pins("REF", 0, 0)
      ELSE IF "precharge" \in cm.do
           THEN pins(IF cm.oe4 \/ cm.rw_flag THEN "BST" ELSE "PRE", 0, 0)
      ELSE IF "load_mode" \in cm.do THEN pins("MRS", 0, 0)
      ELSE IF cm.do # {} THEN pins("ACT", RowOf(a), BankOf(a))
      ELSE IF cm.do_rw
           THEN pins(IF cm.rw_flag THEN "READ" ELSE "WRITE", ColOf(a), BankOf(a))
      ELSE pins("NOP", ColOf(a), BankOf(a))

(* command_delay and rp_shift are shifted runs of ones: their lengths.     *)
Command ==
  LET rw == cm.do \cap {"reada", "writea"} # {}
      expired == cm.delay = 0 /\ cm.done
      paused == ~expired /\ cm.ex /\ ~ctl.PM_STOP
      resumed == ~expired /\ cm.ex /\ ctl.PM_STOP
      hidden == "refresh" \in cm.do /\ ci.REF_REQ
      busy == [done |-> cm.do # {} \/ cm.delay > 0,
               delay |-> IF cm.do # {} THEN 8
                         ELSE IF cm.delay > 0 THEN cm.delay - 1 ELSE 0,
               rw_flag |-> IF cm.do # {} THEN "reada" \in cm.do ELSE cm.rw_flag,
               rp |-> IF expired THEN 4 ELSE IF paused \/ cm.rp = 0 THEN cm.rp
                      ELSE cm.rp - 1,
               rp_done |-> IF expired THEN TRUE
                           ELSE IF paused THEN cm.rp_done ELSE cm.rp > 0,
               ex |-> /\ ~resumed
                      /\ cm.ex \/ Accepted \cap {"reada", "writea"} # {},
               do |-> Accepted, initial |-> FALSE]
      init == [done |-> FALSE, delay |-> 0, rw_flag |-> FALSE, rp |-> 0,
               rp_done |-> FALSE, ex |-> FALSE, do |-> {}, initial |-> TRUE]
      next == IF ci.INIT_REQ THEN init ELSE busy
  IN  [do |-> next.do, initial |-> next.initial, done |-> next.done,
       delay |-> next.delay, rw_flag |-> next.rw_flag, rp |-> next.rp,
       rp_done |-> next.rp_done, ex |-> next.ex,
       oe4 |-> IF "writea" \in cm.do THEN TRUE
               ELSE IF \/ cm.do \cap {"precharge", "reada", "refresh"} # {}
                       \/ cm.initial \/ ctl.PM_STOP
               THEN FALSE ELSE cm.oe4,
       OE |-> cm.oe4,
       rw_shift |-> IF rw THEN 2 ELSE cm.rw_shift \div 2,
       do_rw |-> IF rw THEN cm.do_rw ELSE cm.rw_shift % 2 = 1,
       REF_ACK |-> hidden \/ (cm.do # {} /\ cm.REF_ACK),
       CM_ACK |-> cm.do # {} /\ (~hidden \/ cm.CM_ACK),
       pins |-> Pins]

-----------------------------------------------------------------------------
(* Sdram_Control.v.  A read or a write is requested while the port is      *)
(* quiet, writes first; nothing happens before the first word was written. *)
Quiet ==
  /\ ~ctl.mWR /\ ~ctl.mRD /\ ctl.ST = 0 /\ ~ctl.WR_MASK /\ ~ctl.RD_MASK
  /\ ~WR_LOAD /\ ~RD_LOAD /\ ctl.flag
StartWrite == Quiet /\ write_side_fifo_rusedw >= LENGTH
StartRead == Quiet /\ ~StartWrite /\ read_side_fifo_wusedw < LENGTH

Advance(a, base) == IF a < MAX_ADDR - LENGTH THEN a + LENGTH ELSE base

StopLate == ctl.ST = SC_CL + LENGTH + 1
Stop == ctl.ST = SC_CL + LENGTH
LastLate == ctl.ST = SC_CL + SC_RCD + LENGTH + 2
Last == ctl.ST = SC_CL + SC_RCD + LENGTH + 1
EdgeRD == ctl.ST = 0 /\ ctl.mRD /\ ~ctl.Pre_RD
EdgeWR == ctl.ST = 0 /\ ~EdgeRD /\ ctl.mWR /\ ~ctl.Pre_WR
Acked == ctl.ST = 1 /\ ci.CMD_ACK

DQ == IF cm.OE THEN q ELSE chip.pipe[SC_CL]

Controller ==
  [ST |-> IF ctl.ST = 0 THEN (IF EdgeRD \/ EdgeWR THEN 1 ELSE 0)
          ELSE IF ctl.ST = 1 THEN (IF Acked THEN 2 ELSE 1)
          ELSE IF Last THEN 0 ELSE ctl.ST + 1,
   CMD |-> IF EdgeRD THEN 1 ELSE IF EdgeWR THEN 2
           ELSE IF Acked THEN 0 ELSE ctl.CMD,
   Pre_RD |-> ctl.mRD, Pre_WR |-> ctl.mWR,
   Read |-> EdgeRD \/ (ctl.Read /\ ~EdgeWR /\ ~Last),
   Write |-> \/ EdgeWR
             \/ /\ ctl.Write /\ ~EdgeRD
                /\ ctl.ST # SC_CL + SC_RCD + LENGTH,
   OUT_VALID |-> IF ctl.Read /\ ctl.ST = SC_CL + SC_RCD + 1 THEN TRUE
                 ELSE ctl.OUT_VALID /\ ~(ctl.Read /\ Last),
   IN_REQ |-> IF ctl.Write /\ ctl.ST = SC_CL - 1 THEN TRUE
              ELSE ctl.IN_REQ /\ ~(ctl.Write /\ ctl.ST = SC_CL + LENGTH - 1),
   mRD_DONE |-> ctl.Read /\ (Last \/ ctl.mRD_DONE),
   mWR_DONE |-> /\ ctl.Write
                /\ ctl.ST = SC_CL + SC_RCD + LENGTH \/ ctl.mWR_DONE,
   mWR |-> StartWrite \/ (ctl.mWR /\ ~StartRead /\ ~ctl.mWR_DONE),
   mRD |-> StartRead \/ (ctl.mRD /\ ~StartWrite /\ ~ctl.mRD_DONE),
   WR_MASK |-> StartWrite \/ (ctl.WR_MASK /\ ~StartRead /\ ~ctl.mWR_DONE),
   RD_MASK |-> StartRead \/ (ctl.RD_MASK /\ ~StartWrite /\ ~ctl.mRD_DONE),
   mADDR |-> IF StartWrite THEN ctl.rWR_ADDR
             ELSE IF StartRead THEN ctl.rRD_ADDR ELSE ctl.mADDR,
   rWR_ADDR |-> IF WR_LOAD THEN WR_ADDR
                ELSE IF ctl.mWR_DONE /\ ctl.WR_MASK
                THEN Advance(ctl.rWR_ADDR, WR_ADDR) ELSE ctl.rWR_ADDR,
   rRD_ADDR |-> IF RD_LOAD THEN RD_ADDR
                ELSE IF ctl.mRD_DONE /\ ctl.RD_MASK
                THEN Advance(ctl.rRD_ADDR, RD_ADDR) ELSE ctl.rRD_ADDR,
   flag |-> ctl.flag \/ write_side_fifo_rusedw = LENGTH,
   PM_STOP |-> Stop,
   pins |-> IF Stop THEN [cm.pins EXCEPT !.op = "PRE", !.sa = 512, !.a10 = FALSE]
            ELSE cm.pins,
   DQM |-> IF (ctl.Read \/ ctl.Write) /\ ctl.ST >= SC_CL /\ ~(Stop /\ ctl.Write)
           THEN 0 ELSE 3,
   mDATAOUT |-> DQ]

(* The controller's ends of the FIFOs; a FIFO is empty while its load      *)
(* input, its asynchronous clear, is high.                                 *)
PopsWord == ctl.IN_REQ /\ ctl.WR_MASK /\ wq # <<>> /\ ~WR_LOAD
PushesWord == ctl.OUT_VALID /\ ctl.RD_MASK /\ ~RD_LOAD

WqAfter == IF PopsWord THEN Tail(wq) ELSE wq
RqAfter == IF PushesWord THEN Append(rq, ctl.mDATAOUT) ELSE rq

(* One rising edge of the 100 MHz clock, without the FIFOs' contents.      *)
Edge ==
  /\ ci' = ControlInterface /\ cm' = Command /\ ctl' = Controller
  /\ chip' = ChipStep(chip, ctl.pins, DQ, ctl.DQM)
  /\ q' = IF PopsWord THEN Head(wq) ELSE q

Tick ==
  /\ Edge
  /\ wq' = WqAfter /\ rq' = RqAfter
  /\ wPush' = Shift(wPush) /\ rPop' = Shift(rPop)
  /\ UNCHANGED hostVars

-----------------------------------------------------------------------------
(* The host.  It starts after the power-up sequence, the last command of   *)
(* which sets the mode (tetris.sv waits for a key, a human's 240 us after  *)
(* power-up).  It loads an address whenever it likes, also in the middle   *)
(* of an access, and holds the load input until the controller has taken   *)
(* the address.                                                            *)
PoweredUpDone == chip.mode

HostPush ==
  /\ PoweredUpDone /\ ~WR_LOAD /\ Len(wq) < MaxFifo
  /\ \E w \in Words : wq' = Append(wq, w)
  /\ wPush' = Record(wPush)
  /\ UNCHANGED <<coreVars, rq, rPop, hostVars>>

HostPop ==
  /\ rq # <<>> /\ ~RD_LOAD
  /\ rq' = Tail(rq)
  /\ rPop' = Record(rPop)
  /\ UNCHANGED <<coreVars, wq, wPush, hostVars>>

RaiseWriteLoad ==
  /\ PoweredUpDone /\ ~WR_LOAD
  /\ WR_LOAD' = TRUE
  /\ WR_ADDR' \in Bases
  /\ wq' = <<>> /\ wPush' = NoEvents
  /\ UNCHANGED <<coreVars, rq, rPop, RD_LOAD, RD_ADDR>>

LowerWriteLoad ==
  /\ WR_LOAD /\ ctl.rWR_ADDR = WR_ADDR
  /\ WR_LOAD' = FALSE
  /\ UNCHANGED <<coreVars, wq, rq, wPush, rPop, RD_LOAD, WR_ADDR, RD_ADDR>>

RaiseReadLoad ==
  /\ PoweredUpDone /\ ~RD_LOAD
  /\ RD_LOAD' = TRUE
  /\ RD_ADDR' \in Bases
  /\ rq' = <<>> /\ rPop' = NoEvents
  /\ UNCHANGED <<coreVars, wq, wPush, WR_LOAD, WR_ADDR>>

LowerReadLoad ==
  /\ RD_LOAD /\ ctl.rRD_ADDR = RD_ADDR
  /\ RD_LOAD' = FALSE
  /\ UNCHANGED <<coreVars, wq, rq, wPush, rPop, WR_LOAD, WR_ADDR, RD_ADDR>>

Host == \/ HostPush \/ HostPop
        \/ RaiseWriteLoad \/ LowerWriteLoad
        \/ RaiseReadLoad \/ LowerReadLoad

Next == Tick \/ Host

Spec == Init /\ [][Next]_vars
-----------------------------------------------------------------------------
TypeOK ==
  /\ ctl.ST \in 0..(SC_CL + SC_RCD + LENGTH + 1) /\ ctl.CMD \in 0..2
  /\ cm.delay \in 0..8 /\ cm.rp \in 0..4
  /\ ctl.rWR_ADDR \in 0..MAX_ADDR /\ ctl.rRD_ADDR \in 0..MAX_ADDR
  /\ wq \in Seq(Words) /\ Len(wq) <= MaxFifo
  /\ Len(rq) <= LENGTH

(* Rows that an access opened.  Of a bank that was never precharged since  *)
(* power-up nothing is known: it is not counted here, see PrechargesAll.   *)
OpenRows == {b \in DOMAIN chip.row : chip.row[b] >= 0}

(* Accesses keep their rows in turn: one is opened after the mode was set  *)
(* and when those of all earlier accesses are closed, data moves only in   *)
(* the open row of the requested address, and no refresh or mode change    *)
(* falls between an access's activation and its precharge.  The pins are a *)
(* product of three state machines (port, arbiter, pin sequencer) and of   *)
(* the precharge the port forces onto them.                                *)
RowsInTurn ==
  LET p == ctl.pins
  IN  /\ p.op = "ACT" => OpenRows = {} /\ chip.mode
      /\ p.op \in {"READ", "WRITE"} =>
           /\ OpenRows = {p.bank}
           /\ CellAt(p.bank, chip.row[p.bank], p.sa) = ctl.mADDR
      /\ p.op \in {"REF", "MRS"} => OpenRows = {}

(* "Precharge All" (command.v:414): the precharge of the power-up sequence *)
(* closes every bank, so that refresh and mode change, which the chip      *)
(* takes with all banks precharged only, find none that never was.         *)
PrechargesAll ==
  ctl.pins.op \in {"REF", "MRS"} =>
    \A b \in DOMAIN chip.row : chip.row[b] = Idle

(* The arbiter drops what it is asked while busy, and the power-up         *)
(* sequence asks once: the command that sets the mode is nevertheless      *)
(* pending, in the arbiter, on the pins or carried out when the sequence   *)
(* is over.                                                                *)
ModeNotLost ==
  ci.init_timer = InitEnd =>
    \/ ci.LOAD_MODE \/ "load_mode" \in cm.do
    \/ "MRS" \in {cm.pins.op, ctl.pins.op} \/ chip.mode

(* Reads and writes never hold back a refresh: it is on its way within     *)
(* RefreshSlack clocks of the timer running out.                           *)
RefreshSlack == 18
RefreshServed ==
  ci.timer > REF_PER + 200 => TimerMod - ci.timer <= RefreshSlack

-----------------------------------------------------------------------------
(* The port the host sees.  A word leaves the FIFO one clock before it is  *)
(* in memory, and the address registers advance some clocks after it is.   *)
Stage ==
  CASE ctl.WR_MASK /\ ctl.ST < SC_CL + LENGTH -> "write"
    [] ctl.WR_MASK /\ ctl.ST = SC_CL + LENGTH -> "taken"
    [] ctl.WR_MASK /\ ctl.ST > SC_CL + LENGTH -> "written"
    [] ctl.RD_MASK /\ ~ctl.mRD_DONE -> "read"
    [] ctl.RD_MASK /\ ctl.mRD_DONE -> "delivered"
    [] OTHER -> "none"

NextWrite == IF WR_LOAD THEN WR_ADDR ELSE ctl.rWR_ADDR
NextRead == IF RD_LOAD THEN RD_ADDR ELSE ctl.rRD_ADDR

Port == INSTANCE VramPort
  WITH MaxAddr <- MAX_ADDR, MaxQueue <- MaxFifo,
       mem <- chip.mem, wq <- wq, rq <- rq, wa <- NextWrite, ra <- NextRead,
       wbase <- WR_ADDR, rbase <- RD_ADDR, wload <- WR_LOAD, rload <- RD_LOAD,
       stage <- Stage, at <- ctl.mADDR, word <- q

(* Whatever the host loads and when: an access moves one word between its  *)
(* queue and the cell it was begun for, one access at a time; each address *)
(* goes on by one for each access; nothing else changes memory or queues,  *)
(* refreshes or not.                                                       *)
ServesPort == Port!Spec
=============================================================================
