---------------------------- MODULE SdramProofs ----------------------------
(***************************************************************************)
(* RowsInTurn for every size of the chip, every timing the controller's     *)
(* assumption allows and every host: an access is a chain of clocks, each  *)
(* named after what is on its way to the chip, from the arbiter's taking   *)
(* the command to the precharge the port forces; a refresh starts only     *)
(* outside the chain, because command_done stays up throughout it.  Before *)
(* the chain ever starts the power-up sequence must have come to its end   *)
(* with the arbiter idle when the mode command is pulsed.                  *)
(*                                                                         *)
(* The second half shows that the controller is the memory of VramPort:    *)
(* which access the chain carries, and that its word goes to, or comes     *)
(* from, the cell the access was begun for, whatever is loaded meanwhile.  *)
(*                                                                         *)
(* The third has tetris.sv as the host: what it writes and what it reads   *)
(* first, although it loads addresses while accesses are under way.        *)
(***************************************************************************)
EXTENDS TetrisVram, TLAPS

USE DEF LENGTH, InitStep, InitEnd

(* What one clock does to the registers, field by field. *)
LEMMA EdgeCi ==
  ASSUME Edge
  PROVE  /\ ci'.READA <=> ctl.CMD = 1
         /\ ci'.WRITEA <=> ctl.CMD = 2
         /\ ci'.SADDR = ctl.mADDR
         /\ ci'.CMD_ACK <=> cm.CM_ACK /\ ~ci.CMD_ACK
         /\ ci'.timer = IF cm.REF_ACK THEN REF_PER
                        ELSE IF ci.INIT_REQ THEN REF_PER + 200
                        ELSE (ci.timer + TimerMod - 1) % TimerMod
         /\ ci'.REF_REQ <=> ci.timer = 0 \/ (ci.REF_REQ /\ ~cm.REF_ACK /\ ~ci.INIT_REQ)
         /\ ci'.init_timer = IF ci.init_timer < InitEnd THEN ci.init_timer + 1 ELSE ci.init_timer
         /\ ci'.INIT_REQ <=> ci.init_timer < INIT_PER
         /\ ci'.PRECHARGE <=> ci.init_timer = INIT_PER + InitStep
         /\ ci'.REFRESH <=> ci.init_timer \in {INIT_PER + k * InitStep : k \in 2..9}
         /\ ci'.LOAD_MODE <=> ci.init_timer = INIT_PER + 10 * InitStep
BY DEF Edge, ControlInterface, RefreshRequest, RefreshTimes

(* The power-up counter runs to its end and stays there. *)
LEMMA EdgeCount ==
  ASSUME Edge, ci.init_timer \in Int
  PROVE  /\ ci.init_timer < InitEnd => ci'.init_timer = ci.init_timer + 1
         /\ ci.init_timer >= InitEnd => ci'.init_timer = ci.init_timer
<1>1. INIT_PER \in Int
  BY ControllerAssumption
<1>2. ci'.init_timer = IF ci.init_timer < InitEnd THEN ci.init_timer + 1 ELSE ci.init_timer
  BY EdgeCi
<1> QED  BY <1>1, <1>2

Access == {"reada", "writea"}

LEMMA EdgeCm ==
  ASSUME Edge
  PROVE  /\ cm'.do = IF ci.INIT_REQ THEN {} ELSE Accepted
         /\ cm'.done <=> ~ci.INIT_REQ /\ (cm.do # {} \/ cm.delay > 0)
         /\ cm'.delay = IF ci.INIT_REQ THEN 0 ELSE IF cm.do # {} THEN 8
                        ELSE IF cm.delay > 0 THEN cm.delay - 1 ELSE 0
         /\ cm'.rw_shift = IF cm.do \cap Access # {} THEN 2 ELSE cm.rw_shift \div 2
         /\ cm'.do_rw <=> IF cm.do \cap Access # {} THEN cm.do_rw ELSE cm.rw_shift % 2 = 1
         /\ cm'.REF_ACK <=> \/ "refresh" \in cm.do /\ ci.REF_REQ
                            \/ cm.do # {} /\ cm.REF_ACK
         /\ cm'.CM_ACK <=> /\ cm.do # {}
                           /\ ~("refresh" \in cm.do /\ ci.REF_REQ) \/ cm.CM_ACK
         /\ cm'.pins = Pins
BY DEF Edge, Command, Access

LEMMA EdgeCtl ==
  ASSUME Edge
  PROVE  /\ ctl'.ST = IF ctl.ST = 0 THEN (IF EdgeRD \/ EdgeWR THEN 1 ELSE 0)
                      ELSE IF ctl.ST = 1 THEN (IF Acked THEN 2 ELSE 1)
                      ELSE IF Last THEN 0 ELSE ctl.ST + 1
         /\ ctl'.CMD = IF EdgeRD THEN 1 ELSE IF EdgeWR THEN 2 ELSE IF Acked THEN 0 ELSE ctl.CMD
         /\ ctl'.mWR <=> StartWrite \/ (ctl.mWR /\ ~StartRead /\ ~ctl.mWR_DONE)
         /\ ctl'.mRD <=> StartRead \/ (ctl.mRD /\ ~StartWrite /\ ~ctl.mRD_DONE)
         /\ ctl'.mADDR = IF StartWrite THEN ctl.rWR_ADDR
                         ELSE IF StartRead THEN ctl.rRD_ADDR ELSE ctl.mADDR
         /\ ctl'.rWR_ADDR = IF WR_LOAD THEN WR_ADDR
                            ELSE IF ctl.mWR_DONE /\ ctl.WR_MASK
                            THEN Advance(ctl.rWR_ADDR, WR_ADDR) ELSE ctl.rWR_ADDR
         /\ ctl'.rRD_ADDR = IF RD_LOAD THEN RD_ADDR
                            ELSE IF ctl.mRD_DONE /\ ctl.RD_MASK
                            THEN Advance(ctl.rRD_ADDR, RD_ADDR) ELSE ctl.rRD_ADDR
         /\ ctl'.flag <=> ctl.flag \/ write_side_fifo_rusedw = LENGTH
         /\ ctl'.pins = IF Stop THEN [cm.pins EXCEPT !.op = "PRE", !.sa = 512, !.a10 = FALSE]
                        ELSE cm.pins
BY DEF Edge, Controller

LEMMA EdgeChip ==
  ASSUME Edge
  PROVE  /\ chip'.mode <=> chip.mode \/ ctl.pins.op = "MRS"
         /\ ctl.pins.op = "ACT" => chip'.row = [chip.row EXCEPT ![ctl.pins.bank] = ctl.pins.sa]
         /\ ctl.pins.op = "PRE" /\ ~ctl.pins.a10 =>
              chip'.row = [chip.row EXCEPT ![ctl.pins.bank] = Idle]
         /\ ctl.pins.op \notin {"ACT", "PRE"} => chip'.row = chip.row
BY DEF Edge, ChipStep

-----------------------------------------------------------------------------
(* The inductive invariant. *)
Banks == 0..(BankCount - 1)
Closed == chip.row \in [Banks -> {Idle, Unknown}]

(* The row of the address at work is open, and no other. *)
Opened ==
  /\ DOMAIN chip.row = Banks
  /\ chip.row[BankOf(ctl.mADDR)] = RowOf(ctl.mADDR)
  /\ \A b \in Banks \ {BankOf(ctl.mADDR)} : chip.row[b] \in {Idle, Unknown}

(* Nothing was ever written. *)
PortOff == ctl.ST = 0 /\ ~ctl.mWR /\ ~ctl.mRD /\ ~ctl.flag
(* Clocks since the end of INIT_REQ; the sequence's pulses but the last. *)
Since == ci.init_timer - INIT_PER
Pulsing == 21 <= Since /\ Since <= 181
PinsIn(p, ops) == p.op \in ops /\ ~p.a10

(* No row is touched. *)
Off(p) == PinsIn(p, {"NOP", "REF"})
Silent(p) == p.op = "NOP"

(* Always: the port asks for what it holds the address of. *)
PortInv ==
  /\ ctl.ST \in 0..8 /\ ctl.CMD \in 0..2 /\ (ctl.CMD # 0 <=> ctl.ST = 1)
  /\ {ctl.rWR_ADDR, ctl.rRD_ADDR, ctl.mADDR, WR_ADDR, RD_ADDR} \subseteq 0..MAX_ADDR
  /\ ctl.ST > 0 => ci.SADDR = ctl.mADDR
  /\ ci.READA => ctl.ST = 2 \/ (ctl.ST = 1 /\ ctl.CMD = 1)
  /\ ci.WRITEA => ctl.ST = 2 \/ (ctl.ST = 1 /\ ctl.CMD = 2)
  /\ cm.delay \in 0..8

(* Power-up: the refresh timer cannot run out before the sequence's end. *)
PowerTimer ==
  /\ Since <= 0 => ci.timer = IF ci.init_timer = 0 THEN 0
                              ELSE IF ci.init_timer = 1 THEN TimerMod - 1 ELSE REF_PER + 200
  /\ Since \in 1..201 => ci.timer = REF_PER + 201 - Since

PowerUp ==
  /\ ~chip.mode /\ wq = <<>> /\ PortOff /\ Closed
  /\ ci.init_timer \in 0..InitEnd
  /\ ci.INIT_REQ <=> ci.init_timer \in 1..INIT_PER
  /\ ci.REFRESH \/ ci.PRECHARGE => Pulsing
  /\ cm.rw_shift = 0 /\ ~cm.do_rw /\ ~cm.REF_ACK
  /\ PinsIn(cm.pins, {"NOP", "REF", "PRE", "BST", "MRS"})
  /\ PinsIn(ctl.pins, {"NOP", "REF", "PRE", "BST", "MRS"})
  /\ cm.do \subseteq {"refresh", "precharge", "load_mode"}

(* The sequence's precharge and refreshes are over, and the arbiter idle,  *)
(* when the pulse of the mode command comes.                               *)
Sequence ==
  /\ PowerTimer
  /\ ci.REF_REQ => ci.init_timer = 1
  /\ ci.LOAD_MODE => Since = 201
  /\ Since <= 1 => cm.do = {}
  /\ Since \in 183..201 => /\ cm.do = {} /\ (cm.delay > 0 => cm.delay + Since <= 191)
                           /\ (Since > 191 => ~cm.done)
  /\ Since = 201 => ci.LOAD_MODE
  /\ "load_mode" \notin cm.do /\ cm.pins.op # "MRS" /\ ctl.pins.op # "MRS"

(* The mode command in the arbiter, at its pins, at the chip. *)
SettingMode ==
  /\ Since = 201 /\ ~ci.LOAD_MODE
  /\ \/ /\ cm.do = {"load_mode"} /\ ~ci.REF_REQ
        /\ cm.pins.op # "MRS" /\ ctl.pins.op # "MRS"
     \/ /\ cm.do = {} /\ cm.done /\ cm.delay = 8
        /\ cm.pins.op = "MRS" /\ ctl.pins.op # "MRS"
     \/ /\ cm.do = {} /\ cm.done /\ ~cm.CM_ACK
        /\ Off(cm.pins) /\ ctl.pins.op = "MRS"

(* After power-up. *)
Up ==
  /\ chip.mode /\ ci.init_timer = InitEnd
  /\ ~ci.INIT_REQ /\ ~ci.PRECHARGE /\ ~ci.REFRESH /\ ~ci.LOAD_MODE
  /\ cm.REF_ACK => cm.done

(* No access is between its activation and its precharge. *)
Calm ==
  /\ ctl.ST \notin 2..5 /\ Closed
  /\ cm.do = {} \/ (cm.do = {"refresh"} /\ ci.REF_REQ)
  /\ ~cm.CM_ACK /\ ~ci.CMD_ACK /\ cm.rw_shift = 0 /\ ~cm.do_rw
  /\ Off(cm.pins) /\ Off(ctl.pins)

(* The eight clocks of an access, in their order. *)
Taken ==
  /\ ctl.ST = 1 /\ Closed
  /\ (cm.do = {"reada"} /\ ctl.CMD = 1) \/ (cm.do = {"writea"} /\ ctl.CMD = 2)
  /\ ~cm.CM_ACK /\ ~ci.CMD_ACK /\ cm.rw_shift = 0 /\ ~cm.do_rw
  /\ Off(cm.pins) /\ Off(ctl.pins)

At(st, delay, shift, do_rw) ==
  /\ ctl.ST = st /\ cm.do = {} /\ cm.done /\ cm.delay = delay
  /\ cm.rw_shift = shift /\ (cm.do_rw <=> do_rw)
  /\ ~cm.pins.a10 /\ ~ctl.pins.a10

ActIssued ==
  /\ At(1, 8, 2, FALSE) /\ Closed /\ cm.CM_ACK /\ ~ci.CMD_ACK
  /\ cm.pins.op = "ACT" /\ Off(ctl.pins)
  /\ cm.pins.bank = BankOf(ctl.mADDR) /\ cm.pins.sa = RowOf(ctl.mADDR)

ActAtPins ==
  /\ At(1, 7, 1, FALSE) /\ Closed /\ ~cm.CM_ACK /\ ci.CMD_ACK
  /\ Silent(cm.pins) /\ ctl.pins.op = "ACT"
  /\ ctl.pins.bank = BankOf(ctl.mADDR) /\ ctl.pins.sa = RowOf(ctl.mADDR)

RowOpen ==
  /\ At(2, 6, 0, TRUE) /\ Opened /\ ~cm.CM_ACK /\ ~ci.CMD_ACK
  /\ Silent(cm.pins) /\ Silent(ctl.pins)

MoveIssued ==
  /\ At(3, 5, 0, FALSE) /\ Opened /\ ~cm.CM_ACK /\ ~ci.CMD_ACK
  /\ cm.pins.op \in {"READ", "WRITE"} /\ Silent(ctl.pins)
  /\ cm.pins.bank = BankOf(ctl.mADDR) /\ cm.pins.sa = ColOf(ctl.mADDR)

MoveAtPins ==
  /\ At(4, 4, 0, FALSE) /\ Opened /\ ~cm.CM_ACK /\ ~ci.CMD_ACK
  /\ Off(cm.pins) /\ cm.pins.bank = BankOf(ctl.mADDR)
  /\ DOMAIN cm.pins = {"op", "sa", "bank", "a10"}
  /\ ctl.pins.op \in {"READ", "WRITE"}
  /\ ctl.pins.bank = BankOf(ctl.mADDR) /\ ctl.pins.sa = ColOf(ctl.mADDR)

Closing ==
  /\ At(5, 3, 0, FALSE) /\ Opened /\ ~cm.CM_ACK /\ ~ci.CMD_ACK
  /\ Off(cm.pins) /\ ctl.pins.op = "PRE" /\ ctl.pins.bank = BankOf(ctl.mADDR)

Stages == \/ Calm \/ Taken \/ ActIssued \/ ActAtPins \/ RowOpen \/ MoveIssued
          \/ MoveAtPins \/ Closing

PinInv ==
  /\ PortInv
  /\ (PowerUp /\ (Sequence \/ SettingMode)) \/ (Up /\ Stages)

-----------------------------------------------------------------------------
(* What a clock preserves. *)
LEMMA PortTimes ==
  /\ Stop <=> ctl.ST = 4
  /\ Last <=> ctl.ST = 8
BY ControllerAssumption DEF Stop, Last

LEMMA AdvanceStays ==
  ASSUME NEW a \in 0..MAX_ADDR, NEW base \in 0..MAX_ADDR
  PROVE  Advance(a, base) \in 0..MAX_ADDR
BY ControllerAssumption DEF Advance, Cells

LEMMA PortStep ==
  ASSUME PortInv, Edge, {WR_ADDR', RD_ADDR'} \subseteq 0..MAX_ADDR
  PROVE  PortInv' /\ (ctl.ST > 0 => ctl'.mADDR = ctl.mADDR)
<1>1. ctl.ST > 0 => ctl'.mADDR = ctl.mADDR
  BY EdgeCtl DEF StartWrite, StartRead, Quiet, PortInv
<1>2. EdgeRD \/ EdgeWR => ctl'.mADDR = ctl.mADDR
  BY EdgeCtl DEF StartWrite, StartRead, Quiet, EdgeRD, EdgeWR
<1>3. {ctl'.rWR_ADDR, ctl'.rRD_ADDR, ctl'.mADDR} \subseteq 0..MAX_ADDR
  BY EdgeCtl, AdvanceStays DEF PortInv
<1>4. /\ ctl'.ST \in 0..8 /\ ctl'.CMD \in 0..2 /\ (ctl'.CMD # 0 <=> ctl'.ST = 1)
      /\ ctl'.ST > 0 => ctl.ST > 0 \/ EdgeRD \/ EdgeWR
      /\ ctl.ST > 0 => ~EdgeRD /\ ~EdgeWR
  BY EdgeCtl, PortTimes DEF PortInv, EdgeRD, EdgeWR, Acked
<1>5. ctl'.ST > 0 => ci'.SADDR = ctl'.mADDR
  BY EdgeCi, <1>1, <1>2, <1>4
<1>6. /\ ci'.READA => ctl'.ST = 2 \/ (ctl'.ST = 1 /\ ctl'.CMD = 1)
      /\ ci'.WRITEA => ctl'.ST = 2 \/ (ctl'.ST = 1 /\ ctl'.CMD = 2)
  BY EdgeCi, EdgeCtl, <1>4 DEF PortInv, Acked
<1>7. cm'.delay \in 0..8
  BY EdgeCm DEF PortInv
<1> QED  BY <1>1, <1>3, <1>4, <1>5, <1>6, <1>7 DEF PortInv

-----------------------------------------------------------------------------
LEMMA RowsStayClosed ==
  ASSUME Closed, Edge, ctl.pins.op # "ACT", ~ctl.pins.a10
  PROVE  Closed'
BY EdgeChip DEF Closed

LEMMA PinsPass ==
  ASSUME Edge, ctl.ST # 4
  PROVE  ctl'.pins = cm.pins
BY EdgeCtl, PortTimes

Plain == cm.do \cap Access = {} /\ ~cm.do_rw

LEMMA NoMove ==
  ASSUME Edge, Plain, cm.do \subseteq Commands
  PROVE  /\ PinsIn(cm'.pins, {"NOP", "REF", "PRE", "BST", "MRS"})
         /\ cm.do \subseteq {"refresh"} => Off(cm'.pins)
         /\ cm.do = {} => cm'.pins.op = "NOP" /\ cm'.pins.bank = BankOf(ci.SADDR)
         /\ cm'.pins.op = "MRS" => "load_mode" \in cm.do
         /\ cm.do = {"load_mode"} => cm'.pins.op = "MRS"
<1>1. cm'.pins = Pins
  BY EdgeCm
<1>2. Pins.a10 = FALSE
  BY DEF Pins
<1>3. cm.do = {} => Pins.op = "NOP" /\ Pins.bank = BankOf(ci.SADDR)
  BY DEF Pins, Plain
<1>4. "refresh" \in cm.do => Pins.op = "REF"
  BY DEF Pins
<1>5. "precharge" \in cm.do /\ "refresh" \notin cm.do => Pins.op \in {"PRE", "BST"}
  BY DEF Pins
<1>6. "load_mode" \in cm.do /\ "precharge" \notin cm.do /\ "refresh" \notin cm.do
        => Pins.op = "MRS"
  BY DEF Pins
<1>7. cm.do \subseteq {"refresh", "precharge", "load_mode"}
  BY DEF Plain, Access, Commands
<1> QED  BY <1>1, <1>2, <1>3, <1>4, <1>5, <1>6, <1>7 DEF PinsIn, Off

LEMMA Requests ==
  /\ Accepted \subseteq Commands /\ \A c \in Accepted : ~cm.done /\ c \notin cm.do
  /\ "refresh" \in Accepted =>
       (ci.REF_REQ \/ ci.REFRESH) /\ ~cm.rp_done /\ cm.do \cap Access = {}
  /\ "reada" \in Accepted => ci.READA /\ ~ci.REF_REQ
  /\ "writea" \in Accepted => ci.WRITEA /\ ~ci.REF_REQ
  /\ "precharge" \in Accepted => ci.PRECHARGE
  /\ "load_mode" \in Accepted => ci.LOAD_MODE
BY DEF Accepted, Requested, Commands, Access

LEMMA NoWrite ==
  ASSUME PortOff, wq = <<>>, Edge
  PROVE  PortOff'
<1>1. ~StartWrite /\ ~StartRead /\ ~EdgeRD /\ ~EdgeWR
  BY DEF PortOff, StartWrite, StartRead, Quiet, EdgeRD, EdgeWR
<1>2. write_side_fifo_rusedw = 0
  BY DEF write_side_fifo_rusedw
<1> QED  BY EdgeCtl, <1>1, <1>2 DEF PortOff

LEMMA PowerUpStep ==
  ASSUME PortInv, PowerUp, Sequence \/ SettingMode, Edge, wq' = <<>>, ~chip'.mode
  PROVE  PowerUp'
<1> USE DEF PowerUp, PortInv
<1>0. INIT_PER \in Nat \ {0} /\ ci.init_timer \in 0..InitEnd
  BY ControllerAssumption
<1>1. PortOff' /\ ctl'.pins = cm.pins
  BY NoWrite, PinsPass DEF PortOff
<1>2. Closed'
  BY RowsStayClosed DEF PinsIn
<1>3. ci'.init_timer \in 0..InitEnd /\ (ci'.INIT_REQ <=> ci'.init_timer \in 1..INIT_PER)
  <2>1. ci'.init_timer \in 0..InitEnd
    BY <1>0, EdgeCount
  <2>2. ci'.init_timer \in 1..INIT_PER <=> ci.init_timer < INIT_PER
    BY <1>0, EdgeCount
  <2> QED  BY <2>1, <2>2, EdgeCi
<1>4. ci'.REFRESH \/ ci'.PRECHARGE => Pulsing'
  <2> DEFINE u == ci.init_timer
  <2>1. u \in Int /\ INIT_PER \in Int /\ 1 <= INIT_PER
    BY <1>0
  <2>2. ci'.REFRESH => INIT_PER + 20 <= u /\ u <= INIT_PER + 180
    <3>1. SUFFICES ASSUME ci'.REFRESH PROVE INIT_PER + 20 <= u /\ u <= INIT_PER + 180
      OBVIOUS
    <3>2. PICK k \in 2..9 : u = INIT_PER + k * 20
      BY EdgeCi, <3>1
    <3> QED  BY <2>1, <3>2
  <2>3. ci'.PRECHARGE => INIT_PER + 20 <= u /\ u <= INIT_PER + 180
    BY <2>1, EdgeCi
  <2>4. u <= INIT_PER + 180 => ci'.init_timer = u + 1
    BY <2>1, EdgeCount
  <2>5. Pulsing' <=> 21 <= ci'.init_timer - INIT_PER /\ ci'.init_timer - INIT_PER <= 181
    BY DEF Pulsing, Since
  <2> HIDE DEF u, PowerUp, PortInv
  <2> QED  BY <2>1, <2>2, <2>3, <2>4, <2>5
<1>5. Plain /\ cm.do \subseteq Commands
  BY DEF Plain, Access, Commands
<1>6. cm'.rw_shift = 0 /\ ~cm'.do_rw
  BY EdgeCm, <1>5 DEF Plain
<1>7. ~cm'.REF_ACK
  <2>1. ci.REF_REQ => "refresh" \notin cm.do
    <3>1. CASE Sequence
      <4>1. ci.init_timer = 1 => Since <= 1
        BY <1>0 DEF Since
      <4>2. (ci.REF_REQ => ci.init_timer = 1) /\ (Since <= 1 => cm.do = {})
        BY <3>1 DEF Sequence
      <4> HIDE DEF PowerUp, PortInv
      <4> QED  BY <4>1, <4>2
    <3>2. CASE SettingMode
      <4>1. CASE cm.do = {"load_mode"} /\ ~ci.REF_REQ
        BY <4>1
      <4>2. CASE cm.do = {}
        BY <4>2
      <4> QED  BY <3>2, <4>1, <4>2 DEF SettingMode
    <3> QED  BY <3>1, <3>2
  <2> QED  BY EdgeCm, <2>1
<1>8. PinsIn(cm'.pins, {"NOP", "REF", "PRE", "BST", "MRS"})
  BY <1>5, NoMove
<1>9. cm'.do \subseteq {"refresh", "precharge", "load_mode"}
  <2>1. ~ci.READA /\ ~ci.WRITEA
    BY DEF PortOff
  <2>2. Accepted \subseteq {"refresh", "precharge", "load_mode"}
    BY <2>1, Requests DEF Commands
  <2> QED  BY EdgeCm, <2>2
<1> QED  BY <1>1, <1>2, <1>3, <1>4, <1>6, <1>7, <1>8, <1>9

(* The 16-bit timer does not wrap. *)
LEMMA CountDown ==
  ASSUME NEW x \in Int, 1 <= x, x <= 65535
  PROVE  (x + 65535) % 65536 = x - 1
OBVIOUS

LEMMA TimerStep ==
  ASSUME PowerUp, Sequence, Edge, Since < 201
  PROVE  PowerTimer' /\ (ci'.REF_REQ => ci'.init_timer = 1) /\ Since' = Since + 1
<1> DEFINE t == ci.init_timer
<1>1. /\ INIT_PER \in Nat \ {0} /\ REF_PER \in Nat \ {0} /\ REF_PER + 200 < 65536
      /\ TimerMod = 65536
  BY ControllerAssumption DEF TimerMod
<1>2. t \in 0..InitEnd /\ Since = t - INIT_PER /\ t < InitEnd
  BY <1>1 DEF PowerUp, Since
<1>3. ci'.init_timer = t + 1 /\ Since' = Since + 1
  BY <1>1, <1>2, EdgeCi DEF Since
<1>4. /\ ci'.timer = IF t \in 1..INIT_PER THEN REF_PER + 200 ELSE (ci.timer + 65535) % 65536
      /\ ci'.REF_REQ => ci.timer = 0 \/ (t = 1 /\ t \notin 1..INIT_PER)
  <2>1. ~cm.REF_ACK /\ (ci.INIT_REQ <=> t \in 1..INIT_PER) /\ (ci.REF_REQ => t = 1)
    BY DEF PowerUp, Sequence
  <2>2. ci.timer + TimerMod - 1 = ci.timer + 65535
    <3>1. ci.timer \in Int
      BY <1>1, <1>2 DEF Sequence, PowerTimer
    <3> QED  BY <1>1, <3>1
  <2> QED  BY <1>1, <2>1, <2>2, EdgeCi
<1>5. CASE t = 0
  <2>1. ci.timer = 0
    BY <1>1, <1>2, <1>5 DEF Sequence, PowerTimer
  <2>2. ci'.timer = 65535
    BY <1>4, <1>5, <2>1
  <2> QED  BY <1>1, <1>2, <1>3, <1>5, <2>2 DEF PowerTimer
<1>6. CASE t \in 1..INIT_PER
  <2>1. ci.timer > 0
    BY <1>1, <1>2, <1>6 DEF Sequence, PowerTimer
  <2>2. ci'.timer = REF_PER + 200 /\ ~ci'.REF_REQ
    BY <1>4, <1>6, <2>1
  <2> QED  BY <1>1, <1>2, <1>3, <1>6, <2>2 DEF PowerTimer
<1>7. CASE t > INIT_PER
  <2>1. ci.timer = REF_PER + 201 - Since /\ Since \in 1..200
    BY <1>1, <1>2, <1>7 DEF Sequence, PowerTimer
  <2>2. ci.timer \in Int /\ 1 <= ci.timer /\ ci.timer <= 65535
    <3>1. Since \in Int /\ 1 <= Since /\ Since <= 200
      BY <2>1
    <3> QED  BY <1>1, <2>1, <3>1
  <2>3. (ci.timer + 65535) % 65536 = ci.timer - 1
    BY <2>2, CountDown
  <2>4. ci'.timer = ci.timer - 1 /\ ~ci'.REF_REQ
    BY <1>1, <1>4, <1>7, <2>2, <2>3
  <2> QED  BY <1>1, <1>2, <1>3, <1>7, <2>1, <2>4 DEF PowerTimer
<1> QED  BY <1>1, <1>2, <1>5, <1>6, <1>7

(* The power-up sequence reaches the mode command. *)
LEMMA PowerUpAccepts ==
  ASSUME PortInv, PowerUp, Edge
  PROVE  /\ Accepted \subseteq {"refresh", "precharge", "load_mode"}
         /\ "load_mode" \in Accepted <=> ~cm.done /\ "load_mode" \notin cm.do /\ ci.LOAD_MODE
         /\ (~ci.REF_REQ /\ ~Pulsing) \/ cm.done => Accepted \subseteq {"load_mode"}
<1>1. ~ci.READA /\ ~ci.WRITEA
  BY DEF PowerUp, PortOff, PortInv
<1>2. Accepted \subseteq {"refresh", "precharge", "load_mode"}
  BY <1>1, Requests DEF Commands
<1>3. "load_mode" \in Accepted <=> ~cm.done /\ "load_mode" \notin cm.do /\ ci.LOAD_MODE
  BY DEF Accepted, Requested, Commands
<1>4. ~Pulsing => ~ci.REFRESH /\ ~ci.PRECHARGE
  BY DEF PowerUp
<1> QED  BY <1>2, <1>3, <1>4, Requests

LEMMA SequenceStep ==
  ASSUME PortInv, PowerUp, Sequence, Edge
  PROVE  Sequence' \/ SettingMode'
<1>1. INIT_PER \in Nat \ {0} /\ REF_PER \in Nat \ {0}
  BY ControllerAssumption
<1>2. /\ ci.init_timer \in 0..InitEnd /\ Since = ci.init_timer - INIT_PER
      /\ Since \in Int /\ Since <= 201
  BY <1>1 DEF PowerUp, Since
<1>3. ctl'.pins = cm.pins
  BY PinsPass DEF PowerUp, PortOff
<1>4. cm'.pins.op # "MRS" /\ ctl'.pins.op # "MRS"
  <2>1. cm.do \subseteq {"refresh", "precharge", "load_mode"} /\ ~cm.do_rw
    BY DEF PowerUp
  <2>2. "load_mode" \notin cm.do
    BY DEF Sequence
  <2>3. Plain /\ cm.do \subseteq Commands
    BY <2>1 DEF Plain, Access, Commands
  <2> QED  BY <2>2, <2>3, <1>3, NoMove DEF Sequence
<1>5. /\ ci'.LOAD_MODE <=> Since = 200
      /\ ci.LOAD_MODE => Since = 201
      /\ ci.REF_REQ => ci.init_timer = 1
      /\ ci.INIT_REQ <=> ci.init_timer \in 1..INIT_PER
  BY <1>1, <1>2, EdgeCi DEF Sequence, PowerUp
<1>6. CASE Since < 201
  <2>1. PowerTimer' /\ (ci'.REF_REQ => ci'.init_timer = 1) /\ Since' = Since + 1
    BY <1>6, TimerStep
  <2>2. ~ci.LOAD_MODE
    BY <1>2, <1>5, <1>6
  <2>3. "load_mode" \notin cm'.do
    BY <2>2, PowerUpAccepts, EdgeCm
  <2>4. (ci'.LOAD_MODE => Since' = 201) /\ (Since' = 201 => ci'.LOAD_MODE)
    BY <1>2, <1>5, <2>1
  <2>5. Since' <= 1 => cm'.do = {}
    <3>1. SUFFICES ASSUME Since <= 0 PROVE cm'.do = {}
      BY <1>2, <2>1
    <3>2. CASE ci.INIT_REQ
      BY <3>2, EdgeCm
    <3>3. CASE ~ci.INIT_REQ
      <4>1. ci.init_timer = 0
        BY <1>1, <1>2, <1>5, <3>1, <3>3
      <4>2. ~ci.REF_REQ /\ ~Pulsing
        BY <1>5, <1>2, <3>1, <4>1 DEF Pulsing
      <4> QED  BY <4>2, <2>2, PowerUpAccepts, EdgeCm, <3>3
    <3> QED  BY <3>2, <3>3
  <2>6. Since' \in 183..201 => /\ cm'.do = {} /\ (cm'.delay > 0 => cm'.delay + Since' <= 191)
                               /\ (Since' > 191 => ~cm'.done)
    <3>1. SUFFICES ASSUME Since' \in 183..201
                   PROVE  /\ cm'.do = {}
                          /\ cm'.delay > 0 => cm'.delay + Since' <= 191
                          /\ Since' > 191 => ~cm'.done
      OBVIOUS
    <3>0. Since \in 182..200 /\ Since' = Since + 1
      BY <1>2, <2>1, <3>1
    <3>2. ~ci.REF_REQ /\ ~Pulsing /\ ~ci.INIT_REQ
      BY <1>1, <1>2, <1>5, <3>0 DEF Pulsing
    <3>3. cm'.do = {}
      BY <3>2, <2>2, PowerUpAccepts, EdgeCm
    <3>4. CASE Since = 182
      <4>1. cm'.delay \in 0..8
        BY EdgeCm DEF PortInv
      <4> QED  BY <3>0, <3>3, <3>4, <4>1
    <3>5. CASE Since \in 183..200
      <4>1. cm.do = {} /\ (cm.delay > 0 => cm.delay + Since <= 191) /\ cm.delay \in 0..8
        BY <3>5 DEF Sequence, PortInv
      <4>2. /\ cm'.delay = IF cm.delay > 0 THEN cm.delay - 1 ELSE 0
            /\ cm'.done <=> cm.delay > 0
        BY <4>1, <3>2, EdgeCm
      <4> QED  BY <3>0, <3>3, <3>5, <4>1, <4>2
    <3> QED  BY <3>0, <3>4, <3>5
  <2> QED  BY <1>4, <2>1, <2>3, <2>4, <2>5, <2>6 DEF Sequence
<1>7. CASE Since = 201
  <2>1. /\ ci.LOAD_MODE /\ cm.do = {} /\ ~cm.done /\ ci.timer = REF_PER
        /\ ci.init_timer = InitEnd
    BY <1>1, <1>2, <1>7 DEF Sequence, PowerTimer
  <2>2. ~ci.REF_REQ /\ ~ci.INIT_REQ
    BY <1>1, <1>2, <1>5, <1>7
  <2>3. cm'.do = {"load_mode"}
    <3>1. ~Pulsing
      BY <1>7 DEF Pulsing
    <3>2. Accepted \subseteq {"load_mode"} /\ "load_mode" \in Accepted
      BY <2>1, <2>2, <3>1, PowerUpAccepts
    <3> QED  BY <3>2, <2>2, EdgeCm
  <2>4. ~ci'.REF_REQ
    BY <1>1, <2>1, <2>2, EdgeCi
  <2>5. Since' = 201 /\ ~ci'.LOAD_MODE
    BY <1>1, <1>5, <1>7, <2>1, EdgeCi DEF Since
  <2> QED  BY <1>4, <2>3, <2>4, <2>5 DEF SettingMode
<1> QED  BY <1>2, <1>6, <1>7

LEMMA SettingModeStep ==
  ASSUME PortInv, PowerUp, SettingMode, Edge
  PROVE  IF chip'.mode THEN (Up /\ Calm)' ELSE SettingMode'
<1>1. INIT_PER \in Nat \ {0}
  BY ControllerAssumption
<1>2. ci.init_timer = InitEnd /\ ~ci.LOAD_MODE /\ ~Pulsing
  <2>1. ci.init_timer \in 0..InitEnd /\ Since = ci.init_timer - INIT_PER
    BY DEF PowerUp, Since
  <2>2. Since = 201 /\ ~ci.LOAD_MODE
    BY DEF SettingMode
  <2> QED  BY <1>1, <2>1, <2>2 DEF Pulsing
<1>3. /\ ci'.init_timer = InitEnd /\ Since' = 201
      /\ ~ci'.INIT_REQ /\ ~ci'.PRECHARGE /\ ~ci'.LOAD_MODE /\ ~ci.INIT_REQ
  BY <1>1, <1>2, EdgeCi DEF Since, PowerUp
<1>4. ~ci'.REFRESH
  <2>1. SUFFICES ASSUME NEW k \in 2..9 PROVE ci.init_timer # INIT_PER + k * 20
    BY EdgeCi
  <2> QED  BY <1>1, <1>2
<1>5. ctl'.pins = cm.pins /\ (chip'.mode <=> ctl.pins.op = "MRS")
  BY PinsPass, EdgeChip DEF PowerUp, PortOff
<1>6. Plain /\ cm.do \subseteq Commands
  BY DEF Plain, Access, Commands, PowerUp
<1>7. CASE cm.do = {"load_mode"} /\ ~ci.REF_REQ /\ cm.pins.op # "MRS" /\ ctl.pins.op # "MRS"
  <2>1. cm'.do = {}
    BY <1>2, <1>7, PowerUpAccepts, EdgeCm
  <2>2. cm'.done /\ cm'.delay = 8 /\ cm'.pins.op = "MRS"
    BY <1>3, <1>6, <1>7, EdgeCm, NoMove
  <2> QED  BY <1>3, <1>5, <1>7, <2>1, <2>2 DEF SettingMode
<1>8. CASE cm.do = {} /\ cm.done /\ cm.delay = 8 /\ cm.pins.op = "MRS" /\ ctl.pins.op # "MRS"
  <2>1. cm'.do = {} /\ cm'.done /\ ~cm'.CM_ACK
    BY <1>2, <1>3, <1>8, PowerUpAccepts, EdgeCm
  <2>2. Off(cm'.pins)
    BY <1>6, <1>8, NoMove
  <2> QED  BY <1>3, <1>5, <1>8, <2>1, <2>2 DEF SettingMode
<1>9. CASE cm.do = {} /\ cm.done /\ ~cm.CM_ACK /\ Off(cm.pins) /\ ctl.pins.op = "MRS"
  <2>1. cm'.do = {} /\ ~cm'.CM_ACK /\ ~cm'.REF_ACK /\ ~ci'.CMD_ACK
    BY <1>2, <1>3, <1>9, PowerUpAccepts, EdgeCm, EdgeCi
  <2>2. Off(cm'.pins) /\ Off(ctl'.pins)
    BY <1>5, <1>6, <1>9, NoMove
  <2>3. cm'.rw_shift = 0 /\ ~cm'.do_rw
    BY <1>9, EdgeCm DEF PowerUp
  <2>4. Closed'
    BY <1>9, RowsStayClosed DEF PowerUp, PinsIn
  <2>5. ctl'.ST \notin 2..5
    BY EdgeCtl DEF PowerUp, PortOff
  <2> QED  BY <1>3, <1>4, <1>5, <1>9, <2>1, <2>2, <2>3, <2>4, <2>5 DEF Up, Calm
<1> QED  BY <1>7, <1>8, <1>9 DEF SettingMode
-----------------------------------------------------------------------------
(* After it: one lemma per clock of an access. *)
LEMMA UpStep ==
  ASSUME Up, Edge
  PROVE  Up'
<1>1. INIT_PER \in Nat \ {0}
  BY ControllerAssumption
<1>2. ci'.init_timer = InitEnd
  BY <1>1, EdgeCount DEF Up
<1>3. ~ci'.INIT_REQ /\ ~ci'.PRECHARGE /\ ~ci'.LOAD_MODE
  BY <1>1, EdgeCi DEF Up
<1>4. ~ci'.REFRESH
  <2>1. SUFFICES ASSUME NEW k \in 2..9 PROVE ci.init_timer # INIT_PER + k * 20
    BY EdgeCi
  <2> QED  BY <1>1 DEF Up
<1>5. cm'.REF_ACK => cm'.done
  BY EdgeCm DEF Up
<1>6. chip'.mode
  BY EdgeChip DEF Up
<1> QED  BY <1>2, <1>3, <1>4, <1>5, <1>6 DEF Up

LEMMA UpAccepts ==
  ASSUME Up, PortInv
  PROVE  /\ Accepted \subseteq {"refresh", "reada", "writea"}
         /\ cm.done => Accepted = {}
         /\ "refresh" \in Accepted => /\ ci.REF_REQ /\ ~cm.REF_ACK
                                      /\ cm.do \cap Access = {}
         /\ "reada" \in Accepted => /\ ci.READA /\ ~ci.REF_REQ /\ "reada" \notin cm.do
         /\ "writea" \in Accepted => /\ ci.WRITEA /\ ~ci.REF_REQ /\ "writea" \notin cm.do
BY Requests DEF Up, Commands

LEMMA CalmStep ==
  ASSUME Up, PortInv, Calm, Edge
  PROVE  Calm' \/ Taken'
<1>1. /\ ~cm'.CM_ACK /\ ~ci'.CMD_ACK /\ cm'.rw_shift = 0 /\ ~cm'.do_rw
      /\ cm'.do = Accepted
  <2>1. cm.do \cap Access = {}
    BY DEF Calm, Access
  <2> QED  BY <2>1, EdgeCm, EdgeCi DEF Calm, Up
<1>2. Off(cm'.pins) /\ Off(ctl'.pins) /\ Closed'
  <2>1. Plain /\ cm.do \subseteq {"refresh"} /\ cm.do \subseteq Commands
    BY DEF Plain, Access, Commands, Calm
  <2>2. ctl.pins.op # "ACT" /\ ~ctl.pins.a10 /\ ctl.ST # 4
    BY DEF Calm, Off, PinsIn
  <2> QED  BY <2>1, <2>2, NoMove, PinsPass, RowsStayClosed DEF Calm
<1>3. ctl'.ST \notin 2..5 /\ (ctl.ST = 1 => ctl'.ST = 1 /\ ctl'.CMD = ctl.CMD)
  BY EdgeCtl, PortTimes DEF Calm, PortInv, EdgeRD, EdgeWR, Acked
<1>4. CASE "refresh" \in Accepted
  <2>1. Accepted = {"refresh"}
    BY <1>4, UpAccepts
  <2>2. ci'.REF_REQ
    BY <1>4, UpAccepts, EdgeCi DEF Up
  <2> QED  BY <1>1, <1>2, <1>3, <2>1, <2>2 DEF Calm
<1>5. CASE "reada" \in Accepted
  <2>1. ctl.ST = 1 /\ ctl.CMD = 1 /\ ~ci.WRITEA
    BY <1>5, UpAccepts DEF PortInv, Calm
  <2>2. Accepted = {"reada"}
    BY <1>5, <2>1, UpAccepts
  <2> QED  BY <1>1, <1>2, <1>3, <2>1, <2>2 DEF Taken
<1>6. CASE "writea" \in Accepted
  <2>1. ctl.ST = 1 /\ ctl.CMD = 2 /\ ~ci.READA
    BY <1>6, UpAccepts DEF PortInv, Calm
  <2>2. Accepted = {"writea"}
    BY <1>6, <2>1, UpAccepts
  <2> QED  BY <1>1, <1>2, <1>3, <2>1, <2>2 DEF Taken
<1>7. CASE Accepted = {}
  BY <1>1, <1>2, <1>3, <1>7 DEF Calm
<1> QED  BY <1>4, <1>5, <1>6, <1>7, UpAccepts

LEMMA TakenStep ==
  ASSUME Up, PortInv, Taken, Edge, {WR_ADDR', RD_ADDR'} \subseteq 0..MAX_ADDR
  PROVE  ActIssued'
<1>1. ctl'.mADDR = ctl.mADDR /\ ci.SADDR = ctl.mADDR
  BY PortStep DEF Taken, PortInv
<1>2. ctl'.ST = 1
  BY EdgeCtl DEF Taken, Acked
<1>3. cm'.do = {}
  <2>1. Accepted = {}
    BY UpAccepts DEF Taken, PortInv, Access
  <2> QED  BY <2>1, EdgeCm DEF Up
<1>4. /\ cm'.done /\ cm'.delay = 8 /\ cm'.rw_shift = 2 /\ ~cm'.do_rw
      /\ cm'.CM_ACK /\ ~ci'.CMD_ACK
  <2>1. cm.do # {} /\ cm.do \cap Access # {} /\ "refresh" \notin cm.do
    BY DEF Taken, Access
  <2> QED  BY <2>1, EdgeCm, EdgeCi DEF Taken, Up
<1>5. /\ cm'.pins.op = "ACT" /\ ~cm'.pins.a10
      /\ cm'.pins.bank = BankOf(ctl.mADDR) /\ cm'.pins.sa = RowOf(ctl.mADDR)
  <2>1. /\ cm.do # {} /\ "refresh" \notin cm.do
        /\ "precharge" \notin cm.do /\ "load_mode" \notin cm.do
    BY DEF Taken
  <2> QED  BY <1>1, <2>1, EdgeCm DEF Pins
<1>6. Off(ctl'.pins) /\ Closed'
  BY PinsPass, RowsStayClosed DEF Taken, Off, PinsIn
<1>7. ~ctl'.pins.a10
  BY <1>6 DEF Off, PinsIn
<1> QED  BY <1>1, <1>2, <1>3, <1>4, <1>5, <1>6, <1>7 DEF ActIssued, At
-----------------------------------------------------------------------------
(* An address is its bank, row and column. *)
LEMMA Monotone ==
  ASSUME NEW x \in Int, NEW y \in Int, NEW k \in Nat, x <= y
  PROVE  k * x <= k * y
OBVIOUS

LEMMA Division ==
  ASSUME NEW a \in Nat, NEW k \in Nat \ {0}
  PROVE  /\ a \div k \in Nat /\ a % k \in Nat /\ a % k < k
         /\ a = k * (a \div k) + (a % k)
OBVIOUS

LEMMA QuotientBelow ==
  ASSUME NEW k \in Nat \ {0}, NEW m \in Int, NEW v \in Int, NEW r \in Nat, NEW s \in Nat,
         r < k, s < k, k * m + r = k * v + s
  PROVE  m <= v
<1>1. SUFFICES ASSUME v + 1 <= m PROVE FALSE
  OBVIOUS
<1>2. k * (v + 1) <= k * m
  BY <1>1, Monotone
<1>3. k * (v + 1) = k * v + k
  OBVIOUS
<1>4. k * m \in Int /\ k * v \in Int
  OBVIOUS
<1> QED BY <1>2, <1>3, <1>4

LEMMA Split ==
  ASSUME NEW a \in Nat, NEW S \in Nat \ {0}, NEW P \in Nat \ {0}
  PROVE  /\ ((a \div (S * P)) * P + ((a \div S) % P)) * S + (a % S) = a
         /\ (a \div S) % P \in Nat
<1> DEFINE u == a \div S
           c == a % S
           v == u \div P
           w == u % P
           k == S * P
           m == a \div k
           r == a % k
<1>1. u \in Nat /\ c \in Nat /\ c < S /\ a = S * u + c
  BY Division
<1>2. v \in Nat /\ w \in Nat /\ w < P /\ u = P * v + w
  BY <1>1, Division
<1>3. k \in Nat \ {0}
  OBVIOUS
<1>4. m \in Nat /\ r \in Nat /\ r < k /\ a = k * m + r
  BY <1>3, Division
<1>5. S * u = k * v + S * w
  <2>1. S * u = S * (P * v + w)
    BY <1>2
  <2> HIDE DEF u, v, w
  <2> QED  BY <1>1, <1>2, <2>1
<1>6. S * w + c < k /\ S * w + c \in Nat
  <2> HIDE DEF u, v, w, c
  <2>1. S * (w + 1) <= S * P
    BY <1>2, Monotone
  <2>2. S * (w + 1) = S * w + S
    BY <1>2
  <2>3. S * w \in Nat
    BY <1>2
  <2> QED  BY <1>1, <2>1, <2>2, <2>3
<1>7. k * v + (S * w + c) = k * m + r
  <2> HIDE DEF u, v, w, c, k, m, r
  <2>1. k * v \in Int /\ k * m \in Int /\ S * w \in Int /\ S * u \in Int
    BY <1>1, <1>2, <1>3, <1>4
  <2> QED  BY <1>1, <1>4, <1>5, <2>1
<1>8. m = v
  <2> DEFINE s == S * w + c
  <2>1. s \in Nat /\ s < k
    BY <1>6
  <2>2. k * v + s = k * m + r
    BY <1>7
  <2> HIDE DEF u, v, w, c, k, m, r, s
  <2>3. m <= v /\ v <= m
    BY <1>2, <1>3, <1>4, <2>1, <2>2, QuotientBelow
  <2> QED  BY <1>2, <1>4, <2>3
<1>9. (m * P + w) * S + c = a
  <2> HIDE DEF u, v, w, c, m
  <2> QED  BY <1>1, <1>2, <1>8
<1> QED  BY <1>2, <1>9

LEMMA QuotientRange ==
  ASSUME NEW a \in Nat, NEW k \in Nat \ {0}, NEW n \in Nat \ {0}, a < n * k
  PROVE  a \div k \in Nat /\ a \div k < n
<1> DEFINE m == a \div k
           r == a % k
<1>1. m \in Nat /\ r \in Nat /\ r < k /\ a = k * m + r
  BY Division
<1>2. SUFFICES ASSUME n <= m PROVE FALSE
  BY <1>1
<1> HIDE DEF m, r
<1>3. k * n <= k * m
  BY <1>1, <1>2, Monotone
<1>4. k * n = n * k /\ k * m \in Int
  BY <1>1
<1> QED BY <1>1, <1>3, <1>4
LEMMA AddressSplit ==
  ASSUME NEW a \in 0..MAX_ADDR
  PROVE  /\ BankOf(a) \in Banks /\ RowOf(a) \in Nat
         /\ CellAt(BankOf(a), RowOf(a), ColOf(a)) = a
<1> DEFINE k == PageSize * PageCount
<1>1. /\ PageSize \in Nat \ {0} /\ PageCount \in Nat \ {0} /\ BankCount \in Nat \ {0}
      /\ k \in Nat \ {0}
  BY ChipAssumption
<1>2. a \in Nat /\ a < BankCount * PageCount * PageSize
  <2>1. BankCount * PageCount * PageSize \in Int
    BY <1>1
  <2>2. MAX_ADDR \in Int /\ MAX_ADDR < BankCount * PageCount * PageSize
    BY <2>1, ControllerAssumption DEF Cells
  <2> QED  BY <2>1, <2>2
<1>3. BankCount * PageCount * PageSize = BankCount * k
  BY <1>1
<1>4. a \div k \in Nat /\ a \div k < BankCount
  BY <1>1, <1>2, <1>3, QuotientRange
<1>5. /\ ((a \div k) * PageCount + ((a \div PageSize) % PageCount)) * PageSize + (a % PageSize) = a
      /\ (a \div PageSize) % PageCount \in Nat
  BY <1>1, <1>2, Split
<1> QED  BY <1>1, <1>4, <1>5 DEF BankOf, RowOf, ColOf, CellAt, Banks

-----------------------------------------------------------------------------
(* What every clock between an access' activation and its precharge does.  *)
LEMMA AccessGoesOn ==
  ASSUME Up, PortInv, Edge, {WR_ADDR', RD_ADDR'} \subseteq 0..MAX_ADDR,
         ctl.ST > 0, cm.do = {}, cm.done
  PROVE  /\ cm'.do = {} /\ ~cm'.CM_ACK /\ (ci'.CMD_ACK <=> cm.CM_ACK /\ ~ci.CMD_ACK)
         /\ cm.delay > 0 => cm'.done /\ cm'.delay = cm.delay - 1
         /\ cm'.rw_shift = cm.rw_shift \div 2
         /\ cm'.do_rw <=> cm.rw_shift % 2 = 1
         /\ ~cm'.pins.a10
         /\ cm'.pins.bank = BankOf(ctl'.mADDR)
         /\ ~cm.do_rw => Off(cm'.pins) /\ Silent(cm'.pins)
         /\ cm.do_rw => /\ cm'.pins.op \in {"READ", "WRITE"}
                        /\ cm'.pins.sa = ColOf(ctl'.mADDR)
         /\ DOMAIN cm'.pins = {"op", "sa", "bank", "a10"}
         /\ ctl'.mADDR = ctl.mADDR
<1>1. ctl'.mADDR = ctl.mADDR /\ ci.SADDR = ctl.mADDR
  BY PortStep DEF PortInv
<1>2. cm'.do = {}
  BY UpAccepts, EdgeCm
<1>3. cm.do \cap Access = {} /\ ~ci.INIT_REQ
  BY DEF Up
<1>4. /\ ~cm'.CM_ACK /\ (ci'.CMD_ACK <=> cm.CM_ACK /\ ~ci.CMD_ACK)
      /\ cm.delay > 0 => cm'.done /\ cm'.delay = cm.delay - 1
      /\ cm'.rw_shift = cm.rw_shift \div 2
      /\ cm'.do_rw <=> cm.rw_shift % 2 = 1
  BY <1>3, EdgeCm, EdgeCi
<1>5. cm'.pins = Pins
  BY EdgeCm
<1>6. /\ ~Pins.a10 /\ Pins.bank = BankOf(ctl.mADDR)
      /\ ~cm.do_rw => Off(Pins) /\ Silent(Pins)
      /\ cm.do_rw => Pins.op \in {"READ", "WRITE"} /\ Pins.sa = ColOf(ctl.mADDR)
      /\ DOMAIN Pins = {"op", "sa", "bank", "a10"}
  BY <1>1 DEF Pins, Off, PinsIn, Silent
<1> QED  BY <1>1, <1>2, <1>4, <1>5, <1>6

LEMMA ActIssuedStep ==
  ASSUME Up, PortInv, ActIssued, Edge, {WR_ADDR', RD_ADDR'} \subseteq 0..MAX_ADDR
  PROVE  ActAtPins'
<1> USE DEF ActIssued, At
<1>1. ctl'.ST = 1
  BY EdgeCtl DEF Acked
<1>2. ctl'.pins = cm.pins /\ Closed'
  BY PinsPass, RowsStayClosed DEF Off, PinsIn
<1> QED  BY <1>1, <1>2, AccessGoesOn DEF ActAtPins

LEMMA ActAtPinsStep ==
  ASSUME Up, PortInv, ActAtPins, Edge, {WR_ADDR', RD_ADDR'} \subseteq 0..MAX_ADDR
  PROVE  RowOpen'
<1> USE DEF ActAtPins, At
<1>1. ctl'.ST = 2
  BY EdgeCtl DEF Acked
<1>2. ctl'.pins = cm.pins /\ ~cm.pins.a10
  BY PinsPass
<1>3. Opened'
  <2>1. chip'.row = [chip.row EXCEPT ![BankOf(ctl.mADDR)] = RowOf(ctl.mADDR)]
    BY EdgeChip
  <2>2. BankOf(ctl.mADDR) \in Banks /\ ctl'.mADDR = ctl.mADDR
    BY AddressSplit, PortStep DEF PortInv
  <2> QED  BY <2>1, <2>2 DEF Opened, Closed
<1> QED  BY <1>1, <1>2, <1>3, AccessGoesOn DEF RowOpen

LEMMA OpenedStays ==
  ASSUME Opened, Edge, ctl.pins.op \notin {"ACT", "PRE"}, ctl'.mADDR = ctl.mADDR
  PROVE  Opened'
BY EdgeChip DEF Opened

LEMMA RowOpenStep ==
  ASSUME Up, PortInv, RowOpen, Edge, {WR_ADDR', RD_ADDR'} \subseteq 0..MAX_ADDR
  PROVE  MoveIssued'
<1> USE DEF RowOpen, At
<1>1. ctl'.ST = 3
  BY EdgeCtl, PortTimes
<1>2. ctl'.pins = cm.pins
  BY PinsPass
<1>3. Opened'
  BY OpenedStays, AccessGoesOn DEF Silent
<1> QED  BY <1>1, <1>2, <1>3, AccessGoesOn DEF MoveIssued

LEMMA MoveIssuedStep ==
  ASSUME Up, PortInv, MoveIssued, Edge, {WR_ADDR', RD_ADDR'} \subseteq 0..MAX_ADDR
  PROVE  MoveAtPins'
<1> USE DEF MoveIssued, At
<1>1. ctl'.ST = 4
  BY EdgeCtl, PortTimes
<1>2. ctl'.pins = cm.pins
  BY PinsPass
<1>3. Opened'
  BY OpenedStays, AccessGoesOn DEF Silent
<1> QED  BY <1>1, <1>2, <1>3, AccessGoesOn DEF MoveAtPins

LEMMA MoveAtPinsStep ==
  ASSUME Up, PortInv, MoveAtPins, Edge, {WR_ADDR', RD_ADDR'} \subseteq 0..MAX_ADDR
  PROVE  Closing'
<1> USE DEF MoveAtPins, At
<1>1. ctl'.ST = 5
  BY EdgeCtl, PortTimes
<1>2. ctl'.pins.op = "PRE" /\ ~ctl'.pins.a10 /\ ctl'.pins.bank = cm.pins.bank
  BY EdgeCtl, PortTimes
<1>3. Opened'
  BY OpenedStays, AccessGoesOn
<1> QED  BY <1>1, <1>2, <1>3, AccessGoesOn DEF Closing

LEMMA ClosingStep ==
  ASSUME Up, PortInv, Closing, Edge, {WR_ADDR', RD_ADDR'} \subseteq 0..MAX_ADDR
  PROVE  Calm'
<1> USE DEF Closing, At
<1>1. ctl'.ST = 6
  BY EdgeCtl, PortTimes
<1>2. Off(ctl'.pins)
  BY PinsPass
<1>3. Closed'
  <2>1. chip'.row = [chip.row EXCEPT ![BankOf(ctl.mADDR)] = Idle]
    BY EdgeChip
  <2> QED  BY <2>1 DEF Opened, Closed
<1> QED  BY <1>1, <1>2, <1>3, AccessGoesOn DEF Calm
-----------------------------------------------------------------------------
LEMMA InitPins ==
  ASSUME Init
  PROVE  PinInv
<1>1. INIT_PER \in Nat \ {0} /\ BankCount \in Nat \ {0}
  BY ControllerAssumption, ChipAssumption
<1>2. 0 \in 0..MAX_ADDR
  BY ControllerAssumption, ChipAssumption DEF Cells
<1>3. PortInv
  BY <1>2 DEF Init, PortInv
<1>4. Closed
  BY DEF Init, Closed, Banks, PoweredUp
<1>5. Since = 0 - INIT_PER /\ Since < 0
  BY <1>1 DEF Init, Since
<1>6. PowerUp
  <2>1. Off(NOP)
    BY DEF Off, PinsIn, NOP
  <2> QED  BY <1>1, <1>4, <2>1 DEF Init, PowerUp, PortOff, PinsIn, Off, PoweredUp
<1>7. Sequence
  <2>1. PowerTimer
    BY <1>1, <1>5 DEF Init, PowerTimer
  <2> QED  BY <1>1, <1>5, <2>1 DEF Init, Sequence, NOP
<1> QED  BY <1>3, <1>6, <1>7 DEF PinInv

LEMMA EdgeStep ==
  ASSUME PinInv, Edge, {WR_ADDR', RD_ADDR'} \subseteq 0..MAX_ADDR,
         ~chip'.mode => wq' = <<>>
  PROVE  PinInv'
<1>1. PortInv /\ PortInv'
  BY PortStep DEF PinInv
<1>2. CASE PowerUp /\ Sequence
  <2>1. ~chip'.mode
    BY <1>2, EdgeChip DEF PowerUp, Sequence
  <2> QED  BY <1>1, <1>2, <2>1, PowerUpStep, SequenceStep DEF PinInv
<1>3. CASE PowerUp /\ SettingMode
  <2>1. CASE chip'.mode
    BY <1>1, <1>3, <2>1, SettingModeStep DEF PinInv, Stages
  <2>2. CASE ~chip'.mode
    BY <1>1, <1>3, <2>2, PowerUpStep, SettingModeStep DEF PinInv
  <2> QED  BY <2>1, <2>2
<1>4. CASE Up /\ Stages
  <2>1. Up'
    BY <1>4, UpStep
  <2>2. Stages'
    BY <1>1, <1>4, CalmStep, TakenStep, ActIssuedStep, ActAtPinsStep, RowOpenStep,
       MoveIssuedStep, MoveAtPinsStep, ClosingStep DEF Stages
  <2> QED  BY <1>1, <2>1, <2>2 DEF PinInv
<1> QED  BY <1>2, <1>3, <1>4 DEF PinInv

(* The registers the pins depend on, left alone. *)
LEMMA CoreStays ==
  ASSUME PinInv, UNCHANGED coreVars, {WR_ADDR', RD_ADDR'} \subseteq 0..MAX_ADDR,
         ~chip.mode => wq' = <<>>
  PROVE  PinInv'
<1>1. ci' = ci /\ cm' = cm /\ ctl' = ctl /\ chip' = chip
  BY DEF coreVars
<1>2. PortInv'
  BY <1>1 DEF PinInv, PortInv
<1>3. CASE PowerUp
  <2>1. PowerUp'
    BY <1>1, <1>3 DEF PowerUp, PortOff, Closed, Pulsing, Since
  <2>2. Sequence' <=> Sequence
    BY <1>1 DEF Sequence, PowerTimer, Since
  <2>3. SettingMode' <=> SettingMode
    BY <1>1 DEF SettingMode, Since
  <2> QED  BY <1>2, <1>3, <2>1, <2>2, <2>3 DEF PinInv, Up, PowerUp
<1>4. CASE Up /\ Stages
  <2>1. Up'
    BY <1>1, <1>4 DEF Up
  <2>2. Stages'
    BY <1>1, <1>4 DEF Stages, Calm, Taken, ActIssued, ActAtPins, RowOpen, MoveIssued,
                      MoveAtPins, Closing, At, Opened, Closed
  <2> QED  BY <1>2, <2>1, <2>2 DEF PinInv
<1> QED  BY <1>3, <1>4 DEF PinInv

LEMMA FifoStaysEmpty ==
  ASSUME PinInv, Edge, ~chip'.mode
  PROVE  wq = <<>> /\ WqAfter = <<>>
<1>1. wq = <<>>
  BY EdgeChip DEF PinInv, Up, PowerUp
<1> QED  BY <1>1 DEF WqAfter, PopsWord

(* Accesses keep their rows in turn where the invariant holds. *)
LEMMA RowsAreInTurn ==
  ASSUME PinInv
  PROVE  RowsInTurn
<1>1. Closed => OpenRows = {}
  BY DEF Closed, OpenRows, Idle, Unknown
<1>2. Opened => /\ OpenRows = {BankOf(ctl.mADDR)}
                /\ CellAt(BankOf(ctl.mADDR), chip.row[BankOf(ctl.mADDR)], ColOf(ctl.mADDR)) = ctl.mADDR
  <2>1. SUFFICES ASSUME Opened
                 PROVE  /\ OpenRows = {BankOf(ctl.mADDR)}
                        /\ CellAt(BankOf(ctl.mADDR), RowOf(ctl.mADDR), ColOf(ctl.mADDR)) = ctl.mADDR
    BY DEF Opened
  <2>2. /\ BankOf(ctl.mADDR) \in Banks /\ RowOf(ctl.mADDR) \in Nat
        /\ CellAt(BankOf(ctl.mADDR), RowOf(ctl.mADDR), ColOf(ctl.mADDR)) = ctl.mADDR
    BY AddressSplit DEF PinInv, PortInv
  <2> QED  BY <2>1, <2>2 DEF Opened, OpenRows, Idle, Unknown
<1>3. CASE PowerUp
  BY <1>1, <1>3 DEF PowerUp, PinsIn, RowsInTurn
<1>4. CASE Up /\ Stages
  <2>0. Off(ctl.pins) /\ Closed => RowsInTurn
    BY <1>1 DEF Off, PinsIn, RowsInTurn
  <2>1. CASE Calm \/ Taken \/ ActIssued
    BY <2>0, <2>1 DEF Calm, Taken, ActIssued
  <2>4. CASE ActAtPins
    <3>1. chip.mode /\ OpenRows = {} /\ ctl.pins.op = "ACT"
      BY <1>1, <1>4, <2>4 DEF Up, ActAtPins
    <3> QED  BY <3>1 DEF RowsInTurn
  <2>2. CASE RowOpen \/ MoveIssued \/ Closing
    BY <2>2 DEF RowOpen, MoveIssued, Closing, Silent, RowsInTurn
  <2>3. CASE MoveAtPins
    BY <1>2, <2>3 DEF MoveAtPins, RowsInTurn
  <2> QED  BY <1>4, <2>1, <2>2, <2>3, <2>4 DEF Stages
<1> QED  BY <1>3, <1>4 DEF PinInv

LEMMA NextStep ==
  ASSUME PinInv, [Next]_vars
  PROVE  PinInv'
<1>0. {WR_ADDR, RD_ADDR} \subseteq 0..MAX_ADDR /\ Bases \subseteq 0..MAX_ADDR
  BY ControllerAssumption DEF PinInv, PortInv
<1>1. ~chip.mode => wq = <<>>
  BY DEF PinInv, Up, PowerUp
<1>2. CASE Tick
  <2>1. ~chip'.mode => wq' = <<>>
    BY <1>2, FifoStaysEmpty DEF Tick
  <2>2. {WR_ADDR', RD_ADDR'} \subseteq 0..MAX_ADDR
    BY <1>0, <1>2 DEF Tick, hostVars
  <2> QED  BY <1>2, <2>1, <2>2, EdgeStep DEF Tick
<1>3. CASE Host
  <2>1. UNCHANGED coreVars /\ (wq' = wq \/ chip.mode)
    BY <1>3 DEF Host, HostPush, HostPop, RaiseWriteLoad, LowerWriteLoad,
                RaiseReadLoad, LowerReadLoad, PoweredUpDone
  <2>2. {WR_ADDR', RD_ADDR'} \subseteq 0..MAX_ADDR
    BY <1>0, <1>3 DEF Host, HostPush, HostPop, RaiseWriteLoad, LowerWriteLoad,
                      RaiseReadLoad, LowerReadLoad, hostVars
  <2> QED  BY <1>1, <2>1, <2>2, CoreStays
<1>4. CASE UNCHANGED vars
  BY <1>0, <1>1, <1>4, CoreStays DEF vars, hostVars
<1> QED  BY <1>2, <1>3, <1>4 DEF Next

(* Whatever the host pushes, pops and loads, and whenever a refresh falls  *)
(* due: a row is opened only after the mode was set and when no earlier    *)
(* access's row is open, data moves only in the open row of the requested  *)
(* address, refresh and mode change never meet a row an access has opened  *)
(* (Sdram_Control.v:251, command.v:146, control_interface.v:150).  It says *)
(* nothing of banks that were never precharged.                            *)
THEOREM RowsInTurnCorrect == Spec => []RowsInTurn
BY InitPins, NextStep, RowsAreInTurn, PTL DEF Spec

(* When the power-up sequence is over the mode is set or on its way, the   *)
(* arbiter having been idle for the pulse (control_interface.v:180).       *)
THEOREM ModeIsSet == Spec => []ModeNotLost
<1>1. PinInv => ModeNotLost
  <2>1. PowerUp /\ ci.init_timer = InitEnd => Since = 201
    BY ControllerAssumption DEF PowerUp, Since
  <2> QED  BY <2>1 DEF PinInv, Sequence, SettingMode, Up, ModeNotLost
<1> QED  BY <1>1, InitPins, NextStep, PTL DEF Spec
-----------------------------------------------------------------------------
(* The refresh timer: clocks until a pending refresh is taken up. *)
Left == IF cm.REF_ACK THEN 0
        ELSE IF cm.do = {"refresh"} THEN 1
        ELSE IF cm.do # {} THEN 17
        ELSE IF cm.done THEN 8 + cm.delay
        ELSE IF cm.rp_done THEN 3 + cm.rp
        ELSE 2

Wrapped == ci.timer > REF_PER + 200

Pace ==
  /\ ci.timer \in Nat /\ ci.timer < 65536 /\ cm.rp \in 0..4
  /\ ~cm.done => cm.delay = 0
  /\ PowerUp \/ Calm => ~cm.ex
  /\ Closing => ctl.PM_STOP
  /\ Wrapped => IF ci.init_timer = 1 THEN ci.timer = 65535
                ELSE (ci.REF_REQ \/ cm.REF_ACK) /\ 65536 + Left <= ci.timer + RefreshSlack

LEMMA EdgePause ==
  ASSUME Edge
  PROVE  /\ ci.INIT_REQ => cm'.rp = 0 /\ ~cm'.ex
         /\ cm'.rp \in {0, 4, cm.rp} \/ (cm.rp # 0 /\ cm'.rp = cm.rp - 1)
         /\ ~ci.INIT_REQ /\ cm.done /\ cm.delay = 0 => cm'.rp = 4 /\ cm'.rp_done
         /\ ~ci.INIT_REQ /\ ~cm.done /\ ~cm.ex =>
              /\ cm'.rp = IF cm.rp = 0 THEN 0 ELSE cm.rp - 1
              /\ cm'.rp_done <=> cm.rp > 0
         /\ cm'.ex => cm.ex \/ Accepted \cap Access # {}
         /\ cm.ex /\ ctl.PM_STOP /\ cm.delay > 0 => ~cm'.ex
         /\ ctl'.PM_STOP <=> Stop
<1> DEFINE expired == cm.delay = 0 /\ cm.done
           paused == ~expired /\ cm.ex /\ ~ctl.PM_STOP
           resumed == ~expired /\ cm.ex /\ ctl.PM_STOP
<1>1. /\ cm'.rp = IF ci.INIT_REQ THEN 0 ELSE IF expired THEN 4
                  ELSE IF paused \/ cm.rp = 0 THEN cm.rp ELSE cm.rp - 1
      /\ cm'.rp_done <=> /\ ~ci.INIT_REQ
                         /\ IF expired THEN TRUE ELSE IF paused THEN cm.rp_done ELSE cm.rp > 0
  BY DEF Edge, Command
<1>2. cm'.ex <=> ~ci.INIT_REQ /\ ~resumed /\ (cm.ex \/ Accepted \cap Access # {})
  BY DEF Edge, Command, Access
<1>3. ctl'.PM_STOP <=> Stop
  BY DEF Edge, Controller
<1> QED  BY <1>1, <1>2, <1>3

LEMMA InitPace ==
  ASSUME Init
  PROVE  Pace
<1>1. ~Wrapped /\ ~Closing
  BY ControllerAssumption DEF Init, Wrapped, Closing, At
<1> QED  BY <1>1 DEF Init, Pace

LEMMA TypesPace ==
  ASSUME PinInv, Pace, Edge
  PROVE  /\ ci'.timer \in Nat /\ ci'.timer < 65536 /\ cm'.rp \in 0..4
         /\ ~cm'.done => cm'.delay = 0
<1>1. REF_PER \in Nat /\ REF_PER + 200 < 65536
  BY ControllerAssumption DEF TimerMod
<1>2. ci'.timer \in Nat /\ ci'.timer < 65536
  <2>1. ci.timer \in Nat /\ ci.timer < 65536 /\ TimerMod = 65536
    BY DEF Pace, TimerMod
  <2>2. (ci.timer + TimerMod - 1) % TimerMod \in Nat /\ (ci.timer + TimerMod - 1) % TimerMod < 65536
    BY <2>1
  <2>3. \/ ci'.timer = REF_PER \/ ci'.timer = REF_PER + 200
        \/ ci'.timer = (ci.timer + TimerMod - 1) % TimerMod
    BY EdgeCi
  <2> QED  BY <1>1, <2>2, <2>3
<1>3. cm'.rp \in 0..4
  <2>1. cm.rp \in 0..4
    BY DEF Pace
  <2> QED  BY <2>1, EdgePause
<1>4. ~cm'.done => cm'.delay = 0
  <2>1. cm.delay \in 0..8
    BY DEF PinInv, PortInv
  <2> QED  BY <2>1, EdgeCm
<1> QED  BY <1>2, <1>3, <1>4

LEMMA PausePace ==
  ASSUME PinInv, PinInv', Pace, Edge, {WR_ADDR', RD_ADDR'} \subseteq 0..MAX_ADDR
  PROVE  /\ (PowerUp \/ Calm)' => ~cm'.ex
         /\ Closing' => ctl'.PM_STOP
<1>1. CASE PowerUp
  <2>1. ~cm'.ex
    <3>1. ~cm.ex /\ PortInv
      BY <1>1 DEF Pace, PinInv
    <3>2. Accepted \cap Access = {}
      BY <1>1, <3>1, PowerUpAccepts DEF Access
    <3> QED  BY <3>1, <3>2, EdgePause
  <2>2. ~Closing'
    BY <1>1, EdgeCtl DEF Closing, At, PowerUp, PortOff
  <2> QED  BY <2>1, <2>2
<1>2. CASE Up /\ Stages
  <2>0. PortInv /\ ~PowerUp'
    BY <1>2, UpStep DEF PinInv, Up, PowerUp
  <2>1. CASE Calm
    <3>1. ~Closing'
      BY <2>0, <2>1, EdgeCtl DEF Calm, Closing, At, PortInv
    <3>2. Calm' => Accepted \cap Access = {}
      BY <1>2, EdgeCm DEF Calm, Access, Up
    <3>3. ~cm.ex
      BY <2>1 DEF Pace
    <3> QED  BY <2>0, <3>1, <3>2, <3>3, EdgePause
  <2>2. CASE Closing
    <3>1. Calm' /\ ~Closing'
      BY <1>2, <2>0, <2>2, ClosingStep DEF Calm, Closing, At
    <3>2. Accepted = {} /\ cm.delay > 0
      BY <1>2, <2>0, <2>2, UpAccepts DEF Closing, At
    <3>3. ctl.PM_STOP
      BY <2>2 DEF Pace
    <3> QED  BY <2>0, <3>1, <3>2, <3>3, EdgePause
  <2>3. CASE MoveAtPins
    <3>1. ~Calm'
      BY <1>2, <2>0, <2>3, MoveAtPinsStep DEF Calm, Closing, At
    <3>2. ctl'.PM_STOP
      BY <2>3, EdgePause, PortTimes DEF MoveAtPins, At
    <3> QED  BY <2>0, <3>1, <3>2
  <2>4. CASE Taken \/ ActIssued \/ ActAtPins \/ RowOpen \/ MoveIssued
    <3>1. (ActIssued \/ ActAtPins \/ RowOpen \/ MoveIssued \/ MoveAtPins)'
      BY <1>2, <2>0, <2>4, TakenStep, ActIssuedStep, ActAtPinsStep, RowOpenStep, MoveIssuedStep
    <3>2. ~Calm' /\ ~Closing'
      BY <3>1 DEF Calm, Closing, ActIssued, ActAtPins, RowOpen, MoveIssued, MoveAtPins, At
    <3> QED  BY <2>0, <3>2
  <2> QED  BY <1>2, <2>1, <2>2, <2>3, <2>4 DEF Stages
<1> QED  BY <1>1, <1>2 DEF PinInv

LEMMA LeftFalls ==
  ASSUME PinInv, Pace, Edge, ~ci.INIT_REQ, ci.REF_REQ, ~cm.REF_ACK,
         (PowerUp /\ SettingMode) \/ (Up /\ Stages)
  PROVE  Left' <= Left - 1
<1>0. PortInv /\ cm.delay \in 0..8 /\ cm.rp \in 0..4
  BY DEF PinInv, PortInv, Pace
<1>1. \/ cm.do = {"refresh"} /\ Up
      \/ cm.do \in {{"reada"}, {"writea"}} /\ Up
      \/ cm.do = {} /\ cm.done
      \/ cm.do = {} /\ ~cm.done /\ ~cm.ex /\ cm.delay = 0 /\ Up
  <2>1. CASE PowerUp /\ SettingMode
    BY <2>1 DEF SettingMode
  <2>2. CASE Up /\ Calm
    BY <2>2 DEF Calm, Pace
  <2>3. CASE Up /\ (Taken \/ ActIssued \/ ActAtPins \/ RowOpen \/ MoveIssued \/ MoveAtPins \/ Closing)
    BY <2>3 DEF Taken, ActIssued, ActAtPins, RowOpen, MoveIssued, MoveAtPins, Closing, At
  <2> QED  BY <2>1, <2>2, <2>3 DEF Stages
<1>2. CASE cm.do = {"refresh"}
  <2>1. cm'.REF_ACK
    BY <1>2, EdgeCm
  <2> QED  BY <1>2, <2>1 DEF Left
<1>3. CASE cm.do \in {{"reada"}, {"writea"}} /\ Up
  <2>1. Accepted = {}
    BY <1>0, <1>3, UpAccepts DEF Access
  <2>2. cm'.do = {} /\ cm'.done /\ cm'.delay = 8 /\ ~cm'.REF_ACK
    BY <1>3, <2>1, EdgeCm
  <2> QED  BY <1>3, <2>2 DEF Left
<1>4. CASE cm.do = {} /\ cm.done
  <2>1. Accepted = {}
    BY <1>4 DEF Accepted
  <2>2. cm'.do = {} /\ ~cm'.REF_ACK
    BY <1>4, <2>1, EdgeCm
  <2>3. CASE cm.delay > 0
    <3>1. cm'.done /\ cm'.delay = cm.delay - 1
      BY <1>4, <2>3, EdgeCm
    <3> QED  BY <1>0, <1>4, <2>2, <3>1 DEF Left
  <2>4. CASE cm.delay = 0
    <3>1. ~cm'.done /\ cm'.rp_done /\ cm'.rp = 4
      BY <1>4, <2>4, EdgeCm, EdgePause
    <3> QED  BY <1>4, <2>2, <2>4, <3>1 DEF Left
  <2> QED  BY <1>0, <2>3, <2>4
<1>5. CASE cm.do = {} /\ ~cm.done /\ ~cm.ex /\ cm.delay = 0 /\ Up
  <2>1. ~cm'.done /\ ~cm'.REF_ACK /\ cm'.do = Accepted
    BY <1>5, EdgeCm
  <2>2. /\ cm'.rp = IF cm.rp = 0 THEN 0 ELSE cm.rp - 1
        /\ cm'.rp_done <=> cm.rp > 0
    BY <1>5, EdgePause
  <2>3. CASE cm.rp_done
    <3>1. Accepted = {}
      BY <1>0, <1>5, <2>3, UpAccepts, Requests
    <3> QED  BY <1>0, <1>5, <2>1, <2>2, <2>3, <3>1 DEF Left
  <2>4. CASE ~cm.rp_done
    <3>1. "refresh" \in Accepted
      BY <1>5, <2>4 DEF Accepted, Requested, Commands
    <3>2. Accepted = {"refresh"}
      BY <1>0, <1>5, <3>1, UpAccepts
    <3> QED  BY <1>5, <2>1, <2>4, <3>2 DEF Left
  <2> QED  BY <2>3, <2>4
<1> QED  BY <1>1, <1>2, <1>3, <1>4, <1>5

LEMMA TimerFalls ==
  ASSUME Pace, Edge, ~cm.REF_ACK, ~ci.INIT_REQ
  PROVE  ci'.timer = IF ci.timer = 0 THEN 65535 ELSE ci.timer - 1
<1>1. ci.timer \in Nat /\ ci.timer < 65536 /\ TimerMod = 65536
  BY DEF Pace, TimerMod
<1>2. ci.timer + TimerMod - 1 = ci.timer + 65535
  BY <1>1
<1>3. ci'.timer = (ci.timer + 65535) % 65536
  BY <1>1, <1>2, EdgeCi
<1>4. CASE ci.timer = 0
  BY <1>3, <1>4
<1>5. CASE ci.timer > 0
  BY <1>1, <1>3, <1>5, CountDown
<1> QED  BY <1>1, <1>4, <1>5

LEMMA WrapPace ==
  ASSUME PinInv, Pace, Edge, Left' \in 0..17, Left \in 0..17
  PROVE  Wrapped' => IF ci'.init_timer = 1 THEN ci'.timer = 65535
                     ELSE (ci'.REF_REQ \/ cm'.REF_ACK) /\ 65536 + Left' <= ci'.timer + RefreshSlack
<1>1. /\ INIT_PER \in Nat \ {0} /\ REF_PER \in Nat \ {0} /\ REF_PER + 200 < 65536
      /\ ci.timer \in Nat /\ ci.timer < 65536
  BY ControllerAssumption DEF TimerMod, Pace
<1>2. ASSUME \/ cm.REF_ACK \/ ci.INIT_REQ
             \/ ci.timer > 0 /\ ~Wrapped
      PROVE  ~Wrapped'
  <2>1. CASE cm.REF_ACK \/ ci.INIT_REQ
    <3>1. ci'.timer = REF_PER \/ ci'.timer = REF_PER + 200
      BY <2>1, EdgeCi
    <3> QED  BY <1>1, <3>1 DEF Wrapped
  <2>2. CASE ci.timer > 0 /\ ~Wrapped /\ ~cm.REF_ACK /\ ~ci.INIT_REQ
    <3>1. ci'.timer = ci.timer - 1
      BY <2>2, TimerFalls
    <3> QED  BY <1>1, <2>2, <3>1 DEF Wrapped
  <2> QED  BY <1>2, <2>1, <2>2
<1>3. CASE PowerUp /\ Sequence
  <2>1. /\ ci.init_timer \in 0..InitEnd /\ Since = ci.init_timer - INIT_PER
        /\ ci.INIT_REQ <=> ci.init_timer \in 1..INIT_PER
        /\ ~cm.REF_ACK
    BY <1>3 DEF PowerUp, Since
  <2>2. CASE ci.init_timer = 0
    <3>1. ci.timer = 0 /\ ~ci.INIT_REQ
      BY <1>1, <1>3, <2>1, <2>2 DEF Sequence, PowerTimer
    <3>2. ci'.init_timer = 1
      BY <1>1, <2>2, EdgeCount
    <3> QED  BY <2>1, <3>1, <3>2, TimerFalls
  <2>3. CASE ci.init_timer \in 1..INIT_PER
    BY <1>2, <2>1, <2>3
  <2>4. CASE ci.init_timer > INIT_PER
    <3>1. 1 <= Since /\ Since <= 201 /\ Since \in Int
      BY <1>1, <2>1, <2>4
    <3>2. ci.timer = REF_PER + 201 - Since
      BY <1>3, <3>1 DEF Sequence, PowerTimer
    <3>3. ci.timer > 0 /\ ~Wrapped
      BY <1>1, <3>1, <3>2 DEF Wrapped
    <3> QED  BY <1>2, <3>3
  <2> QED  BY <1>1, <2>1, <2>2, <2>3, <2>4
<1>4. CASE (PowerUp /\ SettingMode) \/ (Up /\ Stages)
  <2>1. ci.init_timer = InitEnd /\ ~ci.INIT_REQ
    <3>1. CASE PowerUp /\ SettingMode
      <4>1. ci.init_timer \in 0..InitEnd /\ Since = 201 /\ Since = ci.init_timer - INIT_PER
        BY <3>1 DEF PowerUp, SettingMode, Since
      <4>2. ci.init_timer = InitEnd
        BY <1>1, <4>1
      <4>3. ci.INIT_REQ <=> ci.init_timer \in 1..INIT_PER
        BY <3>1 DEF PowerUp
      <4> QED  BY <1>1, <4>2, <4>3
    <3>2. CASE Up
      BY <3>2 DEF Up
    <3> QED  BY <1>4, <3>1, <3>2
  <2>2. ci'.init_timer # 1 /\ ci.init_timer # 1
    BY <1>1, <2>1, EdgeCount
  <2>3. CASE cm.REF_ACK \/ (ci.timer > 0 /\ ~Wrapped)
    BY <1>2, <2>3
  <2>4. CASE ~cm.REF_ACK /\ ci.timer = 0
    <3>1. ci'.timer = 65535
      BY <2>1, <2>4, TimerFalls
    <3>2. ci'.REF_REQ
      BY <2>4, EdgeCi
    <3>3. PICK n \in 0..17 : Left' = n
      OBVIOUS
    <3>4. 65536 + n <= ci'.timer + 18
      BY <3>1
    <3>5. 65536 + Left' <= ci'.timer + 18
      BY <3>3, <3>4
    <3> QED  BY <2>2, <3>2, <3>5 DEF RefreshSlack
  <2>5. CASE ~cm.REF_ACK /\ ci.timer > 0 /\ Wrapped
    <3>1. ci.REF_REQ /\ 65536 + Left <= ci.timer + 18
      BY <2>2, <2>5 DEF Pace, RefreshSlack
    <3>2. ci'.timer = ci.timer - 1 /\ ci'.REF_REQ
      BY <2>1, <2>5, <3>1, TimerFalls, EdgeCi
    <3>3. Left' <= Left - 1
      BY <1>4, <2>1, <2>5, <3>1, LeftFalls
    <3>4. 65536 + Left' <= ci'.timer + 18
      BY <1>1, <3>1, <3>2, <3>3
    <3> QED  BY <2>2, <3>2, <3>4 DEF RefreshSlack
  <2> QED  BY <1>1, <2>3, <2>4, <2>5
<1> QED  BY <1>3, <1>4 DEF PinInv

LEMMA PaceStep ==
  ASSUME PinInv, PinInv', Pace, Edge, {WR_ADDR', RD_ADDR'} \subseteq 0..MAX_ADDR
  PROVE  Pace'
<1>1. Left \in 0..17 /\ Left' \in 0..17
  <2>1. cm.delay \in 0..8 /\ cm'.delay \in 0..8 /\ cm.rp \in 0..4 /\ cm'.rp \in 0..4
    BY TypesPace DEF PinInv, PortInv, Pace
  <2> QED  BY <2>1 DEF Left
<1> QED  BY <1>1, TypesPace, PausePace, WrapPace DEF Pace

LEMMA PaceStays ==
  ASSUME UNCHANGED coreVars, Pace, PinInv, PinInv'
  PROVE  Pace'
<1>1. ci' = ci /\ cm' = cm /\ ctl' = ctl /\ chip' = chip
  BY DEF coreVars
<1>2. PowerUp' => PowerUp
  BY <1>1 DEF PinInv, Up, PowerUp
<1>3. (Calm' <=> Calm) /\ (Closing' <=> Closing)
  BY <1>1 DEF Calm, Closing, Closed, Opened, At
<1>4. (Wrapped' <=> Wrapped) /\ Left' = Left
  BY <1>1 DEF Wrapped, Left
<1> QED  BY <1>1, <1>2, <1>3, <1>4 DEF Pace

(* Every refresh starts within RefreshSlack clocks of the timer running    *)
(* out, for any period: once it is requested the arbiter takes no access,  *)
(* and what it is at leaves it idle after at most 17 clocks                *)
(* (control_interface.v:110, command.v:146).                               *)
THEOREM RefreshesServed == Spec => []RefreshServed
<1>1. Init => PinInv /\ Pace
  BY InitPins, InitPace
<1>2. ASSUME PinInv, Pace, [Next]_vars PROVE PinInv' /\ Pace'
  <2>1. PinInv'
    BY <1>2, NextStep
  <2>2. CASE Tick
    <3>1. {WR_ADDR', RD_ADDR'} \subseteq 0..MAX_ADDR
      BY <1>2, <2>2 DEF Tick, hostVars, PinInv, PortInv
    <3> QED  BY <1>2, <2>1, <2>2, <3>1, PaceStep DEF Tick
  <2>3. CASE Host \/ UNCHANGED vars
    <3>1. UNCHANGED coreVars
      BY <2>3 DEF Host, HostPush, HostPop, RaiseWriteLoad, LowerWriteLoad,
                  RaiseReadLoad, LowerReadLoad, vars
    <3> QED  BY <1>2, <2>1, <3>1, PaceStays
  <2> QED  BY <1>2, <2>2, <2>3 DEF Next
<1>3. PinInv /\ Pace => RefreshServed
  <2>1. SUFFICES ASSUME PinInv, Pace, Wrapped PROVE 65536 - ci.timer <= 18
    BY DEF RefreshServed, Wrapped, TimerMod, RefreshSlack
  <2>2. Left \in Int /\ Left >= 0 /\ ci.timer \in Int
    <3>1. cm.delay \in Int /\ cm.delay >= 0 /\ cm.rp \in Int /\ cm.rp >= 0
      BY <2>1 DEF PinInv, PortInv, Pace
    <3>2. Left \in Int /\ Left >= 0
      BY <3>1 DEF Left
    <3> QED  BY <2>1, <3>2 DEF Pace
  <2>3. ci.timer = 65535 \/ 65536 + Left <= ci.timer + 18
    BY <2>1 DEF Pace, RefreshSlack
  <2> QED  BY <2>2, <2>3
<1> QED  BY <1>1, <1>2, <1>3, PTL DEF Spec

-----------------------------------------------------------------------------
(* The port.  It takes an access through the clocks of ctl.ST, with its    *)
(* request up before and after; the stages above are the same clocks seen  *)
(* from the arbiter.  Of an access one has to know which of the two it is, *)
(* at every place that decides it, and that the word moves to or from the  *)
(* address the port began the access with.                                 *)

(* The port between two accesses, and the parts of a write and of a read.  *)
NoMarks ==
  /\ ~ctl.Read /\ ~ctl.Write /\ ~ctl.IN_REQ /\ ~ctl.OUT_VALID
  /\ ~ctl.mWR_DONE /\ ~ctl.mRD_DONE

ForWrite == ctl.mWR /\ ctl.WR_MASK /\ ~ctl.mRD /\ ~ctl.RD_MASK
ForRead == ctl.mRD /\ ctl.RD_MASK /\ ~ctl.mWR /\ ~ctl.WR_MASK

Resting == PortAtRest /\ NoMarks
WriteAsked == ctl.ST = 0 /\ ForWrite /\ ~ctl.Pre_WR /\ NoMarks
ReadAsked == ctl.ST = 0 /\ ForRead /\ ~ctl.Pre_RD /\ NoMarks

Writing ==
  /\ ctl.ST \in 1..8 /\ ForWrite /\ ~ctl.Read
  /\ ctl.Write <=> ctl.ST < 8
  /\ ctl.IN_REQ <=> ctl.ST = 3
  /\ ctl.mWR_DONE <=> ctl.ST = 8
  /\ ~ctl.OUT_VALID /\ ~ctl.mRD_DONE
  /\ ctl.ST = 1 => ctl.CMD = 2

Reading ==
  /\ ctl.ST \in 1..8 /\ ForRead /\ ctl.Pre_RD /\ ctl.Read /\ ~ctl.Write
  /\ ctl.OUT_VALID <=> ctl.ST = 8
  /\ ~ctl.IN_REQ /\ ~ctl.mWR_DONE /\ ~ctl.mRD_DONE
  /\ ctl.ST = 1 => ctl.CMD = 1

ReadDone ==
  /\ ctl.ST = 0 /\ ForRead /\ ctl.Pre_RD /\ ctl.mRD_DONE
  /\ ~ctl.Read /\ ~ctl.Write /\ ~ctl.IN_REQ /\ ~ctl.OUT_VALID /\ ~ctl.mWR_DONE

PortPhase == Resting \/ WriteAsked \/ Writing \/ ReadAsked \/ Reading \/ ReadDone

(* The arbiter and its pins do what the port has asked for.                *)
Directed ==
  /\ ctl.PM_STOP <=> ctl.ST = 5
  /\ cm.initial => Since <= 1
  /\ chip.burst.op # "none" => ctl.ST = 5
  /\ ActIssued \/ ActAtPins \/ RowOpen => (cm.rw_flag <=> ctl.Read)
  /\ MoveIssued => cm.pins.op = IF ctl.Read THEN "READ" ELSE "WRITE"
  /\ MoveAtPins => ctl.pins.op = IF ctl.Read THEN "READ" ELSE "WRITE"
  /\ ActIssued \/ ActAtPins \/ RowOpen \/ MoveIssued => (cm.oe4 <=> ~ctl.Read)
  /\ MoveAtPins => (cm.OE <=> ~ctl.Read)
  /\ ctl.Read /\ ctl.ST >= 4 => ~cm.oe4 /\ ~cm.OE

(* The chip takes the word of a write, and its pipeline holds that of a    *)
(* read.                                                                   *)
Unmasked == Writing /\ ctl.ST = 4 => ctl.DQM = 0
PipeRight ==
  /\ Reading /\ ctl.ST \in 5..7 => chip.pipe[ctl.ST - 4] = chip.mem[ctl.mADDR]
  /\ Reading /\ ctl.ST = 8 => ctl.mDATAOUT = chip.mem[ctl.mADDR]

(* Data of the access under way; a read finds its queue empty.             *)
Serving ==
  /\ Unmasked
  /\ ReadAsked \/ Reading => rq = <<>>
  /\ PipeRight

Queues ==
  /\ wq \in Seq(Words) /\ Len(wq) <= MaxFifo
  /\ rq = <<>> \/ rq = <<rq[1]>>
  /\ (WR_LOAD => wq = <<>>) /\ (RD_LOAD => rq = <<>>)
  /\ rPop \in [1..FifoLag -> Nat]
  /\ cm.rp \in 0..4

-----------------------------------------------------------------------------
(* What a clock does to the port, with the times of the access.            *)
LEMMA EdgePort ==
  ASSUME Edge
  PROVE  /\ ctl'.Pre_RD <=> ctl.mRD
         /\ ctl'.Pre_WR <=> ctl.mWR
         /\ ctl'.Read <=> EdgeRD \/ (ctl.Read /\ ~EdgeWR /\ ctl.ST # 8)
         /\ ctl'.Write <=> EdgeWR \/ (ctl.Write /\ ~EdgeRD /\ ctl.ST # 7)
         /\ ctl'.OUT_VALID <=> \/ ctl.Read /\ ctl.ST = 7
                               \/ ctl.OUT_VALID /\ ~(ctl.Read /\ ctl.ST = 8)
         /\ ctl'.IN_REQ <=> \/ ctl.Write /\ ctl.ST = 2
                            \/ ctl.IN_REQ /\ ~(ctl.Write /\ ctl.ST = 3)
         /\ ctl'.mRD_DONE <=> ctl.Read /\ (ctl.ST = 8 \/ ctl.mRD_DONE)
         /\ ctl'.mWR_DONE <=> ctl.Write /\ (ctl.ST = 7 \/ ctl.mWR_DONE)
         /\ ctl'.WR_MASK <=> StartWrite \/ (ctl.WR_MASK /\ ~StartRead /\ ~ctl.mWR_DONE)
         /\ ctl'.RD_MASK <=> StartRead \/ (ctl.RD_MASK /\ ~StartWrite /\ ~ctl.mRD_DONE)
         /\ ctl'.PM_STOP <=> ctl.ST = 4
         /\ ctl'.DQM = IF /\ ctl.Read \/ ctl.Write
                          /\ ctl.ST >= 3
                          /\ ~(ctl.ST = 4 /\ ctl.Write)
                       THEN 0 ELSE 3
         /\ ctl'.mDATAOUT = DQ
<1>1. SC_CL = 3 /\ SC_RCD = 3
  BY ControllerAssumption
<1>2. (Stop <=> ctl.ST = 4) /\ (Last <=> ctl.ST = 8)
  BY PortTimes
<1>3. /\ ctl'.Pre_RD <=> ctl.mRD
      /\ ctl'.Pre_WR <=> ctl.mWR
      /\ ctl'.Read <=> EdgeRD \/ (ctl.Read /\ ~EdgeWR /\ ~Last)
      /\ ctl'.Write <=> EdgeWR \/ (ctl.Write /\ ~EdgeRD /\ ctl.ST # SC_CL + SC_RCD + 1)
      /\ ctl'.WR_MASK <=> StartWrite \/ (ctl.WR_MASK /\ ~StartRead /\ ~ctl.mWR_DONE)
      /\ ctl'.RD_MASK <=> StartRead \/ (ctl.RD_MASK /\ ~StartWrite /\ ~ctl.mRD_DONE)
      /\ ctl'.PM_STOP <=> Stop
      /\ ctl'.mDATAOUT = DQ
  BY DEF Edge, Controller
<1>4. /\ ctl'.OUT_VALID <=> \/ ctl.Read /\ ctl.ST = SC_CL + SC_RCD + 1
                            \/ ctl.OUT_VALID /\ ~(ctl.Read /\ Last)
      /\ ctl'.IN_REQ <=> \/ ctl.Write /\ ctl.ST = SC_CL - 1
                         \/ ctl.IN_REQ /\ ~(ctl.Write /\ ctl.ST = SC_CL + 1 - 1)
      /\ ctl'.mRD_DONE <=> ctl.Read /\ (Last \/ ctl.mRD_DONE)
      /\ ctl'.mWR_DONE <=> ctl.Write /\ (ctl.ST = SC_CL + SC_RCD + 1 \/ ctl.mWR_DONE)
  BY DEF Edge, Controller
<1>5. ctl'.DQM = IF (ctl.Read \/ ctl.Write) /\ ctl.ST >= SC_CL /\ ~(Stop /\ ctl.Write)
                 THEN 0 ELSE 3
  BY DEF Edge, Controller
<1>6. /\ SC_CL + SC_RCD + 1 = 7 /\ SC_CL - 1 = 2 /\ SC_CL + 1 - 1 = 3
  BY <1>1
<1>7. /\ ctl'.Read <=> EdgeRD \/ (ctl.Read /\ ~EdgeWR /\ ctl.ST # 8)
      /\ ctl'.Write <=> EdgeWR \/ (ctl.Write /\ ~EdgeRD /\ ctl.ST # 7)
      /\ ctl'.PM_STOP <=> ctl.ST = 4
  BY <1>2, <1>3, <1>6
<1>8. /\ ctl'.OUT_VALID <=> \/ ctl.Read /\ ctl.ST = 7
                            \/ ctl.OUT_VALID /\ ~(ctl.Read /\ ctl.ST = 8)
      /\ ctl'.IN_REQ <=> \/ ctl.Write /\ ctl.ST = 2
                         \/ ctl.IN_REQ /\ ~(ctl.Write /\ ctl.ST = 3)
      /\ ctl'.mRD_DONE <=> ctl.Read /\ (ctl.ST = 8 \/ ctl.mRD_DONE)
      /\ ctl'.mWR_DONE <=> ctl.Write /\ (ctl.ST = 7 \/ ctl.mWR_DONE)
  BY <1>2, <1>4, <1>6
<1>9. ctl'.DQM = IF /\ ctl.Read \/ ctl.Write
                    /\ ctl.ST >= 3
                    /\ ~(ctl.ST = 4 /\ ctl.Write)
                 THEN 0 ELSE 3
  BY <1>1, <1>2, <1>5
<1> QED
  BY <1>3, <1>7, <1>8, <1>9

LEMMA PhaseInit == Init => PortPhase
  BY DEF Init, PortPhase, Resting, PortAtRest, NoMarks

(* One clock takes the port from one part of an access to the next.        *)
LEMMA RestingStep ==
  ASSUME Resting, Edge
  PROVE  /\ StartWrite => WriteAsked'
         /\ StartRead => ReadAsked'
         /\ ~StartWrite /\ ~StartRead => Resting'
<1>1. ~EdgeRD /\ ~EdgeWR /\ ctl.ST = 0 /\ ~(StartWrite /\ StartRead)
  BY DEF Resting, PortAtRest, EdgeRD, EdgeWR, StartRead
<1>2. ctl'.ST = 0 /\ NoMarks' /\ ~ctl'.Pre_WR /\ ~ctl'.Pre_RD
  BY <1>1, EdgePort, EdgeCtl DEF Resting, PortAtRest, NoMarks
<1> QED
  BY <1>1, <1>2, EdgePort, EdgeCtl
     DEF Resting, PortAtRest, NoMarks, WriteAsked, ReadAsked, ForWrite, ForRead

(* While an access is asked for or under way no other one is started.      *)
LEMMA BusyStarts ==
  ASSUME ForWrite \/ ForRead
  PROVE  ~StartWrite /\ ~StartRead
BY DEF ForWrite, ForRead, StartWrite, StartRead, Quiet

LEMMA WriteAskedStep ==
  ASSUME WriteAsked, Edge
  PROVE  Writing' /\ ctl'.ST = 1
<1>1. EdgeWR /\ ~EdgeRD /\ ~StartWrite /\ ~StartRead
  BY BusyStarts DEF WriteAsked, ForWrite, EdgeRD, EdgeWR
<1> QED
  BY <1>1, EdgePort, EdgeCtl DEF WriteAsked, ForWrite, NoMarks, Writing

(* A write runs through its eight clocks, waiting in the first for the     *)
(* arbiter.                                                                *)
LEMMA WritingStep ==
  ASSUME Writing, Edge, PortInv
  PROVE  /\ ctl.ST = 8 => Resting'
         /\ ctl.ST < 8 => Writing' /\ (ctl.ST > 1 => ctl'.ST = ctl.ST + 1)
         /\ ctl.ST = 1 => ctl'.ST \in {1, 2}
<1>1. ~EdgeRD /\ ~EdgeWR /\ ~StartWrite /\ ~StartRead /\ ctl.ST \in 1..8
  BY BusyStarts DEF Writing, EdgeRD, EdgeWR
<1>2. CASE ctl.ST = 8
  BY <1>1, <1>2, EdgePort, EdgeCtl, PortTimes
     DEF Writing, ForWrite, Resting, PortAtRest, NoMarks
<1>3. CASE ctl.ST = 1
  <2>1. ctl'.ST \in {1, 2} /\ (ctl'.ST = 1 => ctl'.CMD = 2)
    BY <1>1, <1>3, EdgeCtl DEF Writing
  <2> QED
    BY <1>1, <1>3, <2>1, EdgePort, EdgeCtl DEF Writing, ForWrite
<1>4. CASE ctl.ST \in 2..7
  <2>1. ctl'.ST = ctl.ST + 1 /\ ctl'.ST \in 3..8
    BY <1>1, <1>4, EdgeCtl, PortTimes
  <2> QED
    BY <1>1, <1>4, <2>1, EdgePort, EdgeCtl DEF Writing, ForWrite
<1> QED
  BY <1>1, <1>2, <1>3, <1>4

LEMMA ReadAskedStep ==
  ASSUME ReadAsked, Edge
  PROVE  Reading' /\ ctl'.ST = 1
<1>1. EdgeRD /\ ~EdgeWR /\ ~StartWrite /\ ~StartRead
  BY BusyStarts DEF ReadAsked, ForRead, EdgeRD, EdgeWR
<1> QED
  BY <1>1, EdgePort, EdgeCtl DEF ReadAsked, ForRead, NoMarks, Reading

LEMMA ReadingStep ==
  ASSUME Reading, Edge, PortInv
  PROVE  /\ ctl.ST = 8 => ReadDone'
         /\ ctl.ST < 8 => Reading' /\ (ctl.ST > 1 => ctl'.ST = ctl.ST + 1)
         /\ ctl.ST = 1 => ctl'.ST \in {1, 2}
<1>1. ~EdgeRD /\ ~EdgeWR /\ ~StartWrite /\ ~StartRead /\ ctl.ST \in 1..8
  BY BusyStarts DEF Reading, EdgeRD, EdgeWR
<1>2. CASE ctl.ST = 8
  BY <1>1, <1>2, EdgePort, EdgeCtl, PortTimes DEF Reading, ForRead, ReadDone
<1>3. CASE ctl.ST = 1
  <2>1. ctl'.ST \in {1, 2} /\ (ctl'.ST = 1 => ctl'.CMD = 1)
    BY <1>1, <1>3, EdgeCtl DEF Reading
  <2> QED
    BY <1>1, <1>3, <2>1, EdgePort, EdgeCtl DEF Reading, ForRead
<1>4. CASE ctl.ST \in 2..7
  <2>1. ctl'.ST = ctl.ST + 1 /\ ctl'.ST \in 3..8
    BY <1>1, <1>4, EdgeCtl, PortTimes
  <2> QED
    BY <1>1, <1>4, <2>1, EdgePort, EdgeCtl DEF Reading, ForRead
<1> QED
  BY <1>1, <1>2, <1>3, <1>4

LEMMA ReadDoneStep ==
  ASSUME ReadDone, Edge
  PROVE  Resting'
<1>1. ~EdgeRD /\ ~EdgeWR /\ ~StartWrite /\ ~StartRead
  BY BusyStarts DEF ReadDone, ForRead, EdgeRD, EdgeWR
<1> QED
  BY <1>1, EdgePort, EdgeCtl DEF ReadDone, ForRead, Resting, PortAtRest, NoMarks

LEMMA PhaseStep ==
  ASSUME PortPhase, Edge, PortInv
  PROVE  PortPhase'
<1>1. Writing \/ Reading => ctl.ST = 8 \/ ctl.ST < 8
  BY DEF Writing, Reading
<1> QED
  BY <1>1, RestingStep, WriteAskedStep, WritingStep, ReadAskedStep, ReadingStep,
     ReadDoneStep
     DEF PortPhase

-----------------------------------------------------------------------------
(* What a clock does to the direction of an access.                        *)
LEMMA EdgeDirection ==
  ASSUME Edge
  PROVE  /\ cm'.initial <=> ci.INIT_REQ
         /\ ~ci.INIT_REQ => (cm'.rw_flag <=> IF cm.do # {} THEN "reada" \in cm.do ELSE cm.rw_flag)
         /\ cm'.oe4 <=> IF "writea" \in cm.do THEN TRUE
                        ELSE IF \/ cm.do \cap {"precharge", "reada", "refresh"} # {}
                                \/ cm.initial \/ ctl.PM_STOP
                        THEN FALSE ELSE cm.oe4
         /\ cm'.OE <=> cm.oe4
BY DEF Edge, Command

(* What a clock does to the burst inside the chip. *)
LEMMA EdgeBurst ==
  ASSUME Edge
  PROVE  /\ ctl.pins.op \in {"READ", "WRITE"} => chip'.burst.op = ctl.pins.op
         /\ ctl.pins.op \in {"PRE", "BST"} => chip'.burst.op = "none"
         /\ ctl.pins.op \notin {"READ", "WRITE", "PRE", "BST"} /\ chip.burst.op = "none" =>
              chip'.burst.op = "none"
<1> DEFINE b == ActiveBurst(chip, ctl.pins)
<1>1. chip'.burst = IF b.op = "none" THEN NoBurst ELSE [b EXCEPT !.col = (@ + 1) % PageSize]
  BY DEF Edge, ChipStep
<1>2. NoBurst.op = "none"
  BY DEF NoBurst
<1>3. ctl.pins.op \in {"READ", "WRITE"} =>
        b = [op |-> ctl.pins.op, bank |-> ctl.pins.bank, col |-> ctl.pins.sa]
  BY DEF ActiveBurst
<1>4. ctl.pins.op \in {"PRE", "BST"} => b = NoBurst
  BY DEF ActiveBurst
<1>5. ctl.pins.op \notin {"READ", "WRITE", "PRE", "BST"} => b = chip.burst
  BY DEF ActiveBurst
<1> HIDE DEF b
<1>6. ctl.pins.op \in {"READ", "WRITE"} => chip'.burst.op = ctl.pins.op
  BY <1>1, <1>3
<1> QED
  BY <1>1, <1>2, <1>4, <1>5, <1>6

(* A move is at the chip's pins in the fourth clock only, and after it the *)
(* precharge.                                                              *)
LEMMA PinPlaces ==
  ASSUME PinInv
  PROVE  /\ ctl.pins.op \in {"READ", "WRITE"} => MoveAtPins /\ ctl.ST = 4
         /\ ctl.ST = 4 => MoveAtPins /\ ctl.pins.op \in {"READ", "WRITE"}
         /\ ctl.ST = 5 => ctl.pins.op = "PRE"
<1>1. CASE PowerUp
  BY <1>1 DEF PowerUp, PortOff, PinsIn
<1>2. CASE Up /\ Stages
  BY <1>2 DEF Stages, Calm, Taken, ActIssued, ActAtPins, RowOpen, MoveIssued, MoveAtPins,
     Closing, At, Off, PinsIn, Silent
<1> QED
  BY <1>1, <1>2 DEF PinInv

(* No two clocks of an access look alike.                                  *)
Apart ==
  /\ ctl.ST = 0 \/ Calm \/ Taken \/ Closing =>
       ~ActIssued /\ ~ActAtPins /\ ~RowOpen /\ ~MoveIssued /\ ~MoveAtPins
  /\ ActIssued => ~ActAtPins /\ ~RowOpen /\ ~MoveIssued /\ ~MoveAtPins
  /\ ActAtPins => ~ActIssued /\ ~RowOpen /\ ~MoveIssued /\ ~MoveAtPins
  /\ RowOpen => ~ActIssued /\ ~ActAtPins /\ ~MoveIssued /\ ~MoveAtPins
  /\ MoveIssued => ~ActIssued /\ ~ActAtPins /\ ~RowOpen /\ ~MoveAtPins
  /\ MoveAtPins => ~ActIssued /\ ~ActAtPins /\ ~RowOpen /\ ~MoveIssued

LEMMA StagesApart == Apart /\ Apart'
  BY DEF Apart, Calm, Taken, ActIssued, ActAtPins, RowOpen, MoveIssued, MoveAtPins,
     Closing, At

LEMMA DirectedInit == Init => Directed
<1>1. Init => ctl.ST = 0
  BY DEF Init
<1> QED
  BY <1>1, StagesApart DEF Apart, Init, Directed, PoweredUp, NoBurst

(* What changes with the clock alone.                                      *)
LEMMA TimedStep ==
  ASSUME PinInv, Directed, Edge
  PROVE  /\ ctl'.PM_STOP <=> ctl'.ST = 5
         /\ cm'.initial => Since' <= 1
         /\ chip'.burst.op # "none" => ctl'.ST = 5
<1>1. ctl.ST \in 0..8
  BY DEF PinInv, PortInv
<1>2. ctl'.ST = 5 <=> ctl.ST = 4
  BY <1>1, EdgeCtl, PortTimes
<1>3. ctl'.PM_STOP <=> ctl'.ST = 5
  BY <1>2, EdgePort
<1>4. cm'.initial => Since' <= 1
  <2>1. CASE ci.INIT_REQ
    <3>1. ci.init_timer \in 1..INIT_PER /\ INIT_PER \in Nat
      BY <2>1, ControllerAssumption DEF PinInv, Up, PowerUp
    <3>2. ci'.init_timer <= INIT_PER + 1 /\ ci'.init_timer \in Nat
      BY <3>1, EdgeCount
    <3> QED
      BY <3>1, <3>2 DEF Since
  <2> QED
    BY <2>1, EdgeDirection
<1>5. chip'.burst.op # "none" => ctl'.ST = 5
  <2>1. CASE ctl.pins.op \in {"READ", "WRITE"}
    BY <1>2, <2>1, PinPlaces
  <2>2. CASE ctl.pins.op \in {"PRE", "BST"}
    BY <2>2, EdgeBurst
  <2>3. CASE ctl.pins.op \notin {"READ", "WRITE", "PRE", "BST"}
    BY <2>3, EdgeBurst, PinPlaces DEF Directed
  <2> QED
    BY <2>1, <2>2, <2>3
<1> QED
  BY <1>3, <1>4, <1>5

(* Nothing turns an access round once the arbiter has taken it.            *)
LEMMA DirectionKept ==
  ASSUME Up, Directed, Edge, ctl.ST \in 1..4, cm.do = {}
  PROVE  /\ ctl'.Read <=> ctl.Read
         /\ cm'.rw_flag <=> cm.rw_flag
         /\ cm'.oe4 <=> cm.oe4
         /\ cm'.OE <=> cm.oe4
<1>1. ctl'.Read <=> ctl.Read
  BY EdgePort DEF EdgeRD, EdgeWR
<1>2. ~cm.initial /\ ~ctl.PM_STOP /\ ~ci.INIT_REQ
  BY ControllerAssumption DEF Directed, Up, Since
<1> QED
  BY <1>1, <1>2, EdgeDirection

(* The direction is decided once, when the port asks, and every place      *)
(* keeps it.                                                               *)
LEMMA DirectedStep ==
  ASSUME PinInv, PortPhase, Directed, Edge, PinInv',
         {WR_ADDR', RD_ADDR'} \subseteq 0..MAX_ADDR
  PROVE  Directed'
<1> DEFINE D == /\ ActIssued \/ ActAtPins \/ RowOpen => (cm.rw_flag <=> ctl.Read)
                /\ MoveIssued => cm.pins.op = IF ctl.Read THEN "READ" ELSE "WRITE"
                /\ MoveAtPins => ctl.pins.op = IF ctl.Read THEN "READ" ELSE "WRITE"
                /\ ActIssued \/ ActAtPins \/ RowOpen \/ MoveIssued => (cm.oe4 <=> ~ctl.Read)
                /\ MoveAtPins => (cm.OE <=> ~ctl.Read)
                /\ ctl.Read /\ ctl.ST >= 4 => ~cm.oe4 /\ ~cm.OE
<1>0. SUFFICES D'
  BY TimedStep DEF Directed
<1>1. D
  BY DEF Directed
<1>2. PortInv /\ ctl.ST \in 0..8
  BY DEF PinInv, PortInv
<1>3. CASE PowerUp
  <2>1. ctl'.ST = 0
    BY <1>3, EdgeCtl DEF PowerUp, PortOff, EdgeRD, EdgeWR
  <2> QED
    BY <2>1, StagesApart DEF Apart
<1>4. CASE Up /\ Calm
  <2>1. Calm' \/ Taken'
    BY <1>2, <1>4, CalmStep
  <2>2. ASSUME ctl'.Read, ctl'.ST >= 4
        PROVE  ~cm'.oe4 /\ ~cm'.OE
    <3>1. ctl.ST \in 6..7
      BY <1>2, <1>4, <2>2, EdgeCtl, PortTimes DEF Calm, Acked
    <3>2. ctl.Read
      BY <2>2, <3>1, EdgePort DEF EdgeRD
    <3>3. ~cm.oe4 /\ ~cm.OE /\ "writea" \notin cm.do
      BY <1>1, <1>4, <3>1, <3>2 DEF Calm
    <3> QED
      BY <3>3, EdgeDirection
  <2> QED
    BY <2>1, <2>2, StagesApart DEF Apart
<1>5. CASE Up /\ Taken
  <2>1. ActIssued'
    BY <1>2, <1>5, TakenStep
  <2>2. ctl.Read <=> "reada" \in cm.do
    BY <1>5 DEF Taken, PortPhase, Resting, PortAtRest, WriteAsked, ReadAsked, Writing,
       Reading, ReadDone
  <2>3. (ctl'.Read <=> ctl.Read) /\ ctl'.ST = 1
    BY <1>5, <2>1, EdgePort DEF Taken, EdgeRD, EdgeWR, ActIssued, At
  <2>4. (cm'.rw_flag <=> ctl'.Read) /\ (cm'.oe4 <=> ~ctl'.Read)
    BY <1>5, <2>2, <2>3, EdgeDirection DEF Taken, Up
  <2> QED
    BY <2>1, <2>3, <2>4, StagesApart DEF Apart
<1>6. CASE Up /\ ActIssued
  <2>1. ActAtPins' /\ ctl'.ST = 1
    BY <1>2, <1>6, ActIssuedStep DEF ActAtPins, At
  <2>2. cm.do = {} /\ ctl.ST \in 1..4
    BY <1>6 DEF ActIssued, At
  <2> QED
    BY <1>1, <1>6, <2>1, <2>2, DirectionKept, StagesApart DEF Apart
<1>7. CASE Up /\ ActAtPins
  <2>1. RowOpen' /\ ctl'.ST = 2
    BY <1>2, <1>7, ActAtPinsStep DEF RowOpen, At
  <2>2. cm.do = {} /\ ctl.ST \in 1..4
    BY <1>7 DEF ActAtPins, At
  <2> QED
    BY <1>1, <1>7, <2>1, <2>2, DirectionKept, StagesApart DEF Apart
<1>8. CASE Up /\ RowOpen
  <2>1. MoveIssued' /\ ctl'.ST = 3
    BY <1>2, <1>8, RowOpenStep DEF MoveIssued, At
  <2>2. cm.do = {} /\ ctl.ST \in 1..4 /\ cm.do_rw
    BY <1>8 DEF RowOpen, At
  <2>3. cm'.pins.op = IF cm.rw_flag THEN "READ" ELSE "WRITE"
    BY <2>2, EdgeCm DEF Pins
  <2> QED
    BY <1>1, <1>8, <2>1, <2>2, <2>3, DirectionKept, StagesApart DEF Apart
<1>9. CASE Up /\ MoveIssued
  <2>1. MoveAtPins' /\ ctl'.ST = 4
    BY <1>2, <1>9, MoveIssuedStep DEF MoveAtPins, At
  <2>2. cm.do = {} /\ ctl.ST \in 1..4 /\ ctl.ST = 3
    BY <1>9 DEF MoveIssued, At
  <2>3. ctl'.pins = cm.pins
    BY <2>2, EdgeCtl, PortTimes
  <2> QED
    BY <1>1, <1>9, <2>1, <2>2, <2>3, DirectionKept, StagesApart DEF Apart
<1>10. CASE Up /\ MoveAtPins
  <2>1. Closing'
    BY <1>2, <1>10, MoveAtPinsStep
  <2>2. cm.do = {} /\ ctl.ST \in 1..4 /\ ctl.ST = 4
    BY <1>10 DEF MoveAtPins, At
  <2> QED
    BY <1>1, <1>10, <2>1, <2>2, DirectionKept, StagesApart DEF Apart
<1>11. CASE Up /\ Closing
  <2>1. Calm'
    BY <1>2, <1>11, ClosingStep
  <2>2. cm.do = {} /\ ctl.ST = 5
    BY <1>11 DEF Closing, At
  <2>3. ctl'.Read <=> ctl.Read
    BY <2>2, EdgePort DEF EdgeRD, EdgeWR
  <2>4. ctl.Read => ~cm'.oe4 /\ ~cm'.OE
    BY <1>1, <2>2, EdgeDirection
  <2> QED
    BY <2>1, <2>3, <2>4, StagesApart DEF Apart
<1> QED
  BY <1>3, <1>4, <1>5, <1>6, <1>7, <1>8, <1>9, <1>10, <1>11 DEF PinInv, Stages

-----------------------------------------------------------------------------
(* What a clock moves.                                                     *)

Move == [op |-> ctl.pins.op, bank |-> ctl.pins.bank, col |-> ctl.pins.sa]

(* What a clock does to the chip's memory and to its output pipeline.      *)
LEMMA EdgeData ==
  ASSUME Edge
  PROVE  /\ ctl.pins.op = "WRITE" /\ ctl.DQM = 0 =>
              chip'.mem = [chip.mem EXCEPT ![BurstCell(chip, Move)] = DQ]
         /\ ctl.pins.op \in {"READ", "PRE", "BST"} => chip'.mem = chip.mem
         /\ ctl.pins.op # "WRITE" /\ chip.burst.op = "none" => chip'.mem = chip.mem
         /\ ctl.pins.op = "READ" => chip'.pipe[1] = chip.mem[BurstCell(chip, Move)]
         /\ chip'.pipe[2] = chip.pipe[1] /\ chip'.pipe[3] = chip.pipe[2]
<1> DEFINE b == ActiveBurst(chip, ctl.pins)
           word == IF b.op = "READ" THEN chip.mem[BurstCell(chip, b)] ELSE 0
<1>1. /\ chip'.pipe = [i \in 1..SC_CL |-> IF i = 1 THEN word ELSE chip.pipe[i - 1]]
      /\ chip'.mem = IF b.op = "WRITE" /\ ctl.DQM = 0
                     THEN [chip.mem EXCEPT ![BurstCell(chip, b)] = DQ] ELSE chip.mem
  BY DEF Edge, ChipStep
<1>2. ctl.pins.op \in {"READ", "WRITE"} => b = Move /\ b.op = ctl.pins.op
  BY DEF ActiveBurst, Move
<1>3. ctl.pins.op \in {"PRE", "BST"} => b.op = "none"
  BY DEF ActiveBurst, NoBurst
<1>4. ctl.pins.op \notin {"READ", "WRITE", "PRE", "BST"} => b = chip.burst
  BY DEF ActiveBurst
<1> HIDE DEF b
<1>5. chip'.pipe[1] = word /\ chip'.pipe[2] = chip.pipe[1] /\ chip'.pipe[3] = chip.pipe[2]
  BY <1>1, ControllerAssumption
<1> QED
  BY <1>1, <1>2, <1>3, <1>4, <1>5

(* The cell under the pins' move is the port's address.                    *)
LEMMA MoveCell ==
  ASSUME PinInv, MoveAtPins
  PROVE  BurstCell(chip, Move) = ctl.mADDR
<1>1. /\ RowOf(ctl.mADDR) \in Nat
      /\ CellAt(BankOf(ctl.mADDR), RowOf(ctl.mADDR), ColOf(ctl.mADDR)) = ctl.mADDR
  BY AddressSplit DEF PinInv, PortInv
<1>2. /\ Move.bank = BankOf(ctl.mADDR) /\ Move.col = ColOf(ctl.mADDR)
      /\ chip.row[Move.bank] = RowOf(ctl.mADDR)
  BY DEF MoveAtPins, Opened, Move
<1>3. ~(RowOf(ctl.mADDR) < 0)
  BY <1>1
<1> QED
  BY <1>1, <1>2, <1>3 DEF BurstCell

(* Memory changes only in the fourth clock of a write, and there only the  *)
(* word at the address requested.                                          *)
LEMMA MemoryStep ==
  ASSUME PinInv, PortPhase, Directed, Unmasked, Edge
  PROVE  /\ Writing /\ ctl.ST = 4 => chip'.mem = [chip.mem EXCEPT ![ctl.mADDR] = q]
         /\ ~(Writing /\ ctl.ST = 4) => chip'.mem = chip.mem
         /\ Reading /\ ctl.ST = 4 => chip'.pipe[1] = chip.mem[ctl.mADDR]
<1>1. (Writing => ~ctl.Read) /\ (Reading => ctl.Read)
  BY DEF Writing, Reading
<1>2. ASSUME ctl.ST = 4
      PROVE  /\ ctl.pins.op = IF ctl.Read THEN "READ" ELSE "WRITE"
             /\ cm.OE <=> ~ctl.Read
             /\ BurstCell(chip, Move) = ctl.mADDR
  <2>1. MoveAtPins
    BY <1>2, PinPlaces
  <2> QED
    BY <2>1, MoveCell DEF Directed
<1>3. CASE Writing /\ ctl.ST = 4
  <2>1. ctl.pins.op = "WRITE" /\ cm.OE
    BY <1>1, <1>2, <1>3
  <2>2. ctl.DQM = 0
    BY <1>3 DEF Unmasked
  <2>3. DQ = q
    BY <2>1 DEF DQ
  <2> QED
    BY <1>1, <1>2, <1>3, <2>1, <2>2, <2>3, EdgeData
<1>4. CASE Reading /\ ctl.ST = 4
  BY <1>1, <1>2, <1>4, EdgeData
<1>5. CASE ctl.ST = 5
  BY <1>5, PinPlaces, EdgeData
<1>6. CASE ctl.ST \notin {4, 5}
  <2>1. ctl.pins.op \notin {"READ", "WRITE"} /\ chip.burst.op = "none"
    BY <1>6, PinPlaces DEF Directed
  <2> QED
    BY <1>6, <2>1, EdgeData
<1>7. ctl.ST = 4 => Writing \/ Reading
  BY DEF PortPhase, Resting, PortAtRest, WriteAsked, ReadAsked, Writing, Reading, ReadDone
<1>8. (Writing => ctl.ST # 4) /\ (Reading => ctl.ST # 4) => ctl.ST # 4
  BY <1>7
<1>9. ctl.ST = 5 \/ ctl.ST \notin {4, 5} => ~(ctl.ST = 4)
  OBVIOUS
<1> QED
  BY <1>1, <1>3, <1>4, <1>5, <1>6, <1>8, <1>9

(* The port's ends of the FIFOs move a word in one clock of an access,     *)
(* unless a load is clearing them.                                         *)
LEMMA WordMoves ==
  ASSUME PortPhase
  PROVE  /\ PopsWord <=> Writing /\ ctl.ST = 3 /\ wq # <<>> /\ ~WR_LOAD
         /\ PushesWord <=> Reading /\ ctl.ST = 8 /\ ~RD_LOAD
<1>1. ctl.IN_REQ /\ ctl.WR_MASK <=> Writing /\ ctl.ST = 3
  BY DEF PortPhase, Resting, PortAtRest, NoMarks, WriteAsked, ReadAsked, Writing,
     Reading, ReadDone, ForWrite, ForRead
<1>2. ctl.OUT_VALID /\ ctl.RD_MASK <=> Reading /\ ctl.ST = 8
  BY DEF PortPhase, Resting, PortAtRest, NoMarks, WriteAsked, ReadAsked, Writing,
     Reading, ReadDone, ForWrite, ForRead
<1> QED
  BY <1>1, <1>2 DEF PopsWord, PushesWord

LEMMA ServingInit == Init => Serving
<1>1. Init => Resting
  BY DEF Init, Resting, PortAtRest, NoMarks
<1>2. Resting => ~WriteAsked /\ ~Writing /\ ~ReadAsked /\ ~Reading
  BY DEF Resting, PortAtRest, WriteAsked, Writing, ReadAsked, Reading, ForWrite, ForRead
<1> QED
  BY <1>1, <1>2 DEF Serving, Unmasked, PipeRight

(* Which part of an access may follow which.                               *)
LEMMA Before ==
  ASSUME PortPhase, Edge, PortInv
  PROVE  /\ WriteAsked' => Resting /\ StartWrite
         /\ Writing' => WriteAsked \/ (Writing /\ ctl.ST < 8)
         /\ ReadAsked' => Resting /\ StartRead
         /\ Reading' => ReadAsked \/ (Reading /\ ctl.ST < 8)
         /\ Resting /\ ~Resting' => Quiet
         /\ Writing' /\ WriteAsked => ctl'.ST = 1
         /\ Reading' /\ ReadAsked => ctl'.ST = 1
         /\ Writing \/ Reading => ctl.ST \in 1..8 /\ (ctl.ST \in 2..7 => ctl'.ST = ctl.ST + 1)
                                  /\ (ctl.ST = 1 => ctl'.ST \in {1, 2})
<1> DEFINE W1 == WriteAsked \/ Writing
           R1 == ReadAsked \/ Reading
<1>1. /\ Resting' => ~W1' /\ ~R1'
      /\ WriteAsked' => ~Writing' /\ ~R1' /\ ~Resting'
      /\ Writing' => ~WriteAsked' /\ ~R1'
      /\ ReadAsked' => ~Reading' /\ ~W1' /\ ~Resting'
      /\ Reading' => ~ReadAsked' /\ ~W1'
      /\ ReadDone' => ~W1' /\ ~R1'
  BY DEF Resting, PortAtRest, NoMarks, WriteAsked, ReadAsked, Writing, Reading, ReadDone,
     ForWrite, ForRead
<1>2. Writing \/ Reading => ctl.ST \in 1..8 /\ (ctl.ST \in 2..7 => ctl'.ST = ctl.ST + 1)
                            /\ (ctl.ST = 1 => ctl'.ST \in {1, 2})
  <2>1. Writing \/ Reading => ctl.ST \in 1..8
    BY DEF Writing, Reading
  <2> QED
    BY <2>1, WritingStep, ReadingStep
<1>3. Writing \/ Reading => ctl.ST = 8 \/ ctl.ST < 8
  BY <1>2
<1>4. StartWrite \/ StartRead => Quiet
  BY DEF StartWrite, StartRead
<1> QED
  BY <1>1, <1>2, <1>3, <1>4, RestingStep, WriteAskedStep, WritingStep, ReadAskedStep,
     ReadingStep,
     ReadDoneStep DEF PortPhase

(* The mask is off when the word of a write comes to the chip, and the     *)
(* word of a read travels through the chip's pipeline.                     *)
LEMMA UnmaskedStep ==
  ASSUME PortPhase, PortInv, Edge
  PROVE  Unmasked'
<1>1. ASSUME Writing', ctl'.ST = 4
      PROVE  Writing /\ ctl.ST = 3
  BY <1>1, Before DEF PortInv
<1>2. Writing /\ ctl.ST = 3 => ctl'.DQM = 0
  BY EdgePort DEF Writing
<1> QED
  BY <1>1, <1>2 DEF Unmasked

LEMMA PipeStep ==
  ASSUME PinInv, PortPhase, Directed, Unmasked, PipeRight, Edge
  PROVE  PipeRight'
<1>1. PortInv /\ ctl.ST \in 0..8
  BY DEF PinInv, PortInv
<1>2. ASSUME Reading, ctl.ST \in 2..7, Reading'
      PROVE  /\ ctl'.ST = ctl.ST + 1 /\ chip'.mem = chip.mem /\ ctl'.mADDR = ctl.mADDR
             /\ ctl'.ST \in 5..7 => chip'.pipe[ctl'.ST - 4] = chip.mem[ctl.mADDR]
             /\ ctl'.ST = 8 => ctl'.mDATAOUT = chip.mem[ctl.mADDR]
  <2>1. ~Writing /\ ~StartWrite /\ ~StartRead
    BY <1>2, BusyStarts DEF Reading, Writing, ForRead, ForWrite
  <2>2. ctl'.ST = ctl.ST + 1 /\ chip'.mem = chip.mem /\ ctl'.mADDR = ctl.mADDR
    BY <1>1, <1>2, <2>1, Before, MemoryStep, EdgeCtl
  <2>3. chip'.pipe[2] = chip.pipe[1] /\ chip'.pipe[3] = chip.pipe[2]
    BY <1>1, EdgeData
  <2>4. CASE ctl.ST = 4
    BY <1>1, <1>2, <2>2, <2>4, MemoryStep
  <2>5. CASE ctl.ST = 5
    BY <1>2, <2>2, <2>3, <2>5 DEF PipeRight
  <2>6. CASE ctl.ST = 6
    BY <1>2, <2>2, <2>3, <2>6 DEF PipeRight
  <2>7. CASE ctl.ST = 7
    <3>1. ~cm.OE /\ chip.pipe[3] = chip.mem[ctl.mADDR]
      BY <1>2, <2>7 DEF PipeRight, Directed, Reading
    <3>2. ctl'.mDATAOUT = chip.pipe[3]
      BY <1>1, <3>1, EdgePort, ControllerAssumption DEF DQ
    <3> QED
      BY <2>2, <2>7, <3>1, <3>2
  <2> QED
    BY <1>2, <2>2, <2>4, <2>5, <2>6, <2>7
<1>3. ASSUME Reading', ctl'.ST >= 3
      PROVE  Reading /\ ctl.ST \in 2..7
  BY <1>1, <1>3, Before
<1>4. Reading' /\ ctl'.ST \in 5..7 => chip'.pipe[ctl'.ST - 4] = chip'.mem[ctl'.mADDR]
  BY <1>2, <1>3
<1>5. Reading' /\ ctl'.ST = 8 => ctl'.mDATAOUT = chip'.mem[ctl'.mADDR]
  BY <1>2, <1>3
<1> QED
  BY <1>4, <1>5 DEF PipeRight

(* A clock keeps the access under way on its own data and queue.           *)
LEMMA ServingStep ==
  ASSUME PinInv, PortPhase, Directed, Serving, Queues, Tick
  PROVE  Serving'
<1>1. Edge /\ rq' = RqAfter
  BY DEF Tick
<1>2. PortInv /\ ctl.ST \in 0..8
  BY DEF PinInv, PortInv
<1>3. Unmasked'
  BY <1>1, <1>2, UnmaskedStep
<1>4. ReadAsked' \/ Reading' => rq' = <<>>
  <2>1. ASSUME Resting, StartRead
        PROVE  rq' = <<>>
    <3>1. rq = <<>>
      <4>1. Pending(rPop) \in Nat /\ Len(rq) \in Nat /\ (Len(rq) = 0 => rq = <<>>)
        BY ControllerAssumption DEF Queues, Pending
      <4>2. Len(rq) + Pending(rPop) < 1
        BY <2>1 DEF StartRead, read_side_fifo_wusedw
      <4> QED
        BY <4>1, <4>2
    <3>2. ~PushesWord
      BY <2>1 DEF PushesWord, Resting, NoMarks
    <3> QED
      BY <1>1, <3>1, <3>2 DEF RqAfter
  <2>2. ASSUME ReadAsked \/ (Reading /\ ctl.ST < 8)
        PROVE  rq' = <<>>
    <3>1. ~(Reading /\ ctl.ST = 8)
      BY <2>2 DEF ReadAsked, Reading
    <3> QED
      BY <1>1, <2>2, <3>1, WordMoves DEF RqAfter, Serving
  <2> QED
    BY <1>1, <1>2, <2>1, <2>2, Before
<1>5. PipeRight'
  BY <1>1, PipeStep DEF Serving
<1> QED
  BY <1>3, <1>4, <1>5 DEF Serving

-----------------------------------------------------------------------------
(* The queues keep to their lengths.                                       *)
ServeInv == PinInv /\ PortPhase /\ Directed /\ Serving /\ Queues

(* Facts about queues. *)
LEMMA OneMore ==
  ASSUME NEW S, NEW s \in Seq(S), NEW w \in S
  PROVE  Append(s, w) \in Seq(S) /\ Len(Append(s, w)) = Len(s) + 1 /\ Append(s, w) # <<>>
OBVIOUS

LEMMA OneLess ==
  ASSUME NEW S, NEW s \in Seq(S), s # <<>>
  PROVE  Tail(s) \in Seq(S) /\ Len(Tail(s)) = Len(s) - 1 /\ Len(s) \in Nat
OBVIOUS

LEMMA OneWord ==
  ASSUME NEW s, NEW w, s = <<w>>
  PROVE  s # <<>> /\ Len(s) = 1 /\ Tail(s) = <<>>
OBVIOUS

LEMMA QueuesInit == Init => Queues
<1>1. NoEvents \in [1..FifoLag -> Nat]
  BY DEF NoEvents
<1> QED
  BY <1>1, ControllerAssumption DEF Init, Queues

(* The lines keep counting natural numbers. *)
LEMMA ShiftIs ==
  ASSUME NEW line \in [1..FifoLag -> Nat]
  PROVE  Shift(line) \in [1..FifoLag -> Nat] /\ Record(line) \in [1..FifoLag -> Nat]
<1>1. \A i \in 1..FifoLag : i # 1 => i - 1 \in 1..FifoLag
  BY ControllerAssumption
<1> QED
  BY <1>1 DEF Shift, Record

(* A clock keeps the queues within their lengths. *)
LEMMA QueuesTick ==
  ASSUME ServeInv, Tick
  PROVE  Queues'
<1> USE DEF ServeInv
<1>1. wq' \in Seq(Words) /\ Len(wq') <= MaxFifo
  <2>1. CASE PopsWord
    <3>1. wq' = Tail(wq) /\ wq # <<>>
      BY <2>1 DEF Tick, WqAfter, PopsWord
    <3> QED
      BY <3>1, OneLess, ControllerAssumption DEF Queues
  <2>2. CASE ~PopsWord
    BY <2>2 DEF Tick, WqAfter, Queues
  <2> QED
    BY <2>1, <2>2
<1>2. rq' = <<>> \/ rq' = <<rq'[1]>>
  <2>1. CASE PushesWord
    <3>1. rq = <<>> /\ rq' = Append(rq, ctl.mDATAOUT)
      BY <2>1, WordMoves DEF Tick, RqAfter, Serving
    <3>2. rq' = <<ctl.mDATAOUT>>
      BY <3>1
    <3> QED
      BY <3>2
  <2>2. CASE ~PushesWord
    BY <2>2 DEF Tick, RqAfter, Queues
  <2> QED
    BY <2>1, <2>2
<1>3. rPop' \in [1..FifoLag -> Nat]
  BY ShiftIs DEF Tick, Queues
<1>5. (WR_LOAD' => wq' = <<>>) /\ (RD_LOAD' => rq' = <<>>)
  BY DEF Tick, hostVars, WqAfter, RqAfter, PopsWord, PushesWord, Queues
<1>4. cm'.rp \in 0..4
  <2>1. \/ cm'.rp = 0 \/ cm'.rp = 4 \/ cm'.rp = cm.rp
        \/ cm.rp # 0 /\ cm'.rp = cm.rp - 1
    BY DEF Tick, Edge, Command
  <2> QED
    BY <2>1 DEF Queues
<1> QED
  BY <1>1, <1>2, <1>3, <1>4, <1>5 DEF Queues

(* So does the host. *)
LEMMA QueuesHost ==
  ASSUME Queues, Host
  PROVE  Queues'
<1> USE DEF Queues
<1>1. CASE HostPush
  <2>1. PICK w \in Words : wq' = Append(wq, w)
    BY <1>1 DEF HostPush
  <2>2. /\ Len(wq) < MaxFifo /\ Len(wq) \in Nat /\ rq' = rq /\ rPop' = rPop /\ cm' = cm
        /\ ~WR_LOAD' /\ RD_LOAD' = RD_LOAD
    BY <1>1 DEF HostPush, coreVars, hostVars
  <2> QED
    BY <2>1, <2>2, OneMore, ControllerAssumption
<1>2. CASE HostPop
  <2>1. /\ rq' = Tail(rq) /\ rq # <<>> /\ wq' = wq /\ rPop' = Record(rPop) /\ cm' = cm
        /\ WR_LOAD' = WR_LOAD
    BY <1>2 DEF HostPop, coreVars, hostVars
  <2>2. rq' = <<>>
    BY <2>1, OneWord
  <2> QED
    BY <2>1, <2>2, ShiftIs
<1>3. CASE LowerWriteLoad \/ LowerReadLoad
  BY <1>3 DEF LowerWriteLoad, LowerReadLoad, coreVars
<1>4. CASE RaiseReadLoad
  <2>1. NoEvents \in [1..FifoLag -> Nat]
    BY DEF NoEvents
  <2> QED
    BY <1>4, <2>1 DEF RaiseReadLoad, coreVars
<1>5. CASE RaiseWriteLoad
  <2>1. /\ wq' = <<>> /\ UNCHANGED <<rq, rPop, cm, RD_LOAD>>
    BY <1>5 DEF RaiseWriteLoad, coreVars
  <2>2. wq' \in Seq(Words) /\ Len(wq') <= MaxFifo
    BY <2>1, ControllerAssumption
  <2> QED
    BY <2>1, <2>2
<1> QED
  BY <1>1, <1>2, <1>3, <1>4, <1>5 DEF Host

(* The host's steps leave the port where it is, and disturb nothing of the *)
(* access under way.                                                       *)
LEMMA PhaseStays ==
  ASSUME PortPhase, UNCHANGED coreVars
  PROVE  PortPhase'
BY DEF coreVars, PortPhase, Resting, PortAtRest, NoMarks, WriteAsked, ReadAsked,
   Writing, Reading, ReadDone, ForWrite, ForRead

LEMMA DirectedStays ==
  ASSUME Directed, UNCHANGED coreVars
  PROVE  Directed'
<1>1. ci' = ci /\ cm' = cm /\ ctl' = ctl /\ chip' = chip
  BY DEF coreVars
<1>2. /\ ActIssued' <=> ActIssued
      /\ ActAtPins' <=> ActAtPins
      /\ RowOpen' <=> RowOpen
      /\ MoveIssued' <=> MoveIssued
      /\ MoveAtPins' <=> MoveAtPins
      /\ Since' = Since
  BY <1>1 DEF ActIssued, ActAtPins, RowOpen, MoveIssued, MoveAtPins, At, Opened, Closed,
     Since
<1> QED
  BY <1>1, <1>2 DEF Directed

LEMMA ServingHost ==
  ASSUME Serving, Host
  PROVE  Serving'
<1>1. ctl' = ctl /\ chip' = chip
  BY DEF Host, HostPush, HostPop, RaiseWriteLoad, LowerWriteLoad, RaiseReadLoad,
     LowerReadLoad, coreVars
<1>2. /\ Writing' <=> Writing
      /\ ReadAsked' <=> ReadAsked
      /\ Reading' <=> Reading
  BY <1>1 DEF NoMarks, Writing, ReadAsked, Reading, ForWrite, ForRead
<1>3. rq = <<>> => rq' = <<>>
  BY DEF Host, HostPush, HostPop, RaiseWriteLoad, LowerWriteLoad, RaiseReadLoad,
     LowerReadLoad
<1> QED
  BY <1>1, <1>2, <1>3 DEF Serving, Unmasked, PipeRight

(* The whole invariant of the port. *)
LEMMA ServeInit == Init => ServeInv
  BY InitPins, PhaseInit, DirectedInit, ServingInit, QueuesInit DEF ServeInv

LEMMA ServeStep ==
  ASSUME ServeInv, [Next]_vars
  PROVE  ServeInv'
<1> USE DEF ServeInv
<1>1. PinInv'
  BY NextStep
<1>2. CASE Tick
  <2>1. Edge /\ {WR_ADDR', RD_ADDR'} \subseteq 0..MAX_ADDR
    BY <1>2 DEF Tick, hostVars, PinInv, PortInv
  <2> QED
    BY <1>1, <1>2, <2>1, PhaseStep, DirectedStep, ServingStep, QueuesTick DEF PinInv
<1>3. CASE Host
  <2>1. UNCHANGED coreVars
    BY <1>3 DEF Host, HostPush, HostPop, RaiseWriteLoad, LowerWriteLoad, RaiseReadLoad,
       LowerReadLoad
  <2> QED
    BY <1>1, <1>3, <2>1, PhaseStays, DirectedStays, ServingHost, QueuesHost
<1>4. CASE UNCHANGED vars
  <2>1. /\ UNCHANGED coreVars /\ wq' = wq /\ rq' = rq /\ rPop' = rPop
        /\ WR_LOAD' = WR_LOAD /\ RD_LOAD' = RD_LOAD
    BY <1>4 DEF vars, hostVars
  <2>2. Queues'
    BY <2>1 DEF Queues, coreVars
  <2>3. Serving'
    BY <2>1 DEF Serving, Unmasked, PipeRight, coreVars, Resting, PortAtRest, NoMarks, WriteAsked, ReadAsked,
       Writing,
       Reading, ForWrite, ForRead
  <2> QED
    BY <1>1, <2>1, <2>2, <2>3, PhaseStays, DirectedStays
<1> QED
  BY <1>2, <1>3, <1>4 DEF Next

LEMMA ServeAlways == Spec => []ServeInv
  BY ServeInit, ServeStep, PTL DEF Spec

(* The controller's registers stay in their ranges; in particular the port *)
(* never reads ahead more than one word, however late it sees the host     *)
(* take one (Sdram_Control.v:407).                                         *)
THEOREM ControllerTypes == Spec => []TypeOK
<1>1. ServeInv => TypeOK
  <2> SUFFICES ASSUME ServeInv PROVE TypeOK
    OBVIOUS
  <2>1. Len(rq) <= 1
    <3>1. rq = <<>> => Len(rq) = 0
      OBVIOUS
    <3>2. rq = <<rq[1]>> => Len(rq) = 1
      BY OneWord
    <3>3. rq = <<>> \/ rq = <<rq[1]>>
      BY DEF ServeInv, Queues
    <3> QED
      BY <3>1, <3>2, <3>3
  <2>2. SC_CL + SC_RCD + 1 + 1 = 8
    BY ControllerAssumption
  <2> QED
    BY <2>1, <2>2 DEF ServeInv, Queues, PinInv, PortInv, TypeOK
<1> QED
  BY ServeAlways, <1>1, PTL

-----------------------------------------------------------------------------
(* The controller is the port of VramPort.  An access begins there when    *)
(* the controller marks its side and ends when it takes the mark away; a   *)
(* write takes its word in the third clock and is in memory in the fourth, *)
(* a read delivers in the last one.  Every other clock changes nothing     *)
(* that the host could see.                                                *)

(* Where VramPort sees the access. *)
View ==
  PortPhase =>
    /\ Resting => Stage = "none"
    /\ WriteAsked \/ (Writing /\ ctl.ST < 4) => Stage = "write"
    /\ Writing /\ ctl.ST = 4 => Stage = "taken"
    /\ Writing /\ ctl.ST > 4 => Stage = "written"
    /\ ReadAsked \/ Reading => Stage = "read"
    /\ ReadDone => Stage = "delivered"

LEMMA PortView == View /\ View'
<1>1. SC_CL + 1 = 4
  BY ControllerAssumption
<1>2. /\ Stage = CASE ctl.WR_MASK /\ ctl.ST < 4 -> "write"
                   [] ctl.WR_MASK /\ ctl.ST = 4 -> "taken"
                   [] ctl.WR_MASK /\ ctl.ST > 4 -> "written"
                   [] ctl.RD_MASK /\ ~ctl.mRD_DONE -> "read"
                   [] ctl.RD_MASK /\ ctl.mRD_DONE -> "delivered"
                   [] OTHER -> "none"
      /\ Stage' = CASE ctl'.WR_MASK /\ ctl'.ST < 4 -> "write"
                    [] ctl'.WR_MASK /\ ctl'.ST = 4 -> "taken"
                    [] ctl'.WR_MASK /\ ctl'.ST > 4 -> "written"
                    [] ctl'.RD_MASK /\ ~ctl'.mRD_DONE -> "read"
                    [] ctl'.RD_MASK /\ ctl'.mRD_DONE -> "delivered"
                    [] OTHER -> "none"
  BY <1>1 DEF Stage
<1>3. View
  BY <1>2 DEF View, PortPhase, Resting, PortAtRest, NoMarks,
     WriteAsked, ReadAsked, Writing, Reading, ReadDone, ForWrite, ForRead
<1>4. View'
  BY <1>2 DEF View, PortPhase, Resting, PortAtRest, NoMarks,
     WriteAsked, ReadAsked, Writing, Reading, ReadDone, ForWrite, ForRead
<1> QED
  BY <1>3, <1>4

(* Which marks a phase has, and which phases exclude each other.           *)
LEMMA PhaseMarks ==
  ASSUME PortPhase
  PROVE  /\ ctl.mWR_DONE /\ ctl.WR_MASK <=> Writing /\ ctl.ST = 8
         /\ ctl.mRD_DONE /\ ctl.RD_MASK <=> ReadDone
         /\ StartWrite \/ StartRead => Resting
         /\ Resting => ~Writing /\ ~Reading /\ ~ReadDone
         /\ WriteAsked => ~Writing /\ ~Reading /\ ~ReadDone
         /\ Writing => ~Reading /\ ~ReadDone
         /\ ReadAsked => ~Writing /\ ~Reading /\ ~ReadDone
         /\ Reading => ~ReadDone
<1>1. StartWrite \/ StartRead => Quiet
  BY DEF StartWrite, StartRead
<1> QED
  BY <1>1 DEF Quiet, PortPhase, Resting, PortAtRest, NoMarks, WriteAsked, ReadAsked, Writing,
     Reading, ReadDone, ForWrite, ForRead

(* What the host sees of a clock: addresses move on when an access ends,   *)
(* words when they are taken, written and delivered.                       *)
LEMMA NextAddresses ==
  ASSUME PortPhase, Tick
  PROVE  /\ ~(Writing /\ ctl.ST = 8) => NextWrite' = NextWrite
         /\ Writing /\ ctl.ST = 8 =>
              NextWrite' = IF WR_LOAD THEN NextWrite ELSE Advance(NextWrite, WR_ADDR)
         /\ ~ReadDone => NextRead' = NextRead
         /\ ReadDone => NextRead' = IF RD_LOAD THEN NextRead ELSE Advance(NextRead, RD_ADDR)
         /\ ~StartWrite /\ ~StartRead => ctl'.mADDR = ctl.mADDR
         /\ StartWrite => ctl'.mADDR = NextWrite
         /\ StartRead => ctl'.mADDR = NextRead
<1>1. /\ Edge /\ WR_LOAD' = WR_LOAD /\ WR_ADDR' = WR_ADDR
      /\ RD_LOAD' = RD_LOAD /\ RD_ADDR' = RD_ADDR
  BY DEF Tick, hostVars
<1>2. /\ ctl'.rWR_ADDR = IF WR_LOAD THEN WR_ADDR
                         ELSE IF Writing /\ ctl.ST = 8
                         THEN Advance(ctl.rWR_ADDR, WR_ADDR) ELSE ctl.rWR_ADDR
      /\ ctl'.rRD_ADDR = IF RD_LOAD THEN RD_ADDR
                         ELSE IF ReadDone
                         THEN Advance(ctl.rRD_ADDR, RD_ADDR) ELSE ctl.rRD_ADDR
  BY <1>1, EdgeCtl, PhaseMarks
<1>3. StartWrite \/ StartRead => ~WR_LOAD /\ ~RD_LOAD
  BY DEF StartWrite, StartRead, Quiet
<1>4. StartWrite => ~StartRead
  BY DEF StartRead
<1> QED
  BY <1>1, <1>2, <1>3, <1>4, EdgeCtl DEF NextWrite, NextRead

LEMMA QueueSteps ==
  ASSUME ServeInv, Tick
  PROVE  /\ ~(Writing /\ ctl.ST = 3) => UNCHANGED <<wq, q>>
         /\ Writing /\ ctl.ST = 3 =>
              IF wq # <<>> THEN q' = Head(wq) /\ wq' = Tail(wq) ELSE UNCHANGED <<q, wq>>
         /\ ~(Reading /\ ctl.ST = 8) => rq' = rq
         /\ Reading /\ ctl.ST = 8 =>
              rq = <<>> /\ rq' = IF RD_LOAD THEN <<>> ELSE <<chip.mem[ctl.mADDR]>>
<1> USE DEF ServeInv
<1>1. /\ q' = IF PopsWord THEN Head(wq) ELSE q
      /\ wq' = IF PopsWord THEN Tail(wq) ELSE wq
      /\ rq' = IF PushesWord THEN Append(rq, ctl.mDATAOUT) ELSE rq
  BY DEF Tick, Edge, WqAfter, RqAfter
<1>2. wq # <<>> => ~WR_LOAD
  BY DEF Queues
<1>3. Reading /\ ctl.ST = 8 => rq = <<>> /\ ctl.mDATAOUT = chip.mem[ctl.mADDR]
  BY DEF Serving, PipeRight
<1>4. Append(<<>>, chip.mem[ctl.mADDR]) = <<chip.mem[ctl.mADDR]>>
  OBVIOUS
<1> QED
  BY <1>1, <1>2, <1>3, <1>4, WordMoves

(* A clock is one step of the port or nothing to the host. *)
LEMMA TickServes ==
  ASSUME ServeInv, Tick
  PROVE  [Port!Next]_(Port!vars)
<1>1. /\ Edge /\ UNCHANGED <<WR_LOAD, WR_ADDR, RD_LOAD, RD_ADDR>>
      /\ PortPhase /\ PortPhase' /\ PortInv /\ Serving
  BY PhaseStep DEF ServeInv, Tick, hostVars, PinInv
<1>2. /\ Writing /\ ctl.ST = 4 => chip'.mem = [chip.mem EXCEPT ![ctl.mADDR] = q]
      /\ ~(Writing /\ ctl.ST = 4) => chip'.mem = chip.mem
  BY MemoryStep DEF ServeInv, Serving, Tick
<1>3. \A a, b : Advance(a, b) = Port!After(a, b)
  BY DEF Advance, Port!After
<1> DEFINE Begins == StartWrite \/ StartRead
<1>4. CASE Resting /\ StartWrite
  <2>1. wq # <<>> /\ ~WR_LOAD /\ ~RD_LOAD
    BY <1>4 DEF StartWrite, Quiet, write_side_fifo_rusedw
  <2>2. Stage = "none" /\ Stage' = "write" /\ ctl'.mADDR = NextWrite
    BY <1>1, <1>4, RestingStep, PortView, NextAddresses DEF View
  <2>3. UNCHANGED <<chip.mem, q, wq, rq, NextWrite, NextRead>>
    BY <1>1, <1>2, <1>4, NextAddresses, QueueSteps, PhaseMarks
  <2>4. Port!BeginWrite
    BY <1>1, <2>1, <2>2, <2>3
       DEF Port!BeginWrite, Port!Begin, Port!memory, Port!writeSide, Port!readSide
  <2> QED
    BY <2>4 DEF Port!Next
<1>5. CASE Resting /\ StartRead
  <2>1. rq = <<>> /\ ~WR_LOAD /\ ~RD_LOAD
    <3>1. Pending(rPop) \in Nat /\ Len(rq) \in Nat /\ (Len(rq) = 0 => rq = <<>>)
      BY ControllerAssumption DEF ServeInv, Queues, Pending
    <3>2. Len(rq) + Pending(rPop) < 1 /\ ~WR_LOAD /\ ~RD_LOAD
      BY <1>5 DEF StartRead, Quiet, read_side_fifo_wusedw
    <3> QED
      BY <3>1, <3>2
  <2>2. Stage = "none" /\ Stage' = "read" /\ ctl'.mADDR = NextRead
    BY <1>1, <1>5, RestingStep, PortView, NextAddresses DEF View
  <2>3. UNCHANGED <<chip.mem, q, wq, rq, NextWrite, NextRead>>
    BY <1>1, <1>2, <1>5, NextAddresses, QueueSteps, PhaseMarks
  <2>4. Port!BeginRead
    BY <1>1, <2>1, <2>2, <2>3
       DEF Port!BeginRead, Port!Begin, Port!memory, Port!writeSide, Port!readSide
  <2> QED
    BY <2>4 DEF Port!Next
<1>6. ASSUME Stage' = Stage, ~Begins, ~(Writing /\ ctl.ST \in {3, 4, 8}),
             ~(Reading /\ ctl.ST = 8), ~ReadDone
      PROVE  UNCHANGED Port!vars
  <2>1. UNCHANGED <<chip.mem, q, wq, rq, NextWrite, NextRead, ctl.mADDR>>
    BY <1>1, <1>2, <1>6, NextAddresses, QueueSteps
  <2> QED
    BY <1>1, <1>6, <2>1
       DEF Port!vars, Port!memory, Port!writeSide, Port!readSide, Port!access
<1>7. CASE Resting /\ ~Begins
  <2>1. Stage' = Stage
    BY <1>1, <1>7, RestingStep, PortView DEF View
  <2> QED
    BY <1>1, <1>6, <1>7, <2>1, PhaseMarks
<1>8. CASE WriteAsked
  <2>1. ~Begins /\ Stage' = Stage
    BY <1>1, <1>8, WriteAskedStep, PortView, BusyStarts DEF View, WriteAsked
  <2> QED
    BY <1>1, <1>6, <1>8, <2>1, PhaseMarks
<1>9. CASE Writing
  <2>1. ~Begins /\ ctl.ST \in 1..8 /\ ~Reading /\ ~ReadDone
    BY <1>1, <1>9, BusyStarts, PhaseMarks DEF Writing
  <2>2. CASE ctl.ST \in {1, 2, 5, 6, 7}
    <3>1. Writing' /\ ctl'.ST \in Int /\ (ctl'.ST < 4 <=> ctl.ST < 4) /\ ctl'.ST # 4
      BY <1>1, <1>9, <2>2, WritingStep
    <3>2. Stage' = Stage
      BY <1>1, <1>9, <2>1, <2>2, <3>1, PortView DEF View
    <3> QED
      BY <1>6, <2>1, <2>2, <3>2
  <2>3. CASE ctl.ST = 3
    <3>1. Stage = "write" /\ Stage' = "taken"
      BY <1>1, <1>9, <2>3, WritingStep, PortView DEF View
    <3>2. Port!Take
      BY <1>1, <1>2, <1>9, <2>1, <2>3, <3>1, NextAddresses, QueueSteps
         DEF Port!Take, Port!readSide
    <3> QED
      BY <3>2 DEF Port!Next
  <2>4. CASE ctl.ST = 4
    <3>1. Stage = "taken" /\ Stage' = "written"
      <4>1. Writing' /\ ctl'.ST = 5
        BY <1>1, <1>9, <2>4, WritingStep
      <4> QED
        BY <1>1, <1>9, <2>4, <4>1, PortView DEF View
    <3>2. Port!Write
      BY <1>1, <1>2, <1>9, <2>1, <2>4, <3>1, NextAddresses, QueueSteps
         DEF Port!Write, Port!writeSide, Port!readSide
    <3> QED
      BY <3>2 DEF Port!Next
  <2>5. CASE ctl.ST = 8
    <3>1. Stage = "written" /\ Stage' = "none"
      BY <1>1, <1>9, <2>5, WritingStep, PortView DEF View
    <3>2. Port!EndWrite
      BY <1>1, <1>2, <1>3, <1>9, <2>1, <2>5, <3>1, NextAddresses, QueueSteps
         DEF Port!EndWrite, Port!memory, Port!readSide
    <3> QED
      BY <3>2 DEF Port!Next
  <2> QED
    BY <2>1, <2>2, <2>3, <2>4, <2>5
<1>10. CASE ReadAsked
  <2>1. ~Begins /\ Stage' = Stage
    BY <1>1, <1>10, ReadAskedStep, PortView, BusyStarts DEF View, ReadAsked
  <2> QED
    BY <1>1, <1>6, <1>10, <2>1, PhaseMarks
<1>11. CASE Reading
  <2>1. ~Begins /\ ctl.ST \in 1..8 /\ ~Writing /\ ~ReadDone
    BY <1>1, <1>11, BusyStarts, PhaseMarks DEF Reading
  <2>2. CASE ctl.ST < 8
    <3>1. Stage' = Stage
      BY <1>1, <1>11, <2>2, ReadingStep, PortView DEF View
    <3> QED
      BY <1>6, <2>1, <2>2, <3>1
  <2>3. CASE ctl.ST = 8
    <3>1. Stage = "read" /\ Stage' = "delivered"
      BY <1>1, <1>11, <2>3, ReadingStep, PortView DEF View
    <3>2. Port!Deliver
      BY <1>1, <1>2, <1>11, <2>1, <2>3, <3>1, NextAddresses, QueueSteps
         DEF Port!Deliver, Port!memory, Port!writeSide
    <3> QED
      BY <3>2 DEF Port!Next
  <2> QED
    BY <2>1, <2>2, <2>3
<1>12. CASE ReadDone
  <2>1. ~Begins /\ ~Writing /\ ~Reading
    BY <1>1, <1>12, BusyStarts, PhaseMarks DEF ReadDone
  <2>2. Stage = "delivered" /\ Stage' = "none"
    BY <1>1, <1>12, ReadDoneStep, PortView DEF View
  <2>3. Port!EndRead
    BY <1>1, <1>2, <1>3, <1>12, <2>1, <2>2, NextAddresses, QueueSteps
       DEF Port!EndRead, Port!memory, Port!writeSide
  <2> QED
    BY <2>3 DEF Port!Next
<1> QED
  BY <1>1, <1>4, <1>5, <1>7, <1>8, <1>9, <1>10, <1>11, <1>12 DEF PortPhase

(* What the host does to the FIFOs and the load inputs it does to the      *)
(* port.                                                                   *)
LEMMA HostServes ==
  ASSUME ServeInv, Host
  PROVE  [Port!Next]_(Port!vars)
<1>1. UNCHANGED <<ctl, chip, q, Stage>>
  BY DEF Host, HostPush, HostPop, RaiseWriteLoad, LowerWriteLoad, RaiseReadLoad,
     LowerReadLoad, coreVars, Stage
<1> USE DEF NextWrite, NextRead, Port!memory, Port!writeSide, Port!readSide, Port!access
<1>2. CASE HostPush
  BY <1>1, <1>2 DEF HostPush, hostVars, Port!Push, Port!Next
<1>3. CASE HostPop
  BY <1>1, <1>3 DEF HostPop, hostVars, Port!Pop, Port!Next
<1>4. CASE RaiseWriteLoad
  BY <1>1, <1>4 DEF RaiseWriteLoad, Port!LoadWrite, Port!Next
<1>5. CASE RaiseReadLoad
  BY <1>1, <1>5 DEF RaiseReadLoad, Port!LoadRead, Port!Next
<1>6. CASE LowerWriteLoad
  BY <1>1, <1>6 DEF LowerWriteLoad, Port!Loaded, Port!Next
<1>7. CASE LowerReadLoad
  BY <1>1, <1>7 DEF LowerReadLoad, Port!Loaded, Port!Next
<1> QED
  BY <1>2, <1>3, <1>4, <1>5, <1>6, <1>7 DEF Host

(* Every clock and every act of the host is a step of the port or none. *)
LEMMA ServesStep == ServeInv /\ [Next]_vars => [Port!Next]_(Port!vars)
<1>1. ASSUME ServeInv, [Next]_vars
      PROVE  [Port!Next]_(Port!vars)
  <2>1. CASE UNCHANGED vars
    BY <2>1 DEF vars, coreVars, hostVars, Port!vars, Port!memory, Port!writeSide,
       Port!readSide, Port!access, NextWrite, NextRead, Stage
  <2>2. CASE Tick
    BY <1>1, <2>2, TickServes
  <2>3. CASE Host
    BY <1>1, <2>3, HostServes
  <2> QED
    BY <1>1, <2>1, <2>2, <2>3 DEF Next
<1> QED  BY <1>1

LEMMA ServesInit == Init => Port!Init
<1> SUFFICES ASSUME Init PROVE Port!Init
  OBVIOUS
<1>1. ~ctl.WR_MASK /\ ~ctl.RD_MASK /\ ctl.mADDR = 0 /\ ~WR_LOAD /\ ~RD_LOAD /\ q = 0
  BY DEF Init
<1>2. Stage = "none"
  BY <1>1 DEF Stage
<1>3. NextWrite = 0 /\ NextRead = 0 /\ wq = <<>> /\ rq = <<>> /\ WR_ADDR = 0 /\ RD_ADDR = 0
  BY <1>1 DEF NextWrite, NextRead, Init
<1>4. chip.mem = [a \in DOMAIN chip.mem |-> 0]
  BY DEF Init, PoweredUp
<1> QED
  BY <1>1, <1>2, <1>3, <1>4 DEF Port!Init

(* Sdram_Control.v does what VramPort says, for every size of the chip,    *)
(* any host, loads in the middle of an access among them, any refreshes    *)
(* and any data: an access moves one word between its queue and the cell   *)
(* it was begun for, one at a time, each address goes on by one for each   *)
(* access, a load takes effect for the accesses begun after it             *)
(* (Sdram_Control.v:355-486).                                              *)
THEOREM PortRefinement == Spec => ServesPort
  BY ServesInit, ServesStep, ServeAlways, PTL DEF Spec, ServesPort, Port!Spec

-----------------------------------------------------------------------------
(* tetris.sv as the host. *)
Phases == ({"Hold1", "Hold2"} \X {1}) \cup ({"PW", "W", "FW"} \X Writes)
            \cup ({"PR", "R", "FR"} \X Reads)

(* The state machine waits for the key as long as the chip has no mode. *)
FsmInv ==
  /\ DOMAIN fsm = DOMAIN Defaults /\ fsm.state \in Phases
  /\ ~chip.mode => In("Hold1") /\ ~fsm.write_req

VramPinInv == PinInv /\ FsmInv

LEMMA HostAddresses ==
  /\ \A i \in Writes : WriteAt[i] \in 0..MAX_ADDR
  /\ \A i \in Reads : ReadAt[i] \in 0..MAX_ADDR
<1>1. PageSize \in Nat \ {0} /\ MAX_ADDR \in Int /\ MAX_ADDR >= 5 * PageSize
  BY ChipAssumption, VramAssumption, ControllerAssumption DEF Cells
<1>2. ASSUME NEW i \in Writes PROVE i * PageSize \in 0..MAX_ADDR
  BY <1>1 DEF Writes
<1>3. \A i \in Writes : WriteAt[i] \in 0..MAX_ADDR
  BY <1>2 DEF WriteAt
<1> QED  BY <1>3 DEF ReadAt, Reads, Writes

LEMMA FsmStep ==
  ASSUME Fsm, FsmInv, PinInv
  PROVE  /\ DOMAIN fsm' = DOMAIN Defaults /\ fsm'.state \in Phases
         /\ {WR_ADDR', RD_ADDR'} \subseteq 0..MAX_ADDR
         /\ ~chip.mode => UNCHANGED <<fsm, hostVars>>
<1>1. DOMAIN fsm = {"state", "write_counter", "write_req", "read_req", "writedata", "read_reg"}
  BY DEF FsmInv, Defaults
<1>2. {WR_ADDR, RD_ADDR} \subseteq 0..MAX_ADDR /\ fsm.state \in Phases
  BY DEF PinInv, PortInv, FsmInv
<1>3. ~chip.mode => fsm.state[1] = "Hold1"
  BY DEF FsmInv, In
<1> USE DEF In, Item, hostVars
<1>4. CASE Hold1
  BY <1>1, <1>2, <1>4 DEF Hold1, Settled, PoweredUpDone, Phases, Defaults
<1>5. CASE Hold2
  BY <1>1, <1>2, <1>3, <1>5 DEF Hold2, Phases, Writes, Defaults
<1>6. CASE PW
  <2>1. fsm.state[1] = "PW" /\ Item \in Writes
    BY <1>2, <1>6 DEF PW, Phases
  <2>2. WR_ADDR' \in 0..MAX_ADDR /\ RD_ADDR' = RD_ADDR
    BY <1>6, <2>1, HostAddresses DEF PW
  <2>3. DOMAIN fsm' = DOMAIN Defaults /\ fsm'.state \in Phases
    BY <1>1, <1>2, <1>6 DEF PW, Phases, Defaults
  <2> QED  BY <1>2, <1>3, <2>1, <2>2, <2>3
<1>7. CASE W
  BY <1>1, <1>2, <1>3, <1>7 DEF W, Phases, Defaults
<1>8. CASE FW
  <2>1. /\ In("FW") /\ UNCHANGED hostVars
        /\ fsm' = [fsm EXCEPT !.write_req = FALSE,
                     !.state = IF wr_buffer = 0 /\ ~fsm.write_req
                               THEN IF Item = 4 THEN <<"PR", 1>> ELSE <<"PW", Item + 1>>
                               ELSE @]
    BY <1>8 DEF FW
  <2>2. DOMAIN fsm' = DOMAIN Defaults
    BY <1>1, <2>1 DEF Defaults
  <2>3. fsm'.state \in {fsm.state, <<"PR", 1>>} \/ (Item # 4 /\ fsm'.state = <<"PW", Item + 1>>)
    BY <1>1, <2>1
  <2>4. fsm.state[1] = "FW" /\ Item \in Writes
    BY <1>2, <2>1 DEF Phases
  <2>5. fsm'.state \in Phases
    BY <1>2, <2>3, <2>4 DEF Phases, Writes, Reads
  <2> QED  BY <1>2, <1>3, <2>1, <2>2, <2>4, <2>5
<1>9. CASE PR
  <2>1. fsm.state[1] = "PR" /\ Item \in Reads
    BY <1>2, <1>9 DEF PR, Phases
  <2>2. WR_ADDR' = WR_ADDR /\ RD_ADDR' \in 0..MAX_ADDR
    BY <1>2, <1>9, <2>1, HostAddresses DEF PR
  <2>3. DOMAIN fsm' = DOMAIN Defaults /\ fsm'.state \in Phases
    <3>1. CASE fsm.write_counter = 4
      <4>1. fsm' = [fsm EXCEPT !.write_counter = 0, !.state[1] = "R"]
        BY <1>9, <3>1 DEF PR
      <4>2. fsm'.state = [fsm.state EXCEPT ![1] = "R"]
        BY <1>1, <4>1
      <4>3. fsm'.state \in Phases
        BY <1>2, <2>1, <4>2 DEF Phases
      <4> QED  BY <1>1, <4>1, <4>3 DEF Defaults
    <3>2. CASE fsm.write_counter # 4
      <4>1. fsm' = [fsm EXCEPT !.write_counter = @ + 1]
        BY <1>9, <3>2 DEF PR
      <4> QED  BY <1>1, <1>2, <4>1 DEF Defaults
    <3> QED  BY <3>1, <3>2
  <2> QED  BY <1>2, <1>3, <2>1, <2>2, <2>3
<1>10. CASE R
  BY <1>1, <1>2, <1>3, <1>10 DEF R, Phases, Defaults
<1>11. CASE FR
  <2>1. /\ In("FR") /\ UNCHANGED hostVars
        /\ DOMAIN fsm' = DOMAIN Defaults
    BY <1>1, <1>11 DEF FR, Defaults
  <2>2. fsm'.state \in {<<"Hold1", 1>>, <<"PR", 2>>}
    BY <1>1, <1>11 DEF FR
  <2>3. fsm'.state \in Phases
    BY <2>2 DEF Phases, Reads
  <2> QED  BY <1>2, <1>3, <2>1, <2>3
<1> QED  BY <1>4, <1>5, <1>6, <1>7, <1>8, <1>9, <1>10, <1>11 DEF Fsm

LEMMA VramPinInit == VramInit => VramPinInv
<1>1. VramInit => DOMAIN fsm = DOMAIN Defaults /\ fsm.state = <<"Hold1", 1>> /\ ~fsm.write_req
  BY DEF VramInit, Defaults
<1> QED  BY <1>1, InitPins DEF VramInit, VramPinInv, FsmInv, Phases, In

(* Neither a clock nor a Reset disturbs the pins. *)
LEMMA VramPinStep == VramPinInv /\ [VramNext]_vramVars => VramPinInv'
<1> SUFFICES ASSUME VramPinInv, [VramNext]_vramVars PROVE VramPinInv'
  OBVIOUS
<1>0. PinInv /\ FsmInv /\ {WR_ADDR, RD_ADDR} \subseteq 0..MAX_ADDR
  BY DEF VramPinInv, PinInv, PortInv
<1>1. ~chip.mode => wq = <<>>
  BY <1>0 DEF PinInv, Up, PowerUp
<1>2. ASSUME Edge, WriteFifo, UNCHANGED <<fsm, hostVars>> \/ Fsm PROVE VramPinInv'
  <2>1. /\ DOMAIN fsm' = DOMAIN Defaults /\ fsm'.state \in Phases
        /\ {WR_ADDR', RD_ADDR'} \subseteq 0..MAX_ADDR
        /\ ~chip.mode => UNCHANGED <<fsm, hostVars>>
    BY <1>0, <1>2, FsmStep DEF FsmInv, hostVars
  <2>2. ~chip'.mode => ~chip.mode /\ ~fsm.write_req /\ WqAfter = <<>>
    BY <1>0, <1>2, EdgeChip, FifoStaysEmpty DEF FsmInv
  <2>3. ~chip'.mode => wq' = <<>>
    BY <1>2, <2>2 DEF WriteFifo, HostPushes
  <2>4. FsmInv'
    BY <1>0, <2>1, <2>2 DEF FsmInv, In
  <2> QED  BY <1>0, <1>2, <2>1, <2>3, <2>4, EdgeStep DEF VramPinInv
<1>3. CASE Clock100
  BY <1>2, <1>3 DEF Clock100
<1>4. CASE Clock50
  BY <1>2, <1>4 DEF Clock50
<1>5. CASE Reset
  <2>1. UNCHANGED coreVars /\ wq' = wq /\ WR_ADDR' = 0 /\ RD_ADDR' = 0
    BY <1>5 DEF Reset
  <2>2. 0 \in 0..MAX_ADDR
    BY ControllerAssumption, ChipAssumption DEF Cells
  <2>3. PinInv'
    BY <1>0, <1>1, <2>1, <2>2, CoreStays
  <2>4. FsmInv'
    BY <1>5 DEF Reset, FsmInv, Defaults, Phases, In
  <2> QED  BY <2>3, <2>4 DEF VramPinInv
<1>6. CASE UNCHANGED vramVars
  <2>1. UNCHANGED <<coreVars, wq, WR_ADDR, RD_ADDR, fsm>>
    BY <1>6 DEF vramVars, vars, hostVars
  <2>2. PinInv'
    BY <1>0, <1>1, <2>1, CoreStays
  <2> QED  BY <1>0, <2>1, <2>2 DEF VramPinInv, FsmInv, In, coreVars
<1> QED  BY <1>3, <1>4, <1>5, <1>6 DEF VramNext

(* The same with tetris.sv as the host, Reset pressed in any phase: it     *)
(* waits for the key before the chip has its mode.                         *)
THEOREM TetrisRowsInTurn == VramSpec => []RowsInTurn
BY VramPinInit, VramPinStep, RowsAreInTurn, PTL DEF VramSpec, VramPinInv

-----------------------------------------------------------------------------
(* What the test machine finds in memory.  It loads an address while an    *)
(* access may be under way, and a Reset stops it anywhere.  The script of  *)
(* the machine tells when a load meets no access that would still take a   *)
(* word for the address before, or advance the new one.                    *)

NotWriting == ~WriteAsked /\ ~Writing
NotReading == ~ReadAsked /\ ~Reading

(* The lines between the two sides of the FIFOs; a word popped is not      *)
(* forgotten before the clocks that write it are over.                     *)
Lines ==
  /\ lag \in Lags
  /\ {wPush, wPop, rPop, rPush} \subseteq [1..FifoLag -> Nat]
  /\ \A i, j \in 1..FifoLag : i <= j => rPush[i] <= rPush[j]
  /\ Writing /\ ctl.ST \in 4..6 =>
       \A j \in 1..FifoLag : j > FifoLag - lag + ctl.ST - 4 => wPop[j] >= 1

(* The access under way and its data, whatever is loaded meanwhile.        *)
Carried ==
  /\ wq \in Seq(Words) /\ (rq = <<>> \/ rq = <<rq[1]>>)
  /\ DOMAIN chip.mem = Cells
  /\ Unmasked
  /\ WriteAsked \/ (Writing /\ ctl.ST <= 3) => wq # <<>>
  /\ WriteAsked \/ (Writing /\ ctl.ST <= 4) => ctl.mADDR = ctl.rWR_ADDR
  /\ ~NotReading => rq = <<>>
  /\ PipeRight

(* What the machine has written: the word of the item is in memory, or it  *)
(* is still to come and goes to the item's address.                        *)
WordHere == chip.mem[WriteAt[Item]] = Datum[Item]
WordComing ==
  /\ ctl.rWR_ADDR = WriteAt[Item]
  /\ Writing => ctl.ST <= 4
  /\ fsm.write_req \/ wq # <<>> \/ (Writing /\ ctl.ST = 4)

(* Of a write there is at most the end left when the machine goes on; it   *)
(* is over before the next word is pushed.                                 *)
WritesOver ==
  /\ wq = <<>> /\ ~WriteAsked
  /\ Writing => /\ ctl.ST \in 5..8
                /\ In("PW") => ctl.ST >= 6 + half
                /\ In("W") => ctl.ST = 8 /\ half = 0

(* The load input and the word the machine sends, and where the write side *)
(* stands in each phase.                                                   *)
WriteScript ==
  /\ WR_LOAD <=> In("W")
  /\ In("W") => WR_ADDR = WriteAt[Item]
  /\ fsm.write_req => In("FW") /\ fsm.writedata = Datum[Item]
  /\ In("Hold1") \/ In("FW") \/ WritesOver
  /\ In("FW") =>
       /\ \A k \in 1..Len(wq) : wq[k] = Datum[Item]
       /\ Writing /\ ctl.ST = 4 => q = Datum[Item]
       /\ WordHere \/ WordComing

(* What it reads first: before the first load the controller has read one  *)
(* word ahead, so that no read is under way when the load comes.           *)
NoPops == \A i \in 1..FifoLag : rPop[i] = 0
Started == In("PR") \/ In("R") \/ In("FR") \/ ((In("PW") \/ In("W") \/ In("FW")) /\ Item > 1)

ReadScript ==
  /\ ~ctl.flag => Resting /\ rq = <<>> /\ NoPops
  /\ Started => ctl.flag
  /\ RD_LOAD => In("R")
  /\ fsm.read_req => In("FR")
  /\ ReadDone => rq # <<>> \/ In("R") \/ In("Hold1")
  /\ In("Hold2") \/ In("PW") \/ In("W") \/ In("FW") => rq # <<>> \/ NoPops
  /\ In("FW") /\ ~ctl.flag => fsm.write_req \/ wq # <<>>
  /\ In("FW") /\ Item > 1 =>
       \/ rq # <<>>
       \/ ~NotReading /\ (fsm.write_req \/ wq # <<>>)
       \/ Resting /\ half = 0 /\ fsm.write_req /\ wq = <<>>
  /\ In("PR") /\ Item = 1 => rq # <<>>

(* The word of the address loaded for the first read.                      *)
Awaiting ==
  /\ NotReading /\ rq = <<>> => ctl.rRD_ADDR = RD_ADDR /\ ~ReadDone
  /\ ~NotReading => ctl.mADDR = RD_ADDR
  /\ rq # <<>> => rq[1] = chip.mem[RD_ADDR]

FirstRead ==
  /\ DOMAIN fsm.read_reg = Reads
  /\ (In("R") \/ In("FR")) /\ Item = 1 => RD_ADDR = ReadAt[1]
  /\ In("R") /\ Item = 1 /\ RD_LOAD => rq = <<>> /\ NotReading /\ ~ReadDone
  /\ In("R") /\ Item = 1 /\ ~RD_LOAD => Awaiting
  /\ In("FR") /\ Item = 1 =>
       IF half = 0
       THEN fsm.read_req /\ ~RD_LOAD /\ Pending(rPush) = 0 /\ rq = <<chip.mem[RD_ADDR]>>
       ELSE readdata = chip.mem[RD_ADDR]

(* All of it: an invariant of VramSpec.                                    *)
VramInv ==
  /\ VramPinInv /\ PortPhase /\ Directed
  /\ Lines /\ Carried /\ WriteScript /\ ReadScript /\ FirstRead

(* An edge of the clocks, whatever the state machine does in it.           *)
Clocked ==
  /\ Edge /\ WriteFifo /\ ReadFifo /\ lag' = lag
  /\ WR_LOAD' => wq = <<>> /\ ~WriteAsked /\ (Writing => ctl.ST >= 7)

(* The phases of the port do not overlap.                                  *)
PhasesApart ==
  /\ PortPhase <=> Resting \/ ~NotWriting \/ ~NotReading \/ ReadDone
  /\ Resting => NotWriting /\ NotReading /\ ~ReadDone /\ PortAtRest
  /\ ReadDone => NotWriting /\ NotReading /\ ~PortAtRest
  /\ ~NotWriting => NotReading /\ ~PortAtRest
  /\ ~NotReading => ~PortAtRest
  /\ WriteAsked => ~Writing
  /\ ReadAsked => ~Reading
  /\ Writing \/ Reading => ctl.ST \in 1..8
  /\ WriteAsked \/ ReadAsked => ctl.ST = 0

LEMMA PhasesDiffer == PhasesApart /\ PhasesApart'
  BY DEF PhasesApart, PortPhase, NotWriting, NotReading, Resting, PortAtRest, NoMarks, WriteAsked,
     Writing, ReadAsked, Reading, ReadDone, ForWrite, ForRead

(* When the FIFOs' ends at the port move a word.                           *)
LEMMA VramMoves ==
  ASSUME PortPhase, Carried, WriteScript
  PROVE  /\ PopsWord <=> Writing /\ ctl.ST = 3
         /\ PushesWord <=> Reading /\ ctl.ST = 8 /\ ~RD_LOAD
<1>1. ctl.IN_REQ /\ ctl.WR_MASK <=> Writing /\ ctl.ST = 3
  BY DEF PortPhase, Resting, PortAtRest, NoMarks, WriteAsked, ReadAsked, Writing, Reading, ReadDone,
     ForWrite, ForRead
<1>2. ctl.OUT_VALID /\ ctl.RD_MASK <=> Reading /\ ctl.ST = 8
  BY DEF PortPhase, Resting, PortAtRest, NoMarks, WriteAsked, ReadAsked, Writing, Reading, ReadDone,
     ForWrite, ForRead
<1>3. Writing /\ ctl.ST = 3 => wq # <<>>
  BY DEF Carried
<1>4. WR_LOAD => wq = <<>>
  <2>1. "W" # "Hold1" /\ "W" # "FW"
    OBVIOUS
  <2> QED
    BY <2>1 DEF WriteScript, WritesOver, In
<1> QED
  BY <1>1, <1>2, <1>3, <1>4 DEF PopsWord, PushesWord

(* Both queues after an edge.                                              *)
LEMMA VramWriteQueue ==
  ASSUME VramInv, Clocked
  PROVE  /\ wq' \in Seq(Words)
         /\ WR_LOAD' => wq' = <<>>
         /\ wq = <<>> /\ ~fsm.write_req => wq' = <<>>
         /\ ~WR_LOAD' /\ ~WR_LOAD /\ fsm.write_req => wq' # <<>>
         /\ wq # <<>> /\ ~WR_LOAD' /\ ~(Writing /\ ctl.ST = 3) => wq' # <<>>
         /\ \A d : (\A k \in 1..Len(wq) : wq[k] = d) /\ (fsm.write_req => fsm.writedata = d)
                     => \A k \in 1..Len(wq') : wq'[k] = d
<1> USE DEF VramInv
<1>1. PopsWord <=> Writing /\ ctl.ST = 3
  BY VramMoves
<1>2. wq \in Seq(Words) /\ (fsm.write_req => fsm.writedata \in Words)
  <2>1. fsm.write_req => fsm.writedata = Datum[Item] /\ In("FW")
    BY DEF WriteScript
  <2>2. In("FW") => Item \in Writes
    BY DEF VramPinInv, FsmInv, Phases, In, Item
  <2> QED
    BY <2>1, <2>2, VramAssumption DEF Carried, Datum
<1>3. /\ WqAfter \in Seq(Words) /\ (wq = <<>> => WqAfter = <<>>)
      /\ wq # <<>> /\ ~(Writing /\ ctl.ST = 3) => WqAfter # <<>>
      /\ \A d : (\A k \in 1..Len(wq) : wq[k] = d) => \A k \in 1..Len(WqAfter) : WqAfter[k] = d
  <2>1. CASE PopsWord
    <3>1. wq # <<>> /\ WqAfter = Tail(wq)
      BY <2>1 DEF WqAfter, PopsWord
    <3>2. Tail(wq) \in Seq(Words) /\ Len(Tail(wq)) = Len(wq) - 1 /\ Len(wq) \in Nat
      BY <1>2, <3>1
    <3>3. \A k \in 1..Len(Tail(wq)) : Tail(wq)[k] = wq[k + 1] /\ k + 1 \in 1..Len(wq)
      BY <1>2, <3>1, <3>2
    <3> QED
      BY <1>1, <2>1, <3>1, <3>2, <3>3
  <2>2. CASE ~PopsWord
    BY <1>2, <2>2 DEF WqAfter
  <2> QED
    BY <2>1, <2>2
<1>4. CASE WR_LOAD'
  <2>1. wq' = <<>> /\ Len(wq') = 0 /\ wq = <<>>
    BY <1>4 DEF Clocked, WriteFifo
  <2> QED
    BY <1>4, <2>1
<1>5. CASE ~WR_LOAD' /\ HostPushes
  <2>1. wq' = Append(WqAfter, fsm.writedata) /\ fsm.write_req
    BY <1>5 DEF Clocked, WriteFifo, HostPushes
  <2>2. /\ wq' \in Seq(Words) /\ wq' # <<>> /\ Len(wq') = Len(WqAfter) + 1
        /\ Len(WqAfter) \in Nat /\ wq'[Len(WqAfter) + 1] = fsm.writedata
        /\ \A k \in 1..Len(WqAfter) : wq'[k] = WqAfter[k]
    BY <1>2, <1>3, <2>1
  <2>3. \A k \in 1..Len(wq') : k \in 1..Len(WqAfter) \/ k = Len(WqAfter) + 1
    BY <2>2
  <2>4. ASSUME NEW d, \A k \in 1..Len(wq) : wq[k] = d, fsm.writedata = d
        PROVE  \A k \in 1..Len(wq') : wq'[k] = d
    BY <1>3, <2>2, <2>3, <2>4
  <2> QED
    BY <1>5, <2>1, <2>2, <2>4
<1>6. CASE ~WR_LOAD' /\ ~HostPushes
  <2>1. wq' = WqAfter /\ (~WR_LOAD => ~fsm.write_req)
    BY <1>6 DEF Clocked, WriteFifo, HostPushes
  <2> QED
    BY <1>3, <1>6, <2>1
<1> QED
  BY <1>4, <1>5, <1>6

(* The read FIFO holds one word at most; only FRA and FRB take it out.     *)
LEMMA VramReadQueue ==
  ASSUME VramInv, Clocked
  PROVE  /\ RD_LOAD' => rq' = <<>> /\ rPop' = NoEvents
         /\ ~RD_LOAD' /\ Reading /\ ctl.ST = 8 /\ ~RD_LOAD => rq' = <<ctl.mDATAOUT>>
         /\ ~RD_LOAD' /\ ~(Reading /\ ctl.ST = 8 /\ ~RD_LOAD) =>
              IF HostPops THEN rq # <<>> /\ rq' = <<>> /\ readdata' = rq[1]
                          ELSE rq' = rq
         /\ rq' = <<>> \/ rq' = <<rq'[1]>>
         /\ HostPops => rq # <<>> /\ In("FR")
<1> USE DEF VramInv
<1>1. PushesWord <=> Reading /\ ctl.ST = 8 /\ ~RD_LOAD
  BY VramMoves
<1>2. (rq = <<>> \/ rq = <<rq[1]>>) /\ (Reading => rq = <<>>)
  BY DEF Carried, NotReading
<1>3. Len(<<>>) = 0 /\ \A w : <<w>>[1] = w /\ Append(<<>>, w) = <<w>> /\ Tail(<<w>>) = <<>>
                              /\ Head(<<w>>) = w /\ <<w>> # <<>> /\ Len(<<w>>) = 1
  OBVIOUS
<1>4. HostPops => rq # <<>> /\ In("FR")
  <2>1. rq = <<>> => rd_buffer = 0
    <3>1. Pending(rPush) \in Nat
      BY ControllerAssumption DEF Lines, Pending
    <3> QED
      BY <1>3, <3>1 DEF rd_buffer
  <2> QED
    BY <2>1 DEF HostPops, ReadScript
<1>5. CASE RD_LOAD'
  BY <1>4, <1>5 DEF Clocked, ReadFifo
<1>6. CASE ~RD_LOAD' /\ PushesWord
  <2>1. rq' = <<ctl.mDATAOUT>>
    BY <1>1, <1>2, <1>3, <1>4, <1>6 DEF Clocked, ReadFifo, RqAfter
  <2> QED
    BY <1>1, <1>3, <1>4, <1>6, <2>1
<1>7. CASE ~RD_LOAD' /\ ~PushesWord
  <2>1. rq' = IF HostPops THEN Tail(rq) ELSE rq
    BY <1>7 DEF Clocked, ReadFifo, RqAfter
  <2>2. readdata' = IF HostPops THEN Head(rq) ELSE readdata
    BY <1>7 DEF Clocked, ReadFifo
  <2> QED
    BY <1>1, <1>2, <1>3, <1>4, <1>7, <2>1, <2>2
<1> QED
  BY <1>5, <1>6, <1>7

(* What an edge does to the accesses.                                      *)
LEMMA VramAccesses ==
  ASSUME VramInv, Clocked
  PROVE  /\ PortPhase'
         /\ WriteAsked' => Resting /\ wq # <<>> /\ ~WR_LOAD /\ ctl.flag /\ ctl'.mADDR = ctl.rWR_ADDR
         /\ Writing' => WriteAsked \/ (Writing /\ ctl.ST < 8)
         /\ Writing' /\ ctl'.ST >= 3 => Writing /\ ctl'.ST = ctl.ST + 1
         /\ ReadAsked' => Resting /\ rq = <<>> /\ ~RD_LOAD /\ ctl.flag /\ ctl'.mADDR = ctl.rRD_ADDR
         /\ Reading' => ReadAsked \/ (Reading /\ ctl.ST < 8)
         /\ ReadDone' => Reading /\ ctl.ST = 8
         /\ ReadDone => Resting'
         /\ ReadAsked => Reading'
         /\ Reading => Reading' \/ ctl.ST = 8
         /\ Writing /\ ctl.ST = 3 => Writing' /\ ctl'.ST = 4
         /\ ~NotWriting \/ ~NotReading => ctl'.mADDR = ctl.mADDR
<1> USE DEF VramInv
<1>1. Edge /\ PortInv /\ ctl.ST \in 0..8
  BY DEF Clocked, VramPinInv, PinInv, PortInv
<1>2. PortPhase'
  BY <1>1, PhaseStep
<1>3. StartWrite => wq # <<>> /\ ~WR_LOAD /\ ctl.flag
  BY DEF StartWrite, Quiet, write_side_fifo_rusedw
<1>4. StartRead => rq = <<>> /\ ~RD_LOAD /\ ctl.flag
  <2>1. Pending(rPop) \in Nat
    BY ControllerAssumption DEF Lines, Pending
  <2>2. Len(rq) + Pending(rPop) < 1 => rq = <<>>
    <3>1. rq # <<>> => Len(rq) = 1
      <4>1. Len(<<rq[1]>>) = 1
        OBVIOUS
      <4> QED
        BY <4>1 DEF Carried
    <3> QED
      BY <2>1, <3>1
  <2> QED
    BY <2>2 DEF StartRead, Quiet, read_side_fifo_wusedw
<1>5. (StartWrite => ctl'.mADDR = ctl.rWR_ADDR) /\ (StartRead => ctl'.mADDR = ctl.rRD_ADDR)
  BY <1>1, EdgeCtl DEF StartRead
<1>6. ~NotWriting \/ ~NotReading => ctl'.mADDR = ctl.mADDR
  <2>1. ~NotWriting \/ ~NotReading => ~StartWrite /\ ~StartRead
    BY BusyStarts DEF NotWriting, NotReading, WriteAsked, Writing, ReadAsked, Reading
  <2> QED
    BY <1>1, <2>1, EdgeCtl
<1>7. ReadDone' => Reading /\ ctl.ST = 8
  <2>1. Writing \/ Reading => ctl.ST = 8 \/ ctl.ST < 8
    BY DEF Writing, Reading
  <2>2. ReadDone' => ~Resting' /\ ~WriteAsked' /\ ~Writing' /\ ~ReadAsked' /\ ~Reading'
    BY PhasesDiffer DEF PhasesApart, NotWriting, NotReading
  <2> QED
    BY <1>1, <2>1, <2>2, RestingStep, WriteAskedStep, WritingStep, ReadAskedStep, ReadingStep,
       ReadDoneStep DEF PortPhase
<1>8. Writing' /\ ctl'.ST >= 3 => Writing /\ ctl'.ST = ctl.ST + 1
  BY <1>1, Before
<1>9. Writing /\ ctl.ST = 3 => Writing' /\ ctl'.ST = 4
  BY <1>1, WritingStep
<1>10. Reading => Reading' \/ ctl.ST = 8
  <2>1. Reading => ctl.ST = 8 \/ ctl.ST < 8
    BY DEF Reading
  <2> QED
    BY <1>1, <2>1, ReadingStep
<1> QED
  BY <1>1, <1>2, <1>3, <1>4, <1>5, <1>6, <1>7, <1>8, <1>9, <1>10, Before, ReadDoneStep,
     ReadAskedStep

(* And to the registers beside them.                                       *)
LEMMA VramRegisters ==
  ASSUME VramInv, Clocked
  PROVE  /\ ~WR_LOAD /\ ~(Writing /\ ctl.ST = 8) => ctl'.rWR_ADDR = ctl.rWR_ADDR
         /\ WR_LOAD => ctl'.rWR_ADDR = WR_ADDR
         /\ ~RD_LOAD /\ ~ReadDone => ctl'.rRD_ADDR = ctl.rRD_ADDR
         /\ RD_LOAD => ctl'.rRD_ADDR = RD_ADDR
         /\ ctl.flag => ctl'.flag
         /\ Writing /\ ctl.ST = 3 => q' = Head(wq)
         /\ Writing /\ ctl.ST = 4 => chip'.mem = [chip.mem EXCEPT ![ctl.mADDR] = q]
         /\ ~(Writing /\ ctl.ST = 4) => chip'.mem = chip.mem
<1> USE DEF VramInv
<1>1. Edge
  BY DEF Clocked
<1>2. ctl.mWR_DONE /\ ctl.WR_MASK => Writing /\ ctl.ST = 8
  BY DEF PortPhase, Resting, PortAtRest, NoMarks, WriteAsked, ReadAsked, Writing, Reading, ReadDone,
     ForWrite, ForRead
<1>3. ctl.mRD_DONE /\ ctl.RD_MASK => ReadDone
  BY DEF PortPhase, Resting, PortAtRest, NoMarks, WriteAsked, ReadAsked, Writing, Reading, ReadDone,
     ForWrite, ForRead
<1>4. ctl.flag => ctl'.flag
  BY <1>1 DEF Edge, Controller
<1>5. Writing /\ ctl.ST = 3 => q' = Head(wq)
  BY <1>1, VramMoves DEF Edge
<1>6. /\ Writing /\ ctl.ST = 4 => chip'.mem = [chip.mem EXCEPT ![ctl.mADDR] = q]
      /\ ~(Writing /\ ctl.ST = 4) => chip'.mem = chip.mem
  BY <1>1, MemoryStep DEF VramPinInv, Carried
<1> QED
  BY <1>1, <1>2, <1>3, <1>4, <1>5, <1>6, EdgeCtl

(* A line after a clock: every event one place further, the new ones in.   *)
LEMMA EnterIs ==
  ASSUME NEW line \in [1..FifoLag -> Nat], NEW n \in Nat
  PROVE  /\ Enter(line, n) \in [1..FifoLag -> Nat]
         /\ \A j \in 1..FifoLag : j > 1 => j - 1 \in 1..FifoLag /\ Enter(line, n)[j] >= line[j - 1]
         /\ lag \in Lags => \A j \in 1..FifoLag : j > FifoLag - lag => Enter(line, n)[j] >= n
         /\ lag \in Lags /\ (\A i, j \in 1..FifoLag : i <= j => line[i] <= line[j]) =>
              \A i, j \in 1..FifoLag : i <= j => Enter(line, n)[i] <= Enter(line, n)[j]
         /\ n = 0 => \A j \in 1..FifoLag :
                       Enter(line, n)[j] = IF j = 1 THEN 0 ELSE line[j - 1]
<1>1. FifoLag \in Nat \ {0} /\ (lag \in Lags => lag \in Int)
  <2>1. FifoLag \in Nat \ {0}
    BY ControllerAssumption
  <2>2. Lags \subseteq 1..FifoLag
    BY VramAssumption
  <2>3. 1..FifoLag \subseteq Int
    BY <2>1
  <2> QED
    BY <2>1, <2>2, <2>3
<1>2. \A j \in 1..FifoLag : j # 1 => j - 1 \in 1..FifoLag /\ line[j - 1] \in Nat
  BY <1>1
<1> DEFINE s(j) == IF j = 1 THEN 0 ELSE line[j - 1]
           e(j) == IF j > FifoLag - lag THEN n ELSE 0
<1>3. \A j \in 1..FifoLag : s(j) \in Nat /\ e(j) \in {0, n}
  BY <1>2
<1>4. \A j \in 1..FifoLag : Enter(line, n)[j] = s(j) + e(j)
  BY DEF Enter, Shift
<1>5. Enter(line, n) = [j \in 1..FifoLag |-> Enter(line, n)[j]]
  BY DEF Enter
<1> HIDE DEF s, e
<1>6. Enter(line, n) \in [1..FifoLag -> Nat]
  <2>1. \A j \in 1..FifoLag : Enter(line, n)[j] \in Nat
    BY <1>3, <1>4
  <2> QED
    BY <1>5, <2>1
<1>7. \A j \in 1..FifoLag : j > 1 => j - 1 \in 1..FifoLag /\ Enter(line, n)[j] >= line[j - 1]
  BY <1>1, <1>2, <1>3, <1>4 DEF s
<1>8. lag \in Lags => \A j \in 1..FifoLag : j > FifoLag - lag => Enter(line, n)[j] >= n
  BY <1>1, <1>3, <1>4 DEF e
<1>9. ASSUME lag \in Lags, \A i, j \in 1..FifoLag : i <= j => line[i] <= line[j],
             NEW i \in 1..FifoLag, NEW j \in 1..FifoLag, i <= j
      PROVE  Enter(line, n)[i] <= Enter(line, n)[j]
  <2>1. s(i) <= s(j)
    <3>1. i # 1 => j # 1 /\ i - 1 <= j - 1
      BY <1>1, <1>9
    <3>2. i # 1 => line[i - 1] <= line[j - 1]
      BY <1>2, <1>9, <3>1
    <3>3. j # 1 => line[j - 1] \in Nat
      BY <1>2
    <3> QED
      BY <3>1, <3>2, <3>3 DEF s
  <2>2. e(i) <= e(j)
    BY <1>1, <1>9 DEF e
  <2> QED
    BY <1>3, <1>4, <2>1, <2>2
<1>10. n = 0 => \A j \in 1..FifoLag : Enter(line, n)[j] = IF j = 1 THEN 0 ELSE line[j - 1]
  <2>1. n = 0 => \A j \in 1..FifoLag : Enter(line, n)[j] = s(j)
    BY <1>3, <1>4
  <2> QED
    BY <2>1 DEF s
<1> QED
  BY <1>6, <1>7, <1>8, <1>9, <1>10

(* A line without events.                                                  *)
LEMMA NothingEntered ==
  /\ NoEvents \in [1..FifoLag -> Nat]
  /\ \A i \in 1..FifoLag : NoEvents[i] = 0
  BY DEF NoEvents

(* The lines after an edge.                                                *)
LEMMA LinesStep ==
  ASSUME VramInv, Clocked
  PROVE  /\ Lines'
         /\ NoPops /\ ~HostPops => NoPops'
         /\ RD_LOAD' => NoPops'
         /\ Pending(rPush) = 0 /\ ~(Reading /\ ctl.ST = 8) => Pending(rPush') = 0
<1>1. /\ Lines /\ lag \in Lags /\ FifoLag \in Nat \ {0}
      /\ lag' = lag
  BY ControllerAssumption DEF VramInv, Lines, Clocked
<1>2. lag \in Int /\ lag <= FifoLag
  <2>1. Lags \subseteq 1..FifoLag
    BY VramAssumption
  <2> QED
    BY <1>1, <2>1
<1>3. wPop' \in [1..FifoLag -> Nat] /\ wPush' \in [1..FifoLag -> Nat]
  <2>1. CASE WR_LOAD'
    BY <2>1, NothingEntered DEF Clocked, WriteFifo
  <2>2. CASE ~WR_LOAD'
    <3>1. PICK n \in Nat, m \in Nat : wPop' = Enter(wPop, n) /\ wPush' = Enter(wPush, m)
      BY <2>2 DEF Clocked, WriteFifo
    <3>2. {wPush, wPop} \subseteq [1..FifoLag -> Nat]
      BY <1>1 DEF Lines
    <3> QED
      BY <3>1, <3>2, EnterIs
  <2> QED
    BY <2>1, <2>2
<1>4. rPop' \in [1..FifoLag -> Nat] /\ rPush' \in [1..FifoLag -> Nat]
  <2>1. CASE RD_LOAD'
    BY <2>1, NothingEntered DEF Clocked, ReadFifo
  <2>2. CASE ~RD_LOAD'
    <3>1. PICK n \in Nat, m \in Nat : rPop' = Enter(rPop, n) /\ rPush' = Enter(rPush, m)
      BY <2>2 DEF Clocked, ReadFifo
    <3>2. {rPop, rPush} \subseteq [1..FifoLag -> Nat]
      BY <1>1 DEF Lines
    <3> QED
      BY <3>1, <3>2, EnterIs
  <2> QED
    BY <2>1, <2>2
<1>5. \A i, j \in 1..FifoLag : i <= j => rPush'[i] <= rPush'[j]
  <2>1. CASE RD_LOAD'
    BY <2>1, NothingEntered DEF Clocked, ReadFifo
  <2>2. CASE ~RD_LOAD'
    <3>1. PICK n \in Nat : rPush' = Enter(rPush, n)
      BY <2>2 DEF Clocked, ReadFifo
    <3>2. rPush \in [1..FifoLag -> Nat] /\ \A i, j \in 1..FifoLag : i <= j => rPush[i] <= rPush[j]
      BY <1>1 DEF Lines
    <3> QED
      BY <1>1, <3>1, <3>2, EnterIs
  <2> QED
    BY <2>1, <2>2
<1>6. ASSUME Writing', ctl'.ST \in 4..6, NEW j \in 1..FifoLag, j > FifoLag - lag + ctl'.ST - 4
      PROVE  wPop'[j] >= 1
  <2>1. Writing /\ ctl'.ST = ctl.ST + 1
    BY <1>6, VramAccesses
  <2>2. ctl.ST \in 3..5
    <3>1. ctl.ST \in 1..8
      BY <2>1 DEF Writing
    <3> QED
      BY <1>6, <2>1, <3>1
  <2>3. ~WR_LOAD'
    BY <2>1, <2>2 DEF Clocked
  <2>4. wPop \in [1..FifoLag -> Nat]
    BY <1>1 DEF Lines
  <2>5. CASE ctl.ST = 3
    <3>1. PopsWord
      BY <2>1, <2>5, VramMoves DEF VramInv
    <3>2. wPop' = Enter(wPop, 1)
      BY <2>3, <3>1 DEF Clocked, WriteFifo
    <3>3. j > FifoLag - lag
      BY <1>1, <1>2, <1>6, <2>1, <2>5
    <3> QED
      BY <1>1, <2>4, <3>2, <3>3, EnterIs
  <2>6. CASE ctl.ST \in 4..5
    <3>1. PICK n \in Nat : wPop' = Enter(wPop, n)
      BY <2>3 DEF Clocked, WriteFifo
    <3>2. j > 1 /\ j - 1 > FifoLag - lag + ctl.ST - 4
      BY <1>1, <1>2, <1>6, <2>1, <2>6
    <3>3. j - 1 \in 1..FifoLag /\ wPop'[j] >= wPop[j - 1]
      BY <2>4, <3>1, <3>2, EnterIs
    <3>4. wPop[j - 1] >= 1
      <4>1. \A k \in 1..FifoLag : k > FifoLag - lag + ctl.ST - 4 => wPop[k] >= 1
        <5>1. ctl.ST \in 4..6
          BY <2>6
        <5> QED
          BY <1>1, <2>1, <5>1 DEF Lines
      <4> QED
        BY <3>2, <3>3, <4>1
    <3> QED
      BY <1>3, <1>6, <2>4, <3>3, <3>4
  <2> QED
    BY <2>2, <2>5, <2>6
<1>7. Lines'
  BY <1>1, <1>3, <1>4, <1>5, <1>6 DEF Lines
<1>8. NoPops /\ ~HostPops => NoPops'
  <2>1. CASE RD_LOAD'
    BY <2>1, NothingEntered DEF Clocked, ReadFifo, NoPops
  <2>2. CASE ~RD_LOAD'
    <3>1. ASSUME NoPops, ~HostPops PROVE NoPops'
      <4>1. rPop' = Enter(rPop, 0) /\ rPop \in [1..FifoLag -> Nat]
        BY <1>1, <2>2, <3>1 DEF Clocked, ReadFifo, Lines
      <4>2. \A i \in 1..FifoLag : i # 1 => i - 1 \in 1..FifoLag
        BY <1>1
      <4>3. \A i \in 1..FifoLag : rPop'[i] = IF i = 1 THEN 0 ELSE rPop[i - 1]
        BY <4>1, EnterIs
      <4> QED
        BY <3>1, <4>2, <4>3 DEF NoPops
    <3> QED
      BY <3>1
  <2> QED
    BY <2>1, <2>2
<1>9. RD_LOAD' => NoPops'
  BY NothingEntered DEF Clocked, ReadFifo, NoPops
<1>10. ASSUME Pending(rPush) = 0, ~(Reading /\ ctl.ST = 8)
       PROVE  Pending(rPush') = 0
  <2>1. CASE RD_LOAD'
    BY <1>1, <2>1, NothingEntered DEF Clocked, ReadFifo, Pending
  <2>2. CASE ~RD_LOAD'
    <3>1. ~PushesWord
      BY <1>10, VramMoves DEF VramInv
    <3>2. rPush' = Enter(rPush, 0) /\ rPush \in [1..FifoLag -> Nat]
      BY <1>1, <2>2, <3>1 DEF Clocked, ReadFifo, Lines
    <3>3. FifoLag \in 1..FifoLag /\ (FifoLag # 1 => FifoLag - 1 \in 1..FifoLag)
      BY <1>1
    <3>4. FifoLag # 1 => rPush[FifoLag - 1] <= 0 /\ rPush[FifoLag - 1] \in Nat
      BY <1>1, <1>10, <3>2, <3>3 DEF Lines, Pending
    <3>5. rPush'[FifoLag] = IF FifoLag = 1 THEN 0 ELSE rPush[FifoLag - 1]
      BY <3>2, <3>3, EnterIs
    <3> QED
      BY <3>4, <3>5 DEF Pending
  <2> QED
    BY <2>1, <2>2
<1> QED
  BY <1>7, <1>8, <1>9, <1>10

(* A load of the write side meets a write in its last clock at most, the   *)
(* word being in memory.                                                   *)
LEMMA LoadAlone ==
  ASSUME WriteScript
  PROVE  WR_LOAD => wq = <<>> /\ ~WriteAsked /\ (Writing => ctl.ST = 8 /\ half = 0)
<1>1. "W" # "Hold1" /\ "W" # "FW"
  OBVIOUS
<1> QED
  BY <1>1 DEF WriteScript, WritesOver, In

(* An edge keeps address and word of the access under way.                 *)
LEMMA CarriedStep ==
  ASSUME VramInv, Clocked
  PROVE  Carried'
<1> USE DEF VramInv
<1>1. Edge /\ PinInv /\ PortInv
  BY DEF Clocked, VramPinInv, PinInv
<1>2. wq' \in Seq(Words) /\ (rq' = <<>> \/ rq' = <<rq'[1]>>)
  BY VramWriteQueue, VramReadQueue
<1>3. DOMAIN chip'.mem = Cells
  BY VramRegisters DEF Carried
<1>4. Unmasked' /\ PipeRight'
  BY <1>1, UnmaskedStep, PipeStep DEF Carried
<1>5. ASSUME Writing', ctl'.ST <= 4
      PROVE  /\ WriteAsked \/ (Writing /\ ctl.ST <= 3)
             /\ ctl'.ST <= 3 => ~(Writing /\ ctl.ST = 3)
  <2>1. WriteAsked \/ (Writing /\ ctl.ST < 8)
    BY <1>5, VramAccesses
  <2>2. Writing => ctl.ST \in 1..8
    BY DEF Writing
  <2>3. Writing => ctl'.ST = ctl.ST + 1 \/ ctl.ST = 1 \/ ctl.ST = 8
    BY <1>1, <2>2, Before
  <2> QED
    BY <1>5, <2>1, <2>2, <2>3
<1>6. WriteAsked' \/ (Writing' /\ ctl'.ST <= 3) => wq' # <<>>
  <2>1. ASSUME WriteAsked' PROVE wq' # <<>>
    <3>1. Resting /\ wq # <<>>
      BY <2>1, VramAccesses
    <3>2. ~WR_LOAD' /\ ~Writing
      BY <3>1, PhasesDiffer DEF Clocked, PhasesApart, NotWriting
    <3> QED
      BY <3>1, <3>2, VramWriteQueue
  <2>2. ASSUME Writing', ctl'.ST <= 3 PROVE wq' # <<>>
    <3>1. ctl'.ST <= 4
      <4>1. ctl'.ST \in 1..8
        BY <2>2 DEF Writing
      <4> QED
        BY <2>2, <4>1
    <3>2. WriteAsked \/ (Writing /\ ctl.ST <= 3)
      BY <1>5, <2>2, <3>1
    <3>3. wq # <<>> /\ ~WR_LOAD'
      BY <3>2 DEF Carried, Clocked
    <3> QED
      BY <1>5, <2>2, <3>1, <3>3, VramWriteQueue
  <2> QED
    BY <2>1, <2>2
<1>7. WriteAsked' \/ (Writing' /\ ctl'.ST <= 4) => ctl'.mADDR = ctl'.rWR_ADDR
  <2>1. ASSUME WriteAsked' PROVE ctl'.mADDR = ctl'.rWR_ADDR
    <3>1. Resting /\ ~WR_LOAD /\ ctl'.mADDR = ctl.rWR_ADDR
      BY <2>1, VramAccesses
    <3>2. ~Writing
      BY <3>1, PhasesDiffer DEF PhasesApart, NotWriting
    <3> QED
      BY <3>1, <3>2, VramRegisters
  <2>2. ASSUME Writing', ctl'.ST <= 4 PROVE ctl'.mADDR = ctl'.rWR_ADDR
    <3>1. WriteAsked \/ (Writing /\ ctl.ST <= 3)
      BY <1>5, <2>2
    <3>2. ~NotWriting /\ (WriteAsked \/ (Writing /\ ctl.ST <= 4))
      <4>1. Writing => ctl.ST \in 1..8
        BY DEF Writing
      <4> QED
        BY <3>1, <4>1 DEF NotWriting
    <3>3. ctl.mADDR = ctl.rWR_ADDR /\ ctl'.mADDR = ctl.mADDR /\ ~WR_LOAD
      BY <3>1, <3>2, VramAccesses, LoadAlone DEF Carried
    <3>4. ~(Writing /\ ctl.ST = 8)
      BY <3>1, PhasesDiffer DEF PhasesApart
    <3> QED
      BY <3>3, <3>4, VramRegisters
  <2> QED
    BY <2>1, <2>2
<1>8. ASSUME ~NotReading' PROVE rq' = <<>>
  <2>1. rq = <<>> /\ ~(Reading /\ ctl.ST = 8)
    <3>1. ReadAsked' \/ Reading'
      BY <1>8 DEF NotReading
    <3>2. CASE ReadAsked'
      <4>1. Resting /\ rq = <<>>
        BY <3>2, VramAccesses
      <4> QED
        BY <4>1, PhasesDiffer DEF PhasesApart, NotReading
    <3>3. CASE Reading'
      <4>1. ReadAsked \/ (Reading /\ ctl.ST < 8)
        BY <3>3, VramAccesses
      <4>2. ReadAsked => ~Reading
        BY PhasesDiffer DEF PhasesApart
      <4>3. Reading => ctl.ST # 8
        BY <4>1, <4>2
      <4> QED
        BY <4>1, <4>3 DEF Carried, NotReading
    <3> QED
      BY <3>1, <3>2, <3>3
  <2> QED
    BY <2>1, VramReadQueue
<1> QED
  BY <1>2, <1>3, <1>4, <1>6, <1>7, <1>8 DEF Carried

(* What every edge does, in the terms of the script.                       *)
LEMMA ScriptEdge ==
  ASSUME VramInv, Clocked
  PROVE  /\ WritesOver /\ ~fsm.write_req =>
              /\ wq' = <<>> /\ ~WriteAsked'
              /\ Writing' => Writing /\ ctl.ST \in 5..7 /\ ctl'.ST = ctl.ST + 1
         /\ ~In("FR") /\ NoPops => NoPops'
         /\ ~In("FR") /\ rq # <<>> /\ ~RD_LOAD' => rq' = rq
         /\ rq # <<>> => NotReading' /\ ~ReadDone'
         /\ ReadDone' /\ ~RD_LOAD /\ ~RD_LOAD' => rq' # <<>>
         /\ ~ctl'.flag => ~ctl.flag /\ Resting /\ Resting' /\ rq' = <<>> /\ NoPops'
<1> USE DEF VramInv
<1>1. ASSUME WritesOver, ~fsm.write_req
      PROVE  /\ wq' = <<>> /\ ~WriteAsked'
             /\ Writing' => Writing /\ ctl.ST \in 5..7 /\ ctl'.ST = ctl.ST + 1
  <2>1. wq' = <<>> /\ ~WriteAsked'
    BY <1>1, VramWriteQueue, VramAccesses DEF WritesOver
  <2>2. Writing' => Writing /\ ctl.ST \in 5..7
    <3>1. Writing => ctl.ST \in 5..8
      BY <1>1 DEF WritesOver
    <3>2. Writing' => Writing /\ ctl.ST < 8
      BY <1>1, VramAccesses DEF WritesOver
    <3> QED
      BY <3>1, <3>2
  <2>3. Edge /\ PortInv
    BY DEF Clocked, VramPinInv, PinInv
  <2> QED
    BY <2>1, <2>2, <2>3, Before
<1>2. ~In("FR") => ~HostPops
  BY VramReadQueue
<1>3. rq # <<>> => NotReading
  BY DEF Carried
<1>4. rq # <<>> => NotReading' /\ ~ReadDone'
  BY <1>3, VramAccesses DEF NotReading
<1>5. ~In("FR") /\ rq # <<>> /\ ~RD_LOAD' => rq' = rq
  BY <1>2, <1>3, VramReadQueue DEF NotReading
<1>6. ReadDone' /\ ~RD_LOAD /\ ~RD_LOAD' => rq' # <<>>
  <2>1. \A w : <<w>> # <<>>
    OBVIOUS
  <2> QED
    BY <2>1, VramAccesses, VramReadQueue
<1>7. ASSUME ~ctl'.flag
      PROVE  ~ctl.flag /\ Resting /\ Resting' /\ rq' = <<>> /\ NoPops'
  <2>1. ~ctl.flag
    BY <1>7, VramRegisters
  <2>2. Resting /\ rq = <<>> /\ NoPops
    BY <2>1 DEF ReadScript
  <2>3. Resting'
    <3>1. Edge /\ PortInv
      BY DEF Clocked, VramPinInv, PinInv
    <3> QED
      BY <2>1, <2>2, <3>1, Before DEF Quiet
  <2>4. ~HostPops /\ ~Reading
    BY <2>2, VramReadQueue, PhasesDiffer DEF PhasesApart, NotReading
  <2> QED
    BY <2>1, <2>2, <2>3, <2>4, VramReadQueue, LinesStep
<1> QED
  BY <1>1, <1>2, <1>4, <1>5, <1>6, <1>7, LinesStep

-----------------------------------------------------------------------------
(* The moves of the state machine, one phase at a time.                    *)
Goes(p, i) == fsm'.state = <<p, i>>
GoesOn == (Item = 4 /\ Goes("PR", 1)) \/ Goes("PW", Item + 1)

(* One conjunct for each phase, then what all phases leave alone.          *)
LEMMA FsmMoves ==
  ASSUME Fsm, FsmInv, DOMAIN fsm.read_reg = Reads
  PROVE  /\ In("Hold1") =>
              /\ Goes("Hold1", 1) \/ (Settled /\ Goes("Hold2", 1))
              /\ UNCHANGED hostVars
         /\ In("Hold2") => (Goes("Hold2", 1) \/ Goes("PW", 1)) /\ UNCHANGED hostVars
         /\ In("PW") => Goes("W", Item) /\ WR_LOAD' /\ WR_ADDR' = WriteAt[Item]
         /\ In("W") => /\ Goes("FW", Item) /\ ~WR_LOAD'
                       /\ fsm'.write_req /\ fsm'.writedata = Datum[Item]
         /\ In("FW") =>
              /\ \/ Goes("FW", Item)
                 \/ wr_buffer = 0 /\ ~fsm.write_req /\ GoesOn
              /\ ~fsm'.write_req /\ UNCHANGED hostVars
         /\ In("PR") =>
              \/ Goes("PR", Item) /\ UNCHANGED hostVars
              \/ Goes("R", Item) /\ RD_LOAD' /\ RD_ADDR' = ReadAt[Item]
                                 /\ UNCHANGED <<WR_LOAD, WR_ADDR>>
         /\ In("R") =>
              /\ \/ Goes("R", Item) /\ fsm'.read_req = fsm.read_req
                 \/ rd_buffer = 1 /\ Goes("FR", Item) /\ fsm'.read_req
              /\ ~RD_LOAD' /\ UNCHANGED <<WR_LOAD, WR_ADDR, RD_ADDR>>
         /\ In("FR") => /\ Goes("Hold1", 1) \/ Goes("PR", 2)
                        /\ ~fsm'.read_req /\ UNCHANGED hostVars
                        /\ Item = 1 => fsm'.read_reg[1] = readdata
         /\ In("PW") \/ In("W") => UNCHANGED <<RD_LOAD, RD_ADDR>>
         /\ ~In("W") /\ ~In("FW") => fsm'.write_req = fsm.write_req
         /\ ~In("R") /\ ~In("FR") => fsm'.read_req = fsm.read_req
         /\ DOMAIN fsm'.read_reg = Reads
<1>1. DOMAIN fsm = {"state", "write_counter", "write_req", "read_req", "writedata", "read_reg"}
  BY DEF FsmInv, Defaults
<1>2. fsm.state = <<fsm.state[1], Item>> /\ fsm.state[1] = fsm.state[1]
  BY DEF FsmInv, Phases, Item
<1>3. \A p, r : In(p) /\ In(r) => p = r
  BY DEF In
<1>4. fsm.state \in Phases /\ (In("Hold1") \/ In("Hold2") => Item = 1)
  BY DEF FsmInv, Phases, In, Item
<1>5. CASE Hold1
  BY <1>1, <1>2, <1>3, <1>4, <1>5 DEF Hold1, In, Goes
<1>6. CASE Hold2
  BY <1>1, <1>2, <1>3, <1>4, <1>6 DEF Hold2, In, Goes
<1>7. CASE PW
  <2>1. In("PW") /\ WR_LOAD' /\ WR_ADDR' = WriteAt[Item] /\ UNCHANGED <<RD_LOAD, RD_ADDR>>
    BY <1>7 DEF PW
  <2>2. Goes("W", Item) /\ \A f \in DOMAIN fsm \ {"state"} : fsm'[f] = fsm[f]
    BY <1>1, <1>2, <1>7 DEF PW, Goes
  <2> QED
    BY <1>1, <1>3, <2>1, <2>2
<1>8. CASE W
  <2>1. In("W") /\ ~WR_LOAD' /\ UNCHANGED <<RD_LOAD, RD_ADDR>>
    BY <1>8 DEF W
  <2>2. /\ Goes("FW", Item) /\ fsm'.write_req /\ fsm'.writedata = Datum[Item]
        /\ fsm'.read_reg = fsm.read_reg /\ fsm'.read_req = fsm.read_req
    BY <1>1, <1>2, <1>8 DEF W, Goes
  <2> QED
    BY <1>3, <2>1, <2>2
<1>9. CASE FW
  <2>1. In("FW") /\ UNCHANGED hostVars
    BY <1>9 DEF FW
  <2>2. /\ \/ Goes("FW", Item)
           \/ wr_buffer = 0 /\ ~fsm.write_req /\ GoesOn
        /\ ~fsm'.write_req /\ fsm'.read_req = fsm.read_req /\ fsm'.read_reg = fsm.read_reg
    BY <1>1, <1>2, <1>9 DEF FW, In, Goes, GoesOn
  <2> QED
    BY <1>3, <2>1, <2>2
<1>10. CASE PR
  <2>1. In("PR")
    BY <1>10 DEF PR
  <2>2. CASE fsm.write_counter = 4
    <3>1. RD_LOAD' /\ RD_ADDR' = ReadAt[Item] /\ UNCHANGED <<WR_LOAD, WR_ADDR>>
      BY <1>10, <2>2 DEF PR
    <3>2. fsm' = [fsm EXCEPT !.write_counter = 0, !.state[1] = "R"]
      BY <1>10, <2>2 DEF PR
    <3>3. /\ fsm'.state = [fsm.state EXCEPT ![1] = "R"]
          /\ \A f \in DOMAIN fsm \ {"state", "write_counter"} : fsm'[f] = fsm[f]
      BY <1>1, <3>2
    <3>4. Goes("R", Item)
      BY <1>2, <3>3 DEF Goes
    <3> QED
      BY <1>1, <1>3, <2>1, <3>1, <3>3, <3>4
  <2>3. CASE fsm.write_counter # 4
    <3>1. UNCHANGED hostVars /\ fsm' = [fsm EXCEPT !.write_counter = @ + 1]
      BY <1>10, <2>3 DEF PR, hostVars
    <3>2. \A f \in DOMAIN fsm \ {"write_counter"} : fsm'[f] = fsm[f]
      BY <1>1, <3>1
    <3>3. Goes("PR", Item)
      BY <1>1, <1>2, <2>1, <3>2 DEF Goes, In
    <3> QED
      BY <1>1, <1>3, <2>1, <3>1, <3>2, <3>3
  <2> QED
    BY <2>2, <2>3
<1>11. CASE R
  <2>1. In("R") /\ ~RD_LOAD' /\ UNCHANGED <<WR_LOAD, WR_ADDR, RD_ADDR>>
    BY <1>11 DEF R
  <2>2. /\ \/ Goes("R", Item) /\ fsm'.read_req = fsm.read_req
           \/ rd_buffer = 1 /\ Goes("FR", Item) /\ fsm'.read_req
        /\ fsm'.write_req = fsm.write_req /\ fsm'.read_reg = fsm.read_reg
    <3>1. CASE rd_buffer = 1
      <4>1. fsm' = [fsm EXCEPT !.read_req = TRUE, !.state[1] = "FR"]
        BY <1>11, <3>1 DEF R
      <4>2. fsm'.state = [fsm.state EXCEPT ![1] = "FR"] /\ fsm'.read_req
        BY <1>1, <4>1
      <4>3. Goes("FR", Item)
        BY <1>2, <4>2 DEF Goes
      <4> QED
        BY <1>1, <3>1, <4>1, <4>2, <4>3
    <3>2. CASE rd_buffer # 1
      <4>1. fsm' = fsm
        BY <1>11, <3>2 DEF R
      <4>2. Goes("R", Item)
        BY <1>2, <2>1, <4>1 DEF Goes, In
      <4> QED
        BY <4>1, <4>2
    <3> QED
      BY <3>1, <3>2
  <2> QED
    BY <1>3, <2>1, <2>2
<1>12. CASE FR
  <2>1. In("FR") /\ UNCHANGED hostVars
    BY <1>12 DEF FR
  <2>2. /\ Goes("Hold1", 1) \/ Goes("PR", 2)
        /\ ~fsm'.read_req /\ fsm'.write_req = fsm.write_req
        /\ fsm'.read_reg = [fsm.read_reg EXCEPT ![Item] = readdata]
    BY <1>1, <1>2, <1>12 DEF FR, Goes
  <2>3. DOMAIN fsm'.read_reg = Reads /\ (Item = 1 => fsm'.read_reg[1] = readdata)
    BY <2>2 DEF Reads
  <2> QED
    BY <1>3, <2>1, <2>2, <2>3
<1> QED
  BY <1>5, <1>6, <1>7, <1>8, <1>9, <1>10, <1>11, <1>12 DEF Fsm

(* An edge while the machine waits for its word to be written.             *)
LEMMA WaitStep ==
  ASSUME VramInv, Clocked, In("FW"), UNCHANGED hostVars
  PROVE  /\ \A k \in 1..Len(wq') : wq'[k] = Datum[Item]
         /\ Writing' /\ ctl'.ST = 4 => q' = Datum[Item]
         /\ \/ chip'.mem[WriteAt[Item]] = Datum[Item]
            \/ /\ ctl'.rWR_ADDR = WriteAt[Item]
               /\ Writing' => ctl'.ST <= 4
               /\ wq' # <<>> \/ (Writing' /\ ctl'.ST = 4)
         /\ ~ctl'.flag => wq' # <<>>
         /\ Item > 1 => rq' # <<>> \/ (~NotReading' /\ wq' # <<>>)
<1> USE DEF VramInv
<1>1. ~WR_LOAD /\ ~RD_LOAD /\ ~WR_LOAD' /\ ~RD_LOAD' /\ ~In("FR") /\ Item \in Writes
  <2>1. "FW" # "W" /\ "FW" # "R" /\ "FW" # "FR"
    OBVIOUS
  <2> QED
    BY <2>1 DEF WriteScript, ReadScript, In, VramPinInv, FsmInv, Phases, Item, hostVars
<1>2. fsm.write_req => fsm.writedata = Datum[Item] /\ wq' # <<>>
  BY <1>1, VramWriteQueue DEF WriteScript
<1>3. \A k \in 1..Len(wq') : wq'[k] = Datum[Item]
  BY <1>2, VramWriteQueue DEF WriteScript
<1>4. Writing' /\ ctl'.ST = 4 => q' = Datum[Item]
  <2>1. ASSUME Writing', ctl'.ST = 4 PROVE q' = Datum[Item]
    <3>1. Writing /\ ctl.ST = 3
      <4>1. Writing /\ ctl'.ST = ctl.ST + 1 /\ ctl.ST \in 1..8
        BY <2>1, VramAccesses DEF Writing
      <4> QED
        BY <2>1, <4>1
    <3>2. q' = Head(wq) /\ wq # <<>> /\ wq \in Seq(Words)
      BY <3>1, VramRegisters DEF Carried
    <3>3. Head(wq) = wq[1] /\ 1 \in 1..Len(wq)
      BY <3>2
    <3> QED
      BY <3>2, <3>3 DEF WriteScript
  <2> QED
    BY <2>1
<1>5. WordHere => chip'.mem[WriteAt[Item]] = Datum[Item]
  <2>1. CASE Writing /\ ctl.ST = 4
    <3>1. chip'.mem = [chip.mem EXCEPT ![ctl.mADDR] = q] /\ q = Datum[Item]
      BY <2>1, VramRegisters DEF WriteScript
    <3> QED
      BY <3>1 DEF WordHere
  <2>2. CASE ~(Writing /\ ctl.ST = 4)
    BY <2>2, VramRegisters DEF WordHere
  <2> QED
    BY <2>1, <2>2
<1>6. ASSUME WordComing
      PROVE  \/ chip'.mem[WriteAt[Item]] = Datum[Item]
             \/ /\ ctl'.rWR_ADDR = WriteAt[Item]
                /\ Writing' => ctl'.ST <= 4
                /\ wq' # <<>> \/ (Writing' /\ ctl'.ST = 4)
  <2>1. CASE Writing /\ ctl.ST = 4
    <3>1. chip'.mem = [chip.mem EXCEPT ![ctl.mADDR] = q] /\ q = Datum[Item]
      BY <2>1, VramRegisters DEF WriteScript
    <3>2. ctl.mADDR = WriteAt[Item]
      BY <1>6, <2>1 DEF WordComing, Carried
    <3>3. WriteAt[Item] \in DOMAIN chip.mem
      <4>1. WriteAt[Item] \in 0..MAX_ADDR
        BY <1>1, HostAddresses
      <4>2. 0..MAX_ADDR \subseteq Cells
        BY ControllerAssumption, ChipAssumption DEF Cells
      <4> QED
        BY <4>1, <4>2 DEF Carried
    <3> QED
      BY <3>1, <3>2, <3>3
  <2>2. CASE ~(Writing /\ ctl.ST = 4)
    <3>1. ~(Writing /\ ctl.ST = 8)
      BY <1>6 DEF WordComing
    <3>2. ctl'.rWR_ADDR = WriteAt[Item]
      BY <1>1, <1>6, <3>1, VramRegisters DEF WordComing
    <3>3. Writing' => ctl'.ST <= 4
      <4>1. Edge /\ PortInv
        BY DEF Clocked, VramPinInv, PinInv
      <4>2. Writing' => WriteAsked \/ Writing
        BY VramAccesses
      <4>3. Writing => ctl.ST \in 1..3
        <5>1. Writing => ctl.ST \in 1..8 /\ ctl.ST <= 4
          BY <1>6 DEF WordComing, Writing
        <5> QED
          BY <2>2, <5>1
      <4>4. /\ Writing' /\ WriteAsked => ctl'.ST = 1
            /\ Writing => /\ ctl.ST \in 2..7 => ctl'.ST = ctl.ST + 1
                          /\ ctl.ST = 1 => ctl'.ST \in {1, 2}
        BY <4>1, Before
      <4> QED
        BY <4>2, <4>3, <4>4
    <3>4. wq' # <<>> \/ (Writing' /\ ctl'.ST = 4)
      BY <1>1, <1>2, <1>6, <2>2, VramAccesses, VramWriteQueue DEF WordComing
    <3> QED
      BY <3>2, <3>3, <3>4
  <2> QED
    BY <2>1, <2>2
<1>7. ~ctl'.flag => wq' # <<>>
  <2>1. ASSUME ~ctl'.flag PROVE wq' # <<>>
    <3>1. ~ctl.flag /\ Resting /\ (fsm.write_req \/ wq # <<>>)
      BY <2>1, ScriptEdge DEF ReadScript
    <3>2. ~Writing
      BY <3>1, PhasesDiffer DEF PhasesApart, NotWriting
    <3> QED
      BY <1>1, <1>2, <3>1, <3>2, VramWriteQueue
  <2> QED
    BY <2>1
<1>8. ASSUME Item > 1
      PROVE  rq' # <<>> \/ (~NotReading' /\ wq' # <<>>)
  <2>1. CASE rq # <<>>
    BY <1>1, <2>1, ScriptEdge
  <2>2. CASE rq = <<>> /\ ~NotReading /\ (fsm.write_req \/ wq # <<>>)
    <3>1. wq' # <<>>
      <4>1. ~Writing
        BY <2>2, PhasesDiffer DEF PhasesApart, NotWriting
      <4> QED
        BY <1>1, <1>2, <2>2, <4>1, VramWriteQueue
    <3>2. Reading' \/ (Reading /\ ctl.ST = 8)
      BY <2>2, VramAccesses DEF NotReading
    <3>3. Reading /\ ctl.ST = 8 => rq' # <<>>
      <4>1. \A w : <<w>> # <<>>
        OBVIOUS
      <4> QED
        BY <1>1, <4>1, VramReadQueue
    <3> QED
      BY <3>1, <3>2, <3>3 DEF NotReading
  <2>3. CASE rq = <<>> /\ Resting /\ wq = <<>> /\ fsm.write_req
    <3>1. Len(rq) = 0
      BY <2>3
    <3>2. Pending(rPop) = 0
      <4>1. NoPops /\ FifoLag \in 1..FifoLag
        BY <2>3, ControllerAssumption DEF ReadScript
      <4> QED
        BY <4>1 DEF NoPops, Pending
    <3>3. ctl.flag
      BY <1>8 DEF ReadScript, Started
    <3>4. write_side_fifo_rusedw = 0 /\ read_side_fifo_wusedw = 0
      BY <2>3, <3>1, <3>2 DEF write_side_fifo_rusedw, read_side_fifo_wusedw
    <3>5. Quiet
      BY <1>1, <2>3, <3>3 DEF Quiet, Resting, PortAtRest
    <3>6. StartRead
      BY <3>4, <3>5 DEF StartRead, StartWrite
    <3>7. ReadAsked'
      BY <2>3, <3>6, RestingStep DEF Clocked
    <3> QED
      BY <1>2, <2>3, <3>7 DEF NotReading
  <2> QED
    BY <1>8, <2>1, <2>2, <2>3 DEF ReadScript
<1> QED
  BY <1>3, <1>4, <1>5, <1>6, <1>7, <1>8 DEF WriteScript

(* An edge while the machine waits for the word of its first read.         *)
LEMMA AwaitStep ==
  ASSUME VramInv, Clocked, In("R"), Item = 1, ~RD_LOAD', RD_ADDR' = RD_ADDR
  PROVE  Awaiting'
<1> USE DEF VramInv
<1>1. (Writing => ctl.ST # 4) /\ ~In("FR")
  <2>1. "R" # "FR" /\ "R" # "Hold1" /\ "R" # "FW"
    OBVIOUS
  <2>2. WritesOver /\ ~In("FR")
    BY <2>1 DEF WriteScript, In
  <2> QED
    BY <2>2 DEF WritesOver
<1>2. chip'.mem = chip.mem /\ ~HostPops
  BY <1>1, VramRegisters, VramReadQueue
<1>3. CASE RD_LOAD
  <2>1. rq = <<>> /\ NotReading /\ ~ReadDone
    BY <1>3 DEF FirstRead
  <2>2. NotReading' /\ rq' = <<>> /\ ~ReadDone'
    BY <1>2, <1>3, <2>1, VramAccesses, VramReadQueue DEF NotReading
  <2>3. ctl'.rRD_ADDR = RD_ADDR
    BY <1>3, VramRegisters
  <2> QED
    BY <2>2, <2>3 DEF Awaiting
<1>4. CASE ~RD_LOAD
  <2>1. Awaiting
    BY <1>4 DEF FirstRead
  <2>2. ASSUME NotReading', rq' = <<>>
        PROVE  ctl'.rRD_ADDR = RD_ADDR /\ ~ReadDone'
    <3>1. NotReading /\ ~(Reading /\ ctl.ST = 8)
      <4>1. \A w : <<w>> # <<>>
        OBVIOUS
      <4>2. ~(Reading /\ ctl.ST = 8)
        BY <1>4, <2>2, <4>1, VramReadQueue
      <4> QED
        BY <2>2, <4>2, VramAccesses DEF NotReading
    <3>2. rq = <<>>
      BY <1>2, <2>2, <3>1, VramReadQueue
    <3> QED
      BY <1>4, <2>1, <3>1, <3>2, VramRegisters, VramAccesses DEF Awaiting, NotReading
  <2>3. ASSUME ~NotReading'
        PROVE  ctl'.mADDR = RD_ADDR
    <3>1. CASE ReadAsked'
      <4>1. Resting /\ rq = <<>> /\ ctl'.mADDR = ctl.rRD_ADDR
        BY <3>1, VramAccesses
      <4>2. NotReading
        BY <4>1, PhasesDiffer DEF PhasesApart
      <4> QED
        BY <2>1, <4>1, <4>2 DEF Awaiting
    <3>2. CASE Reading'
      <4>1. ~NotReading
        BY <3>2, VramAccesses DEF NotReading
      <4> QED
        BY <2>1, <4>1, VramAccesses DEF Awaiting
    <3> QED
      BY <2>3, <3>1, <3>2 DEF NotReading
  <2>4. ASSUME rq' # <<>>
        PROVE  rq'[1] = chip'.mem[RD_ADDR]
    <3>1. CASE Reading /\ ctl.ST = 8
      <4>1. rq' = <<ctl.mDATAOUT>> /\ <<ctl.mDATAOUT>>[1] = ctl.mDATAOUT
        BY <1>4, <3>1, VramReadQueue
      <4>2. ctl.mDATAOUT = chip.mem[ctl.mADDR] /\ ctl.mADDR = RD_ADDR
        BY <2>1, <3>1 DEF Awaiting, NotReading, Carried, PipeRight
      <4> QED
        BY <1>2, <4>1, <4>2
    <3>2. CASE ~(Reading /\ ctl.ST = 8)
      <4>1. rq' = rq
        BY <1>2, <3>2, VramReadQueue
      <4> QED
        BY <1>2, <2>1, <2>4, <4>1 DEF Awaiting
    <3> QED
      BY <3>1, <3>2
  <2> QED
    BY <2>2, <2>3, <2>4 DEF Awaiting
<1> QED
  BY <1>3, <1>4

(* Both clocks are edges as the lemmas want them.                          *)
LEMMA ClocksAreEdges ==
  ASSUME VramInv, Clock100 \/ Clock50
  PROVE  Clocked
<1>1. Edge /\ WriteFifo /\ ReadFifo /\ lag' = lag
  BY DEF Clock100, Clock50
<1>2. WR_LOAD' => wq = <<>> /\ ~WriteAsked /\ (Writing => ctl.ST >= 7)
  <2>1. WR_LOAD => wq = <<>> /\ ~WriteAsked /\ (Writing => ctl.ST >= 7)
    BY LoadAlone DEF VramInv
  <2>2. CASE Clock100
    BY <2>1, <2>2 DEF Clock100, hostVars
  <2>3. CASE Clock50
    <3>1. half = 1 /\ Fsm
      BY <2>3 DEF Clock50
    <3>2. CASE PW
      <4>1. In("PW")
        BY <3>2 DEF PW
      <4>2. WritesOver
        BY <4>1 DEF VramInv, WriteScript, In
      <4>3. wq = <<>> /\ ~WriteAsked /\ (Writing => ctl.ST \in 5..8 /\ ctl.ST >= 6 + half)
        BY <4>1, <4>2 DEF WritesOver
      <4>4. Writing => ctl.ST >= 7
        BY <3>1, <4>3
      <4> QED
        BY <4>3, <4>4
    <3>3. CASE ~PW
      <4>1. WR_LOAD' => WR_LOAD
        BY <3>1, <3>3 DEF Fsm, Hold1, Hold2, W, FW, PR, R, FR, hostVars
      <4> QED
        BY <2>1, <4>1
    <3> QED
      BY <3>2, <3>3
  <2> QED
    BY <2>2, <2>3
<1> QED
  BY <1>1, <1>2 DEF Clocked

(* The script over an edge on which the state machine stands still.        *)
LEMMA HeldWrites ==
  ASSUME VramInv, Clock100
  PROVE  WriteScript'
<1> USE DEF VramInv
<1>1. /\ Clocked /\ fsm' = fsm /\ UNCHANGED hostVars /\ half = 0
      /\ WR_LOAD' = WR_LOAD /\ WR_ADDR' = WR_ADDR
  BY ClocksAreEdges DEF Clock100, hostVars
<1>2. /\ WR_LOAD <=> In("W")
      /\ In("W") => WR_ADDR = WriteAt[Item]
      /\ fsm.write_req => In("FW") /\ fsm.writedata = Datum[Item]
      /\ In("Hold1") \/ In("FW") \/ WritesOver
  BY DEF WriteScript
<1>3. ~In("Hold1") /\ ~In("FW") =>
        /\ WritesOver /\ wq' = <<>> /\ ~WriteAsked'
        /\ Writing' => Writing /\ ctl.ST \in 5..7 /\ ctl'.ST = ctl.ST + 1
  BY <1>1, <1>2, ScriptEdge
<1>4. ASSUME In("FW")
      PROVE  /\ \A k \in 1..Len(wq') : wq'[k] = Datum[Item]
             /\ Writing' /\ ctl'.ST = 4 => q' = Datum[Item]
             /\ \/ chip'.mem[WriteAt[Item]] = Datum[Item]
                \/ /\ ctl'.rWR_ADDR = WriteAt[Item]
                   /\ Writing' => ctl'.ST <= 4
                   /\ wq' # <<>> \/ (Writing' /\ ctl'.ST = 4)
  BY <1>1, <1>4, WaitStep
<1>5. (In("Hold1") \/ In("FW") \/ WritesOver)'
  <2>1. half' = 1
    BY DEF Clock100
  <2> QED
    BY <1>1, <1>3, <2>1 DEF In, WritesOver
<1>6. (In("FW") => /\ \A k \in 1..Len(wq) : wq[k] = Datum[Item]
                   /\ Writing /\ ctl.ST = 4 => q = Datum[Item]
                   /\ WordHere \/ WordComing)'
  BY <1>1, <1>4 DEF In, Item, Datum, WordHere, WordComing, WriteAt
<1>7. /\ WR_LOAD' <=> In("W")'
      /\ In("W")' => WR_ADDR' = WriteAt[Item']
      /\ fsm'.write_req => In("FW")' /\ fsm'.writedata = Datum[Item']
  BY <1>1, <1>2 DEF In, Item
<1> QED
  BY <1>5, <1>6, <1>7 DEF WriteScript, Datum, WriteAt

(* The read side of the script on such an edge.                            *)
LEMMA HeldReads ==
  ASSUME VramInv, Clock100
  PROVE  ReadScript' /\ FirstRead'
<1> USE DEF VramInv
<1>1. /\ Clocked /\ fsm' = fsm /\ UNCHANGED hostVars /\ half = 0 /\ half' = 1
      /\ RD_LOAD' = RD_LOAD /\ RD_ADDR' = RD_ADDR /\ WR_LOAD' = WR_LOAD
  BY ClocksAreEdges DEF Clock100, hostVars
<1>2. \A p : In(p)' <=> In(p)
  BY <1>1 DEF In
<1>3. Item' = Item /\ (Started' <=> Started)
  BY <1>1 DEF Item, Started, In
<1>4. RD_LOAD => In("R")
  BY DEF ReadScript
<1>5. ~ctl'.flag => Resting' /\ rq' = <<>> /\ NoPops'
  BY <1>1, ScriptEdge
<1>6. Started => ctl'.flag
  BY <1>1, VramRegisters DEF ReadScript
<1>7. ReadDone' => rq' # <<>> \/ In("R")
  BY <1>1, <1>4, ScriptEdge
<1>8. ASSUME In("Hold2") \/ In("PW") \/ In("W") \/ In("FW")
      PROVE  rq' # <<>> \/ NoPops'
  <2>1. ~In("FR") /\ ~In("R")
    BY <1>8 DEF In
  <2> QED
    BY <1>1, <1>4, <1>8, <2>1, ScriptEdge DEF ReadScript
<1>9. In("FW") /\ ~ctl'.flag => wq' # <<>>
  BY <1>1, WaitStep
<1>10. In("FW") /\ Item > 1 => rq' # <<>> \/ (~NotReading' /\ wq' # <<>>)
  BY <1>1, WaitStep
<1>11. In("PR") /\ Item = 1 => rq' # <<>>
  <2>1. In("PR") => ~In("FR") /\ ~In("R")
    BY DEF In
  <2> QED
    BY <1>1, <1>4, <2>1, ScriptEdge DEF ReadScript
<1>12. ReadScript'
  <2>1. fsm'.read_req => In("FR")
    BY <1>1 DEF ReadScript
  <2> QED
    BY <1>1, <1>2, <1>3, <1>4, <1>5, <1>6, <1>7, <1>8, <1>9, <1>10, <1>11, <2>1
       DEF ReadScript
<1>13. ASSUME In("R"), Item = 1, RD_LOAD
       PROVE  rq' = <<>> /\ NotReading' /\ ~ReadDone'
  <2>1. rq = <<>> /\ NotReading /\ ~ReadDone
    BY <1>13 DEF FirstRead
  <2> QED
    BY <1>1, <1>13, <2>1, VramAccesses, VramReadQueue DEF NotReading
<1>14. In("R") /\ Item = 1 /\ ~RD_LOAD => Awaiting'
  BY <1>1, AwaitStep
<1>15. ASSUME In("FR"), Item = 1
       PROVE  readdata' = chip'.mem[RD_ADDR]
  <2>1. fsm.read_req /\ ~RD_LOAD /\ Pending(rPush) = 0 /\ rq = <<chip.mem[RD_ADDR]>>
    BY <1>1, <1>15 DEF FirstRead
  <2>2. Len(rq) = 1 /\ rq[1] = chip.mem[RD_ADDR] /\ rq # <<>>
    BY <2>1
  <2>3. HostPops
    BY <2>1, <2>2 DEF HostPops, rd_buffer
  <2>4. ~(Reading /\ ctl.ST = 8)
    BY <2>2 DEF Carried, NotReading
  <2>5. readdata' = chip.mem[RD_ADDR]
    BY <1>1, <2>1, <2>2, <2>3, <2>4, VramReadQueue
  <2>6. Writing => ctl.ST # 4
    BY <1>15 DEF WriteScript, WritesOver, In
  <2> QED
    BY <1>1, <2>5, <2>6, VramRegisters
<1>16. FirstRead'
  <2>1. /\ DOMAIN fsm'.read_reg = Reads
        /\ (In("R") \/ In("FR")) /\ Item = 1 => RD_ADDR' = ReadAt[1]
    BY <1>1 DEF FirstRead
  <2>2. half' # 0
    BY <1>1
  <2>3. ReadAt' = ReadAt
    BY DEF ReadAt, WriteAt
  <2> QED
    BY <1>1, <1>2, <1>3, <1>13, <1>14, <1>15, <2>1, <2>2, <2>3 DEF FirstRead
<1> QED
  BY <1>12, <1>16

(* Where a move ends, and where it begins.                                 *)
LEMMA GoesTo ==
  ASSUME NEW p, NEW i, Goes(p, i)
  PROVE  Item' = i /\ \A r : In(r)' <=> r = p
  BY DEF Goes, Item, In

(* The machine is in one of its phases, with an item of that phase.        *)
LEMMA PhaseOf ==
  ASSUME FsmInv
  PROVE  /\ \/ In("Hold1") \/ In("Hold2") \/ In("PW") \/ In("W") \/ In("FW")
            \/ In("PR") \/ In("R") \/ In("FR")
         /\ In("Hold1") \/ In("Hold2") => Item = 1
         /\ In("PW") \/ In("W") \/ In("FW") => Item \in Writes
         /\ In("PR") \/ In("R") \/ In("FR") => Item \in Reads
  BY DEF FsmInv, Phases, In, Item

(* When the buffer is found empty the word has left it long enough ago to  *)
(* be in memory.                                                           *)
LEMMA WriteIsOver ==
  ASSUME VramInv, In("FW"), wr_buffer = 0, ~fsm.write_req
  PROVE  /\ wq = <<>> /\ ~WriteAsked
         /\ Writing => ctl.ST \in 5..8
         /\ WordHere
<1> USE DEF VramInv
<1>1. wq = <<>> /\ Pending(wPop) = 0
  <2>1. Len(wq) \in Nat /\ (Len(wq) = 0 => wq = <<>>)
    BY DEF Carried
  <2>2. Pending(wPop) \in Nat
    BY ControllerAssumption DEF Lines, Pending
  <2> QED
    BY <2>1, <2>2 DEF wr_buffer
<1>2. ~WriteAsked /\ (Writing => ctl.ST > 3)
  <2>1. Writing => ctl.ST \in 1..8
    BY DEF Writing
  <2> QED
    BY <1>1, <2>1 DEF Carried
<1>3. Writing => ctl.ST # 4
  <2>1. ASSUME Writing, ctl.ST = 4
        PROVE  FALSE
    <3>1. FifoLag \in 1..FifoLag /\ FifoLag \in Nat
      BY ControllerAssumption
    <3>2. lag \in Int /\ lag >= 1
      <4>1. Lags \subseteq 1..FifoLag
        BY VramAssumption
      <4> QED
        BY <3>1, <4>1 DEF Lines
    <3>3. FifoLag > FifoLag - lag + ctl.ST - 4
      BY <2>1, <3>1, <3>2
    <3>4. wPop[FifoLag] >= 1
      BY <2>1, <3>1, <3>3 DEF Lines
    <3> QED
      BY <1>1, <3>4 DEF Pending
  <2> QED
    BY <2>1
<1>4. Writing => ctl.ST \in 5..8
  <2>1. Writing => ctl.ST \in 1..8
    BY DEF Writing
  <2> QED
    BY <1>2, <1>3, <2>1
<1>5. WordHere
  BY <1>1, <1>4 DEF WriteScript, WordComing
<1> QED
  BY <1>1, <1>2, <1>4, <1>5

(* The script over an edge on which the state machine moves.               *)
LEMMA MovedWrites ==
  ASSUME VramInv, Clock50
  PROVE  WriteScript'
<1> USE DEF VramInv
<1>1. Clocked /\ Fsm /\ half = 1 /\ half' = 0 /\ FsmInv /\ DOMAIN fsm.read_reg = Reads
  BY ClocksAreEdges DEF Clock50, VramPinInv, FirstRead
<1>2. /\ WR_LOAD <=> In("W")
      /\ In("W") => WR_ADDR = WriteAt[Item]
      /\ fsm.write_req => In("FW") /\ fsm.writedata = Datum[Item]
      /\ In("Hold1") \/ In("FW") \/ WritesOver
  BY DEF WriteScript
<1>3. ~In("Hold1") /\ ~In("FW") =>
        /\ WritesOver /\ wq' = <<>> /\ ~WriteAsked'
        /\ Writing' => Writing /\ ctl.ST \in 5..7 /\ ctl'.ST = ctl.ST + 1
  BY <1>1, <1>2, ScriptEdge
<1> DEFINE Waits == /\ \A k \in 1..Len(wq) : wq[k] = Datum[Item]
                    /\ Writing /\ ctl.ST = 4 => q = Datum[Item]
                    /\ WordHere \/ WordComing
<1>4. SUFFICES /\ WR_LOAD' <=> In("W")'
               /\ In("W")' => WR_ADDR' = WriteAt[Item']
               /\ fsm'.write_req => In("FW")' /\ fsm'.writedata = Datum[Item']
               /\ In("Hold1")' \/ In("FW")' \/ WritesOver'
               /\ In("FW")' => Waits'
  BY DEF WriteScript, Datum, WriteAt
<1> HIDE DEF Waits
<1>5. ASSUME wq' = <<>>, ~WriteAsked',
             Writing' => Writing /\ ctl.ST \in 5..7 /\ ctl'.ST = ctl.ST + 1,
             In("W")' => In("PW") /\ WritesOver
      PROVE  WritesOver'
  BY <1>1, <1>5 DEF WritesOver
<1>6. CASE In("Hold1")
  <2>1. /\ Goes("Hold1", 1) \/ (Settled /\ Goes("Hold2", 1))
        /\ UNCHANGED hostVars /\ ~In("W") /\ ~In("FW") /\ fsm'.write_req = fsm.write_req
    BY <1>1, <1>6, FsmMoves DEF In
  <2>2. ~WR_LOAD' /\ ~fsm'.write_req
    BY <1>2, <2>1 DEF hostVars
  <2>3. In("Hold1")' \/ (Settled /\ In("Hold2")')
    BY <2>1, GoesTo
  <2>4. ~In("W")' /\ ~In("FW")'
    BY <2>3 DEF In
  <2>5. Settled => WritesOver'
    <3>1. PortAtRest => Resting
      BY DEF PortAtRest, PortPhase, Resting, WriteAsked, ReadAsked, Writing, Reading, ReadDone,
         ForWrite, ForRead
    <3>2. Settled => WritesOver
      BY <3>1, PhasesDiffer DEF Settled, WritesOver, PhasesApart, NotWriting
    <3> QED
      BY <1>1, <1>5, <2>1, <2>2, <2>4, <3>2, ScriptEdge
  <2> QED
    BY <2>2, <2>3, <2>4, <2>5
<1>7. CASE In("Hold2")
  <2>1. /\ Goes("Hold2", 1) \/ Goes("PW", 1)
        /\ UNCHANGED hostVars /\ ~In("W") /\ ~In("FW") /\ ~In("Hold1")
        /\ fsm'.write_req = fsm.write_req
    BY <1>1, <1>7, FsmMoves DEF In
  <2>2. In("Hold2")' \/ In("PW")'
    BY <2>1, GoesTo
  <2>3. ~In("W")' /\ ~In("FW")'
    BY <2>2 DEF In
  <2> QED
    BY <1>2, <1>3, <1>5, <2>1, <2>3 DEF hostVars
<1>8. CASE In("PW")
  <2>1. /\ Goes("W", Item) /\ WR_LOAD' /\ WR_ADDR' = WriteAt[Item]
        /\ fsm'.write_req = fsm.write_req /\ ~In("FW") /\ ~In("Hold1")
    BY <1>1, <1>8, FsmMoves DEF In
  <2>2. In("W")' /\ ~In("FW")' /\ Item' = Item
    BY <2>1, GoesTo
  <2>3. WritesOver'
    BY <1>3, <1>5, <1>8, <2>1
  <2>4. ~fsm'.write_req
    BY <1>2, <2>1
  <2> QED
    BY <2>1, <2>2, <2>3, <2>4
<1>9. CASE In("W")
  <2>1. /\ Goes("FW", Item) /\ ~WR_LOAD' /\ fsm'.write_req /\ fsm'.writedata = Datum[Item]
        /\ ~In("FW") /\ ~In("Hold1")
    BY <1>1, <1>9, FsmMoves DEF In
  <2>2. In("FW")' /\ ~In("W")' /\ Item' = Item
    BY <2>1, GoesTo
  <2>3. wq' = <<>> /\ NotWriting' /\ ctl'.rWR_ADDR = WriteAt[Item]
    <3>1. ~Writing
      BY <1>1, <1>3, <1>9, <2>1 DEF WritesOver
    <3> QED
      BY <1>1, <1>2, <1>3, <1>9, <2>1, <3>1, VramRegisters DEF NotWriting
  <2>4. Waits'
    <3>1. Len(wq') = 0
      BY <2>3
    <3>2. WordComing'
      BY <2>1, <2>2, <2>3 DEF WordComing, NotWriting, WriteAt
    <3> QED
      BY <2>3, <3>1, <3>2 DEF Waits, NotWriting
  <2> QED
    BY <2>1, <2>2, <2>4
<1>10. CASE In("FW")
  <2>1. /\ \/ Goes("FW", Item)
           \/ wr_buffer = 0 /\ ~fsm.write_req /\ GoesOn
        /\ ~fsm'.write_req /\ UNCHANGED hostVars /\ ~In("W")
    BY <1>1, <1>10, FsmMoves DEF In
  <2>2. ~WR_LOAD'
    BY <1>2, <2>1 DEF hostVars
  <2>3. CASE Goes("FW", Item)
    <3>1. In("FW")' /\ ~In("W")' /\ Item' = Item
      BY <2>3, GoesTo
    <3>2. Waits'
      BY <1>1, <1>10, <2>1, <3>1, WaitStep DEF Waits, Datum, WordHere, WordComing, WriteAt
    <3> QED
      BY <2>1, <2>2, <3>1, <3>2
  <2>4. CASE wr_buffer = 0 /\ ~fsm.write_req /\ GoesOn
    <3>1. In("PR")' \/ In("PW")'
      BY <2>4, GoesTo DEF GoesOn
    <3>2. ~In("W")' /\ ~In("FW")'
      BY <3>1 DEF In
    <3>3. wq = <<>> /\ ~WriteAsked /\ (Writing => ctl.ST \in 5..8)
      BY <1>10, <2>4, WriteIsOver
    <3>4. wq' = <<>> /\ ~WriteAsked'
      BY <1>1, <2>4, <3>3, VramAccesses, VramWriteQueue
    <3>5. Writing' => Writing /\ ctl.ST \in 5..7 /\ ctl'.ST = ctl.ST + 1
      <4>1. Writing' => Writing /\ ctl.ST < 8
        BY <1>1, <3>3, VramAccesses
      <4>2. ASSUME Writing' PROVE ctl.ST \in 5..7
        BY <3>3, <4>1, <4>2
      <4>3. Edge /\ PortInv
        BY <1>1 DEF Clocked, VramPinInv, PinInv
      <4> QED
        BY <4>1, <4>2, <4>3, Before
    <3>6. WritesOver'
      BY <1>5, <3>2, <3>4, <3>5
    <3> QED
      BY <2>1, <2>2, <3>2, <3>6
  <2> QED
    BY <2>1, <2>3, <2>4
<1>11. CASE In("PR") \/ In("R") \/ In("FR")
  <2>1. ~In("W") /\ ~In("FW") /\ ~In("Hold1")
    BY <1>11 DEF In
  <2>2. /\ \/ Goes("PR", Item) \/ Goes("R", Item) \/ Goes("FR", Item)
           \/ Goes("Hold1", 1) \/ Goes("PR", 2)
        /\ WR_LOAD' = WR_LOAD
    <3>1. UNCHANGED hostVars => WR_LOAD' = WR_LOAD
      BY DEF hostVars
    <3> QED
      BY <1>1, <1>11, <3>1, FsmMoves
  <2>3. fsm'.write_req = fsm.write_req
    BY <1>1, <2>1, FsmMoves
  <2>4. In("PR")' \/ In("R")' \/ In("FR")' \/ In("Hold1")'
    BY <2>2, GoesTo
  <2>5. ~In("W")' /\ ~In("FW")'
    BY <2>4 DEF In
  <2> QED
    BY <1>2, <1>3, <1>5, <2>1, <2>2, <2>3, <2>5
<1> QED
  BY <1>1, <1>6, <1>7, <1>8, <1>9, <1>10, <1>11, PhaseOf

(* The read side of the script on such an edge.                            *)
LEMMA MovedReads ==
  ASSUME VramInv, Clock50
  PROVE  ReadScript' /\ FirstRead'
<1> USE DEF VramInv
<1>1. Clocked /\ Fsm /\ half = 1 /\ half' = 0 /\ FsmInv /\ DOMAIN fsm.read_reg = Reads
  BY ClocksAreEdges DEF Clock50, VramPinInv, FirstRead
<1>2. /\ RD_LOAD => In("R")
      /\ fsm.read_req => In("FR")
      /\ Started => ctl.flag
  BY DEF ReadScript
<1>3. DOMAIN fsm'.read_reg = Reads
  BY <1>1, FsmMoves
<1>4. ~ctl'.flag => ~ctl.flag /\ Resting' /\ rq' = <<>> /\ NoPops'
  BY <1>1, ScriptEdge
<1> DEFINE Keeps == rq' # <<>> \/ NoPops'
           After == /\ Started' => ctl'.flag
                    /\ RD_LOAD' => In("R")'
                    /\ fsm'.read_req => In("FR")'
                    /\ ReadDone' => rq' # <<>> \/ In("R")' \/ In("Hold1")'
                    /\ In("Hold2")' \/ In("PW")' \/ In("W")' \/ In("FW")' => Keeps
                    /\ In("FW")' /\ ~ctl'.flag => fsm'.write_req \/ wq' # <<>>
                    /\ In("FW")' /\ Item' > 1 =>
                         \/ rq' # <<>>
                         \/ ~NotReading' /\ (fsm'.write_req \/ wq' # <<>>)
                         \/ Resting' /\ fsm'.write_req /\ wq' = <<>>
                    /\ In("PR")' /\ Item' = 1 => rq' # <<>>
           First == /\ (In("R")' \/ In("FR")') /\ Item' = 1 => RD_ADDR' = ReadAt[1]
                    /\ In("R")' /\ Item' = 1 /\ RD_LOAD' =>
                         rq' = <<>> /\ NotReading' /\ ~ReadDone'
                    /\ In("R")' /\ Item' = 1 /\ ~RD_LOAD' => Awaiting'
                    /\ In("FR")' /\ Item' = 1 =>
                         /\ fsm'.read_req /\ ~RD_LOAD' /\ Pending(rPush') = 0
                         /\ rq' = <<chip'.mem[RD_ADDR']>>
<1>5. SUFFICES After /\ First
  <2>1. After => ReadScript'
    BY <1>1, <1>4 DEF ReadScript
  <2>2. First => FirstRead'
    BY <1>1, <1>3 DEF FirstRead, ReadAt, WriteAt
  <2> QED
    BY <2>1, <2>2
<1>6. ASSUME ~In("FR"), ~In("R"), ~RD_LOAD'
      PROVE  /\ rq # <<>> => rq' # <<>>
             /\ rq # <<>> \/ NoPops => Keeps
             /\ ReadDone' => rq' # <<>>
             /\ ~fsm'.read_req
  <2>1. ~RD_LOAD /\ ~fsm.read_req
    BY <1>2, <1>6
  <2> QED
    BY <1>1, <1>6, <2>1, ScriptEdge, FsmMoves
<1>7. ctl.flag => ctl'.flag
  BY <1>1, VramRegisters
<1>8. CASE In("Hold1")
  <2>1. /\ Goes("Hold1", 1) \/ (Settled /\ Goes("Hold2", 1))
        /\ UNCHANGED hostVars /\ ~In("R") /\ ~In("FR")
    BY <1>1, <1>8, FsmMoves DEF In
  <2>2. ~RD_LOAD'
    BY <1>2, <2>1 DEF hostVars
  <2>3. In("Hold1")' \/ (Settled /\ In("Hold2")')
    BY <2>1, GoesTo
  <2>4. /\ ~In("PW")' /\ ~In("W")' /\ ~In("FW")' /\ ~In("PR")' /\ ~In("R")' /\ ~In("FR")'
        /\ ~In("Hold1")' \/ ~In("Hold2")'
    BY <2>3 DEF In
  <2>5. Settled => Keeps
    BY <1>6, <2>1, <2>2 DEF Settled, ReadScript
  <2>6. ~Started'
    BY <2>4 DEF Started
  <2> QED
    BY <1>6, <2>1, <2>2, <2>3, <2>4, <2>5, <2>6
<1>9. CASE In("Hold2")
  <2>1. /\ Goes("Hold2", 1) \/ Goes("PW", 1)
        /\ UNCHANGED hostVars /\ ~In("R") /\ ~In("FR")
    BY <1>1, <1>9, FsmMoves DEF In
  <2>2. ~RD_LOAD'
    BY <1>2, <2>1 DEF hostVars
  <2>3. (In("Hold2")' \/ In("PW")') /\ Item' = 1
    BY <2>1, GoesTo
  <2>4. ~In("W")' /\ ~In("FW")' /\ ~In("PR")' /\ ~In("R")' /\ ~In("FR")'
    BY <2>3 DEF In
  <2>5. Keeps
    BY <1>6, <1>9, <2>1, <2>2 DEF ReadScript
  <2>6. ~Started'
    BY <2>3, <2>4 DEF Started
  <2> QED
    BY <1>6, <2>1, <2>2, <2>4, <2>5, <2>6
<1>10. CASE In("PW")
  <2>1. /\ Goes("W", Item) /\ UNCHANGED <<RD_LOAD, RD_ADDR>>
        /\ ~In("R") /\ ~In("FR") /\ ~RD_LOAD'
    <3>1. ~In("R") /\ ~In("FR")
      BY <1>10 DEF In
    <3> QED
      BY <1>1, <1>2, <1>10, <3>1, FsmMoves
  <2>2. Item' = Item /\ \A p : In(p)' <=> p = "W"
    BY <2>1, GoesTo
  <2>3. /\ ~In("PW")' /\ ~In("FW")' /\ ~In("PR")' /\ ~In("R")' /\ ~In("FR")'
        /\ Started' => Started
    BY <1>10, <2>2 DEF Started
  <2> QED
    BY <1>2, <1>6, <1>7, <1>10, <2>1, <2>3 DEF ReadScript
<1>11. CASE In("W")
  <2>1. /\ Goes("FW", Item) /\ UNCHANGED <<RD_LOAD, RD_ADDR>> /\ fsm'.write_req
        /\ ~In("R") /\ ~In("FR") /\ ~RD_LOAD' /\ ~RD_LOAD
    <3>1. ~In("R") /\ ~In("FR")
      BY <1>11 DEF In
    <3> QED
      BY <1>1, <1>2, <1>11, <3>1, FsmMoves
  <2>2. Item' = Item /\ \A p : In(p)' <=> p = "FW"
    BY <2>1, GoesTo
  <2>3. /\ ~In("PR")' /\ ~In("R")' /\ ~In("FR")'
        /\ Started' => Started
    BY <1>11, <2>2 DEF Started
  <2>4. Keeps /\ (Started' => ctl'.flag)
    BY <1>2, <1>6, <1>7, <1>11, <2>1, <2>3 DEF ReadScript
  <2>5. \/ rq' # <<>>
        \/ ~NotReading'
        \/ Resting' /\ wq' = <<>>
    <3>1. WR_LOAD /\ NotWriting /\ wq' = <<>>
      <4>1. WR_LOAD
        BY <1>11 DEF WriteScript
      <4>2. ~fsm.write_req
        BY <1>11 DEF WriteScript, In
      <4> QED
        BY <1>1, <4>1, <4>2, LoadAlone, VramWriteQueue DEF NotWriting
    <3>2. CASE rq # <<>>
      BY <1>6, <2>1, <3>2
    <3>3. CASE rq = <<>> /\ ReadAsked
      BY <1>1, <3>3, VramAccesses DEF NotReading
    <3>4. CASE rq = <<>> /\ Reading
      <4>1. \A w : <<w>> # <<>>
        OBVIOUS
      <4> QED
        BY <1>1, <2>1, <3>4, <4>1, VramAccesses, VramReadQueue DEF NotReading
    <3>5. CASE rq = <<>> /\ ReadDone
      BY <1>11, <3>5 DEF ReadScript, In
    <3>6. CASE rq = <<>> /\ Resting
      <4>1. ~Quiet
        BY <3>1 DEF Quiet
      <4>2. Resting'
        BY <1>1, <3>6, <4>1, RestingStep DEF Clocked, StartWrite, StartRead
      <4> QED
        BY <3>1, <4>2
    <3> QED
      BY <3>1, <3>2, <3>3, <3>4, <3>5, <3>6 DEF PortPhase, NotWriting
  <2> QED
    BY <1>6, <2>1, <2>3, <2>4, <2>5
<1>12. CASE In("FW")
  <2>1. /\ \/ Goes("FW", Item)
           \/ wr_buffer = 0 /\ ~fsm.write_req /\ GoesOn
        /\ ~fsm'.write_req /\ UNCHANGED hostVars /\ ~In("R") /\ ~In("FR")
    BY <1>1, <1>12, FsmMoves DEF In
  <2>2. ~RD_LOAD'
    BY <1>2, <2>1 DEF hostVars
  <2>3. Keeps
    BY <1>6, <1>12, <2>1, <2>2 DEF ReadScript
  <2>4. CASE Goes("FW", Item)
    <3>1. Item' = Item /\ \A p : In(p)' <=> p = "FW"
      BY <2>4, GoesTo
    <3>2. /\ ~In("PR")' /\ ~In("R")' /\ ~In("FR")'
          /\ Started' => Started
      BY <1>12, <3>1 DEF Started
    <3>3. /\ ~ctl'.flag => wq' # <<>>
          /\ Item > 1 => rq' # <<>> \/ (~NotReading' /\ wq' # <<>>)
      BY <1>1, <1>12, <2>1, WaitStep
    <3> QED
      BY <1>2, <1>6, <1>7, <2>1, <2>2, <2>3, <3>1, <3>2, <3>3
  <2>5. CASE wr_buffer = 0 /\ ~fsm.write_req /\ GoesOn
    <3>1. wq = <<>> /\ ctl'.flag
      <4>1. wq = <<>>
        BY <1>12, <2>5, WriteIsOver
      <4>2. ctl.flag
        BY <1>12, <2>5, <4>1 DEF ReadScript
      <4> QED
        BY <1>7, <4>1, <4>2
    <3>2. /\ In("PR")' \/ In("PW")'
          /\ ~In("W")' /\ ~In("FW")' /\ ~In("R")' /\ ~In("FR")'
      <4>1. In("PR")' \/ In("PW")'
        BY <2>5, GoesTo DEF GoesOn
      <4> QED
        BY <4>1 DEF In
    <3>3. In("PR")' => rq' # <<>>
      <4>1. Goes("PW", Item + 1) => ~In("PR")'
        BY GoesTo
      <4>2. Item = 4 => rq # <<>>
        BY <1>12, <2>5, <3>1 DEF ReadScript
      <4> QED
        BY <1>6, <2>1, <2>2, <2>5, <4>1, <4>2 DEF GoesOn
    <3> QED
      BY <1>6, <2>1, <2>2, <2>3, <3>1, <3>2, <3>3
  <2> QED
    BY <2>1, <2>4, <2>5
<1>13. CASE In("PR")
  <2>1. /\ \/ Goes("PR", Item) /\ UNCHANGED hostVars
           \/ Goes("R", Item) /\ RD_LOAD' /\ RD_ADDR' = ReadAt[Item]
        /\ fsm'.read_req = fsm.read_req /\ ~In("R") /\ ~In("FR")
    BY <1>1, <1>13, FsmMoves DEF In
  <2>2. ctl'.flag /\ ~fsm'.read_req
    BY <1>2, <1>7, <1>13, <2>1 DEF Started
  <2>3. Item = 1 => rq # <<>>
    BY <1>13 DEF ReadScript
  <2>4. CASE Goes("PR", Item) /\ UNCHANGED hostVars
    <3>1. ~RD_LOAD'
      BY <1>2, <2>1, <2>4 DEF hostVars
    <3>2. Item' = Item /\ \A p : In(p)' <=> p = "PR"
      BY <2>4, GoesTo
    <3>3. /\ ~In("Hold2")' /\ ~In("PW")' /\ ~In("W")' /\ ~In("FW")' /\ ~In("R")'
          /\ ~In("FR")'
      BY <3>2
    <3> QED
      BY <1>6, <2>1, <2>2, <2>3, <3>1, <3>2, <3>3
  <2>5. CASE Goes("R", Item) /\ RD_LOAD' /\ RD_ADDR' = ReadAt[Item]
    <3>1. Item' = Item /\ \A p : In(p)' <=> p = "R"
      BY <2>5, GoesTo
    <3>2. /\ ~In("Hold2")' /\ ~In("PW")' /\ ~In("W")' /\ ~In("FW")' /\ ~In("PR")'
          /\ ~In("FR")' /\ In("R")'
      BY <3>1
    <3>3. rq' = <<>>
      BY <1>1, <2>5, VramReadQueue
    <3>4. Item = 1 => NotReading' /\ ~ReadDone'
      BY <1>1, <2>3, ScriptEdge
    <3> QED
      BY <2>2, <2>5, <3>1, <3>2, <3>3, <3>4
  <2> QED
    BY <2>1, <2>4, <2>5
<1>14. CASE In("R")
  <2>1. /\ \/ Goes("R", Item) /\ fsm'.read_req = fsm.read_req
           \/ rd_buffer = 1 /\ Goes("FR", Item) /\ fsm'.read_req
        /\ ~RD_LOAD' /\ RD_ADDR' = RD_ADDR /\ ~In("FR")
    BY <1>1, <1>14, FsmMoves DEF In
  <2>2. ctl'.flag
    BY <1>2, <1>7, <1>14 DEF Started
  <2>3. Item = 1 => RD_ADDR = ReadAt[1]
    BY <1>14 DEF FirstRead
  <2>4. CASE Goes("R", Item) /\ fsm'.read_req = fsm.read_req
    <3>1. Item' = Item /\ \A p : In(p)' <=> p = "R"
      BY <2>4, GoesTo
    <3>2. /\ ~In("Hold2")' /\ ~In("PW")' /\ ~In("W")' /\ ~In("FW")' /\ ~In("PR")'
          /\ ~In("FR")' /\ In("R")'
      BY <3>1
    <3>3. Item = 1 => Awaiting'
      BY <1>1, <1>14, <2>1, AwaitStep
    <3> QED
      BY <1>2, <2>1, <2>2, <2>3, <2>4, <3>1, <3>2, <3>3
  <2>5. CASE rd_buffer = 1 /\ Goes("FR", Item) /\ fsm'.read_req
    <3>1. Item' = Item /\ \A p : In(p)' <=> p = "FR"
      BY <2>5, GoesTo
    <3>2. /\ ~In("Hold2")' /\ ~In("PW")' /\ ~In("W")' /\ ~In("FW")' /\ ~In("PR")'
          /\ ~In("R")' /\ In("FR")'
      BY <3>1
    <3>3. rq = <<rq[1]>> /\ rq # <<>> /\ Pending(rPush) = 0
      <4>1. Len(rq) \in {0, 1} /\ (Len(rq) = 0 <=> rq = <<>>)
        <5>1. Len(<<>>) = 0 /\ Len(<<rq[1]>>) = 1
          OBVIOUS
        <5> QED
          BY <5>1 DEF Carried
      <4>2. Pending(rPush) \in Nat
        BY ControllerAssumption DEF Lines, Pending
      <4>3. Len(rq) > Pending(rPush) /\ Len(rq) - Pending(rPush) = 1
        BY <2>5, <4>1, <4>2 DEF rd_buffer
      <4>4. Len(rq) = 1 /\ Pending(rPush) = 0
        <5>1. \A n \in {0, 1}, m \in Nat : n > m /\ n - m = 1 => n = 1 /\ m = 0
          OBVIOUS
        <5> QED
          BY <4>1, <4>2, <4>3, <5>1
      <4> QED
        BY <4>1, <4>4 DEF Carried
    <3>4. rq' = rq /\ ~ReadDone' /\ Pending(rPush') = 0
      <4>1. ~(Reading /\ ctl.ST = 8)
        BY <3>3 DEF Carried, NotReading
      <4> QED
        BY <1>1, <2>1, <3>3, <4>1, ScriptEdge, LinesStep
    <3>5. chip'.mem = chip.mem
      <4>1. Writing => ctl.ST # 4
        BY <1>14 DEF WriteScript, WritesOver, In
      <4> QED
        BY <1>1, <4>1, VramRegisters
    <3>6. Item = 1 => rq[1] = chip.mem[RD_ADDR]
      <4>1. Item = 1 => ~RD_LOAD
        BY <1>14, <3>3 DEF FirstRead
      <4> QED
        BY <1>14, <3>3, <4>1 DEF FirstRead, Awaiting
    <3> QED
      BY <2>1, <2>2, <2>3, <2>5, <3>1, <3>2, <3>3, <3>4, <3>5, <3>6
  <2> QED
    BY <2>1, <2>4, <2>5
<1>15. CASE In("FR")
  <2>1. /\ Goes("Hold1", 1) \/ Goes("PR", 2)
        /\ ~fsm'.read_req /\ UNCHANGED hostVars /\ ~In("R")
    BY <1>1, <1>15, FsmMoves DEF In
  <2>2. ~RD_LOAD' /\ ~RD_LOAD
    BY <1>2, <2>1 DEF hostVars
  <2>3. ctl'.flag
    BY <1>2, <1>7, <1>15 DEF Started
  <2>4. In("Hold1")' \/ (In("PR")' /\ Item' = 2)
    BY <2>1, GoesTo
  <2>5. ~In("Hold2")' /\ ~In("PW")' /\ ~In("W")' /\ ~In("FW")' /\ ~In("R")' /\ ~In("FR")'
    BY <2>4 DEF In
  <2>6. ReadDone' => rq' # <<>>
    BY <1>1, <2>2, ScriptEdge
  <2>7. ~(In("PR")' /\ Item' = 1)
    <3>1. ~In("PR")' \/ ~In("Hold1")'
      BY DEF In
    <3> QED
      BY <2>4, <3>1
  <2> QED
    BY <2>1, <2>2, <2>3, <2>5, <2>6, <2>7
<1> QED
  BY <1>1, <1>8, <1>9, <1>10, <1>11, <1>12, <1>13, <1>14, <1>15, PhaseOf

(* The invariant holds at power-up and after every step, Resets included.  *)
LEMMA VramInvInit == VramInit => VramInv
<1> SUFFICES ASSUME VramInit PROVE VramInv
  OBVIOUS
<1>1. Init /\ fsm = Defaults /\ lag \in Lags /\ wPop = NoEvents /\ rPush = NoEvents
  BY DEF VramInit
<1>2. VramPinInv /\ PortPhase /\ Directed
  BY <1>1, VramPinInit, PhaseInit, DirectedInit
<1>3. /\ wPush = NoEvents /\ rPop = NoEvents /\ wq = <<>> /\ rq = <<>>
      /\ ~WR_LOAD /\ ~RD_LOAD /\ chip = PoweredUp
  BY <1>1 DEF Init
<1>4. Resting
  BY <1>1 DEF Init, Resting, PortAtRest, NoMarks
<1>5. NotWriting /\ NotReading /\ ~ReadDone /\ ~Writing /\ ~Reading
  BY <1>4, PhasesDiffer DEF PhasesApart, NotWriting, NotReading
<1>6. /\ In("Hold1") /\ Item = 1 /\ ~fsm.write_req /\ ~fsm.read_req
      /\ DOMAIN fsm.read_reg = Reads
  BY <1>1 DEF In, Item, Defaults, Reads
<1>7. \A p : In(p) <=> p = "Hold1"
  BY <1>6 DEF In
<1>8. Lines
  BY <1>1, <1>3, <1>5, NothingEntered DEF Lines
<1>9. Carried
  <2>1. DOMAIN chip.mem = Cells
    BY <1>3 DEF PoweredUp
  <2> QED
    BY <1>3, <1>5, <2>1 DEF Carried, NotWriting, NotReading, Unmasked, PipeRight
<1>10. WriteScript
  BY <1>3, <1>6, <1>7 DEF WriteScript
<1>11. ReadScript
  BY <1>3, <1>4, <1>5, <1>6, <1>7, NothingEntered DEF ReadScript, Started, NoPops
<1>12. FirstRead
  BY <1>6, <1>7 DEF FirstRead
<1> QED
  BY <1>2, <1>8, <1>9, <1>10, <1>11, <1>12 DEF VramInv

LEMMA VramInvStep == VramInv /\ [VramNext]_vramVars => VramInv'
<1> SUFFICES ASSUME VramInv, [VramNext]_vramVars PROVE VramInv'
  OBVIOUS
<1> USE DEF VramInv
<1>1. VramPinInv'
  BY VramPinStep
<1>2. CASE Clock100 \/ Clock50
  <2>1. Clocked /\ Edge /\ PinInv /\ PortInv
    BY <1>2, ClocksAreEdges DEF Clocked, VramPinInv, PinInv
  <2>2. PinInv' /\ {WR_ADDR', RD_ADDR'} \subseteq 0..MAX_ADDR
    BY <1>1 DEF VramPinInv, PinInv, PortInv
  <2>3. PortPhase' /\ Directed'
    BY <2>1, <2>2, PhaseStep, DirectedStep
  <2>4. Lines' /\ Carried'
    BY <2>1, LinesStep, CarriedStep
  <2>5. WriteScript' /\ ReadScript' /\ FirstRead'
    BY <1>2, HeldWrites, HeldReads, MovedWrites, MovedReads
  <2> QED
    BY <1>1, <2>3, <2>4, <2>5
<1>3. ASSUME UNCHANGED <<coreVars, wq, rq, wPush, rPop, wPop, rPush, lag>>
      PROVE  PortPhase' /\ Directed' /\ Lines' /\ Carried'
  <2>1. UNCHANGED coreVars
    BY <1>3
  <2>2. PortPhase' /\ Directed'
    BY <2>1, PhaseStays, DirectedStays
  <2>3. Lines' /\ Carried'
    BY <1>3 DEF coreVars, Lines, Carried, Writing, Reading, WriteAsked, ReadAsked, NotReading,
       ForWrite, ForRead, NoMarks, Unmasked, PipeRight
  <2> QED
    BY <2>2, <2>3
<1>4. CASE Reset
  <2>1. UNCHANGED <<coreVars, wq, rq, wPush, rPop, wPop, rPush, lag>>
    BY <1>4 DEF Reset
  <2>2. /\ fsm' = [Defaults EXCEPT !.read_reg = fsm.read_reg]
        /\ ~WR_LOAD' /\ ~RD_LOAD'
    BY <1>4 DEF Reset
  <2>3. /\ fsm'.state = <<"Hold1", 1>> /\ ~fsm'.write_req /\ ~fsm'.read_req
        /\ DOMAIN fsm'.read_reg = Reads
    BY <2>2 DEF Defaults, FirstRead
  <2>4. \A p : In(p)' <=> p = "Hold1"
    BY <2>3 DEF In
  <2>5. WriteScript'
    BY <2>2, <2>3, <2>4 DEF WriteScript
  <2>6. /\ NoPops' <=> NoPops
        /\ Resting' <=> Resting
        /\ rq' = rq /\ ctl' = ctl
    BY <2>1 DEF coreVars, NoPops, Resting, PortAtRest, NoMarks
  <2>7. ReadScript'
    BY <2>2, <2>3, <2>4, <2>6 DEF ReadScript, Started
  <2>8. FirstRead'
    BY <2>3, <2>4 DEF FirstRead
  <2> QED
    BY <1>1, <1>3, <2>1, <2>5, <2>7, <2>8
<1>5. CASE UNCHANGED vramVars
  <2>1. UNCHANGED <<coreVars, wq, rq, wPush, rPop, wPop, rPush, lag>>
    BY <1>5 DEF vramVars, vars
  <2>2. UNCHANGED <<ctl, chip, q, wq, rq, rPop, rPush, fsm, half, readdata,
                    WR_LOAD, RD_LOAD, WR_ADDR, RD_ADDR>>
    BY <1>5 DEF vramVars, vars, coreVars, hostVars
  <2>3. /\ Writing' <=> Writing
        /\ WriteAsked' <=> WriteAsked
        /\ NotReading' <=> NotReading
        /\ ReadDone' <=> ReadDone
        /\ Resting' <=> Resting
        /\ \A p : In(p)' <=> In(p)
        /\ Item' = Item
    BY <2>2 DEF Writing, WriteAsked, NotReading, Reading, ReadAsked, ReadDone, Resting,
       PortAtRest, ForWrite, ForRead, NoMarks, In, Item
  <2>4. WriteScript'
    BY <2>2, <2>3 DEF WriteScript, WritesOver, WordHere, WordComing, WriteAt, Datum
  <2>5. ReadScript'
    BY <2>2, <2>3 DEF ReadScript, Started, NoPops
  <2>6. FirstRead'
    BY <2>2, <2>3 DEF FirstRead, NotWriting, Awaiting, ReadAt, WriteAt, Pending
  <2> QED
    BY <1>1, <1>3, <2>1, <2>4, <2>5, <2>6
<1> QED
  BY <1>2, <1>4, <1>5 DEF VramNext

LEMMA VramAlways == VramSpec => []VramInv
  BY VramInvInit, VramInvStep, PTL DEF VramSpec

(* When the state machine goes on from the word it waits for, the word is  *)
(* in memory at its address (tetris.sv, FWA .. FWD): the empty buffer it   *)
(* waits for is older than the clocks that carry the word to the chip.     *)
THEOREM WordsWritten == VramSpec => WordWritten
<1>1. ASSUME VramInv, VramNext, In("FW"), fsm'.state[1] \in {"PW", "PR"}
      PROVE  chip.mem[WriteAt[Item]] = Datum[Item]
  <2>1. Fsm /\ FsmInv /\ DOMAIN fsm.read_reg = Reads
    <3>1. ~Clock100
      BY <1>1 DEF Clock100, In
    <3>2. ~Reset
      <4>1. Reset => fsm'.state[1] = "Hold1"
        BY DEF Reset, Defaults
      <4> QED
        BY <1>1, <4>1
    <3> QED
      BY <1>1, <3>1, <3>2 DEF VramNext, Clock50, VramInv, VramPinInv, FirstRead
  <2>2. ~Goes("FW", Item)
    BY <1>1 DEF Goes
  <2>3. wr_buffer = 0 /\ ~fsm.write_req
    BY <1>1, <2>1, <2>2, FsmMoves
  <2> QED
    BY <1>1, <2>3, WriteIsOver DEF WordHere
<1>2. VramInv /\ [VramNext]_vramVars =>
        [In("FW") /\ fsm'.state[1] \in {"PW", "PR"}
           => chip.mem[WriteAt[Item]] = Datum[Item]]_vramVars
  BY <1>1
<1> QED
  BY <1>2, VramAlways, PTL DEF VramSpec, WordWritten

(* The first word captured is the one at the address loaded for it         *)
(* (tetris.sv, PRA .. FRA), whatever the controller had read ahead.        *)
THEOREM FirstReadCorrect == VramSpec => FirstReadRight
<1>1. ASSUME VramInv, VramNext, In("FR"), Item = 1, fsm'.state[1] = "PR"
      PROVE  fsm'.read_reg[1] = chip.mem[RD_ADDR]
  <2>1. Clock50
    <3>1. ~Clock100
      BY <1>1 DEF Clock100, In
    <3>2. ~Reset
      <4>1. Reset => fsm'.state[1] = "Hold1"
        BY DEF Reset, Defaults
      <4> QED
        BY <1>1, <4>1
    <3> QED
      BY <1>1, <3>1, <3>2 DEF VramNext
  <2>2. Fsm /\ half = 1 /\ FsmInv /\ DOMAIN fsm.read_reg = Reads
    BY <1>1, <2>1 DEF Clock50, VramInv, VramPinInv, FirstRead
  <2>3. fsm'.read_reg[1] = readdata
    BY <1>1, <2>2, FsmMoves
  <2>4. readdata = chip.mem[RD_ADDR]
    BY <1>1, <2>2 DEF VramInv, FirstRead
  <2> QED
    BY <2>3, <2>4
<1>2. VramInv /\ [VramNext]_vramVars =>
        [In("FR") /\ Item = 1 /\ fsm'.state[1] = "PR"
           => fsm'.read_reg[1] = chip.mem[RD_ADDR]]_vramVars
  BY <1>1
<1> QED
  BY <1>2, VramAlways, PTL DEF VramSpec, FirstReadRight

==============================================================================
