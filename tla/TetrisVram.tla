----------------------------- MODULE TetrisVram ------------------------------
(***************************************************************************)
(* The host of the SDRAM controller, src/pong/tetris.sv, composed with it  *)
(* the way lab62.sv does: a state machine on the 50 MHz clock that writes  *)
(* four words and reads two of them back after a key was pressed.  The     *)
(* FIFOs' host side runs on pll_clk, 100 MHz like the controller, so every *)
(* clock of the state machine is two of theirs.  What one side of a FIFO   *)
(* does reaches the other side's word count some clocks later: lag.        *)
(*                                                                         *)
(* The FIFO clear inputs act at once; both PLLs are taken to run in phase. *)
(***************************************************************************)
EXTENDS SdramController

CONSTANTS Lags,     \* possible values of lag, at most FifoLag
          ResetIn   \* bound: phases of the state machine Reset interrupts

VARIABLES
  half,        \* 1: the next 100 MHz edge is a 50 MHz edge, too
  fsm,         \* registers of tetris.sv
  readdata,    \* output register of the read FIFO
  wPop, rPush, \* controller's pops and pushes the host has not seen yet
  lag          \* clocks from one side of a FIFO to the other

vramVars == <<vars, half, fsm, readdata, wPop, rPush, lag>>

(* PWA, WA, FWA are <<"PW", 1>>, <<"W", 1>>, <<"FW", 1>> here, and so on.  *)
(* Each address stands for one in a row (page) of its own.                 *)
Writes == 1..4
Reads == 1..2
WriteAt == [i \in Writes |-> i * PageSize]  \* 5653, 81DE, C0A9, 0E08
Datum == [i \in Writes |-> i]               \* 6293, 460F, 12C4, 7D59
ReadAt == <<WriteAt[4], WriteAt[2]>>

ASSUME VramAssumption ==
  /\ PageSize \geq 4 /\ PageCount >= 5 /\ MAX_ADDR >= 5 * PageSize
  /\ Lags \subseteq 1..FifoLag /\ Lags # {} /\ Words = Writes

(* An event enters a line at lag clocks from its end.                      *)
Enter(line, n) ==
  [i \in 1..FifoLag |-> Shift(line)[i] + IF i > FifoLag - lag THEN n ELSE 0]

wr_buffer == Len(wq) + Pending(wPop)
rd_buffer == IF Len(rq) > Pending(rPush) THEN Len(rq) - Pending(rPush) ELSE 0

Defaults == [state |-> <<"Hold1", 1>>, write_counter |-> 0,
             write_req |-> FALSE, read_req |-> FALSE, writedata |-> 0,
             read_reg |-> <<0, 0>>]

VramInit ==
  /\ Init
  /\ half = 0 /\ fsm = Defaults /\ readdata = 0
  /\ wPop = NoEvents /\ rPush = NoEvents
  /\ lag \in Lags

-----------------------------------------------------------------------------
In(phase) == fsm.state[1] = phase
Item == fsm.state[2]

PortAtRest == /\ ctl.ST = 0 /\ ~ctl.mWR /\ ~ctl.mRD
              /\ ~ctl.WR_MASK /\ ~ctl.RD_MASK

(* A finger is slower than the controller: whatever a Reset interrupted    *)
(* has come to its end before the key is pressed again.                    *)
Settled == PoweredUpDone /\ PortAtRest /\ wq = <<>> /\ (ctl.flag => rq # <<>>)

Hold1 ==  \* key pressed or not
  /\ In("Hold1")
  /\ \/ Settled /\ fsm' = [fsm EXCEPT !.state = <<"Hold2", 1>>]
     \/ UNCHANGED fsm
  /\ UNCHANGED hostVars

Hold2 ==  \* key released or not
  /\ In("Hold2")
  /\ fsm' = [fsm EXCEPT !.state = <<"PW", 1>>] \/ UNCHANGED fsm
  /\ UNCHANGED hostVars

PW ==  \* PWA .. PWD: clear the buffer and load the address
  /\ In("PW")
  /\ WR_LOAD' = TRUE /\ WR_ADDR' = WriteAt[Item]
  /\ fsm' = [fsm EXCEPT !.state[1] = "W"]
  /\ UNCHANGED <<RD_LOAD, RD_ADDR>>

W ==  \* WA .. WD: send the word
  /\ In("W")
  /\ WR_LOAD' = FALSE
  /\ fsm' = [fsm EXCEPT !.state[1] = "FW", !.write_req = TRUE,
                        !.writedata = Datum[Item]]
  /\ UNCHANGED <<WR_ADDR, RD_LOAD, RD_ADDR>>

FWNoWait ==  \* mutant: the count of the buffer is not looked at
  /\ In("FW")
  /\ fsm' = [fsm EXCEPT !.write_req = FALSE,
               !.state = IF fsm.write_req THEN @
                         ELSE IF Item = 4 THEN <<"PR", 1>> ELSE <<"PW", Item + 1>>]
  /\ UNCHANGED hostVars

FW ==  \* FWA .. FWD: wait until the buffer is empty again
  /\ In("FW")
  /\ fsm' = [fsm EXCEPT !.write_req = FALSE,
               !.state = IF wr_buffer = 0 /\ ~fsm.write_req
                         THEN IF Item = 4 THEN <<"PR", 1>> ELSE <<"PW", Item + 1>>
                         ELSE @]
  /\ UNCHANGED hostVars

PR ==  \* PRA, PRB: after a pause, clear the buffer and load the address
  /\ In("PR")
  /\ IF fsm.write_counter = 4
     THEN /\ RD_LOAD' = TRUE /\ RD_ADDR' = ReadAt[Item]
          /\ fsm' = [fsm EXCEPT !.write_counter = 0, !.state[1] = "R"]
     ELSE /\ fsm' = [fsm EXCEPT !.write_counter = @ + 1]
          /\ UNCHANGED <<RD_LOAD, RD_ADDR>>
  /\ UNCHANGED <<WR_LOAD, WR_ADDR>>

RNoWait ==  \* mutant: requests a word before there is one
  /\ In("R")
  /\ RD_LOAD' = FALSE
  /\ fsm' = [fsm EXCEPT !.read_req = TRUE, !.state[1] = "FR"]
  /\ UNCHANGED <<WR_LOAD, WR_ADDR, RD_ADDR>>

RReadAhead ==  \* mutant: waits until the FIFO holds more than the word
  /\ In("R")
  /\ RD_LOAD' = FALSE
  /\ fsm' = IF rd_buffer > 1
            THEN [fsm EXCEPT !.read_req = TRUE, !.state[1] = "FR"]
            ELSE fsm
  /\ UNCHANGED <<WR_LOAD, WR_ADDR, RD_ADDR>>

R ==  \* RA, RB: request the word once there is exactly one
  /\ In("R")
  /\ RD_LOAD' = FALSE
  /\ fsm' = IF rd_buffer = 1
            THEN [fsm EXCEPT !.read_req = TRUE, !.state[1] = "FR"]
            ELSE fsm
  /\ UNCHANGED <<WR_LOAD, WR_ADDR, RD_ADDR>>

FR ==  \* FRA, FRB: capture it
  /\ In("FR")
  /\ fsm' = [fsm EXCEPT !.read_req = FALSE, !.read_reg[Item] = readdata,
               !.state = IF Item = 2 THEN <<"Hold1", 1>> ELSE <<"PR", 2>>]
  /\ UNCHANGED hostVars

Fsm == Hold1 \/ Hold2 \/ PW \/ W \/ FW \/ PR \/ R \/ FR

-----------------------------------------------------------------------------
(* The FIFOs on an edge of their clocks: what the host and the controller  *)
(* do in it, unless a load input clears them.                              *)
HostPushes == fsm.write_req /\ ~WR_LOAD
HostPops == fsm.read_req /\ ~RD_LOAD /\ rd_buffer > 0

WriteFifo ==
  IF WR_LOAD'
  THEN wq' = <<>> /\ wPush' = NoEvents /\ wPop' = NoEvents
  ELSE /\ wq' = IF HostPushes THEN Append(WqAfter, fsm.writedata) ELSE WqAfter
       /\ wPush' = Enter(wPush, IF HostPushes THEN 1 ELSE 0)
       /\ wPop' = Enter(wPop, IF PopsWord THEN 1 ELSE 0)

ReadFifo ==
  IF RD_LOAD'
  THEN /\ rq' = <<>> /\ rPop' = NoEvents /\ rPush' = NoEvents
       /\ UNCHANGED readdata
  ELSE /\ rq' = IF HostPops THEN Tail(RqAfter) ELSE RqAfter
       /\ readdata' = IF HostPops THEN Head(rq) ELSE readdata
       /\ rPop' = Enter(rPop, IF HostPops THEN 1 ELSE 0)
       /\ rPush' = Enter(rPush, IF PushesWord THEN 1 ELSE 0)

Clock100 ==  \* an edge of the 100 MHz clocks alone
  /\ half = 0 /\ half' = 1
  /\ Edge
  /\ UNCHANGED <<hostVars, fsm, lag>>
  /\ WriteFifo /\ ReadFifo

Clock50 ==  \* an edge of all clocks
  /\ half = 1 /\ half' = 0
  /\ Edge
  /\ Fsm
  /\ WriteFifo /\ ReadFifo
  /\ UNCHANGED lag

(* The Reset button puts the state machine back; the controller goes on.   *)
Reset ==
  /\ fsm.state[1] \in ResetIn
  /\ fsm' = [Defaults EXCEPT !.read_reg = fsm.read_reg]
  /\ WR_LOAD' = FALSE /\ RD_LOAD' = FALSE /\ WR_ADDR' = 0 /\ RD_ADDR' = 0
  /\ UNCHANGED <<coreVars, wq, rq, wPush, rPop, half, readdata, wPop, rPush, lag>>

VramNext == Clock100 \/ Clock50 \/ Reset

VramSpec == VramInit /\ [][VramNext]_vramVars

(* The clocks keep running; nobody has to press Reset or the key.          *)
VramFairSpec == VramSpec /\ WF_vramVars(Clock100) /\ WF_vramVars(Clock50)
-----------------------------------------------------------------------------
(* When the state machine goes on to the next address, the word it wrote   *)
(* is in memory where it should be: the count it waits for drops while the *)
(* word is still on its way to the chip.                                   *)
WordWritten ==
  [][In("FW") /\ fsm'.state[1] \in {"PW", "PR"} =>
       chip.mem[WriteAt[Item]] = Datum[Item]]_vramVars

(* A sequence once started comes to its end, refreshes or not.             *)
SequenceEnds == In("PW") ~> In("Hold1")

(* The first read gets the word of the address it loaded, whatever the     *)
(* controller had read ahead before.                                       *)
FirstReadRight ==
  [][In("FR") /\ Item = 1 /\ fsm'.state[1] = "PR"
       => fsm'.read_reg[1] = chip.mem[RD_ADDR]]_vramVars

(* "Clear fifo buffer and load read address" (tetris.sv:154): the word     *)
(* captured is the one at the address loaded.                              *)
ReadsLoadedAddress ==
  [][In("FR") /\ fsm'.state # fsm.state /\ half = 1
       => fsm'.read_reg[Item] = chip.mem[RD_ADDR]]_vramVars
=============================================================================
