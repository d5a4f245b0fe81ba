------------------------------- MODULE UsbHost -------------------------------
(***************************************************************************)
(* The USB host program of src/pong/software/usb_kb: main.c's endless loop *)
(* (interrupt poll, USB task, application), the interrupt handler and bus  *)
(* probe of MAX3421E.c, the enumeration of transfer.c and the HID probes.  *)
(* The MAX3421E chip and the device on the port are the environment; they  *)
(* act between any two steps of the program.                               *)
(*                                                                         *)
(* pc is the place in the loop:                                            *)
(*   init, initprobe, initack   MAX3421E_init and USB_init                 *)
(*   poll, probe, ack           MAX3421E_Task, MaxIntHandler               *)
(*   task                       USB_Task                                   *)
(*   main                       the rest of the loop's body                *)
(* A control transfer either succeeds or returns a code, which the program *)
(* treats alike whatever it is; devices' descriptors are well formed.      *)
(* Printing and LEDs are left out.                                         *)
(***************************************************************************)
EXTENDS Integers, FiniteSets, FiniteSetsExt

CONSTANTS
  Keyboards, Mice, Others,   \* devices that can be plugged in
  Faulty,                    \* devices that hold both lines high (SE1)
  LowSpeed,                  \* those of the devices that are low-speed
  Keys,                      \* key codes
  USB_NUMDEVICES             \* slots of devtable but one (8)

Devices == Keyboards \cup Mice \cup Others \cup Faulty
none == "none"

ASSUME UsbAssumption ==
  /\ USB_NUMDEVICES \in Nat /\ USB_NUMDEVICES >= 2
  /\ none \notin Devices /\ LowSpeed \subseteq Devices
  /\ Keyboards \cap Mice = {} /\ Faulty \cap (Keyboards \cup Mice) = {}
  /\ 0 \notin Keys

(* The task states of USB.h. *)
DETACHED == 0
INITIALIZE == 1
WAIT_FOR_DEVICE == 3
ILLEGAL == 4
ATTACHED == 16
SETTLE == 17
RESET_DEVICE == 18
WAIT_RESET_COMPLETE == 19
WAIT_SOF == 20
GET_DEVICE_DESCRIPTOR_SIZE == 21
ADDRESSING == 32
CONFIGURING == 48
RUNNING == 64
ERROR == 255
Class(s) == s - (s % 16)      \* usb_task_state & USB_STATE_MASK

UNINIT == 0
HID_K == 1
HID_M == 2

VARIABLES
  pc, advance,               \* place in the loop; BUSEVENTIRQ as read into HIRQ
  usb_task_state, settling,  \* settling: where the clock stands to usb_delay
  devtable, tmp_addr, hid_addr,
  runningdebugflag, device,  \* of main
  keycode,                   \* the PIO the game reads
  CONDETIRQ, BUSEVENTIRQ, BUSRST, LOWSPEED,       \* bits of the chip
  plugged, last, address,    \* device on the port, its predecessor, its address
  seen                       \* history: what the last bus probe saw

taskVars == <<usb_task_state, settling, devtable, tmp_addr, hid_addr>>
mainVars == <<runningdebugflag, device, keycode>>
chipVars == <<CONDETIRQ, BUSEVENTIRQ, BUSRST, LOWSPEED>>
portVars == <<plugged, last, address>>
vars == <<pc, advance, taskVars, mainVars, chipVars, portVars, seen>>

Slots == 1..(USB_NUMDEVICES - 1)
Free == [epinfo |-> "NULL", devclass |-> UNINIT]
Cleared == [i \in Slots |-> Free]      \* devtable after USB_init

Init ==
  /\ pc = "init" /\ advance = FALSE
  /\ usb_task_state = INITIALIZE /\ settling = "no"
  /\ devtable = Cleared /\ tmp_addr = 0 /\ hid_addr = 0
  /\ runningdebugflag = FALSE /\ device = 255 /\ keycode = 0
  /\ CONDETIRQ = FALSE /\ BUSEVENTIRQ = FALSE /\ BUSRST = FALSE /\ LOWSPEED = FALSE
  /\ plugged \in Devices \cup {none} /\ last = plugged /\ address = 0
  /\ seen = none

-----------------------------------------------------------------------------
(* The port and the chip.                                                  *)

(* J and K as the chip samples them: J is the idle state of the speed set. *)
Line ==
  IF plugged = none THEN "SE0"
  ELSE IF plugged \in Faulty THEN "SE1"
  ELSE IF (plugged \in LowSpeed) = LOWSPEED THEN "J" ELSE "K"

(* Exchanging the device by another one takes longer than the handler's    *)
(* acknowledgement and than a bus reset; the same one may bounce.         *)
NoTimeToSwap ==
  pc \in {"ack", "initack"} \/ usb_task_state \in {RESET_DEVICE, WAIT_RESET_COMPLETE}

Plug(d) ==
  /\ plugged = none /\ (NoTimeToSwap => d = last)
  /\ plugged' = d /\ last' = d /\ address' = 0 /\ CONDETIRQ' = TRUE
  /\ UNCHANGED <<pc, advance, taskVars, mainVars, BUSEVENTIRQ, BUSRST, LOWSPEED, seen>>

Unplug ==
  /\ plugged # none
  /\ plugged' = none /\ address' = 0 /\ CONDETIRQ' = TRUE
  /\ UNCHANGED <<pc, advance, taskVars, mainVars, BUSEVENTIRQ, BUSRST, LOWSPEED, last, seen>>

(* The chip ends the bus reset and reports it as a bus event; the change   *)
(* on the lines may raise the connection interrupt.                        *)
ResetEnds ==
  /\ BUSRST
  /\ BUSRST' = FALSE /\ BUSEVENTIRQ' = TRUE /\ CONDETIRQ' \in {CONDETIRQ, TRUE}
  /\ UNCHANGED <<pc, advance, taskVars, mainVars, LOWSPEED, portVars, seen>>

DelayPasses ==
  /\ settling = "yes" /\ settling' = "no"
  /\ UNCHANGED <<pc, advance, usb_task_state, devtable, tmp_addr, hid_addr, mainVars,
                 chipVars, portVars, seen>>

(* Results of a transfer to address a: only the device that has this       *)
(* address and this speed can answer, and it may fail to.                  *)
Transfer(a) ==
  IF Line = "J" /\ address = a /\ ~BUSRST THEN BOOLEAN ELSE {FALSE}

-----------------------------------------------------------------------------
(* MAX3421E.c                                                              *)

(* Mutant of Attach: K is taken for low speed whatever the chip's mode is. *)
AttachByLine ==
  /\ Line \in {"J", "K"}
  /\ IF usb_task_state # WAIT_RESET_COMPLETE
     THEN LOWSPEED' = (Line = "K") /\ usb_task_state' = ATTACHED
     ELSE UNCHANGED <<LOWSPEED, usb_task_state>>

(* Attaches unless the interrupt comes from a bus reset; K means that the  *)
(* speed set is not the device's.                                          *)
Attach ==
  /\ Line \in {"J", "K"}
  /\ IF usb_task_state # WAIT_RESET_COMPLETE
     THEN /\ LOWSPEED' = IF Line = "J" THEN LOWSPEED ELSE ~LOWSPEED
          /\ usb_task_state' = ATTACHED
     ELSE UNCHANGED <<LOWSPEED, usb_task_state>>

BusIllegal ==
  Line = "SE1" /\ usb_task_state' = ILLEGAL /\ UNCHANGED LOWSPEED

Detach ==
  /\ Line = "SE0"
  /\ IF Class(usb_task_state) # DETACHED
     THEN usb_task_state' = INITIALIZE /\ UNCHANGED LOWSPEED
     ELSE usb_task_state' = WAIT_FOR_DEVICE /\ LOWSPEED' = FALSE

busprobe == (Attach \/ BusIllegal \/ Detach) /\ seen' = plugged

(* MAX3421E_init in three steps: the chip's reset, the probe, and the      *)
(* clearing of the interrupt, after which main calls USB_init.             *)
ChipReset ==
  /\ pc = "init" /\ pc' = "initprobe"
  /\ BUSEVENTIRQ' = FALSE /\ BUSRST' = FALSE /\ LOWSPEED' = FALSE
  /\ CONDETIRQ' \in {FALSE, plugged # none}
  /\ UNCHANGED <<advance, taskVars, mainVars, portVars, seen>>

InitProbe ==
  /\ pc = "initprobe" /\ pc' = "initack"
  /\ busprobe
  /\ UNCHANGED <<advance, settling, devtable, tmp_addr, hid_addr, mainVars, CONDETIRQ,
                 BUSEVENTIRQ, BUSRST, portVars>>

InitAck ==
  /\ pc = "initack" /\ pc' = "poll"
  /\ CONDETIRQ' = FALSE /\ devtable' = Cleared
  /\ UNCHANGED <<advance, usb_task_state, settling, tmp_addr, hid_addr, mainVars,
                 BUSEVENTIRQ, BUSRST, LOWSPEED, portVars, seen>>

(* Only the connection interrupt is enabled: the pin shows CONDETIRQ.      *)
MAX3421E_Task ==
  /\ pc = "poll" /\ pc' = IF CONDETIRQ THEN "probe" ELSE "task"
  /\ advance' = (CONDETIRQ /\ BUSEVENTIRQ)
  /\ UNCHANGED <<taskVars, mainVars, chipVars, portVars, seen>>

HandlerProbe ==
  /\ pc = "probe" /\ pc' = "ack"
  /\ busprobe
  /\ UNCHANGED <<advance, settling, devtable, tmp_addr, hid_addr, mainVars, CONDETIRQ,
                 BUSEVENTIRQ, BUSRST, portVars>>

(* The interrupts found in HIRQ are cleared, also when raised anew since.  *)
HandlerAck ==
  /\ pc = "ack" /\ pc' = "task"
  /\ usb_task_state' = IF advance THEN (usb_task_state + 1) % 256 ELSE usb_task_state
  /\ CONDETIRQ' = FALSE /\ BUSEVENTIRQ' = (BUSEVENTIRQ /\ ~advance)
  /\ UNCHANGED <<advance, settling, devtable, tmp_addr, hid_addr, mainVars, BUSRST,
                 LOWSPEED, portVars, seen>>

-----------------------------------------------------------------------------
(* USB_Task of transfer.c: one action per state that does something.       *)

Task(s) == pc = "task" /\ pc' = "main" /\ usb_task_state = s

TaskKeeps == UNCHANGED <<advance, mainVars, LOWSPEED, plugged, last, seen>>

DetachedInitialize ==
  /\ Task(INITIALIZE)
  /\ devtable' = Cleared /\ usb_task_state' = WAIT_FOR_DEVICE
  /\ UNCHANGED <<settling, tmp_addr, hid_addr, CONDETIRQ, BUSEVENTIRQ, BUSRST, address>>
  /\ TaskKeeps

(* usb_delay lies 200 ms ahead; or the clock, which (alt_nticks() * 1000)  *)
(* makes start again every 71 minutes, does so before it is reached or     *)
(* while the loop is elsewhere.                                            *)
StartSettle ==
  /\ Task(ATTACHED)
  /\ settling' \in {"yes", "wrap"} /\ usb_task_state' = SETTLE
  /\ UNCHANGED <<devtable, tmp_addr, hid_addr, CONDETIRQ, BUSEVENTIRQ, BUSRST, address>>
  /\ TaskKeeps

Settled ==
  /\ Task(SETTLE) /\ settling # "yes"
  /\ usb_task_state' = RESET_DEVICE
  /\ UNCHANGED <<settling, devtable, tmp_addr, hid_addr, CONDETIRQ, BUSEVENTIRQ, BUSRST, address>>
  /\ TaskKeeps

(* Mutant of ResetDevice: the old bus event is not cleared.                *)
ResetDeviceKeepsEvent ==
  /\ Task(RESET_DEVICE)
  /\ BUSRST' = TRUE /\ address' = 0 /\ CONDETIRQ' \in {CONDETIRQ, TRUE}
  /\ usb_task_state' = WAIT_RESET_COMPLETE
  /\ UNCHANGED <<settling, devtable, tmp_addr, hid_addr, BUSEVENTIRQ>>
  /\ TaskKeeps

(* The bus reset puts the device back to address 0 and may raise the       *)
(* connection interrupt.                                                   *)
ResetDevice ==
  /\ Task(RESET_DEVICE)
  /\ BUSEVENTIRQ' = FALSE /\ BUSRST' = TRUE /\ address' = 0
  /\ CONDETIRQ' \in {CONDETIRQ, TRUE}
  /\ usb_task_state' = WAIT_RESET_COMPLETE
  /\ UNCHANGED <<settling, devtable, tmp_addr, hid_addr>>
  /\ TaskKeeps

ResetComplete ==
  /\ Task(WAIT_RESET_COMPLETE) /\ ~BUSRST
  /\ usb_task_state' = WAIT_SOF
  /\ UNCHANGED <<settling, devtable, tmp_addr, hid_addr, CONDETIRQ, BUSEVENTIRQ, BUSRST, address>>
  /\ TaskKeeps

(* "MAXreg_rd( rHIRQ ) | bmFRAMEIRQ" holds whatever is read.               *)
FirstSof ==
  /\ Task(WAIT_SOF)
  /\ usb_task_state' = GET_DEVICE_DESCRIPTOR_SIZE
  /\ UNCHANGED <<settling, devtable, tmp_addr, hid_addr, CONDETIRQ, BUSEVENTIRQ, BUSRST, address>>
  /\ TaskKeeps

(* Only the first transfer's result counts; those of the full descriptor   *)
(* and of the strings are overwritten.                                     *)
GetDeviceDescriptor ==
  /\ Task(GET_DEVICE_DESCRIPTOR_SIZE)
  /\ \E ok \in Transfer(0) : usb_task_state' = IF ok THEN ADDRESSING ELSE ERROR
  /\ UNCHANGED <<settling, devtable, tmp_addr, hid_addr, CONDETIRQ, BUSEVENTIRQ, BUSRST, address>>
  /\ TaskKeeps

FreeSlots == {i \in Slots : devtable[i].epinfo = "NULL"}

(* The first free slot is the address.  A transfer that fails in its       *)
(* status stage may have reached the device all the same, and the host's   *)
(* acknowledgement of one that succeeds may be lost.                       *)
AssignAddress ==
  \E ok \in Transfer(0) :
    LET i == Min(FreeSlots) IN
    /\ devtable' = [devtable EXCEPT ![i].epinfo = "dev0ep"]
    /\ tmp_addr' = IF ok THEN i ELSE tmp_addr
    /\ usb_task_state' = IF ok THEN CONFIGURING ELSE ERROR
    /\ address' \in IF TRUE \in Transfer(0) THEN {0, i} ELSE {address}

(* Mutant of Addressing: a full table is not an error.                     *)
AddressingWaits ==
  /\ Task(ADDRESSING)
  /\ IF FreeSlots # {} THEN AssignAddress
     ELSE UNCHANGED <<usb_task_state, devtable, tmp_addr, address>>
  /\ UNCHANGED <<settling, hid_addr, CONDETIRQ, BUSEVENTIRQ, BUSRST>>
  /\ TaskKeeps

Addressing ==
  /\ Task(ADDRESSING)
  /\ IF FreeSlots # {} THEN AssignAddress
     ELSE usb_task_state' = ERROR /\ UNCHANGED <<devtable, tmp_addr, address>>
  /\ UNCHANGED <<settling, hid_addr, CONDETIRQ, BUSEVENTIRQ, BUSRST>>
  /\ TaskKeeps

DriverClass == IF plugged \in Keyboards THEN HID_K ELSE HID_M

(* A HID probe fills in the table before it configures the device, and     *)
(* leaves it filled when that fails.                                       *)
ProbeMatches(ok) ==
  /\ plugged \in Keyboards \cup Mice /\ TRUE \in Transfer(tmp_addr)
  /\ devtable' = [devtable EXCEPT ![tmp_addr] = [epinfo |-> "hid_ep", devclass |-> DriverClass]]
  /\ hid_addr' = tmp_addr
  /\ usb_task_state' = IF ok THEN RUNNING ELSE ERROR

NoProbeMatches == usb_task_state' = ERROR /\ UNCHANGED <<devtable, hid_addr>>

Configuring ==
  /\ Task(CONFIGURING)
  /\ (\E ok \in BOOLEAN : ProbeMatches(ok)) \/ NoProbeMatches
  /\ UNCHANGED <<settling, tmp_addr, CONDETIRQ, BUSEVENTIRQ, BUSRST, address>>
  /\ TaskKeeps

Busy == {INITIALIZE, ATTACHED, RESET_DEVICE, WAIT_SOF, GET_DEVICE_DESCRIPTOR_SIZE,
         ADDRESSING, CONFIGURING}

(* Every other state, those without a name included, waits.  That          *)
(* WAIT_FOR_DEVICE has the chip sample the bus (transfer.c:266) makes no   *)
(* difference here: a probe sees the lines as they are, Line.              *)
NothingToDo ==
  /\ Task(usb_task_state)
  /\ usb_task_state \notin Busy
  /\ usb_task_state = SETTLE => settling # "no"
  /\ usb_task_state = WAIT_RESET_COMPLETE => BUSRST
  /\ UNCHANGED <<advance, taskVars, mainVars, chipVars, portVars, seen>>

USB_Task ==
  \/ DetachedInitialize \/ StartSettle \/ Settled \/ ResetDevice \/ ResetComplete
  \/ FirstSof \/ GetDeviceDescriptor \/ Addressing \/ Configuring \/ NothingToDo

-----------------------------------------------------------------------------
(* The rest of main's loop.                                                *)

MainKeeps == UNCHANGED <<advance, taskVars, chipVars, portVars, seen>>

(* Mutant of LastClass: the search stops at the first device.              *)
FirstClass ==
  LET used == {i \in Slots : devtable[i].epinfo # "NULL"}
  IN IF used = {} THEN 255 ELSE devtable[Min(used)].devclass

(* GetDriverandReport returns the class of the last device in the table.   *)
LastClass ==
  LET used == {i \in Slots : devtable[i].epinfo # "NULL"}
  IN IF used = {} THEN 255 ELSE devtable[Max(used)].devclass

GetDriverandReport ==
  /\ pc = "main" /\ usb_task_state = RUNNING /\ ~runningdebugflag
  /\ pc' = "poll"
  /\ runningdebugflag' = TRUE /\ device' = LastClass
  /\ UNCHANGED keycode /\ MainKeeps

(* Polls the keyboard; what answers is a report of whatever is plugged in. *)
PollKeyboard ==
  /\ pc = "main" /\ usb_task_state = RUNNING /\ runningdebugflag /\ device = HID_K
  /\ pc' = "poll"
  /\ \E ok \in Transfer(hid_addr) :
       IF ok THEN \E k \in Keys \cup {0} : keycode' = k ELSE keycode' = keycode
  /\ UNCHANGED <<runningdebugflag, device>> /\ MainKeeps

(* A mouse report moves LEDs and digits only; ERROR prints once.           *)
OtherDevice ==
  /\ pc = "main" /\ pc' = "poll"
  /\ \/ usb_task_state = RUNNING /\ runningdebugflag /\ device # HID_K
     \/ usb_task_state = ERROR
  /\ UNCHANGED mainVars /\ MainKeeps

(* Mutant of NotRunning: leaving RUNNING is not noticed.                   *)
NotRunningUnnoticed ==
  /\ pc = "main" /\ usb_task_state \notin {RUNNING, ERROR}
  /\ pc' = "poll"
  /\ UNCHANGED mainVars /\ MainKeeps

(* Not running: once after RUNNING, the chip and the table are set up anew. *)
NotRunning ==
  /\ pc = "main" /\ usb_task_state \notin {RUNNING, ERROR}
  /\ pc' = IF runningdebugflag THEN "init" ELSE "poll"
  /\ runningdebugflag' = FALSE
  /\ UNCHANGED <<device, keycode>> /\ MainKeeps

Main == GetDriverandReport \/ PollKeyboard \/ OtherDevice \/ NotRunning

Host ==
  \/ ChipReset \/ InitProbe \/ InitAck
  \/ MAX3421E_Task \/ HandlerProbe \/ HandlerAck
  \/ USB_Task \/ Main

Environment ==
  \/ \E d \in Devices : Plug(d)
  \/ Unplug \/ ResetEnds \/ DelayPasses

Next == Host \/ Environment

Spec == Init /\ [][Next]_vars

(* The loop runs on, the chip ends a bus reset, time passes; nobody has to *)
(* plug anything in.                                                       *)
FairSpec == Spec /\ WF_vars(Host) /\ WF_vars(ResetEnds) /\ WF_vars(DelayPasses)

-----------------------------------------------------------------------------
(* Properties                                                              *)

(* The two states without a name are INITIALIZE and ILLEGAL advanced by a  *)
(* bus event.                                                              *)
TaskStates ==
  {INITIALIZE, INITIALIZE + 1, WAIT_FOR_DEVICE, ILLEGAL, ILLEGAL + 1, ATTACHED, SETTLE,
   RESET_DEVICE, WAIT_RESET_COMPLETE, WAIT_SOF, GET_DEVICE_DESCRIPTOR_SIZE, ADDRESSING,
   CONFIGURING, RUNNING, ERROR}

(* The types, among them the task states that occur and that a slot number *)
(* is an index of devtable (transfer.c:246).                               *)
TypeOK ==
  /\ pc \in {"init", "initprobe", "initack", "poll", "probe", "ack", "task", "main"}
  /\ usb_task_state \in TaskStates
  /\ devtable \in [Slots -> [epinfo : {"NULL", "dev0ep", "hid_ep"},
                             devclass : {UNINIT, HID_K, HID_M}]]
  /\ tmp_addr \in Slots \cup {0} /\ hid_addr \in Slots \cup {0}
  /\ address \in Slots \cup {0}
  /\ device \in {UNINIT, HID_K, HID_M, 255} /\ keycode \in Keys \cup {0}
  /\ plugged \in Devices \cup {none} /\ seen \in Devices \cup {none} /\ last \in Devices \cup {none}
  /\ settling \in {"no", "yes", "wrap"}
  /\ {advance, runningdebugflag, CONDETIRQ, BUSEVENTIRQ, BUSRST, LOWSPEED} \subseteq BOOLEAN

(* While the bus is being reset the host starts no transfer: a bus event   *)
(* left over from an earlier reset does not end the wait for this one      *)
(* (MAX3421E.c:236, transfer.c:286).                                       *)
Transferring == {WAIT_SOF, GET_DEVICE_DESCRIPTOR_SIZE, ADDRESSING, CONFIGURING, RUNNING}
NoTrafficInReset == usb_task_state \in Transferring => ~BUSRST

(* Once running, main polls by the class of the very entry whose address   *)
(* the HID layer polls, whatever earlier devices have left in the table    *)
(* (main.c:33, HID.c:155).                                                 *)
DriverMatchesDevice ==
  usb_task_state = RUNNING /\ runningdebugflag =>
    hid_addr \in Slots /\ devtable[hid_addr] = [epinfo |-> "hid_ep", devclass |-> device]

(* Key codes reach the game from a keyboard only, never from a device that *)
(* took the place of one while main still held its class (main.c:161).     *)
KeycodeFromKeyboard ==
  [][keycode' # keycode => plugged \in Keyboards /\ address = hid_addr]_vars

(* Where the host talks to a device that it has probed, it does so at the  *)
(* device's speed, also when an earlier device has left the chip at the    *)
(* other one (MAX3421E.c:147).                                             *)
SpeedMatches ==
  usb_task_state \in Transferring /\ ~CONDETIRQ /\ plugged \in Devices \ Faulty
    => (plugged \in LowSpeed) = LOWSPEED

(* The enumeration of a device that the last probe has seen comes to an    *)
(* end, in RUNNING or in ERROR, when nothing interrupts it any more and    *)
(* the clock did not start again while it settled: then the settle time    *)
(* may never be over (transfer.c:281).                                     *)
EnumerationEnds ==
  <>[](plugged \in Devices \ Faulty /\ seen = plugged /\ ~CONDETIRQ /\ settling # "wrap")
    => <>[](usb_task_state \in {RUNNING, ERROR})

(* What MAX3421E.c:178 says of a disconnection, "clear device data         *)
(* structures": before the next poll no device is left in the table.       *)
DetachClears ==
  pc = "poll" /\ Class(usb_task_state) = DETACHED /\ usb_task_state # ILLEGAL
    => FreeSlots = Slots

=============================================================================
