---------------------------- MODULE UsbHostProofs ----------------------------
(***************************************************************************)
(* Proofs about the USB host, for any devices and any size of the device   *)
(* table: no transfer is started during a bus reset; types; main polls by  *)
(* the class of the entry the HID layer addresses; key codes come from     *)
(* keyboards; and the bus has the speed of the device.                     *)
(***************************************************************************)
EXTENDS UsbHost, TLAPS

-----------------------------------------------------------------------------
(* The reset.  The hard step is HandlerAck, which adds one to whatever     *)
(* state it finds: the invariant must know which states the bus probe      *)
(* leaves, and that a bus event that is pending while the host waits for a *)
(* reset is the event of this reset.                                       *)

(* The states in which the bus probe leaves the task. *)
ProbedStates == {INITIALIZE, WAIT_FOR_DEVICE, ILLEGAL, ATTACHED, WAIT_RESET_COMPLETE}

(* A bus event, pending or already read, that ends the wait for the reset. *)
EventInHand == BUSEVENTIRQ \/ (pc \in {"probe", "ack"} /\ advance)

ResetInv ==
  /\ NoTrafficInReset
  /\ pc = "ack" => usb_task_state \in ProbedStates
  /\ usb_task_state = WAIT_RESET_COMPLETE /\ EventInHand => ~BUSRST

USE DEF DETACHED, INITIALIZE, WAIT_FOR_DEVICE, ILLEGAL, ATTACHED, SETTLE, RESET_DEVICE,
        WAIT_RESET_COMPLETE, WAIT_SOF, GET_DEVICE_DESCRIPTOR_SIZE, ADDRESSING, CONFIGURING,
        RUNNING, ERROR, Transferring, ProbedStates

(* The bus probe ends in one of ProbedStates and never enters the wait for *)
(* a reset (MAX3421E.c:140).                                               *)
LEMMA ProbeLeaves ==
  ASSUME busprobe
  PROVE  /\ usb_task_state' \in ProbedStates
         /\ usb_task_state' = WAIT_RESET_COMPLETE => usb_task_state = WAIT_RESET_COMPLETE
  BY DEF busprobe, Attach, BusIllegal, Detach

LEMMA ResetInit == Init => ResetInv
  BY DEF Init, ResetInv, NoTrafficInReset, EventInHand

(* The environment: only the end of the reset matters.                     *)
LEMMA EnvironmentKeeps == ResetInv /\ Environment => ResetInv'
<1> SUFFICES ASSUME ResetInv, Environment PROVE ResetInv'
  OBVIOUS
<1>1. CASE \E d \in Devices : Plug(d)
  BY <1>1 DEF Plug, ResetInv, NoTrafficInReset, EventInHand, taskVars
<1>2. CASE Unplug
  BY <1>2 DEF Unplug, ResetInv, NoTrafficInReset, EventInHand, taskVars
<1>3. CASE ResetEnds
  BY <1>3 DEF ResetEnds, ResetInv, NoTrafficInReset, taskVars
<1>4. CASE DelayPasses
  BY <1>4 DEF DelayPasses, ResetInv, NoTrafficInReset, EventInHand, chipVars
<1> QED
  BY <1>1, <1>2, <1>3, <1>4 DEF Environment

(* MAX3421E.c: initialisation and interrupt handling.                      *)
LEMMA ChipCodeKeeps ==
  ResetInv /\ (ChipReset \/ InitProbe \/ InitAck \/ MAX3421E_Task \/ HandlerProbe \/ HandlerAck)
    => ResetInv'
<1> SUFFICES ASSUME ResetInv,
                    ChipReset \/ InitProbe \/ InitAck \/ MAX3421E_Task \/ HandlerProbe \/ HandlerAck
             PROVE  ResetInv'
  OBVIOUS
<1>1. CASE ChipReset
  BY <1>1 DEF ChipReset, ResetInv, NoTrafficInReset
<1>2. CASE InitProbe
  BY <1>2, ProbeLeaves DEF InitProbe, ResetInv, NoTrafficInReset, EventInHand
<1>3. CASE InitAck
  BY <1>3 DEF InitAck, ResetInv, NoTrafficInReset, EventInHand
<1>4. CASE MAX3421E_Task
  BY <1>4 DEF MAX3421E_Task, ResetInv, NoTrafficInReset, EventInHand, taskVars, chipVars
<1>5. CASE HandlerProbe
  BY <1>5, ProbeLeaves DEF HandlerProbe, ResetInv, NoTrafficInReset, EventInHand
<1>6. CASE HandlerAck
  <2>1. usb_task_state \in ProbedStates /\ BUSRST' = BUSRST /\ pc = "ack" /\ pc' = "task"
    BY <1>6 DEF HandlerAck, ResetInv
  <2>2. CASE advance
    <3>1. usb_task_state' = (usb_task_state + 1) % 256
      BY <1>6, <2>2 DEF HandlerAck
    <3>2. usb_task_state = WAIT_RESET_COMPLETE => ~BUSRST
      BY <2>1, <2>2 DEF ResetInv, EventInHand
    <3>3. usb_task_state' \in {2, 4, 5, 17, 20}
          /\ (usb_task_state' = 20 => usb_task_state = WAIT_RESET_COMPLETE)
      BY <3>1, <2>1
    <3> QED
      BY <3>2, <3>3, <2>1 DEF ResetInv, NoTrafficInReset
  <2>3. CASE ~advance
    <3>1. usb_task_state' = usb_task_state
      BY <1>6, <2>3 DEF HandlerAck
    <3>2. BUSEVENTIRQ' => BUSEVENTIRQ
      BY <1>6, Zenon DEF HandlerAck
    <3> QED
      BY <3>1, <3>2, <2>1 DEF ResetInv, NoTrafficInReset, EventInHand
  <2> QED
    BY <2>2, <2>3
<1> QED
  BY <1>1, <1>2, <1>3, <1>4, <1>5, <1>6

(* transfer.c: the task starts a reset and clears the old event, and goes  *)
(* on to transfers when the reset is over.                                 *)
LEMMA TaskKeepsReset == ResetInv /\ USB_Task => ResetInv'
<1> SUFFICES ASSUME ResetInv, USB_Task PROVE ResetInv'
  OBVIOUS
<1> USE DEF Task
<1>1. CASE DetachedInitialize
  BY <1>1 DEF DetachedInitialize, ResetInv, NoTrafficInReset
<1>2. CASE StartSettle
  BY <1>2 DEF StartSettle, ResetInv, NoTrafficInReset
<1>3. CASE Settled
  BY <1>3 DEF Settled, ResetInv, NoTrafficInReset
<1>4. CASE ResetDevice
  BY <1>4 DEF ResetDevice, ResetInv, NoTrafficInReset, EventInHand
<1>5. CASE ResetComplete
  BY <1>5 DEF ResetComplete, ResetInv, NoTrafficInReset
<1>6. CASE FirstSof
  BY <1>6 DEF FirstSof, ResetInv, NoTrafficInReset
<1>7. CASE GetDeviceDescriptor
  BY <1>7 DEF GetDeviceDescriptor, ResetInv, NoTrafficInReset
<1>8. CASE Addressing
  <2>1. usb_task_state' \in {CONFIGURING, ERROR}
    BY <1>8 DEF Addressing, AssignAddress
  <2> QED
    BY <1>8, <2>1 DEF Addressing, ResetInv, NoTrafficInReset
<1>9. CASE Configuring
  <2>1. usb_task_state' \in {RUNNING, ERROR}
    BY <1>9 DEF Configuring, ProbeMatches, NoProbeMatches
  <2> QED
    BY <1>9, <2>1 DEF Configuring, ResetInv, NoTrafficInReset
<1>10. CASE NothingToDo
  BY <1>10 DEF NothingToDo, ResetInv, NoTrafficInReset, EventInHand, taskVars, chipVars
<1> QED
  BY <1>1, <1>2, <1>3, <1>4, <1>5, <1>6, <1>7, <1>8, <1>9, <1>10 DEF USB_Task

(* main.c                                                                  *)
LEMMA MainKeepsReset == ResetInv /\ Main => ResetInv'
  BY DEF Main, GetDriverandReport, PollKeyboard, OtherDevice, NotRunning, MainKeeps,
         ResetInv, NoTrafficInReset, EventInHand, taskVars, chipVars

LEMMA ResetStep == ResetInv /\ [Next]_vars => ResetInv'
<1>1. ResetInv /\ UNCHANGED vars => ResetInv'
  BY DEF vars, taskVars, chipVars, ResetInv, NoTrafficInReset, EventInHand
<1> QED
  BY <1>1, EnvironmentKeeps, ChipCodeKeeps, TaskKeepsReset, MainKeepsReset DEF Next, Host

(* The host starts no transfer while the bus is being reset, whatever the  *)
(* device does and however large devtable is (transfer.c:286, 291;         *)
(* MAX3421E.c:236).                                                        *)
THEOREM QuietReset == Spec => []NoTrafficInReset
<1>1. ResetInv => NoTrafficInReset
  BY DEF ResetInv
<1> QED
  BY ResetInit, ResetStep, <1>1, PTL DEF Spec

-----------------------------------------------------------------------------
(* The device table.  The used slots are the first ones, so that the last  *)
(* of them is the one that was just filled; main's copy of the class is    *)
(* cleared before the enumeration can come to the table again; and         *)
(* whatever answers at an address has been probed there, as an address is  *)
(* lost with the plug.                                                     *)

UsedUpTo(m) == \A i \in Slots : devtable[i].epinfo # "NULL" <=> i <= m

(* m slots are used, and the device at work has the last of them.          *)
LastUsed(m) ==
  /\ UsedUpTo(m)
  /\ usb_task_state = CONFIGURING => m > 0 /\ tmp_addr = m
  /\ usb_task_state = RUNNING =>
       /\ m > 0 /\ hid_addr = m /\ devtable[m].epinfo = "hid_ep"
       /\ runningdebugflag => device = devtable[m].devclass

TableInv == \E m \in 0..(USB_NUMDEVICES - 1) : LastUsed(m)

(* When the state leaves RUNNING, main clears its flag before it can come  *)
(* back there.                                                             *)
FlagInv ==
  runningdebugflag =>
    /\ pc \notin {"init", "initprobe", "initack"}
    /\ usb_task_state # RUNNING => \/ pc = "ack"
                                   \/ pc = "task" /\ usb_task_state < GET_DEVICE_DESCRIPTOR_SIZE
                                   \/ pc = "main" /\ usb_task_state < ADDRESSING

(* Who answers at the address of a keyboard's entry is a keyboard.         *)
OwnerInv ==
  address # 0 /\ devtable[address] = [epinfo |-> "hid_ep", devclass |-> HID_K]
    => plugged \in Keyboards

ProbedInv == pc \in {"ack", "initack"} => usb_task_state \in ProbedStates

DriverInv == TypeOK /\ ProbedInv /\ FlagInv /\ TableInv /\ OwnerInv

(* The parts of TypeOK, without the Booleans.                              *)
Words ==
  /\ pc \in {"init", "initprobe", "initack", "poll", "probe", "ack", "task", "main"}
  /\ usb_task_state \in TaskStates
  /\ tmp_addr \in Slots \cup {0} /\ hid_addr \in Slots \cup {0} /\ address \in Slots \cup {0}
  /\ device \in {UNINIT, HID_K, HID_M, 255} /\ keycode \in Keys \cup {0}
  /\ plugged \in Devices \cup {none} /\ seen \in Devices \cup {none} /\ last \in Devices \cup {none}
  /\ settling \in {"no", "yes", "wrap"}

Entry == [epinfo : {"NULL", "dev0ep", "hid_ep"}, devclass : {UNINIT, HID_K, HID_M}]

Bits == {advance, runningdebugflag, CONDETIRQ, BUSEVENTIRQ, BUSRST, LOWSPEED} \subseteq BOOLEAN

LEMMA TypeParts ==
  /\ TypeOK <=> Words /\ devtable \in [Slots -> Entry] /\ Bits
  /\ TypeOK' <=> Words' /\ devtable' \in [Slots -> Entry] /\ Bits'
<1>1. TypeOK <=> Words /\ devtable \in [Slots -> Entry] /\ Bits
  BY DEF TypeOK, Words, Entry, Bits
<1>2. TypeOK' <=> Words' /\ devtable' \in [Slots -> Entry] /\ Bits'
  BY DEF TypeOK, Words, Entry, Bits
<1> QED  BY <1>1, <1>2

USE DEF TaskStates, ProbedStates, INITIALIZE, WAIT_FOR_DEVICE, ILLEGAL, ATTACHED, SETTLE,
        RESET_DEVICE, WAIT_RESET_COMPLETE, WAIT_SOF, GET_DEVICE_DESCRIPTOR_SIZE, ADDRESSING,
        CONFIGURING, RUNNING, ERROR

-----------------------------------------------------------------------------
(* Slots.                                                                  *)

LEMMA SlotFacts ==
  /\ USB_NUMDEVICES - 1 \in Nat \ {0} /\ 0 \notin Slots /\ Slots \subseteq Nat
  /\ Cleared \in [Slots -> Entry] /\ \A i \in Slots : Cleared[i].epinfo = "NULL"
BY UsbAssumption DEF Slots, Cleared, Free, Entry

(* The first free slot is the one behind the used ones.                    *)
LEMMA FirstFree ==
  ASSUME NEW m \in 0..(USB_NUMDEVICES - 1), UsedUpTo(m), FreeSlots # {}
  PROVE  m + 1 \in Slots /\ Min(FreeSlots) = m + 1
<1>1. FreeSlots = {i \in Slots : i > m}
  BY UsbAssumption DEF UsedUpTo, FreeSlots, Slots
<1>2. m + 1 \in Slots /\ m + 1 \in FreeSlots
  BY <1>1, UsbAssumption DEF Slots
<1>3. \A i \in FreeSlots : m + 1 <= i
  BY <1>1 DEF Slots
<1>4. \A x \in FreeSlots : (\A y \in FreeSlots : x <= y) => x = m + 1
  BY <1>1, <1>2, <1>3, UsbAssumption DEF Slots
<1> QED  BY <1>2, <1>3, <1>4 DEF Min

(* GetDriverandReport ends at the last used slot.                          *)
LEMMA LastClassIs ==
  ASSUME NEW m \in 0..(USB_NUMDEVICES - 1), UsedUpTo(m), m > 0
  PROVE  LastClass = devtable[m].devclass
<1> DEFINE used == {i \in Slots : devtable[i].epinfo # "NULL"}
<1>1. used = 1..m
  BY UsbAssumption DEF UsedUpTo, Slots
<1>2. Max(used) = m
  <2>1. m \in used /\ \A y \in used : m >= y
    BY <1>1
  <2>2. \A x \in used : (\A y \in used : x >= y) => x = m
    BY <1>1, <2>1
  <2> HIDE DEF used
  <2> QED  BY <2>1, <2>2 DEF Max
<1>3. used # {}
  BY <1>1
<1> QED  BY <1>2, <1>3 DEF LastClass

(* Steps that leave the table alone, or clear it.                          *)
LEMMA TableSame ==
  ASSUME TableInv, UNCHANGED <<devtable, tmp_addr, hid_addr>>,
         usb_task_state' = CONFIGURING => usb_task_state = CONFIGURING,
         usb_task_state' = RUNNING => usb_task_state = RUNNING,
         runningdebugflag' => runningdebugflag /\ device' = device
  PROVE  TableInv'
BY DEF TableInv, LastUsed, UsedUpTo

LEMMA OwnerSame ==
  ASSUME OwnerInv, devtable' = devtable,
         address' = 0 \/ (address' = address /\ plugged' = plugged)
  PROVE  OwnerInv'
BY DEF OwnerInv

LEMMA TableCleared ==
  ASSUME devtable' = Cleared, usb_task_state' \notin {CONFIGURING, RUNNING},
         address' \in Slots \cup {0}
  PROVE  TableInv' /\ OwnerInv' /\ devtable' \in [Slots -> Entry]
<1>1. UsedUpTo(0)'
  BY SlotFacts DEF UsedUpTo
<1>2. LastUsed(0)'
  BY <1>1 DEF LastUsed
<1>3. 0 \in 0..(USB_NUMDEVICES - 1)
  BY UsbAssumption
<1>4. OwnerInv'
  BY SlotFacts DEF OwnerInv
<1> QED  BY <1>2, <1>3, <1>4, SlotFacts DEF TableInv

-----------------------------------------------------------------------------
(* The initial state and the environment.                                  *)

LEMMA DriverInit == Init => DriverInv
<1> SUFFICES ASSUME Init PROVE DriverInv
  OBVIOUS
<1>1. Words
  BY DEF Init, Words
<1>2. Bits
  BY Zenon DEF Init, Bits
<1>3. devtable \in [Slots -> Entry]
  BY SlotFacts DEF Init
<1>4. UsedUpTo(0)
  BY SlotFacts DEF Init, UsedUpTo
<1>5. TableInv
  <2>1. usb_task_state = INITIALIZE
    BY DEF Init
  <2>2. LastUsed(0)
    BY <1>4, <2>1 DEF LastUsed
  <2>3. 0 \in 0..(USB_NUMDEVICES - 1)
    BY UsbAssumption
  <2> QED  BY <2>2, <2>3 DEF TableInv
<1>6. ProbedInv /\ FlagInv /\ OwnerInv
  BY DEF Init, ProbedInv, FlagInv, OwnerInv
<1> QED  BY <1>1, <1>2, <1>3, <1>5, <1>6, TypeParts DEF DriverInv

(* Who is plugged in has no address yet.                                   *)
LEMMA EnvironmentDriver == DriverInv /\ Environment => DriverInv'
<1> SUFFICES ASSUME DriverInv, Environment PROVE DriverInv'
  OBVIOUS
<1> USE DEF taskVars, mainVars, chipVars, portVars
<1>1. Words /\ devtable \in [Slots -> Entry] /\ Bits
  BY TypeParts DEF DriverInv
<1>2. /\ UNCHANGED <<pc, usb_task_state, devtable, tmp_addr, hid_addr, device,
                     runningdebugflag, keycode, seen>>
      /\ address' = 0 \/ (address' = address /\ plugged' = plugged)
  BY DEF Environment, Plug, Unplug, ResetEnds, DelayPasses
<1>3. plugged' \in Devices \cup {none} /\ last' \in Devices \cup {none}
      /\ settling' \in {"no", "yes", "wrap"}
  BY <1>1 DEF Environment, Plug, Unplug, ResetEnds, DelayPasses, Words
<1>4. Words'
  BY <1>1, <1>2, <1>3 DEF Words
<1>5. Bits'
  BY <1>1, Zenon DEF Bits, Environment, Plug, Unplug, ResetEnds, DelayPasses
<1>6. ProbedInv' /\ FlagInv'
  BY <1>2 DEF DriverInv, ProbedInv, FlagInv
<1>7. TableInv' /\ OwnerInv'
  BY <1>2, TableSame, OwnerSame DEF DriverInv
<1> QED  BY <1>1, <1>2, <1>4, <1>5, <1>6, <1>7, TypeParts DEF DriverInv

-----------------------------------------------------------------------------
(* MAX3421E.c.  The probe leaves neither CONFIGURING nor RUNNING.          *)

LEMMA ProbeBits == ASSUME busprobe, Bits PROVE LOWSPEED' \in BOOLEAN
<1>1. LOWSPEED \in BOOLEAN
  BY Zenon DEF Bits
<1>2. LOWSPEED' = LOWSPEED \/ LOWSPEED' = (~LOWSPEED) \/ LOWSPEED' = FALSE
  BY Zenon DEF busprobe, Attach, BusIllegal, Detach
<1> QED  BY <1>1, <1>2, Zenon

LEMMA ChipCodeDriver ==
  DriverInv /\ (ChipReset \/ InitProbe \/ InitAck \/ MAX3421E_Task \/ HandlerProbe \/ HandlerAck)
    => DriverInv'
<1> SUFFICES ASSUME DriverInv,
                    ChipReset \/ InitProbe \/ InitAck \/ MAX3421E_Task \/ HandlerProbe
                              \/ HandlerAck
             PROVE  DriverInv'
  OBVIOUS
<1> USE DEF taskVars, mainVars, portVars
<1>1. Words /\ devtable \in [Slots -> Entry] /\ Bits /\ ProbedInv /\ FlagInv
  BY TypeParts DEF DriverInv
<1>2. CASE ChipReset
  <2>1. Words'
    BY <1>1, <1>2 DEF ChipReset, Words
  <2>2. Bits'
    BY <1>1, <1>2, Zenon DEF ChipReset, Bits
  <2>3. ProbedInv' /\ FlagInv' /\ devtable' = devtable
    BY <1>1, <1>2 DEF ChipReset, ProbedInv, FlagInv
  <2>4. TableInv' /\ OwnerInv'
    BY <1>2, TableSame, OwnerSame DEF ChipReset, DriverInv
  <2> QED  BY <1>1, <2>1, <2>2, <2>3, <2>4, TypeParts DEF DriverInv
<1>3. CASE InitProbe
  <2>1. Words'
    BY <1>1, <1>3, ProbeLeaves DEF InitProbe, busprobe, Words
  <2>2. Bits'
    BY <1>1, <1>3, ProbeBits, Zenon DEF InitProbe, Bits
  <2>3. ProbedInv' /\ FlagInv' /\ devtable' = devtable
    BY <1>1, <1>3, ProbeLeaves DEF InitProbe, ProbedInv, FlagInv
  <2>4. TableInv' /\ OwnerInv'
    BY <1>3, ProbeLeaves, TableSame, OwnerSame DEF InitProbe, DriverInv
  <2> QED  BY <1>1, <2>1, <2>2, <2>3, <2>4, TypeParts DEF DriverInv
<1>4. CASE InitAck
  <2>1. Words'
    BY <1>1, <1>4 DEF InitAck, Words
  <2>2. Bits'
    BY <1>1, <1>4, Zenon DEF InitAck, Bits
  <2>3. ProbedInv' /\ FlagInv'
    BY <1>1, <1>4 DEF InitAck, ProbedInv, FlagInv
  <2>4. TableInv' /\ OwnerInv' /\ devtable' \in [Slots -> Entry]
    BY <1>1, <1>4, TableCleared DEF InitAck, ProbedInv, Words
  <2> QED  BY <2>1, <2>2, <2>3, <2>4, TypeParts DEF DriverInv
<1>5. CASE MAX3421E_Task
  <2> USE DEF chipVars
  <2>1. Words'
    BY <1>1, <1>5 DEF MAX3421E_Task, Words
  <2>2. Bits'
    BY <1>1, <1>5, Zenon DEF MAX3421E_Task, Bits
  <2>3. ProbedInv' /\ FlagInv' /\ devtable' = devtable
    <3>1. pc = "poll" /\ pc' \in {"probe", "task"} /\ UNCHANGED <<taskVars, runningdebugflag>>
      BY <1>5 DEF MAX3421E_Task
    <3> QED  BY <1>1, <3>1 DEF ProbedInv, FlagInv
  <2>4. TableInv' /\ OwnerInv'
    BY <1>5, TableSame, OwnerSame DEF MAX3421E_Task, DriverInv
  <2> QED  BY <1>1, <2>1, <2>2, <2>3, <2>4, TypeParts DEF DriverInv
<1>6. CASE HandlerProbe
  <2>1. Words'
    BY <1>1, <1>6, ProbeLeaves DEF HandlerProbe, busprobe, Words
  <2>2. Bits'
    BY <1>1, <1>6, ProbeBits, Zenon DEF HandlerProbe, Bits
  <2>3. ProbedInv' /\ FlagInv' /\ devtable' = devtable
    BY <1>1, <1>6, ProbeLeaves DEF HandlerProbe, ProbedInv, FlagInv
  <2>4. TableInv' /\ OwnerInv'
    BY <1>6, ProbeLeaves, TableSame, OwnerSame DEF HandlerProbe, DriverInv
  <2> QED  BY <1>1, <2>1, <2>2, <2>3, <2>4, TypeParts DEF DriverInv
<1>7. CASE HandlerAck
  <2>0. usb_task_state \in ProbedStates /\ pc' = "task"
    BY <1>1, <1>7 DEF HandlerAck, ProbedInv
  <2>1. usb_task_state' \in TaskStates /\ usb_task_state' \notin {CONFIGURING, RUNNING}
        /\ usb_task_state' < GET_DEVICE_DESCRIPTOR_SIZE
    <3>1. CASE advance
      <4>1. usb_task_state' = (usb_task_state + 1) % 256
        BY <1>7, <3>1 DEF HandlerAck
      <4>2. usb_task_state' \in {2, 4, 5, 17, 20}
        BY <4>1, <2>0
      <4> QED  BY <4>2
    <3>2. CASE ~advance
      <4>1. usb_task_state' = usb_task_state
        BY <1>7, <3>2 DEF HandlerAck
      <4> QED  BY <4>1, <2>0
    <3> QED  BY <3>1, <3>2
  <2>2. Words'
    BY <1>1, <1>7, <2>1 DEF HandlerAck, Words
  <2>3. Bits'
    BY <1>1, <1>7, Zenon DEF HandlerAck, Bits
  <2>4. ProbedInv' /\ FlagInv' /\ devtable' = devtable
    BY <2>0, <2>1, <1>7 DEF HandlerAck, ProbedInv, FlagInv
  <2>5. TableInv' /\ OwnerInv'
    BY <1>7, <2>1, TableSame, OwnerSame DEF HandlerAck, DriverInv
  <2> QED  BY <1>1, <2>2, <2>3, <2>4, <2>5, TypeParts DEF DriverInv
<1> QED  BY <1>2, <1>3, <1>4, <1>5, <1>6, <1>7

-----------------------------------------------------------------------------
(* transfer.c.  Up to the descriptor the task leaves the table alone or    *)
(* clears it; main's flag is down before the address is assigned.          *)

TableKept ==
  StartSettle \/ Settled \/ ResetDevice \/ ResetComplete \/ FirstSof \/ GetDeviceDescriptor
  \/ NothingToDo

LEMMA TableKeptDriver == DriverInv /\ TableKept => DriverInv'
<1> SUFFICES ASSUME DriverInv, TableKept PROVE DriverInv'
  OBVIOUS
<1> USE DEF Task, TaskKeeps, taskVars, mainVars, chipVars, portVars
<1>1. Words /\ devtable \in [Slots -> Entry] /\ Bits /\ FlagInv
  BY TypeParts DEF DriverInv
<1>2. /\ pc = "task" /\ pc' = "main"
      /\ UNCHANGED <<devtable, tmp_addr, hid_addr, device, runningdebugflag, keycode, plugged,
                     last, seen>>
      /\ address' = 0 \/ address' = address
  BY DEF TableKept, StartSettle, Settled, ResetDevice, ResetComplete, FirstSof,
         GetDeviceDescriptor, NothingToDo
<1>3. /\ usb_task_state' \in TaskStates /\ settling' \in {"no", "yes", "wrap"}
      /\ \/ usb_task_state' = usb_task_state
         \/ usb_task_state' \in {SETTLE, RESET_DEVICE, WAIT_RESET_COMPLETE, WAIT_SOF,
                                 GET_DEVICE_DESCRIPTOR_SIZE}
         \/ usb_task_state = GET_DEVICE_DESCRIPTOR_SIZE /\ usb_task_state' \in {ADDRESSING, ERROR}
  <2>1. usb_task_state \in TaskStates /\ settling \in {"no", "yes", "wrap"}
    BY <1>1 DEF Words
  <2>2. CASE StartSettle \/ Settled \/ ResetDevice \/ ResetComplete \/ FirstSof
    <3>1. usb_task_state' \in {SETTLE, RESET_DEVICE, WAIT_RESET_COMPLETE, WAIT_SOF,
                              GET_DEVICE_DESCRIPTOR_SIZE}
      BY <2>2 DEF StartSettle, Settled, ResetDevice, ResetComplete, FirstSof
    <3>2. settling' \in {settling, "yes", "wrap"}
      BY <2>2 DEF StartSettle, Settled, ResetDevice, ResetComplete, FirstSof
    <3> QED  BY <2>1, <3>1, <3>2
  <2>3. CASE GetDeviceDescriptor
    BY <2>1, <2>3 DEF GetDeviceDescriptor
  <2>4. CASE NothingToDo
    <3>1. UNCHANGED taskVars
      BY <2>4, Zenon DEF NothingToDo
    <3> QED  BY <2>1, <3>1
  <2> QED  BY <2>2, <2>3, <2>4 DEF TableKept
<1>4. Words'
  BY <1>1, <1>2, <1>3 DEF Words
<1>5. Bits'
  BY <1>1, Zenon DEF Bits, TableKept, StartSettle, Settled, ResetDevice, ResetComplete,
                     FirstSof, GetDeviceDescriptor, NothingToDo
<1>6. ProbedInv' /\ FlagInv'
  BY <1>1, <1>2, <1>3 DEF ProbedInv, FlagInv
<1>7. TableInv' /\ OwnerInv'
  BY <1>2, <1>3, TableSame, OwnerSame DEF DriverInv
<1> QED  BY <1>1, <1>2, <1>4, <1>5, <1>6, <1>7, TypeParts DEF DriverInv

LEMMA InitializeDriver == DriverInv /\ DetachedInitialize => DriverInv'
<1> SUFFICES ASSUME DriverInv, DetachedInitialize PROVE DriverInv'
  OBVIOUS
<1> USE DEF Task, TaskKeeps, mainVars
<1>1. Words /\ Bits
  BY TypeParts DEF DriverInv
<1>2. Words'
  BY <1>1 DEF DetachedInitialize, Words
<1>3. Bits'
  BY <1>1, Zenon DEF DetachedInitialize, Bits
<1>4. ProbedInv' /\ FlagInv'
  BY DEF DriverInv, DetachedInitialize, ProbedInv, FlagInv
<1>5. TableInv' /\ OwnerInv' /\ devtable' \in [Slots -> Entry]
  BY <1>1, TableCleared DEF DetachedInitialize, Words
<1> QED  BY <1>2, <1>3, <1>4, <1>5, TypeParts DEF DriverInv

(* The slot of the new address is the last used one, and its class is not  *)
(* known yet.                                                              *)
LEMMA AddressingDriver == DriverInv /\ Addressing => DriverInv'
<1> SUFFICES ASSUME DriverInv, Addressing PROVE DriverInv'
  OBVIOUS
<1> USE DEF Task, TaskKeeps, mainVars
<1>1. Words /\ devtable \in [Slots -> Entry] /\ Bits /\ FlagInv /\ TableInv /\ OwnerInv
  BY TypeParts DEF DriverInv
<1>2. /\ pc = "task" /\ pc' = "main" /\ usb_task_state = ADDRESSING
      /\ UNCHANGED <<hid_addr, device, runningdebugflag, keycode, plugged, last, seen, settling>>
  BY DEF Addressing
<1>3. ~runningdebugflag /\ ~runningdebugflag'
  BY <1>1, <1>2 DEF FlagInv
<1>4. Bits'
  BY <1>1, Zenon DEF Addressing, Bits
<1>5. ProbedInv' /\ FlagInv'
  BY <1>2, <1>3 DEF ProbedInv, FlagInv
<1>6. CASE FreeSlots = {}
  <2>1. usb_task_state' = ERROR /\ UNCHANGED <<devtable, tmp_addr, address>>
    BY <1>6 DEF Addressing
  <2>2. Words'
    BY <1>1, <1>2, <2>1 DEF Words
  <2>3. TableInv' /\ OwnerInv'
    BY <1>1, <1>2, <1>3, <2>1, TableSame, OwnerSame
  <2> QED  BY <1>1, <1>4, <1>5, <2>1, <2>2, <2>3, TypeParts DEF DriverInv
<1>7. CASE FreeSlots # {}
  <2>1. PICK m \in 0..(USB_NUMDEVICES - 1) : LastUsed(m)
    BY <1>1 DEF TableInv
  <2>2. m + 1 \in Slots /\ Min(FreeSlots) = m + 1 /\ UsedUpTo(m)
    BY <1>7, <2>1, FirstFree DEF LastUsed
  <2> DEFINE i == m + 1
  <2>3. PICK ok \in Transfer(0) :
          /\ devtable' = [devtable EXCEPT ![i].epinfo = "dev0ep"]
          /\ tmp_addr' = IF ok THEN i ELSE tmp_addr
          /\ usb_task_state' = IF ok THEN CONFIGURING ELSE ERROR
          /\ address' \in IF TRUE \in Transfer(0) THEN {0, i} ELSE {address}
    BY <1>7, <2>2 DEF Addressing, AssignAddress
  <2>4. address' \in {0, i, address}
    BY <2>3
  <2>5. /\ usb_task_state' \in {CONFIGURING, ERROR} /\ tmp_addr' \in {i, tmp_addr}
        /\ usb_task_state' = CONFIGURING => tmp_addr' = i
    BY <2>3
  <2>6. Words'
    BY <1>1, <1>2, <2>2, <2>4, <2>5 DEF Words
  <2>7. /\ devtable' \in [Slots -> Entry] /\ devtable'[i].epinfo = "dev0ep"
        /\ \A j \in Slots \ {i} : devtable'[j] = devtable[j]
    <3>1. devtable[i] \in Entry
      BY <1>1, <2>2
    <3>2. [devtable[i] EXCEPT !.epinfo = "dev0ep"] \in Entry
      BY <3>1 DEF Entry
    <3>3. devtable' = [devtable EXCEPT ![i] = [devtable[i] EXCEPT !.epinfo = "dev0ep"]]
      BY <2>3
    <3>4. [devtable[i] EXCEPT !.epinfo = "dev0ep"].epinfo = "dev0ep"
      BY <3>1 DEF Entry
    <3> QED  BY <1>1, <2>2, <3>2, <3>3, <3>4
  <2>8. TableInv'
    <3>1. i \in 0..(USB_NUMDEVICES - 1)
      BY <2>2, UsbAssumption DEF Slots
    <3>2. UsedUpTo(i)'
      BY <2>2, <2>7, UsbAssumption DEF UsedUpTo, Slots
    <3>3. LastUsed(i)'
      BY <3>2, <2>5 DEF LastUsed
    <3> QED  BY <3>1, <3>3 DEF TableInv
  <2>9. OwnerInv'
    BY <1>1, <1>2, <2>2, <2>4, <2>7, SlotFacts DEF OwnerInv, Words
  <2> QED  BY <1>4, <1>5, <2>6, <2>7, <2>8, <2>9, TypeParts DEF DriverInv
<1> QED  BY <1>6, <1>7

(* Who answers has the address.                                            *)
LEMMA Answered ==
  ASSUME NEW a, NEW ok \in Transfer(a), ok
  PROVE  address = a
BY Zenon DEF Transfer

(* The probe writes the class of who answers at the address.               *)
LEMMA ConfiguringDriver == DriverInv /\ Configuring => DriverInv'
<1> SUFFICES ASSUME DriverInv, Configuring PROVE DriverInv'
  OBVIOUS
<1> USE DEF Task, TaskKeeps, mainVars
<1>1. Words /\ devtable \in [Slots -> Entry] /\ Bits /\ FlagInv /\ TableInv /\ OwnerInv
  BY TypeParts DEF DriverInv
<1>2. /\ pc = "task" /\ pc' = "main" /\ usb_task_state = CONFIGURING
      /\ UNCHANGED <<tmp_addr, device, runningdebugflag, keycode, plugged, last, seen,
                     settling, address>>
  BY DEF Configuring
<1>3. ~runningdebugflag /\ ~runningdebugflag'
  BY <1>1, <1>2 DEF FlagInv
<1>4. Bits'
  BY <1>1, Zenon DEF Configuring, Bits
<1>5. ProbedInv' /\ FlagInv'
  BY <1>2, <1>3 DEF ProbedInv, FlagInv
<1>6. PICK m \in 0..(USB_NUMDEVICES - 1) : LastUsed(m)
  BY <1>1 DEF TableInv
<1>7. UsedUpTo(m) /\ m > 0 /\ tmp_addr = m /\ m \in Slots
  BY <1>2, <1>6 DEF LastUsed, Slots
<1>8. CASE NoProbeMatches
  <2>1. usb_task_state' = ERROR /\ UNCHANGED <<devtable, hid_addr>>
    BY <1>8 DEF NoProbeMatches
  <2>2. Words'
    BY <1>1, <1>2, <2>1 DEF Words
  <2>3. TableInv' /\ OwnerInv'
    BY <1>1, <1>2, <1>3, <2>1, TableSame, OwnerSame
  <2> QED  BY <1>1, <1>4, <1>5, <2>1, <2>2, <2>3, TypeParts DEF DriverInv
<1>9. ASSUME NEW ok \in BOOLEAN, ProbeMatches(ok) PROVE DriverInv'
  <2> DEFINE e == [epinfo |-> "hid_ep", devclass |-> DriverClass]
  <2>1. /\ devtable' = [devtable EXCEPT ![m] = e] /\ hid_addr' = m
        /\ usb_task_state' \in {RUNNING, ERROR}
    BY <1>7, <1>9 DEF ProbeMatches
  <2>2. address = m
    BY <1>7, <1>9, Answered DEF ProbeMatches
  <2>3. e \in Entry /\ e.epinfo = "hid_ep" /\ (e.devclass = HID_K => plugged \in Keyboards)
    BY DEF DriverClass, Entry, HID_K, HID_M
  <2> HIDE DEF e
  <2>4. devtable' \in [Slots -> Entry] /\ devtable'[m] = e
        /\ \A j \in Slots \ {m} : devtable'[j] = devtable[j]
    BY <1>1, <1>7, <2>1, <2>3
  <2>5. Words'
    BY <1>1, <1>2, <1>7, <2>1 DEF Words
  <2>6. TableInv'
    <3>1. UsedUpTo(m)'
      BY <1>7, <2>3, <2>4 DEF UsedUpTo
    <3>2. LastUsed(m)'
      BY <1>3, <1>7, <2>1, <2>3, <2>4, <3>1 DEF LastUsed
    <3> QED  BY <3>2 DEF TableInv
  <2>7. OwnerInv'
    <3>1. address' = m /\ plugged' = plugged
      BY <1>2, <2>2
    <3>2. devtable'[m] = [epinfo |-> "hid_ep", devclass |-> HID_K] => e.devclass = HID_K
      BY <2>4
    <3> QED  BY <2>3, <3>1, <3>2 DEF OwnerInv
  <2> QED  BY <1>4, <1>5, <2>4, <2>5, <2>6, <2>7, TypeParts DEF DriverInv
<1> QED  BY <1>8, <1>9 DEF Configuring

LEMMA TaskDriver == DriverInv /\ USB_Task => DriverInv'
BY TableKeptDriver, InitializeDriver, AddressingDriver, ConfiguringDriver DEF USB_Task, TableKept

-----------------------------------------------------------------------------
(* main.c                                                                  *)

LEMMA MainDriver == DriverInv /\ Main => DriverInv'
<1> SUFFICES ASSUME DriverInv, Main PROVE DriverInv'
  OBVIOUS
<1> USE DEF MainKeeps, taskVars, mainVars, chipVars, portVars
<1>1. Words /\ devtable \in [Slots -> Entry] /\ Bits /\ FlagInv /\ TableInv /\ OwnerInv
  BY TypeParts DEF DriverInv
<1>2. /\ pc = "main" /\ pc' \in {"poll", "init"}
      /\ UNCHANGED <<advance, taskVars, chipVars, portVars, seen>>
  BY DEF Main, GetDriverandReport, PollKeyboard, OtherDevice, NotRunning
<1>3. OwnerInv'
  BY <1>1, <1>2, OwnerSame
<1>4. ProbedInv'
  BY <1>2 DEF ProbedInv
<1>5. CASE GetDriverandReport
  <2>1. /\ usb_task_state = RUNNING /\ pc' = "poll" /\ device' = LastClass
        /\ keycode' = keycode
    BY <1>5 DEF GetDriverandReport
  <2>2. PICK m \in 0..(USB_NUMDEVICES - 1) : LastUsed(m)
    BY <1>1 DEF TableInv
  <2>3. m \in Slots /\ m > 0 /\ UsedUpTo(m)
    BY <2>1, <2>2 DEF LastUsed, Slots
  <2>4. device' = devtable[m].devclass
    BY <2>1, <2>3, LastClassIs
  <2>5. device' \in {UNINIT, HID_K, HID_M}
    BY <1>1, <2>3, <2>4 DEF Entry
  <2>6. Words'
    BY <1>1, <1>2, <2>1, <2>5 DEF Words
  <2>7. Bits'
    BY <1>1, <1>2, <1>5, Zenon DEF GetDriverandReport, Bits
  <2>8. FlagInv'
    BY <1>2, <2>1 DEF FlagInv
  <2>9. TableInv'
    BY <1>2, <2>2, <2>4 DEF TableInv, LastUsed, UsedUpTo
  <2> QED  BY <1>1, <1>2, <1>3, <1>4, <2>6, <2>7, <2>8, <2>9, TypeParts DEF DriverInv
<1>6. CASE PollKeyboard \/ OtherDevice
  <2>1. UNCHANGED <<runningdebugflag, device>> /\ pc' = "poll"
        /\ usb_task_state \in {RUNNING, ERROR}
    BY <1>6 DEF PollKeyboard, OtherDevice
  <2>2. keycode' \in Keys \cup {0}
    BY <1>1, <1>6 DEF PollKeyboard, OtherDevice, Words
  <2>3. Words'
    BY <1>1, <1>2, <2>1, <2>2 DEF Words
  <2>4. Bits'
    BY <1>1, <1>2, <2>1, Zenon DEF Bits
  <2>5. FlagInv'
    BY <1>1, <1>2, <2>1 DEF FlagInv
  <2>6. TableInv'
    BY <1>1, <1>2, <2>1, TableSame
  <2> QED  BY <1>1, <1>2, <1>3, <1>4, <2>3, <2>4, <2>5, <2>6, TypeParts DEF DriverInv
<1>7. CASE NotRunning
  <2>1. ~runningdebugflag' /\ UNCHANGED <<device, keycode>>
    BY <1>7 DEF NotRunning
  <2>2. Words'
    BY <1>1, <1>2, <2>1 DEF Words
  <2>3. Bits'
    BY <1>1, <1>2, <1>7, Zenon DEF NotRunning, Bits
  <2>4. FlagInv'
    BY <2>1 DEF FlagInv
  <2>5. TableInv'
    BY <1>1, <1>2, <2>1, TableSame
  <2> QED  BY <1>1, <1>2, <1>3, <1>4, <2>2, <2>3, <2>4, <2>5, TypeParts DEF DriverInv
<1> QED  BY <1>5, <1>6, <1>7 DEF Main

LEMMA DriverStep == DriverInv /\ [Next]_vars => DriverInv'
<1>1. DriverInv /\ UNCHANGED vars => DriverInv'
  <2> SUFFICES ASSUME DriverInv, UNCHANGED vars PROVE DriverInv'
    OBVIOUS
  <2> USE DEF vars, taskVars, mainVars, chipVars, portVars
  <2>1. TypeOK'
    <3>1. Words /\ devtable \in [Slots -> Entry] /\ Bits
      BY TypeParts DEF DriverInv
    <3>2. Words' /\ devtable' \in [Slots -> Entry]
      BY <3>1 DEF Words
    <3>3. Bits'
      BY <3>1, Zenon DEF Bits
    <3> QED  BY <3>2, <3>3, TypeParts
  <2>2. ProbedInv' /\ FlagInv'
    BY DEF DriverInv, ProbedInv, FlagInv
  <2>3. TableInv' /\ OwnerInv'
    BY TableSame, OwnerSame DEF DriverInv
  <2> QED  BY <2>1, <2>2, <2>3 DEF DriverInv
<1> QED
  BY <1>1, EnvironmentDriver, ChipCodeDriver, TaskDriver, MainDriver DEF Next, Host

LEMMA LastIsPolled == DriverInv => DriverMatchesDevice
<1> SUFFICES ASSUME DriverInv, usb_task_state = RUNNING, runningdebugflag
             PROVE  /\ hid_addr \in Slots
                    /\ devtable[hid_addr] = [epinfo |-> "hid_ep", devclass |-> device]
  BY DEF DriverMatchesDevice
<1>1. PICK m \in 0..(USB_NUMDEVICES - 1) : LastUsed(m)
  BY DEF DriverInv, TableInv
<1>2. m \in Slots /\ hid_addr = m /\ devtable[m].epinfo = "hid_ep"
      /\ device = devtable[m].devclass
  BY <1>1 DEF LastUsed, Slots
<1>3. devtable[m] \in Entry
  BY <1>2, TypeParts DEF DriverInv
<1> QED  BY <1>2, <1>3 DEF Entry

(* Only PollKeyboard writes the register.                                  *)
LEMMA KeycodeStep ==
  DriverInv /\ [Next]_vars /\ keycode' # keycode => plugged \in Keyboards /\ address = hid_addr
<1> SUFFICES ASSUME DriverInv, [Next]_vars, keycode' # keycode
             PROVE  plugged \in Keyboards /\ address = hid_addr
  OBVIOUS
<1> USE DEF vars, taskVars, mainVars, chipVars, portVars
<1>1. ~Environment
  BY DEF Environment, Plug, Unplug, ResetEnds, DelayPasses
<1>2. ~(ChipReset \/ InitProbe \/ InitAck \/ MAX3421E_Task \/ HandlerProbe \/ HandlerAck)
  BY DEF ChipReset, InitProbe, InitAck, MAX3421E_Task, HandlerProbe, HandlerAck
<1>3. ~USB_Task
  BY DEF USB_Task, DetachedInitialize, StartSettle, Settled, ResetDevice, ResetComplete, FirstSof,
         GetDeviceDescriptor, Addressing, Configuring, NothingToDo, TaskKeeps
<1>4. PollKeyboard
  BY <1>1, <1>2, <1>3 DEF Next, Host, Main, GetDriverandReport, OtherDevice, NotRunning
<1>5. PICK ok \in Transfer(hid_addr) :
        IF ok THEN \E k \in Keys \cup {0} : keycode' = k ELSE keycode' = keycode
  BY <1>4 DEF PollKeyboard
<1>6. address = hid_addr
  BY <1>5, Answered
<1>7. hid_addr \in Slots /\ devtable[hid_addr] = [epinfo |-> "hid_ep", devclass |-> HID_K]
  BY <1>4, LastIsPolled DEF PollKeyboard, DriverMatchesDevice
<1> QED  BY <1>6, <1>7, SlotFacts DEF DriverInv, OwnerInv

-----------------------------------------------------------------------------
(* The speed of the bus.                                                   *)

(* The chip is set to the speed of the device plugged in last.             *)
SpeedRight == last \in Devices \ Faulty => (last \in LowSpeed) = LOWSPEED

(* It is where a device has been probed and nothing happened to the plug   *)
(* since; during a bus reset nothing can.                                  *)
SpeedProbed ==
  /\ plugged \in {none, last}
  /\ /\ usb_task_state \in TaskStates \ {ERROR} /\ usb_task_state >= ATTACHED
     /\ pc \notin {"init", "initprobe"} /\ ~CONDETIRQ
     => SpeedRight
  /\ pc = "task" /\ usb_task_state = RESET_DEVICE => SpeedRight
  /\ usb_task_state = WAIT_RESET_COMPLETE => SpeedRight
  /\ pc \in {"ack", "initack"} /\ usb_task_state = ATTACHED => SpeedRight

(* Main sets up the chip anew, and so loses the speed, before the task     *)
(* comes to a bus reset.                                                   *)
SetUpEarly ==
  /\ runningdebugflag /\ usb_task_state # RUNNING =>
       /\ usb_task_state <= RESET_DEVICE
       /\ pc \in {"ack", "task"} => usb_task_state <= SETTLE
  /\ pc \in {"init", "initprobe"} => usb_task_state <= RESET_DEVICE

SpeedInv == SpeedProbed /\ SetUpEarly

LEMMA SpeedInit == Init => SpeedInv
BY DEF Init, SpeedInv, SpeedProbed, SetUpEarly

LEMMA SpeedSame ==
  ASSUME SpeedRight, last' = last, LOWSPEED' = LOWSPEED
  PROVE  SpeedRight'
BY DEF SpeedRight

LEMMA OtherTruth ==
  ASSUME NEW a \in BOOLEAN, NEW b \in BOOLEAN, a # b
  PROVE  a = ~b
OBVIOUS

(* The probe that attaches a device sets its speed (MAX3421E.c:147).       *)
LEMMA ProbeSetsSpeed ==
  ASSUME busprobe, UNCHANGED <<plugged, last>>, plugged \in {none, last}, LOWSPEED \in BOOLEAN,
         usb_task_state = WAIT_RESET_COMPLETE => SpeedRight
  PROVE  usb_task_state' \in {ATTACHED, WAIT_RESET_COMPLETE} => SpeedRight'
<1>1. CASE Attach /\ usb_task_state # WAIT_RESET_COMPLETE
  <2>1. plugged = last /\ last \notin Faulty
    BY <1>1 DEF Attach, Line
  <2>2. Line = "J" => (last \in LowSpeed) = LOWSPEED /\ LOWSPEED' = LOWSPEED
    BY <1>1, <2>1, Zenon DEF Attach, Line
  <2>3. Line # "J" => (last \in LowSpeed) # LOWSPEED /\ LOWSPEED' = ~LOWSPEED
    BY <1>1, <2>1, Zenon DEF Attach, Line
  <2>4. (last \in LowSpeed) = LOWSPEED'
    <3>1. CASE Line = "J"
      BY <2>2, <3>1, Zenon
    <3>2. CASE Line # "J"
      <4>1. (last \in LowSpeed) \in BOOLEAN
        BY SMT
      <4>2. (last \in LowSpeed) = ~LOWSPEED
        BY <2>3, <3>2, <4>1, OtherTruth
      <4> QED  BY <2>3, <3>2, <4>2, Zenon
    <3> QED  BY <3>1, <3>2
  <2>5. last' = last
    OBVIOUS
  <2> QED  BY <2>4, <2>5, Zenon DEF SpeedRight
<1>2. CASE Attach /\ usb_task_state = WAIT_RESET_COMPLETE
  BY <1>2, SpeedSame DEF Attach
<1>3. CASE BusIllegal \/ Detach
  BY <1>3 DEF BusIllegal, Detach
<1> QED  BY <1>1, <1>2, <1>3 DEF busprobe

LEMMA EnvironmentSpeed == SpeedInv /\ Environment => SpeedInv'
<1> SUFFICES ASSUME SpeedInv, Environment PROVE SpeedInv'
  OBVIOUS
<1> USE DEF taskVars, mainVars, chipVars, portVars
<1>1. UNCHANGED <<pc, usb_task_state, runningdebugflag, LOWSPEED>>
  BY DEF Environment, Plug, Unplug, ResetEnds, DelayPasses
<1>2. SetUpEarly'
  BY <1>1 DEF SpeedInv, SetUpEarly
<1>3. CASE last' = last
  <2>1. plugged' \in {none, last}
    BY <1>3 DEF Environment, Plug, Unplug, ResetEnds, DelayPasses, SpeedInv, SpeedProbed
  <2>2. ~CONDETIRQ' => ~CONDETIRQ
    BY Zenon DEF Environment, Plug, Unplug, ResetEnds, DelayPasses
  <2> QED  BY <1>1, <1>2, <1>3, <2>1, <2>2, SpeedSame DEF SpeedInv, SpeedProbed
<1>4. CASE last' # last
  <2>1. CONDETIRQ' /\ ~NoTimeToSwap /\ plugged' = last'
    BY <1>4 DEF Environment, Plug, Unplug, ResetEnds, DelayPasses
  <2> QED  BY <1>1, <1>2, <2>1 DEF NoTimeToSwap, SpeedInv, SpeedProbed
<1> QED  BY <1>3, <1>4

LEMMA ChipCodeSpeed ==
  DriverInv /\ SpeedInv
    /\ (ChipReset \/ InitProbe \/ InitAck \/ MAX3421E_Task \/ HandlerProbe \/ HandlerAck)
    => SpeedInv'
<1> SUFFICES ASSUME DriverInv, SpeedInv,
                    ChipReset \/ InitProbe \/ InitAck \/ MAX3421E_Task \/ HandlerProbe
                              \/ HandlerAck
             PROVE  SpeedInv'
  OBVIOUS
<1> USE DEF taskVars, mainVars, portVars, SpeedInv
<1>1. usb_task_state \in TaskStates /\ ProbedInv /\ FlagInv
  BY TypeParts DEF DriverInv, Words
<1>2. LOWSPEED \in BOOLEAN
  BY TypeParts, Zenon DEF DriverInv, Bits
<1>3. UNCHANGED <<plugged, last, runningdebugflag>>
  BY DEF ChipReset, InitProbe, InitAck, MAX3421E_Task, HandlerProbe, HandlerAck
<1>4. plugged' \in {none, last'}
  BY <1>3 DEF SpeedProbed
<1>5. CASE ChipReset
  BY <1>1, <1>4, <1>5 DEF ChipReset, SpeedProbed, SetUpEarly, FlagInv
<1>6. CASE InitProbe \/ HandlerProbe
  <2>1. /\ busprobe /\ usb_task_state' \in ProbedStates /\ pc' \in {"initack", "ack"}
        /\ usb_task_state' = WAIT_RESET_COMPLETE => usb_task_state = WAIT_RESET_COMPLETE
    BY <1>6, ProbeLeaves DEF InitProbe, HandlerProbe
  <2>2. usb_task_state' \in {ATTACHED, WAIT_RESET_COMPLETE} => SpeedRight'
    BY <1>2, <1>3, <2>1, ProbeSetsSpeed DEF SpeedProbed
  <2>3. runningdebugflag => usb_task_state' # WAIT_RESET_COMPLETE
    BY <1>6, <2>1 DEF SetUpEarly
  <2> QED  BY <1>3, <1>4, <2>1, <2>2, <2>3 DEF SpeedProbed, SetUpEarly
<1>7. CASE InitAck
  BY <1>1, <1>4, <1>7, SpeedSame DEF InitAck, SpeedProbed, SetUpEarly, ProbedInv, FlagInv
<1>8. CASE MAX3421E_Task
  <2>1. /\ pc = "poll" /\ pc' \in {"probe", "task"} /\ (pc' = "task" => ~CONDETIRQ)
        /\ UNCHANGED <<usb_task_state, CONDETIRQ, LOWSPEED>>
    BY <1>8 DEF MAX3421E_Task, chipVars
  <2> QED  BY <1>1, <1>3, <1>4, <2>1, SpeedSame DEF SpeedProbed, SetUpEarly, FlagInv
<1>9. CASE HandlerAck
  <2>1. /\ pc = "ack" /\ pc' = "task" /\ LOWSPEED' = LOWSPEED
        /\ usb_task_state \in ProbedStates
    BY <1>1, <1>9 DEF HandlerAck, ProbedInv
  <2>2. usb_task_state' \in {usb_task_state, usb_task_state + 1}
    BY <1>9, <2>1 DEF HandlerAck
  <2>3. usb_task_state \in {ATTACHED, WAIT_RESET_COMPLETE} => SpeedRight'
    BY <1>3, <2>1, SpeedSame DEF SpeedProbed
  <2>4. SpeedProbed'
    BY <1>4, <2>1, <2>2, <2>3 DEF SpeedProbed
  <2>5. SetUpEarly'
    BY <1>3, <2>1, <2>2 DEF SetUpEarly
  <2> QED  BY <2>4, <2>5
<1> QED  BY <1>5, <1>6, <1>7, <1>8, <1>9

LEMMA TaskSpeed == DriverInv /\ SpeedInv /\ USB_Task => SpeedInv'
<1> SUFFICES ASSUME DriverInv, SpeedInv, USB_Task PROVE SpeedInv'
  OBVIOUS
<1> USE DEF Task, TaskKeeps, taskVars, mainVars, chipVars, portVars, SpeedInv
<1>1. usb_task_state \in TaskStates /\ FlagInv
  BY TypeParts DEF DriverInv, Words
<1>2. pc = "task" /\ pc' = "main" /\ UNCHANGED <<plugged, last, LOWSPEED, runningdebugflag>>
  BY DEF USB_Task, DetachedInitialize, StartSettle, Settled, ResetDevice, ResetComplete, FirstSof,
         GetDeviceDescriptor, Addressing, Configuring, NothingToDo
<1>3. ~CONDETIRQ' => ~CONDETIRQ
  BY Zenon DEF USB_Task, DetachedInitialize, StartSettle, Settled, ResetDevice, ResetComplete,
               FirstSof, GetDeviceDescriptor, Addressing, Configuring, NothingToDo
<1>4. /\ usb_task_state' \in TaskStates
      /\ \/ usb_task_state' = usb_task_state
         \/ usb_task_state = INITIALIZE /\ usb_task_state' = WAIT_FOR_DEVICE
         \/ usb_task_state = ATTACHED /\ usb_task_state' = SETTLE
         \/ usb_task_state = SETTLE /\ usb_task_state' = RESET_DEVICE
         \/ usb_task_state = RESET_DEVICE /\ usb_task_state' = WAIT_RESET_COMPLETE
         \/ usb_task_state \in WAIT_RESET_COMPLETE..CONFIGURING /\ usb_task_state' > WAIT_RESET_COMPLETE
  <2>1. CASE StartSettle \/ Settled \/ ResetDevice
    BY <2>1 DEF StartSettle, Settled, ResetDevice
  <2>2. CASE ResetComplete \/ FirstSof
    BY <2>2 DEF ResetComplete, FirstSof
  <2>3. CASE GetDeviceDescriptor
    BY <2>3 DEF GetDeviceDescriptor
  <2>4. CASE NothingToDo
    <3>1. usb_task_state' = usb_task_state
      BY <2>4 DEF NothingToDo
    <3> QED  BY <1>1, <3>1
  <2>5. CASE DetachedInitialize
    BY <2>5 DEF DetachedInitialize
  <2>6. CASE Addressing
    <3>1. usb_task_state = ADDRESSING /\ usb_task_state' \in {CONFIGURING, ERROR}
      BY <2>6 DEF Addressing, AssignAddress
    <3> QED  BY <3>1
  <2>7. CASE Configuring
    <3>1. usb_task_state = CONFIGURING /\ usb_task_state' \in {RUNNING, ERROR}
      BY <2>7 DEF Configuring, ProbeMatches, NoProbeMatches
    <3> QED  BY <3>1
  <2> QED  BY <2>1, <2>2, <2>3, <2>4, <2>5, <2>6, <2>7 DEF USB_Task
<1>5. SpeedProbed'
  BY <1>1, <1>2, <1>3, <1>4, SpeedSame DEF SpeedProbed
<1>6. SetUpEarly'
  BY <1>1, <1>2, <1>4 DEF SetUpEarly, FlagInv
<1> QED  BY <1>5, <1>6

LEMMA MainSpeed == DriverInv /\ SpeedInv /\ Main => SpeedInv'
<1> SUFFICES ASSUME DriverInv, SpeedInv, Main PROVE SpeedInv'
  OBVIOUS
<1> USE DEF MainKeeps, taskVars, mainVars, chipVars, portVars, SpeedInv
<1>1. /\ pc = "main" /\ pc' \in {"poll", "init"}
      /\ UNCHANGED <<usb_task_state, LOWSPEED, CONDETIRQ, plugged, last>>
      /\ pc' = "init" => runningdebugflag /\ usb_task_state # RUNNING
      /\ runningdebugflag' => runningdebugflag \/ usb_task_state = RUNNING
  BY DEF Main, GetDriverandReport, PollKeyboard, OtherDevice, NotRunning
<1>2. SpeedProbed'
  BY <1>1, SpeedSame DEF SpeedProbed
<1>3. SetUpEarly'
  BY <1>1 DEF SetUpEarly
<1> QED  BY <1>2, <1>3

LEMMA SpeedStep == DriverInv /\ SpeedInv /\ [Next]_vars => SpeedInv'
<1>1. SpeedInv /\ UNCHANGED vars => SpeedInv'
  BY DEF vars, taskVars, mainVars, chipVars, portVars, SpeedInv, SpeedProbed, SetUpEarly, SpeedRight
<1> QED
  BY <1>1, EnvironmentSpeed, ChipCodeSpeed, TaskSpeed, MainSpeed DEF Next, Host

LEMMA SpeedIsRight == DriverInv /\ SpeedInv => SpeedMatches
<1> SUFFICES ASSUME DriverInv, SpeedInv, usb_task_state \in Transferring, ~CONDETIRQ,
                    plugged \in Devices \ Faulty
             PROVE  (plugged \in LowSpeed) = LOWSPEED
  BY DEF SpeedMatches
<1>1. plugged = last
  BY UsbAssumption DEF SpeedInv, SpeedProbed
<1>2. SpeedRight
  BY DEF SpeedInv, SpeedProbed, SetUpEarly, Transferring
<1> QED  BY <1>1, <1>2, Zenon DEF SpeedRight

-----------------------------------------------------------------------------
(* The theorems.                                                           *)

(* The states of the task are the listed ones, those without a name        *)
(* included, and every address that the program uses as an index is one of *)
(* devtable (transfer.c:246).                                              *)
THEOREM HostTypes == Spec => []TypeOK
<1>1. DriverInv => TypeOK
  BY DEF DriverInv
<1> QED  BY DriverInit, DriverStep, <1>1, PTL DEF Spec

(* Main polls by the class of the entry the HID layer polls, whatever the  *)
(* devices before this one have left in the table (main.c:33, HID.c:155).  *)
THEOREM DriverMatches == Spec => []DriverMatchesDevice
<1> QED  BY DriverInit, DriverStep, LastIsPolled, PTL DEF Spec

(* A key code comes from a keyboard, also when devices change places while *)
(* main still holds the class of the one before (main.c:161).              *)
THEOREM KeycodesFromKeyboard == Spec => KeycodeFromKeyboard
<1> QED  BY DriverInit, DriverStep, KeycodeStep, PTL DEF Spec, KeycodeFromKeyboard

(* Where the host talks to a device that it has probed, it does so at the  *)
(* device's speed, whatever the devices before it were (MAX3421E.c:147).   *)
THEOREM SpeedCorrect == Spec => []SpeedMatches
<1> QED  BY DriverInit, DriverStep, SpeedInit, SpeedStep, SpeedIsRight, PTL DEF Spec

=============================================================================
