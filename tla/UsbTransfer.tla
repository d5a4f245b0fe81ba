---------------------------- MODULE UsbTransfer ----------------------------
(***************************************************************************)
(* Control and interrupt-IN transfers of transfer.c, one bus transaction   *)
(* per step, with the device and the wire as the environment: tokens, data *)
(* and handshakes get lost, the device is not ready or refuses, the chip   *)
(* stops answering.  A transfer is the work of XferCtrlReq or of           *)
(* XferInTransfer; the module that extends this one calls them.            *)
(*                                                                         *)
(* Data are cells: a descriptor or half a report each.  The MAX3421E keeps *)
(* the expected toggle, discards and acknowledges a packet with the other  *)
(* one (hrTOGERR), and raises RCVDAVIRQ with every packet it takes, so     *)
(* that result 0xf0 (transfer.c:206) does not occur.                       *)
(*                                                                         *)
(* A dispatch has one deadline for all its turns, five seconds on.  Its    *)
(* turns together take a fraction of a second, so that only a chip that    *)
(* stops answering meets it; and the milliseconds it is compared with are  *)
(* a product of 32 bits, back at 0 every 71 minutes, so that a deadline    *)
(* set in the last five seconds before that is never met.                  *)
(***************************************************************************)
EXTENDS Integers, Sequences

CONSTANTS
  USB_NAK_LIMIT, USB_RETRY_LIMIT,   \* of one packet
  MaxPktSize0,                      \* cells in a packet of endpoint 0
  MaxReports                        \* bound: reports the device has to send

ASSUME TransferAssumption ==
  /\ USB_NAK_LIMIT \in Nat \ {0} /\ USB_RETRY_LIMIT \in Nat \ {0}
  /\ MaxPktSize0 \in Nat \ {0} /\ MaxReports \in Nat

VARIABLES
  stage,                    \* idle, or the part of the transfer under way
  call,                     \* the arguments, and what the device answers
  nak_count, retry_count,   \* of XferDispatchPkt
  reachable,                \* the clock gets to the deadline of the dispatch
  buf,                      \* what this transfer has stored at *data
  rcode,                    \* result of the last transfer
  rcvToggle, RCVTOG,        \* saved for the interrupt endpoint; in the chip
  mute,                     \* the chip does not end transactions any more
  dev                       \* the device

transferVars == <<stage, call, nak_count, retry_count, reachable, buf, rcode, rcvToggle,
                  RCVTOG, mute, dev>>

hrSUCCESS == 0
hrNAK == 4
hrSTALL == 5
hrTOGERR == 6
hrTIMEOUT == 14
TimeLimit == 255

NoCall == [kind |-> "none", nbytes |-> 0, maxpktsize |-> 0, request |-> "none", data |-> <<>>]

(* The device: position and toggle of its answer on endpoint 0, the report *)
(* it offers on the interrupt endpoint with position and toggle, and what  *)
(* it has been set to.                                                     *)
TransferInit ==
  /\ stage = "idle" /\ call = NoCall /\ nak_count = 0 /\ retry_count = 0 /\ reachable = TRUE
  /\ buf = <<>> /\ rcode = hrSUCCESS /\ rcvToggle = 0 /\ RCVTOG = 0 /\ mute = FALSE
  /\ dev = [pos |-> 0, tog |-> 0, report |-> 1, part |-> 0, rtog |-> 0, set |-> {}]

-----------------------------------------------------------------------------
(* XferDispatchPkt, one turn of its loop with result hr.                   *)

Dispatched(s) == stage' = s /\ nak_count' = 0 /\ retry_count' = 0

(* The wrap may be close when the deadline is set.                         *)
NewDispatch(s) == Dispatched(s) /\ reachable' \in BOOLEAN

(* Mutant of Again: each count starts anew after the other failure. *)
AgainResets(hr) ==
  \/ hr = hrNAK /\ nak_count + 1 # USB_NAK_LIMIT
     /\ nak_count' = nak_count + 1 /\ retry_count' = 0
  \/ hr = hrTIMEOUT /\ retry_count + 1 # USB_RETRY_LIMIT
     /\ retry_count' = retry_count + 1 /\ nak_count' = 0

(* Mutant of Again: the counts are compared before they are raised. *)
AgainOnceMore(hr) ==
  \/ hr = hrNAK /\ nak_count # USB_NAK_LIMIT
     /\ nak_count' = nak_count + 1 /\ UNCHANGED retry_count
  \/ hr = hrTIMEOUT /\ retry_count # USB_RETRY_LIMIT
     /\ retry_count' = retry_count + 1 /\ UNCHANGED nak_count

(* The same token goes out again.                                          *)
Again(hr) ==
  \/ hr = hrNAK /\ nak_count + 1 # USB_NAK_LIMIT
     /\ nak_count' = nak_count + 1 /\ UNCHANGED retry_count
  \/ hr = hrTIMEOUT /\ retry_count + 1 # USB_RETRY_LIMIT
     /\ retry_count' = retry_count + 1 /\ UNCHANGED nak_count

Final(hr) ==
  /\ hr = hrNAK => nak_count + 1 = USB_NAK_LIMIT
  /\ hr = hrTIMEOUT => retry_count + 1 = USB_RETRY_LIMIT

Return(r) == Dispatched("idle") /\ reachable' = TRUE /\ rcode' = r

(* A transaction that ends the transfer, or not, without success.          *)
Fails(hr) ==
  /\ hr # hrSUCCESS
  /\ \/ Again(hr) /\ UNCHANGED <<stage, reachable, rcode>>
     \/ Final(hr) /\ Return(hr)
  /\ UNCHANGED <<call, buf, rcvToggle, RCVTOG, mute>>

(* A chip that has stopped is waited for until the deadline; there is no   *)
(* end to that when the clock does not get there.                          *)
TimedOut == IF reachable THEN {TimeLimit} ELSE {}
Stuck == stage # "idle" /\ mute /\ ~reachable

(* What a transaction may come to when the device does not hear it, or     *)
(* hears it and refuses.                                                   *)
Refusal == IF mute THEN TimedOut ELSE {hrNAK, hrTIMEOUT, hrSTALL}

-----------------------------------------------------------------------------
(* XferCtrlReq.                                                            *)

(* A request without data has a data pointer of NULL.  What becomes of     *)
(* rcvToggle is the caller's.                                              *)
XferCtrlReq(request, nbytes, data) ==
  /\ stage = "idle" /\ NewDispatch("setup")
  /\ call' = [kind |-> IF data = <<>> THEN "set" ELSE "read", nbytes |-> nbytes,
              maxpktsize |-> MaxPktSize0, request |-> request, data |-> data]
  /\ buf' = <<>>
  /\ UNCHANGED <<rcode, RCVTOG, mute, dev>>

(* Starting an IN transfer of the endpoint record with toggle tog.         *)
BeginIn(tog) == NewDispatch("in") /\ RCVTOG' = tog

(* The device takes a SETUP packet always, begins its answer with DATA1,   *)
(* and carries out a setting; SET_CONFIGURATION resets its toggles.        *)
TakesSetup ==
  dev' = [dev EXCEPT !.pos = 0, !.tog = 1,
                     !.set = IF call.kind = "set" THEN @ \cup {call.request} ELSE @,
                     !.rtog = IF call.request = "conf" THEN 0 ELSE @]

(* The data stage starts with DATA1.                                       *)
SetupAcked ==
  /\ stage = "setup" /\ ~mute /\ TakesSetup
  /\ IF call.kind = "read" THEN BeginIn(1) ELSE NewDispatch("status") /\ UNCHANGED RCVTOG
  /\ UNCHANGED <<call, buf, rcode, rcvToggle, mute>>

SetupFails ==
  /\ stage = "setup"
  /\ \/ \E hr \in Refusal \ {hrNAK, hrSTALL} : Fails(hr) /\ UNCHANGED dev
     \/ ~mute /\ Fails(hrTIMEOUT) /\ TakesSetup          \* the handshake is lost

(* Status stage, of either direction.                                      *)
StatusAcked ==
  /\ stage = "status" /\ ~mute
  /\ Return(hrSUCCESS)
  /\ UNCHANGED <<call, buf, rcvToggle, RCVTOG, mute, dev>>

StatusFails ==
  /\ stage = "status"
  /\ \E hr \in Refusal : Fails(hr)
  /\ UNCHANGED dev

-----------------------------------------------------------------------------
(* XferInTransfer.                                                         *)

Lesser(a, b) == IF a < b THEN a ELSE b

Report == [i \in 1..Len(call.data) |-> dev.report]    \* of the length given

(* The packet that the device sends, with its toggle.                      *)
Packet ==
  IF call.kind = "read"
  THEN SubSeq(call.data, dev.pos + 1, Lesser(dev.pos + MaxPktSize0, Len(call.data)))
  ELSE SubSeq(Report, dev.part + 1, Lesser(dev.part + call.maxpktsize, Len(Report)))
PacketToggle == IF call.kind = "read" THEN dev.tog ELSE dev.rtog

HasPacket == call.kind = "poll" => dev.report <= MaxReports

(* The device hears the handshake and goes on to the next packet.          *)
PacketAcked ==
  LET part == dev.part + Len(Packet) IN
  dev' = IF call.kind = "read"
         THEN [dev EXCEPT !.pos = @ + Len(Packet), !.tog = 1 - @]
         ELSE [dev EXCEPT !.rtog = 1 - @,
                          !.part = IF part = Len(Report) THEN 0 ELSE part,
                          !.report = IF part = Len(Report) THEN @ + 1 ELSE @]

(* The chip discards a packet with the wrong toggle.                       *)
InToggleError ==
  /\ stage = "in" /\ ~mute /\ HasPacket /\ PacketToggle # RCVTOG
  /\ Fails(hrTOGERR)
  /\ PacketAcked \/ UNCHANGED dev

InFails ==
  /\ stage = "in"
  /\ \E hr \in Refusal : Fails(hr)
  /\ UNCHANGED dev

(* The two conditions under which the transfer is complete.                *)
LastPacket(got) == Len(Packet) < call.maxpktsize \/ Len(got) >= call.nbytes

EndsStage ==
  IF ~LastPacket(buf') THEN NewDispatch("in") /\ UNCHANGED rcode
  ELSE IF call.kind = "read" THEN NewDispatch("status") /\ UNCHANGED rcode
  ELSE Return(hrSUCCESS)

(* Mutant of InPacket: the toggle of the chip is not saved. *)
InPacketUnsaved ==
  /\ stage = "in" /\ ~mute /\ HasPacket /\ PacketToggle = RCVTOG
  /\ buf' = buf \o Packet /\ RCVTOG' = 1 - RCVTOG /\ UNCHANGED rcvToggle
  /\ EndsStage /\ (PacketAcked \/ UNCHANGED dev)
  /\ UNCHANGED <<call, mute>>

(* Mutant of InPacket: the toggle is set anew for every packet. *)
InPacketSetsToggle ==
  /\ stage = "in" /\ ~mute /\ HasPacket /\ PacketToggle = RCVTOG
  /\ buf' = buf \o Packet /\ RCVTOG' = IF LastPacket(buf') THEN 1 - RCVTOG ELSE RCVTOG
  /\ rcvToggle' = IF call.kind = "poll" /\ LastPacket(buf') THEN RCVTOG' ELSE rcvToggle
  /\ EndsStage /\ (PacketAcked \/ UNCHANGED dev)
  /\ UNCHANGED <<call, mute>>

(* A packet is taken over; its handshake may not reach the device.  The    *)
(* toggle is saved with the last packet; that of endpoint 0 is set anew by *)
(* every request.                                                          *)
InPacket ==
  /\ stage = "in" /\ ~mute /\ HasPacket /\ PacketToggle = RCVTOG
  /\ buf' = buf \o Packet /\ RCVTOG' = 1 - RCVTOG
  /\ rcvToggle' = IF call.kind = "poll" /\ LastPacket(buf') THEN RCVTOG' ELSE rcvToggle
  /\ EndsStage /\ (PacketAcked \/ UNCHANGED dev)
  /\ UNCHANGED <<call, mute>>

(* XferInTransfer on the interrupt endpoint, for reports of len cells.     *)
XferInTransfer(nbytes, maxpktsize, len) ==
  /\ stage = "idle" /\ BeginIn(rcvToggle)
  /\ call' = [kind |-> "poll", nbytes |-> nbytes, maxpktsize |-> maxpktsize,
              request |-> "none", data |-> [i \in 1..len |-> 0]]
  /\ buf' = <<>>
  /\ UNCHANGED <<rcode, rcvToggle, mute, dev>>

-----------------------------------------------------------------------------
Transaction ==
  \/ SetupAcked \/ SetupFails \/ StatusAcked \/ StatusFails
  \/ InPacket \/ InToggleError \/ InFails

(* From some moment on HXFRDNIRQ does not come any more, and dispatches    *)
(* wait for their deadlines.                                               *)
ChipHangs ==
  ~mute /\ mute' = TRUE
  /\ UNCHANGED <<stage, call, nak_count, retry_count, reachable, buf, rcode, rcvToggle,
                 RCVTOG, dev>>

(* A control read that succeeds has stored what the device sent, in order, *)
(* nothing missing and nothing twice, whatever was lost or repeated on the *)
(* way (transfer.c:193).                                                   *)
DataIntact ==
  stage = "idle" /\ call.kind = "read" /\ rcode = hrSUCCESS
    => buf = SubSeq(call.data, 1, Lesser(call.nbytes, Len(call.data)))

=============================================================================
