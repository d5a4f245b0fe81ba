------------------------------ MODULE HidDriver ------------------------------
(***************************************************************************)
(* The class probes of HID.c on the transfers of transfer.c: USB_Task runs *)
(* the probes of ClientDriverTable one after the other until one returns   *)
(* TRUE, and main then polls the device for ever.  Each probe reads the    *)
(* head of the configuration descriptor, then all of it, walks over it,    *)
(* fills in the tables, and sets configuration and boot protocol.          *)
(*                                                                         *)
(* A configuration is a sequence of cells, one per descriptor; its first   *)
(* cell gives the length.  bigbuf takes BufLen cells.                      *)
(***************************************************************************)
EXTENDS UsbTransfer, FiniteSetsExt

CONSTANTS
  BufLen,                   \* cells of bigbuf (256 bytes)
  ReportSize                \* cells that a poll asks for (8 bytes)

ASSUME HidAssumption == BufLen \in Nat \ {0} /\ ReportSize \in Nat \ {0}

Interface == [type : {"INTERFACE"}, protocol : {"keyboard", "mouse", "none"}]
Endpoint == [type : {"ENDPOINT"}, maxpktsize : 1..ReportSize]
Other == [type : {"HID"}]
Header(n) == [type |-> "CONFIGURATION", total |-> n]
Empty == [type |-> "nothing yet"]

(* Those that fit into bigbuf, and those with one cell more, of any type.  *)
Configurations ==
  LET kinds == Interface \cup Endpoint \cup Other
      fitting == UNION {{<<Header(n + 1)>> \o s : s \in [1..n -> kinds]} : n \in 0..(BufLen - 1)}
  IN fitting \cup {<<Header(BufLen + 1)>> \o s \o <<CHOOSE d \in Other : TRUE>> :
                    s \in [1..(BufLen - 1) -> kinds]}

HID_K == 1
HID_M == 2
Protocol(c) == IF c = HID_K THEN "keyboard" ELSE "mouse"
Probes == <<HID_M, HID_K>>      \* those of ClientDriverTable that do something

VARIABLES
  pc,                       \* step of the probe, "polling", "error"
  probe,                    \* the probe that runs, index of Probes
  bigbuf,
  devclass, epinfo,         \* the device's entry in devtable
  maxpktsize,               \* hid_ep[1].MaxPktSize
  conf,                     \* the device's configuration
  polled, reports           \* a poll is under way; history: reports main got

hidVars == <<pc, probe, bigbuf, devclass, epinfo, maxpktsize, conf, polled, reports>>
vars == <<transferVars, hidVars>>

Init ==
  /\ TransferInit
  /\ pc = "start" /\ probe = 1 /\ bigbuf = [i \in 1..BufLen |-> Empty]
  /\ devclass = 0 /\ epinfo = "dev0ep" /\ maxpktsize = 0
  /\ conf \in Configurations
  /\ polled = FALSE /\ reports = <<>>

-----------------------------------------------------------------------------
(* The transfers have written into bigbuf, also those that failed.         *)
Filled == [i \in 1..BufLen |-> IF i <= Len(buf) THEN buf[i] ELSE bigbuf[i]]

total_length == IF bigbuf[1].total > BufLen THEN BufLen ELSE bigbuf[1].total

GetConf(n) == XferCtrlReq("descr", n, SubSeq(conf, 1, Lesser(n, Len(conf)))) /\ UNCHANGED rcvToggle

(* A probe has returned FALSE: USB_Task tries the next one.                *)
NextProbe ==
  IF probe < Len(Probes) THEN pc' = "start" /\ probe' = probe + 1
  ELSE pc' = "error" /\ UNCHANGED probe

ProbeFails ==
  /\ NextProbe
  /\ UNCHANGED <<transferVars, devclass, epinfo, maxpktsize, conf, polled, reports>>

AfterCall(p) == pc = p /\ stage = "idle"

ReadHeader ==
  /\ pc = "start" /\ pc' = "header" /\ GetConf(1)
  /\ UNCHANGED <<probe, bigbuf, devclass, epinfo, maxpktsize, conf, polled, reports>>

ReadAll ==
  /\ AfterCall("header") /\ rcode = hrSUCCESS
  /\ bigbuf' = Filled /\ pc' = "all" /\ GetConf(total_length')
  /\ UNCHANGED <<probe, devclass, epinfo, maxpktsize, conf, polled, reports>>

ReadFails ==
  /\ pc \in {"header", "all"} /\ stage = "idle" /\ rcode # hrSUCCESS
  /\ bigbuf' = Filled /\ ProbeFails

(* The walk: the first interface decides, the first endpoint behind it is  *)
(* taken.                                                                  *)
OfType(b, t, from) == {i \in from..total_length : b[i].type = t}
FirstInterface(b) == Min(OfType(b, "INTERFACE", 1))
FirstEndpoint(b) == Min(OfType(b, "ENDPOINT", FirstInterface(b)))

(* Mutant of Matches: any interface of the right class will do. *)
MatchesAny(b) ==
  \E i \in OfType(b, "INTERFACE", 1) : b[i].protocol = Protocol(Probes[probe])

Matches(b) ==
  /\ OfType(b, "INTERFACE", 1) # {}
  /\ b[FirstInterface(b)].protocol = Protocol(Probes[probe])

NoMatch ==
  /\ AfterCall("all") /\ rcode = hrSUCCESS
  /\ bigbuf' = Filled /\ ~Matches(Filled)
  /\ ProbeFails

(* The entry is filled in; HID_init sets the toggle to DATA0.  Without an  *)
(* endpoint the probe fails with the entry half filled.                    *)
FillEntry ==
  /\ AfterCall("all") /\ rcode = hrSUCCESS
  /\ bigbuf' = Filled /\ Matches(Filled)
  /\ devclass' = Probes[probe] /\ epinfo' = "hid_ep" /\ rcvToggle' = 0
  /\ IF OfType(Filled, "ENDPOINT", FirstInterface(Filled)) # {}
     THEN /\ maxpktsize' = Filled[FirstEndpoint(Filled)].maxpktsize
          /\ pc' = "conf" /\ XferCtrlReq("conf", 0, <<>>)
          /\ UNCHANGED probe
     ELSE /\ NextProbe
          /\ UNCHANGED <<maxpktsize, stage, call, nak_count, retry_count, reachable, buf,
                         rcode, RCVTOG, mute, dev>>
  /\ UNCHANGED <<conf, polled, reports>>

SetProto ==
  /\ AfterCall("conf") /\ rcode = hrSUCCESS
  /\ pc' = "proto" /\ XferCtrlReq("proto", 0, <<>>) /\ UNCHANGED rcvToggle
  /\ UNCHANGED <<probe, bigbuf, devclass, epinfo, maxpktsize, conf, polled, reports>>

SetFails ==
  /\ pc \in {"conf", "proto"} /\ stage = "idle" /\ rcode # hrSUCCESS
  /\ UNCHANGED bigbuf /\ ProbeFails

ProbeSucceeds ==
  /\ AfterCall("proto") /\ rcode = hrSUCCESS
  /\ pc' = "polling"
  /\ UNCHANGED <<transferVars, probe, bigbuf, devclass, epinfo, maxpktsize, conf, polled, reports>>

-----------------------------------------------------------------------------
(* main: kbdPoll or mousePoll, again and again, of endpoint 1 whatever     *)
(* number the descriptor has given; the device's is taken to be 1.         *)

(* What the device sends as a report: eight bytes from a keyboard, fewer   *)
(* from a mouse.                                                           *)
ReportLength == IF devclass = HID_K THEN ReportSize ELSE 1

Poll ==
  /\ pc = "polling" /\ stage = "idle" /\ ~polled
  /\ polled' = TRUE
  /\ XferInTransfer(ReportSize, maxpktsize, ReportLength)
  /\ UNCHANGED <<pc, probe, bigbuf, devclass, epinfo, maxpktsize, conf, reports>>

(* Only a poll that succeeded is looked at.                                *)
Polled ==
  /\ pc = "polling" /\ stage = "idle" /\ polled
  /\ polled' = FALSE
  /\ reports' = IF rcode = hrSUCCESS THEN Append(reports, buf) ELSE reports
  /\ UNCHANGED <<transferVars, pc, probe, bigbuf, devclass, epinfo, maxpktsize, conf>>

-----------------------------------------------------------------------------
Host ==
  \/ Transaction /\ UNCHANGED hidVars
  \/ ReadHeader \/ ReadAll \/ ReadFails \/ NoMatch \/ FillEntry
  \/ SetProto \/ SetFails \/ ProbeSucceeds \/ Poll \/ Polled

(* The driver has given up, or waits for ever.                             *)
Finished == (pc = "error" \/ Stuck) /\ UNCHANGED vars

Next == Host \/ Finished \/ (ChipHangs /\ UNCHANGED hidVars)

Spec == Init /\ [][Next]_vars /\ WF_vars(Host)

-----------------------------------------------------------------------------
(* Properties                                                              *)

TypeOK ==
  /\ stage \in {"idle", "setup", "in", "status"}
  /\ nak_count \in 0..(USB_NAK_LIMIT - 1) /\ retry_count \in 0..(USB_RETRY_LIMIT - 1)
  /\ rcode \in {hrSUCCESS, hrNAK, hrSTALL, hrTOGERR, hrTIMEOUT, TimeLimit}
  /\ {rcvToggle, RCVTOG, dev.tog, dev.rtog} \subseteq {0, 1} /\ reachable \in BOOLEAN
  /\ pc \in {"start", "header", "all", "conf", "proto", "polling", "error"}
  /\ probe \in 1..Len(Probes) /\ devclass \in {0, HID_K, HID_M}
  /\ epinfo \in {"dev0ep", "hid_ep"} /\ maxpktsize \in 0..ReportSize

(* When main polls, the class in the table is that of the device's first   *)
(* interface, the device is configured and in boot protocol, and the       *)
(* packet size is that of the interface's first endpoint - also when an    *)
(* earlier probe failed half way or bigbuf holds the rest of an earlier    *)
(* transfer (HID.c:155).                                                   *)
ProbedDevice ==
  pc = "polling" =>
    LET types(t, from) == {i \in from..Len(conf) : conf[i].type = t}
        intf == Min(types("INTERFACE", 1))
    IN /\ epinfo = "hid_ep" /\ {"conf", "proto"} \subseteq dev.set
       /\ types("INTERFACE", 1) # {} /\ conf[intf].protocol = Protocol(devclass)
       /\ types("ENDPOINT", intf) # {}
       /\ maxpktsize = conf[Min(types("ENDPOINT", intf))].maxpktsize

(* A report fits into one packet that ends a poll: it is shorter than the  *)
(* endpoint's packets, or is all a poll asks for.                          *)
OnePacketReports ==
  ReportLength <= maxpktsize /\ (ReportLength < maxpktsize \/ ReportLength >= ReportSize)

(* main gets every report once, in order, whatever packets, answers and    *)
(* handshakes are lost - the toggle is saved with a success and must still *)
(* agree with the device's after every failure.  With endpoints on which a *)
(* report fills a packet and is shorter than eight bytes this fails: the   *)
(* poll goes on into the next reports (transfer.c:216).                    *)
ReportsInOrder ==
  pc = "polling" /\ OnePacketReports =>
    \A i \in 1..Len(reports) : reports[i] = [j \in 1..ReportLength |-> i]

(* Every transfer comes back to its caller, whatever the device and the    *)
(* wire do (transfer.c:137), and when the chip stops answering too - save  *)
(* for the one case in which the code waits for ever: the deadline of the  *)
(* dispatch was set in the last five seconds before the millisecond clock  *)
(* wraps (transfer.c:144, 153).                                            *)
TransfersEnd == stage # "idle" ~> stage = "idle" \/ (mute /\ ~reachable)

=============================================================================
