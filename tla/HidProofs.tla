------------------------------ MODULE HidProofs ------------------------------
(***************************************************************************)
(* Proofs about the HID class on the transfers of transfer.c, for any      *)
(* limits, packet sizes, descriptors and buffer length, and any losses on  *)
(* the wire.                                                               *)
(*                                                                         *)
(* Both directions of a stop-and-wait protocol have two states: toggles    *)
(* equal, and the device's next packet is the one the host waits for; or   *)
(* toggles different, and the device repeats a packet the host has taken.  *)
(* DataInv says it for the reads of the probes, ReportInv for the polls.   *)
(* CallInv lists the calls each place in HID.c makes, ProbeInv what a      *)
(* probe has found out at each of them.                                    *)
(***************************************************************************)
EXTENDS HidDriver, SequenceTheorems, WellFoundedInduction, TLAPS

(* Cells of a configuration and of bigbuf: the header's length is not      *)
(* bounded, since a device's configuration may be longer than the buffer.  *)
Cell == Interface \cup Endpoint \cup Other \cup {Empty}
          \cup [type : {"CONFIGURATION"}, total : Nat]

(* How much of the configuration a probe reads. *)
Whole == Lesser(BufLen, Len(conf))

(* The three kinds of call: a read of the configuration, a request without *)
(* data, and a poll.                                                       *)
ReadOf(n) ==
  [kind |-> "read", nbytes |-> n, maxpktsize |-> MaxPktSize0, request |-> "descr",
   data |-> SubSeq(conf, 1, Lesser(n, Len(conf)))]
SetOf(r) ==
  [kind |-> "set", nbytes |-> 0, maxpktsize |-> MaxPktSize0, request |-> r, data |-> <<>>]
PollOf ==
  [kind |-> "poll", nbytes |-> ReportSize, maxpktsize |-> maxpktsize, request |-> "none",
   data |-> [i \in 1..ReportLength |-> 0]]

Device == [pos : Nat, tog : {0, 1}, report : Nat, part : Nat, rtog : {0, 1},
           set : SUBSET {"descr", "conf", "proto"}]

(* A configuration begins with its header, which says how long it is.      *)
ConfInv == conf \in Seq(Cell) /\ Len(conf) > 0 /\ conf[1] = Header(Len(conf))

(* Types of the variables that TypeOK leaves out.                          *)
TypeInv ==
  /\ TypeOK /\ ConfInv
  /\ dev \in Device /\ mute \in BOOLEAN /\ polled \in BOOLEAN
  /\ bigbuf \in [1..BufLen -> Cell]
  /\ buf \in Seq(IF pc = "polling" THEN Nat ELSE Cell) /\ reports \in Seq(Seq(Nat))

(* Which call is under way, or was last made, at each place of HID.c, and  *)
(* what the polls start from.                                              *)
CallInv ==
  /\ IF pc = "polling" THEN call \in {SetOf("proto"), PollOf}
     ELSE call \in {NoCall, ReadOf(1), ReadOf(Whole), SetOf("conf"), SetOf("proto")}
  /\ pc = "header" => call = ReadOf(1)
  /\ pc = "all" => call = ReadOf(Whole) /\ bigbuf[1] = conf[1]
  /\ pc = "conf" => call = SetOf("conf")
  /\ pc = "proto" => call = SetOf("proto")
  /\ pc = "polling" /\ polled => call = PollOf
  /\ pc # "polling" =>
       ~polled /\ reports = <<>> /\ rcvToggle = 0 /\ dev.rtog = 0 /\ dev.report = 1 /\ dev.part = 0
  /\ stage # "idle" => pc \notin {"start", "error"} /\ (pc = "polling" => polled)
  /\ stage = "in" => call.kind \in {"read", "poll"}
  /\ stage \in {"setup", "status"} => call.kind \in {"read", "set"}

(* A transfer has ended well, or has only the status stage before it. *)
Through == stage = "status" \/ (stage = "idle" /\ rcode = hrSUCCESS)

(* While toggles agree, what has been read is what the device has sent; a  *)
(* read that is through has all of it.                                     *)
DataInv ==
  /\ call.kind = "set" \/ stage = "setup" => buf = <<>>
  /\ call.kind = "read" /\ stage = "in" /\ dev.tog = RCVTOG =>
       dev.pos <= Len(call.data) /\ buf = SubSeq(call.data, 1, dev.pos)
  /\ call.kind = "read" /\ Through => buf = call.data

(* The cells of a type in the device's configuration.                      *)
Types(t, from) == {i \in from..Len(conf) : conf[i].type = t}

(* The entry in the table is that of the first interface.                  *)
ConfigurationMatches ==
  LET intf == Min(Types("INTERFACE", 1)) IN
  /\ Types("INTERFACE", 1) # {} /\ conf[intf].protocol = Protocol(devclass)
  /\ Types("ENDPOINT", intf) # {}
  /\ maxpktsize = conf[Min(Types("ENDPOINT", intf))].maxpktsize

(* What a probe has found out and the device been told, place by place.    *)
ProbeInv ==
  /\ call.kind = "set" /\ Through => call.request \in dev.set
  /\ pc \in {"proto", "polling"} => "conf" \in dev.set
  /\ pc = "polling" => "proto" \in dev.set
  /\ pc \in {"conf", "proto", "polling"} => epinfo = "hid_ep" /\ ConfigurationMatches

(* A poll has been answered but its report not been counted yet.           *)
Answered == polled /\ stage = "idle" /\ rcode = hrSUCCESS
Taken == IF Answered THEN Len(reports) + 1 ELSE Len(reports)
(* The device has the next report if toggles agree, and else repeats the   *)
(* last; the ones taken are the first ones, each once.                     *)
ReportInv ==
  pc = "polling" /\ OnePacketReports =>
    /\ dev.part = 0
    /\ dev.report = IF dev.rtog = rcvToggle THEN Taken + 1 ELSE Taken
    /\ stage = "in" => RCVTOG = rcvToggle /\ buf = <<>>
    /\ Answered => buf = [j \in 1..ReportLength |-> Taken]
    /\ \A i \in 1..Len(reports) : reports[i] = [j \in 1..ReportLength |-> i]

USE DEF hrSUCCESS, hrNAK, hrSTALL, hrTOGERR, hrTIMEOUT, TimeLimit

-----------------------------------------------------------------------------
(* Numbers and sequences.                                                  *)

LEMMA LeastElement ==
  ASSUME NEW S \in SUBSET Nat, S # {}
  PROVE  Min(S) \in S /\ \A y \in S : Min(S) <= y
<1> DEFINE R == OpToRel(<, Nat)
<1>1. \A x, y \in S : y < x => <<y, x>> \in R
  BY DEF OpToRel
<1>2. IsWellFoundedOn(R, Nat)
  BY NatLessThanWellFounded
<1> HIDE DEF R
<1>3. PICK x \in S : \A y \in S : <<y, x>> \notin R
  BY <1>2, WFMin
<1>4. \A y \in S : ~(y < x)
  BY <1>1, <1>3, Zenon
<1>5. \A y \in S : x <= y
  BY <1>4
<1> QED
  BY <1>5 DEF Min

(* The least element is found in any initial part that has one.            *)
LEMMA SameLeast ==
  ASSUME NEW T \in SUBSET Nat, NEW n \in Nat, NEW S, S = {i \in T : i <= n}, S # {}
  PROVE  T # {} /\ Min(T) = Min(S)
<1>1. S \in SUBSET Nat
  OBVIOUS
<1>2. /\ Min(S) \in S /\ \A y \in S : Min(S) <= y
      /\ Min(T) \in T /\ \A y \in T : Min(T) <= y
  BY <1>1, LeastElement
<1>3. Min(S) \in Nat /\ Min(T) \in Nat /\ Min(S) <= n /\ Min(T) <= Min(S)
  BY <1>2
<1>4. Min(T) \in S
  BY <1>2, <1>3
<1> QED
  BY <1>2, <1>3, <1>4

(* The first n elements, and more of them.                                 *)
LEMMA PrefixIs ==
  ASSUME NEW S, NEW s \in Seq(S), NEW n \in 0..Len(s)
  PROVE  /\ SubSeq(s, 1, n) \in Seq(S) /\ Len(SubSeq(s, 1, n)) = n
         /\ \A i \in 1..n : SubSeq(s, 1, n)[i] = s[i]
<1>1. \A i \in 1..n : s[i] \in S
  BY ElementOfSeq
<1> QED
  BY <1>1, SubSeqProperties

LEMMA ConfCorrect == conf \in Configurations => ConfInv
<1> DEFINE kinds == Interface \cup Endpoint \cup Other
<1>1. \A n \in Nat : Header(n) \in Cell
  BY DEF Header, Cell
<1>2. ASSUME NEW n \in Nat, NEW s \in [1..n -> kinds], conf = <<Header(n + 1)>> \o s
      PROVE  ConfInv
  <2>1. s \in Seq(Cell) /\ Len(s) = n
    BY SeqDef DEF Cell
  <2>2. <<Header(n + 1)>> \in Seq(Cell)
    BY <1>1
  <2> QED
    BY <1>2, <2>1, <2>2 DEF ConfInv
<1>3. ASSUME NEW s \in [1..(BufLen - 1) -> kinds],
             conf = <<Header(BufLen + 1)>> \o s \o <<CHOOSE d \in Other : TRUE>>
      PROVE  ConfInv
  <2>1. s \in Seq(Cell) /\ Len(s) = BufLen - 1
    BY HidAssumption DEF Cell
  <2>2. <<Header(BufLen + 1)>> \in Seq(Cell)
    BY <1>1, HidAssumption
  <2>3. (CHOOSE d \in Other : TRUE) \in Cell
    BY DEF Other, Cell
  <2> QED
    BY <1>3, <2>1, <2>2, <2>3, HidAssumption DEF ConfInv
<1>4. ASSUME conf \in Configurations
      PROVE  \/ \E n \in 0..(BufLen - 1) : \E s \in [1..n -> kinds] : conf = <<Header(n + 1)>> \o s
             \/ \E s \in [1..(BufLen - 1) -> kinds] :
                  conf = <<Header(BufLen + 1)>> \o s \o <<CHOOSE d \in Other : TRUE>>
  BY <1>4, Zenon DEF Configurations
<1>5. \A n \in 0..(BufLen - 1) : n \in Nat
  BY HidAssumption
<1> QED
  BY <1>2, <1>3, <1>4, <1>5, Zenon

-----------------------------------------------------------------------------
(* Packets.                                                                *)

Inv == TypeInv /\ CallInv /\ DataInv /\ ProbeInv /\ ReportInv

LEMMA TotalIs ==
  ASSUME ConfInv
  PROVE  /\ Whole \in Nat \ {0} /\ Whole <= BufLen /\ Whole <= Len(conf)
         /\ bigbuf[1] = conf[1] => total_length = Whole
<1>1. Len(conf) \in Nat \ {0} /\ conf[1].total = Len(conf)
  BY DEF ConfInv, Header
<1> QED
  BY <1>1, HidAssumption DEF Whole, Lesser, total_length

(* What the calls of the probes look like.                                 *)
LEMMA ReadIs ==
  ASSUME ConfInv, NEW n \in Nat \ {0}
  PROVE  /\ ReadOf(n).kind = "read" /\ ReadOf(n).nbytes = n
         /\ ReadOf(n).maxpktsize = MaxPktSize0 /\ ReadOf(n).request = "descr"
         /\ ReadOf(n).data = SubSeq(conf, 1, Lesser(n, Len(conf)))
         /\ ReadOf(n).data \in Seq(Cell)
         /\ Len(ReadOf(n).data) = Lesser(n, Len(conf))
         /\ Len(ReadOf(n).data) \in 1..n
         /\ \A i \in 1..Len(ReadOf(n).data) : ReadOf(n).data[i] = conf[i]
<1>1. conf \in Seq(Cell) /\ Len(conf) \in Nat \ {0}
  BY DEF ConfInv
<1>2. Lesser(n, Len(conf)) \in 0..Len(conf) /\ Lesser(n, Len(conf)) \in 1..n
  BY <1>1 DEF Lesser
<1>3. ReadOf(n).data = SubSeq(conf, 1, Lesser(n, Len(conf)))
  BY DEF ReadOf
<1>4. /\ SubSeq(conf, 1, Lesser(n, Len(conf))) \in Seq(Cell)
      /\ Len(SubSeq(conf, 1, Lesser(n, Len(conf)))) = Lesser(n, Len(conf))
      /\ \A i \in 1..Lesser(n, Len(conf)) : SubSeq(conf, 1, Lesser(n, Len(conf)))[i] = conf[i]
  BY <1>1, <1>2, PrefixIs
<1>5. /\ ReadOf(n).kind = "read" /\ ReadOf(n).nbytes = n
      /\ ReadOf(n).maxpktsize = MaxPktSize0 /\ ReadOf(n).request = "descr"
  BY DEF ReadOf
<1> QED
  BY <1>2, <1>3, <1>4, <1>5

(* The calls of a read, whichever it is.                                   *)
LEMMA ReadCall ==
  ASSUME TypeInv, CallInv, call.kind = "read"
  PROVE  /\ pc # "polling"
         /\ call.data \in Seq(Cell) /\ call.nbytes \in Nat
         /\ call.maxpktsize = MaxPktSize0 /\ call.request = "descr"
         /\ Len(call.data) <= call.nbytes
         /\ Len(call.data) = Lesser(call.nbytes, Len(conf))
<1>1. ConfInv /\ 1 \in Nat \ {0} /\ Whole \in Nat \ {0}
  BY TotalIs DEF TypeInv
<1>2. call # NoCall /\ call # PollOf /\ \A r : call # SetOf(r)
  BY DEF NoCall, PollOf, SetOf
<1>3. pc # "polling"
  BY <1>2 DEF CallInv
<1>4. PICK n \in {1, Whole} : call = ReadOf(n)
  BY <1>2, <1>3 DEF CallInv
<1>5. n \in Nat \ {0}
  BY <1>1
<1>6. ReadOf(n).data \in Seq(Cell) /\ Len(ReadOf(n).data) <= n
  BY <1>1, <1>5, ReadIs
<1> QED
  BY <1>1, <1>3, <1>4, <1>5, <1>6, ReadIs

(* The packet of a read continues the data where the device is.            *)
LEMMA ReadPacket ==
  ASSUME TypeInv, CallInv, call.kind = "read"
  PROVE  /\ Packet \in Seq(Cell) /\ Len(Packet) \in Nat /\ PacketToggle = dev.tog
         /\ dev.pos <= Len(call.data) =>
              /\ dev.pos + Len(Packet) <= Len(call.data)
              /\ Len(Packet) < MaxPktSize0 => dev.pos + Len(Packet) = Len(call.data)
              /\ SubSeq(call.data, 1, dev.pos) \o Packet
                   = SubSeq(call.data, 1, dev.pos + Len(Packet))
<1> DEFINE D == call.data
           p == dev.pos
           e == Lesser(p + MaxPktSize0, Len(D))
<1>1. D \in Seq(Cell) /\ Len(D) \in Nat /\ p \in Nat
  BY ReadCall DEF TypeInv, Device
<1>2. e \in Nat /\ e <= Len(D)
  BY <1>1, TransferAssumption DEF Lesser
<1>3. Packet = SubSeq(D, p + 1, e) /\ PacketToggle = dev.tog
  BY DEF Packet, PacketToggle
<1>4. ASSUME p <= Len(D)
      PROVE  p <= e /\ (e - p < MaxPktSize0 => e = Len(D))
  BY <1>1, <1>4, TransferAssumption DEF Lesser
<1> HIDE DEF D, p, e
<1>5. \A i \in (p + 1)..e : D[i] \in Cell
  BY <1>1, <1>2, ElementOfSeq
<1>6. Packet \in Seq(Cell) /\ (p <= e => Len(Packet) = e - p)
  BY <1>1, <1>2, <1>3, <1>5, SubSeqProperties
<1>7. ASSUME p <= Len(D)
      PROVE  /\ p + Len(Packet) <= Len(D)
             /\ Len(Packet) < MaxPktSize0 => p + Len(Packet) = Len(D)
             /\ SubSeq(D, 1, p) \o Packet = SubSeq(D, 1, p + Len(Packet))
  <2>1. SubSeq(D, 1, p) \o SubSeq(D, p + 1, e) = SubSeq(D, 1, e)
    BY <1>1, <1>2, <1>4, <1>7, ConcatAdjacentSubSeq
  <2>2. Len(Packet) = e - p /\ p + Len(Packet) = e
    BY <1>1, <1>2, <1>4, <1>6, <1>7
  <2> QED
    BY <1>2, <1>3, <1>4, <1>7, <2>1, <2>2
<1>8. Len(Packet) \in Nat
  BY <1>6
<1> QED
  BY <1>3, <1>6, <1>7, <1>8 DEF D, p

LEMMA ReportLengthIs == ReportLength \in Nat \ {0}
  BY HidAssumption DEF ReportLength

(* The packet of a poll, and the only one where a report takes one packet. *)
LEMMA PollPacket ==
  ASSUME TypeInv, call = PollOf
  PROVE  /\ Len(Report) = ReportLength /\ PacketToggle = dev.rtog
         /\ Packet \in Seq(Nat) /\ Len(Packet) \in Nat
         /\ OnePacketReports /\ dev.part = 0 =>
              Packet = [j \in 1..ReportLength |-> dev.report] /\ Len(Packet) = ReportLength
<1> DEFINE rl == ReportLength
           r == [i \in 1..rl |-> dev.report]
           p == dev.part
           e == Lesser(p + maxpktsize, rl)
<1>1. rl \in Nat \ {0} /\ p \in Nat /\ maxpktsize \in Nat /\ dev.report \in Nat
  BY ReportLengthIs, HidAssumption DEF TypeInv, TypeOK, Device
<1>2. /\ call.kind = "poll" /\ call.maxpktsize = maxpktsize
      /\ call.data = [i \in 1..rl |-> 0]
  BY DEF PollOf
<1> HIDE DEF rl
<1>3. Len(call.data) = rl
  BY <1>1, <1>2
<1>4. r \in Seq(Nat) /\ Len(r) = rl
  BY <1>1
<1>5. Report = r
  BY <1>3 DEF Report
<1>6. Packet = SubSeq(r, p + 1, e) /\ PacketToggle = dev.rtog
  BY <1>2, <1>4, <1>5 DEF Packet, PacketToggle
<1>7. e \in Nat /\ e <= rl /\ (p = 0 /\ rl <= maxpktsize => e = rl)
  BY <1>1 DEF Lesser
<1> HIDE DEF p, e
<1>8. \A i \in (p + 1)..e : r[i] \in Nat
  BY <1>1, <1>7
<1> HIDE DEF r
<1>9. Packet \in Seq(Nat)
  BY <1>1, <1>6, <1>7, <1>8, SubSeqProperties
<1>10. ASSUME OnePacketReports, p = 0
       PROVE  Packet = r /\ Len(Packet) = rl
  <2>1. rl <= maxpktsize
    BY <1>10 DEF OnePacketReports, rl
  <2>2. Packet = SubSeq(r, 1, rl)
    BY <1>6, <1>7, <1>10, <2>1
  <2> QED
    BY <2>2, <1>4, SubSeqFull
<1>11. Len(Packet) \in Nat
  BY <1>9
<1> QED
  BY <1>4, <1>5, <1>6, <1>9, <1>10, <1>11, Zenon DEF rl, r, p

-----------------------------------------------------------------------------
(* Transactions.                                                           *)

(* The definitions of calls mean the same afterwards.                      *)
LEMMA SameCalls ==
  ASSUME UNCHANGED <<conf, devclass, maxpktsize>>
  PROVE  /\ ConfInv' <=> ConfInv
         /\ Whole' = Whole /\ ReadOf(1)' = ReadOf(1) /\ ReadOf(Whole)' = ReadOf(Whole)
         /\ PollOf' = PollOf /\ ReportLength' = ReportLength
         /\ OnePacketReports' <=> OnePacketReports
         /\ ConfigurationMatches' <=> ConfigurationMatches
  BY DEF ConfInv, Whole, ReadOf, PollOf, ReportLength, OnePacketReports, ConfigurationMatches, Types

Counts ==
  /\ nak_count \in 0..(USB_NAK_LIMIT - 1) /\ retry_count \in 0..(USB_RETRY_LIMIT - 1)
  /\ reachable \in BOOLEAN

Codes == {hrSUCCESS, hrNAK, hrSTALL, hrTOGERR, hrTIMEOUT, TimeLimit}

(* A transaction that gets the host no further.                            *)
Unsuccessful ==
  /\ stage # "idle" /\ Counts'
  /\ UNCHANGED <<call, buf, rcvToggle, RCVTOG, mute, hidVars>>
  /\ \/ stage' = stage /\ rcode' = rcode
     \/ stage' = "idle" /\ rcode' \in Codes \ {hrSUCCESS}
  /\ \/ dev' = dev
     \/ stage = "setup" /\ TakesSetup
     \/ stage = "in" /\ PacketToggle # RCVTOG /\ PacketAcked /\ stage' = "idle"

LEMMA NewCounts ==
  ASSUME NEW s, NewDispatch(s) \/ (Dispatched(s) /\ reachable' = TRUE)
  PROVE  stage' = s /\ Counts'
<1>1. Dispatched(s) /\ reachable' \in BOOLEAN
  BY Zenon DEF NewDispatch
<1>2. 0 \in 0..(USB_NAK_LIMIT - 1) /\ 0 \in 0..(USB_RETRY_LIMIT - 1)
  BY TransferAssumption
<1> QED
  BY <1>1, <1>2, Zenon DEF Dispatched, Counts

LEMMA FailsIs ==
  ASSUME TypeInv, NEW hr \in Codes \ {hrSUCCESS}, Fails(hr)
  PROVE  /\ Counts' /\ UNCHANGED <<call, buf, rcvToggle, RCVTOG, mute>>
         /\ \/ stage' = stage /\ rcode' = rcode /\ hr \in {hrNAK, hrTIMEOUT}
            \/ stage' = "idle" /\ rcode' = hr
<1>1. CASE Again(hr) /\ UNCHANGED <<stage, reachable, rcode>>
  <2>1. Counts'
    BY <1>1, TransferAssumption DEF Again, Counts, TypeInv, TypeOK
  <2>2. hr \in {hrNAK, hrTIMEOUT}
    BY <1>1 DEF Again
  <2> QED
    BY <1>1, <2>1, <2>2 DEF Fails
<1>2. CASE Final(hr) /\ Return(hr)
  BY <1>2, NewCounts DEF Fails, Return
<1> QED
  BY <1>1, <1>2 DEF Fails

LEMMA UnsuccessfulTransactions ==
  ASSUME TypeInv, SetupFails \/ StatusFails \/ InFails \/ InToggleError, UNCHANGED hidVars
  PROVE  Unsuccessful
<1>1. CASE SetupFails
  <2>1. PICK hr \in {hrTIMEOUT, TimeLimit} : Fails(hr)
    BY <1>1 DEF SetupFails, Refusal, TimedOut
  <2> QED
    BY <1>1, <2>1, FailsIs DEF SetupFails, Unsuccessful, Codes
<1>2. CASE StatusFails \/ InFails
  <2>1. PICK hr \in {hrNAK, hrTIMEOUT, hrSTALL, TimeLimit} : Fails(hr)
    BY <1>2 DEF StatusFails, InFails, Refusal, TimedOut
  <2> QED
    BY <1>2, <2>1, FailsIs DEF StatusFails, InFails, Unsuccessful, Codes
<1>3. CASE InToggleError
  BY <1>3, FailsIs DEF InToggleError, Unsuccessful, Codes
<1> QED
  BY <1>1, <1>2, <1>3

(* The device takes a SETUP packet.                                        *)
LEMMA SetupTaken ==
  ASSUME TypeInv, CallInv, stage = "setup", TakesSetup
  PROVE  /\ pc # "polling" /\ call.kind \in {"read", "set"}
         /\ dev' \in Device /\ dev.set \subseteq dev'.set
         /\ dev'.pos = 0 /\ dev'.tog = 1
         /\ dev'.rtog = 0 /\ dev'.report = dev.report /\ dev'.part = dev.part
         /\ call.kind = "set" => call.request \in dev'.set
<1>1. pc # "polling" /\ call.kind \in {"read", "set"}
  BY DEF CallInv, PollOf
<1>2. dev.rtog = 0 /\ dev \in Device
  BY <1>1 DEF CallInv, TypeInv
<1>3. call.kind = "set" => call.request \in {"conf", "proto"}
  BY <1>1 DEF CallInv, NoCall, SetOf, ReadOf
<1> QED
  BY <1>1, <1>2, <1>3 DEF TakesSetup, Device

(* It hears the handshake of a packet of a read, or of a poll.             *)
LEMMA PacketTaken ==
  ASSUME TypeInv, CallInv, stage = "in", PacketAcked
  PROVE  /\ dev' \in Device /\ dev'.set = dev.set
         /\ \/ /\ call.kind = "read" /\ pc # "polling"
               /\ dev'.pos = dev.pos + Len(Packet) /\ dev'.tog = 1 - dev.tog
               /\ dev'.rtog = dev.rtog /\ dev'.report = dev.report /\ dev'.part = dev.part
            \/ /\ call = PollOf /\ pc = "polling" /\ dev'.rtog = 1 - dev.rtog
               /\ OnePacketReports /\ dev.part = 0 =>
                    dev'.part = 0 /\ dev'.report = dev.report + 1
<1>0. dev \in Device
  BY DEF TypeInv
<1>1. CASE call.kind = "read"
  <2>1. Len(Packet) \in Nat /\ pc # "polling"
    BY <1>1, ReadPacket, ReadCall
  <2>2. PICK n \in Nat : n = dev.pos + Len(Packet)
    BY <1>0, <2>1 DEF Device
  <2>3. PICK t \in {0, 1} : t = 1 - dev.tog
    BY <1>0 DEF Device
  <2>4. dev' = [dev EXCEPT !.pos = n, !.tog = t]
    BY <1>1, <2>2, <2>3 DEF PacketAcked
  <2>5. dev' \in Device
    BY <1>0, <2>4 DEF Device
  <2>6. /\ dev'.set = dev.set /\ dev'.pos = n /\ dev'.tog = t
        /\ dev'.rtog = dev.rtog /\ dev'.report = dev.report /\ dev'.part = dev.part
    BY <1>0, <2>4 DEF Device
  <2> QED
    BY <1>1, <2>1, <2>2, <2>3, <2>5, <2>6, Zenon
<1>2. CASE call.kind # "read"
  <2>1. call = PollOf /\ pc = "polling"
    BY <1>2 DEF CallInv, NoCall, SetOf, ReadOf
  <2> DEFINE part == dev.part + Len(Packet)
             whole == part = ReportLength
  <2>2. Len(Packet) \in Nat /\ Len(Report) = ReportLength
    BY <2>1, PollPacket
  <2>3. dev' = [dev EXCEPT !.rtog = 1 - @, !.part = IF whole THEN 0 ELSE part,
                           !.report = IF whole THEN @ + 1 ELSE @]
    BY <1>2, <2>2 DEF PacketAcked
  <2>4. part \in Nat /\ dev.report \in Nat
    BY <1>0, <2>2 DEF Device
  <2>5. OnePacketReports /\ dev.part = 0 => whole
    BY <2>1, <2>2, PollPacket
  <2>6. PICK t \in {0, 1} : t = 1 - dev.rtog
    BY <1>0 DEF Device
  <2>7. PICK k \in Nat : k = (IF whole THEN 0 ELSE part)
    BY <2>4
  <2>8. PICK r \in Nat : r = (IF whole THEN dev.report + 1 ELSE dev.report)
    BY <2>4
  <2>9. dev' = [dev EXCEPT !.rtog = t, !.part = k, !.report = r]
    BY <2>3, <2>6, <2>7, <2>8, Zenon
  <2> HIDE DEF part, whole
  <2>10. dev' \in Device
    BY <1>0, <2>9 DEF Device
  <2>11. dev'.set = dev.set /\ dev'.rtog = t /\ dev'.part = k /\ dev'.report = r
    BY <1>0, <2>9 DEF Device
  <2>12. OnePacketReports /\ dev.part = 0 => k = 0 /\ r = dev.report + 1
    BY <2>5, <2>7, <2>8, Zenon
  <2> QED
    BY <2>1, <2>6, <2>10, <2>11, <2>12, Zenon
<1> QED
  BY <1>1, <1>2

(* The device after a transaction that gets the host no further.           *)
LEMMA UnsuccessfulDevice ==
  ASSUME TypeInv, CallInv, Unsuccessful
  PROVE  /\ dev' \in Device /\ dev.set \subseteq dev'.set
         /\ pc # "polling" =>
              dev'.rtog = dev.rtog /\ dev'.report = dev.report /\ dev'.part = dev.part
         /\ stage' = "in" => dev' = dev
<1>1. CASE dev' = dev
  BY <1>1 DEF TypeInv
<1>2. CASE stage = "setup" /\ TakesSetup
  BY <1>2, SetupTaken DEF Unsuccessful, CallInv
<1>3. CASE stage = "in" /\ PacketToggle # RCVTOG /\ PacketAcked /\ stage' = "idle"
  BY <1>3, PacketTaken
<1> QED
  BY <1>1, <1>2, <1>3 DEF Unsuccessful

LEMMA UnsuccessfulKeepsTypes ==
  ASSUME TypeInv, CallInv, Unsuccessful
  PROVE  TypeInv'
<1>1. /\ stage' \in {"idle", "setup", "in", "status"} /\ rcode' \in Codes
      /\ UNCHANGED <<rcvToggle, RCVTOG, mute, buf, hidVars>>
  BY DEF Unsuccessful, TypeInv, TypeOK, Codes
<1>2. dev' \in Device /\ {dev'.tog, dev'.rtog} \subseteq {0, 1}
  BY UnsuccessfulDevice DEF Device
<1>3. TypeOK'
  BY <1>1, <1>2 DEF Unsuccessful, Counts, TypeInv, TypeOK, hidVars, Codes
<1>4. ConfInv'
  BY <1>1, SameCalls DEF hidVars, TypeInv
<1> QED
  BY <1>1, <1>2, <1>3, <1>4 DEF TypeInv, hidVars

LEMMA UnsuccessfulKeepsCalls ==
  ASSUME TypeInv, CallInv, Unsuccessful
  PROVE  CallInv'
<1>1. UNCHANGED <<call, rcvToggle, pc, bigbuf, conf, devclass, maxpktsize, polled, reports>>
  BY DEF Unsuccessful, hidVars
<1>2. stage # "idle" /\ stage' \in {stage, "idle"}
  BY DEF Unsuccessful
<1> QED
  BY <1>1, <1>2, UnsuccessfulDevice, SameCalls DEF CallInv

LEMMA UnsuccessfulKeepsData ==
  ASSUME TypeInv, CallInv, DataInv, ProbeInv, Unsuccessful
  PROVE  DataInv' /\ ProbeInv'
<1>1. /\ UNCHANGED <<call, buf, RCVTOG, pc, conf, devclass, maxpktsize, epinfo>>
      /\ Through' => Through
  BY DEF Unsuccessful, hidVars, Through, Codes
<1>2. stage' = "setup" => stage = "setup"
  BY DEF Unsuccessful
<1>3. stage' = "in" => stage = "in" /\ dev' = dev
  BY UnsuccessfulDevice DEF Unsuccessful
<1>4. DataInv'
  BY <1>1, <1>2, <1>3 DEF DataInv
<1>5. dev.set \subseteq dev'.set /\ (ConfigurationMatches' <=> ConfigurationMatches)
  BY <1>1, UnsuccessfulDevice, SameCalls
<1>6. ProbeInv'
  BY <1>1, <1>5 DEF ProbeInv
<1> QED
  BY <1>4, <1>6

LEMMA UnsuccessfulKeepsReports ==
  ASSUME TypeInv, CallInv, ReportInv, Unsuccessful
  PROVE  ReportInv'
<1>1. /\ UNCHANGED <<buf, rcvToggle, RCVTOG, pc, conf, devclass, maxpktsize, polled, reports>>
      /\ stage # "idle" /\ stage' \in {stage, "idle"} /\ ~Answered /\ ~Answered'
  BY DEF Unsuccessful, hidVars, Answered, Codes
<1>2. SUFFICES ASSUME pc = "polling", OnePacketReports
               PROVE  ReportInv'
  BY <1>1, SameCalls DEF ReportInv
<1>3. /\ stage = "in" /\ dev.part = 0 /\ RCVTOG = rcvToggle /\ buf = <<>>
      /\ dev.report = IF dev.rtog = rcvToggle THEN Len(reports) + 1 ELSE Len(reports)
      /\ \A i \in 1..Len(reports) : reports[i] = [j \in 1..ReportLength |-> i]
  <2>1. call = PollOf /\ stage = "in"
    BY <1>1, <1>2 DEF CallInv, TypeInv, TypeOK, PollOf
  <2> QED
    BY <2>1, <1>1, <1>2 DEF ReportInv, Taken
<1>4. Taken' = Len(reports)
  BY <1>1 DEF Taken
<1>5. /\ dev'.part = 0
      /\ dev'.report = IF dev'.rtog = rcvToggle THEN Len(reports) + 1 ELSE Len(reports)
  <2>1. CASE dev' = dev
    BY <2>1, <1>3
  <2>2. CASE PacketToggle # RCVTOG /\ PacketAcked
    <3>1. dev'.rtog = 1 - dev.rtog /\ dev'.part = 0 /\ dev'.report = dev.report + 1
      BY <2>2, <1>2, <1>3, PacketTaken
    <3>2. dev.rtog # rcvToggle
      BY <2>2, <1>1, <1>2, <1>3, PollPacket DEF CallInv
    <3>3. dev.rtog \in {0, 1} /\ rcvToggle \in {0, 1} /\ Len(reports) \in Nat
      BY DEF TypeInv, TypeOK, Device
    <3> QED
      BY <3>1, <3>2, <3>3, <1>3
  <2> QED
    BY <1>3, <2>1, <2>2 DEF Unsuccessful
<1>6. ReportLength' = ReportLength
  BY <1>1, SameCalls
<1> QED
  BY <1>1, <1>3, <1>4, <1>5, <1>6 DEF ReportInv

(* The data stage of a read begins, or the status stage of a setting.      *)
LEMMA SetupAckedKeeps ==
  ASSUME Inv, SetupAcked, UNCHANGED hidVars
  PROVE  Inv'
<1> USE DEF Inv
<1>1. /\ stage = "setup" /\ TakesSetup /\ Counts'
      /\ UNCHANGED <<call, buf, rcode, rcvToggle, mute>>
      /\ IF call.kind = "read" THEN stage' = "in" /\ RCVTOG' = 1
         ELSE stage' = "status" /\ RCVTOG' = RCVTOG
  <2>1. \/ call.kind = "read" /\ NewDispatch("in") /\ RCVTOG' = 1
        \/ call.kind # "read" /\ NewDispatch("status") /\ RCVTOG' = RCVTOG
    BY Zenon DEF SetupAcked, BeginIn
  <2>2. Counts' /\ IF call.kind = "read" THEN stage' = "in" /\ RCVTOG' = 1
                   ELSE stage' = "status" /\ RCVTOG' = RCVTOG
    BY <2>1, NewCounts, Zenon
  <2> QED
    BY <2>2, Zenon DEF SetupAcked
<1>2. UNCHANGED <<pc, probe, bigbuf, devclass, epinfo, maxpktsize, conf, polled, reports>>
  BY DEF hidVars
<1>3. /\ pc # "polling" /\ call.kind \in {"read", "set"}
      /\ dev' \in Device /\ dev.set \subseteq dev'.set
      /\ dev'.pos = 0 /\ dev'.tog = 1
      /\ dev'.rtog = 0 /\ dev'.report = dev.report /\ dev'.part = dev.part
      /\ call.kind = "set" => call.request \in dev'.set
  BY <1>1, SetupTaken
<1>4. /\ ConfInv' /\ Whole' = Whole /\ ReadOf(1)' = ReadOf(1) /\ ReadOf(Whole)' = ReadOf(Whole)
      /\ ConfigurationMatches' <=> ConfigurationMatches
  BY <1>2, SameCalls DEF TypeInv
<1>5. TypeInv'
  <2>1. {dev'.tog, dev'.rtog} \subseteq {0, 1}
    BY <1>3
  <2>2. TypeOK'
    BY <1>1, <1>2, <2>1 DEF Counts, TypeInv, TypeOK
  <2> QED
    BY <1>1, <1>2, <1>3, <1>4, <2>2 DEF TypeInv
<1>6. CallInv'
  BY <1>1, <1>2, <1>3, <1>4 DEF CallInv
<1>7. DataInv'
  <2>1. buf' = <<>>
    BY <1>1 DEF DataInv
  <2>2. SubSeq(call.data, 1, 0) = <<>>
    BY SubSeqEmpty
  <2>3. call.kind = "read" => 0 <= Len(call.data)
    BY ReadCall
  <2>4. call.kind = "read" => ~Through'
    BY <1>1 DEF Through
  <2> QED
    BY <1>1, <1>3, <2>1, <2>2, <2>3, <2>4 DEF DataInv
<1>8. ProbeInv'
  BY <1>1, <1>2, <1>3, <1>4 DEF ProbeInv
<1>9. ReportInv'
  BY <1>2, <1>3 DEF ReportInv
<1> QED
  BY <1>5, <1>6, <1>7, <1>8, <1>9

(* The transfer has succeeded.                                             *)
LEMMA StatusAckedKeeps ==
  ASSUME Inv, StatusAcked, UNCHANGED hidVars
  PROVE  Inv'
<1> USE DEF Inv
<1>1. /\ stage = "status" /\ stage' = "idle" /\ rcode' = hrSUCCESS /\ Counts'
      /\ UNCHANGED <<call, buf, rcvToggle, RCVTOG, mute, dev>>
  BY NewCounts DEF StatusAcked, Return
<1>2. UNCHANGED <<pc, probe, bigbuf, devclass, epinfo, maxpktsize, conf, polled, reports>>
  BY DEF hidVars
<1>3. pc # "polling"
  BY <1>1 DEF CallInv, PollOf
<1>4. /\ ConfInv' /\ Whole' = Whole /\ ReadOf(1)' = ReadOf(1) /\ ReadOf(Whole)' = ReadOf(Whole)
      /\ ConfigurationMatches' <=> ConfigurationMatches
  BY <1>2, SameCalls DEF TypeInv
<1>5. TypeInv'
  <2>1. TypeOK'
    BY <1>1, <1>2 DEF Counts, TypeInv, TypeOK
  <2> QED
    BY <1>1, <1>2, <1>3, <1>4, <2>1 DEF TypeInv
<1>6. CallInv'
  BY <1>1, <1>2, <1>3, <1>4 DEF CallInv
<1>7. DataInv'
  BY <1>1 DEF DataInv, Through
<1>8. ProbeInv'
  BY <1>1, <1>2, <1>4 DEF ProbeInv, Through
<1>9. ReportInv'
  BY <1>2, <1>3 DEF ReportInv
<1> QED
  BY <1>5, <1>6, <1>7, <1>8, <1>9

(* What becomes of the transfer with a packet.                             *)
LEMMA InPacketIs ==
  ASSUME TypeInv, CallInv, InPacket
  PROVE  /\ stage = "in" /\ Counts' /\ PacketToggle = RCVTOG
         /\ buf' = buf \o Packet /\ RCVTOG' = 1 - RCVTOG
         /\ UNCHANGED <<call, mute>>
         /\ rcvToggle' = IF call.kind = "poll" /\ LastPacket(buf') THEN RCVTOG' ELSE rcvToggle
         /\ \/ ~LastPacket(buf') /\ stage' = "in" /\ rcode' = rcode
            \/ LastPacket(buf') /\ call.kind = "read" /\ stage' = "status" /\ rcode' = rcode
            \/ LastPacket(buf') /\ call.kind # "read" /\ stage' = "idle" /\ rcode' = hrSUCCESS
         /\ PacketAcked \/ dev' = dev
<1>1. EndsStage
  BY DEF InPacket
<1>2. \/ ~LastPacket(buf') /\ NewDispatch("in") /\ rcode' = rcode
      \/ LastPacket(buf') /\ call.kind = "read" /\ NewDispatch("status") /\ rcode' = rcode
      \/ LastPacket(buf') /\ call.kind # "read" /\ stage' = "idle" /\ Counts' /\ rcode' = hrSUCCESS
  BY <1>1, NewCounts, Zenon DEF EndsStage, Return
<1>3. /\ stage = "in" /\ PacketToggle = RCVTOG
      /\ buf' = buf \o Packet /\ RCVTOG' = 1 - RCVTOG
      /\ UNCHANGED <<call, mute>>
      /\ rcvToggle' = IF call.kind = "poll" /\ LastPacket(buf') THEN RCVTOG' ELSE rcvToggle
      /\ PacketAcked \/ dev' = dev
  BY Zenon DEF InPacket
<1> QED
  BY <1>2, <1>3, NewCounts, Zenon

LEMMA InPacketDevice ==
  ASSUME TypeInv, CallInv, InPacket
  PROVE  /\ dev' \in Device /\ dev'.set = dev.set
         /\ call.kind = "read" => dev'.rtog = dev.rtog /\ dev'.report = dev.report /\ dev'.part = dev.part
<1>1. stage = "in" /\ (PacketAcked \/ dev' = dev)
  BY InPacketIs
<1>2. CASE PacketAcked
  <2>1. call = PollOf => call.kind # "read"
    BY DEF PollOf
  <2> QED
    BY <1>1, <1>2, <2>1, PacketTaken
<1>3. CASE dev' = dev
  BY <1>3 DEF TypeInv
<1> QED
  BY <1>1, <1>2, <1>3

(* What a packet leaves as it was, whatever the transfer.                  *)
LEMMA InPacketTypes ==
  ASSUME Inv, InPacket, UNCHANGED hidVars
  PROVE  TypeInv' /\ CallInv' /\ (pc # "polling" \/ call = PollOf)
<1> USE DEF Inv
<1>1. /\ stage = "in" /\ Counts' /\ buf' = buf \o Packet /\ RCVTOG' = 1 - RCVTOG
      /\ UNCHANGED <<call, mute>> /\ rcvToggle' \in {rcvToggle, RCVTOG'}
      /\ call.kind # "poll" => rcvToggle' = rcvToggle
      /\ stage' \in {"idle", "in", "status"} /\ (stage' = "status" => call.kind = "read")
      /\ rcode' \in {rcode, hrSUCCESS}
  BY InPacketIs
<1>2. UNCHANGED <<pc, probe, bigbuf, devclass, epinfo, maxpktsize, conf, polled, reports>>
  BY DEF hidVars
<1>3. dev' \in Device /\ {dev'.tog, dev'.rtog} \subseteq {0, 1}
  BY InPacketDevice DEF Device
<1>4. rcvToggle' \in {0, 1} /\ RCVTOG' \in {0, 1}
  BY <1>1 DEF TypeInv, TypeOK
<1>5. CASE call.kind = "read"
  <2>1. pc # "polling" /\ Packet \in Seq(Cell) /\ buf \in Seq(Cell)
    BY <1>5, ReadCall, ReadPacket DEF TypeInv
  <2>2. buf' \in Seq(Cell)
    BY <1>1, <2>1
  <2>3. dev'.rtog = dev.rtog /\ dev'.report = dev.report /\ dev'.part = dev.part
    BY <1>5, InPacketDevice
  <2>4. TypeOK'
    BY <1>1, <1>2, <1>3, <1>4 DEF Counts, TypeInv, TypeOK
  <2>5. TypeInv'
    BY <1>1, <1>2, <1>3, <2>1, <2>2, <2>4, SameCalls DEF TypeInv
  <2>6. CallInv'
    BY <1>1, <1>2, <1>5, <2>1, <2>3, SameCalls DEF CallInv
  <2> QED
    BY <2>1, <2>5, <2>6
<1>6. CASE call.kind # "read"
  <2>1. pc = "polling" /\ call = PollOf
    BY <1>1, <1>6 DEF CallInv, NoCall, SetOf, ReadOf
  <2>2. buf' \in Seq(Nat)
    BY <1>1, <2>1, PollPacket DEF TypeInv
  <2>3. TypeOK'
    BY <1>1, <1>2, <1>3, <1>4 DEF Counts, TypeInv, TypeOK
  <2>4. TypeInv'
    BY <1>1, <1>2, <1>3, <2>1, <2>2, <2>3, SameCalls DEF TypeInv
  <2>5. CallInv'
    BY <1>1, <1>2, <1>6, <2>1, SameCalls DEF CallInv
  <2> QED
    BY <2>1, <2>4, <2>5
<1> QED
  BY <1>5, <1>6

(* A packet of a read: it continues what has been stored, and the last one *)
(* completes it.                                                           *)
LEMMA ReadPacketKeeps ==
  ASSUME Inv, InPacket, UNCHANGED hidVars, call.kind = "read"
  PROVE  Inv'
<1> USE DEF Inv
<1> DEFINE D == call.data
           p == dev.pos
           n == p + Len(Packet)
<1>1. /\ stage = "in" /\ PacketToggle = RCVTOG /\ buf' = buf \o Packet /\ RCVTOG' = 1 - RCVTOG
      /\ call' = call /\ rcvToggle' = rcvToggle
      /\ \/ ~LastPacket(buf') /\ stage' = "in"
         \/ LastPacket(buf') /\ stage' = "status"
      /\ PacketAcked \/ dev' = dev
  BY InPacketIs
<1>2. UNCHANGED <<pc, probe, bigbuf, devclass, epinfo, maxpktsize, conf, polled, reports>>
  BY DEF hidVars
<1>3. /\ pc # "polling" /\ D \in Seq(Cell) /\ call.nbytes \in Nat /\ Len(D) <= call.nbytes
      /\ call.maxpktsize = MaxPktSize0 /\ dev.tog = RCVTOG
      /\ p \in Nat /\ Len(D) \in Nat /\ Len(Packet) \in Nat
  BY <1>1, ReadCall, ReadPacket DEF TypeInv, Device
<1>4. p <= Len(D) /\ buf = SubSeq(D, 1, p)
  BY <1>1, <1>3 DEF DataInv
<1>5. n <= Len(D) /\ buf' = SubSeq(D, 1, n) /\ (Len(Packet) < MaxPktSize0 => n = Len(D))
  BY <1>1, <1>4, ReadPacket
<1> HIDE DEF D, p
<1>6. n \in Nat /\ Len(buf') = n
  BY <1>3, <1>5, PrefixIs
<1>7. LastPacket(buf') => n = Len(D)
  BY <1>3, <1>5, <1>6 DEF LastPacket
<1>8. LastPacket(buf') => buf' = D
  BY <1>3, <1>5, <1>7, SubSeqFull
<1>9. dev'.tog = RCVTOG' => dev'.pos = n
  <2>1. CASE PacketAcked
    <3>1. call # PollOf
      BY <1>3 DEF PollOf, D
    <3> QED
      BY <1>1, <2>1, <3>1, PacketTaken DEF p
  <2>2. CASE dev' = dev
    <3>1. RCVTOG \in {0, 1}
      BY DEF TypeInv, TypeOK
    <3> QED
      BY <1>1, <1>3, <2>2, <3>1
  <2> QED
    BY <1>1, <2>1, <2>2
<1> HIDE DEF n
<1>10. DataInv'
  BY <1>1, <1>5, <1>8, <1>9 DEF DataInv, Through, D
<1>11. ProbeInv'
  <2>1. dev'.set = dev.set /\ (ConfigurationMatches' <=> ConfigurationMatches)
    BY <1>2, InPacketDevice, SameCalls
  <2> QED
    BY <1>1, <1>2, <2>1 DEF ProbeInv
<1>12. ReportInv'
  BY <1>2, <1>3 DEF ReportInv
<1> QED
  BY <1>10, <1>11, <1>12, InPacketTypes

(* A packet of a poll: where a report fits into one, it is the next one,   *)
(* and the toggles tell whether the device knows.                          *)
LEMMA PollPacketKeeps ==
  ASSUME Inv, InPacket, UNCHANGED hidVars, call.kind # "read"
  PROVE  Inv'
<1> USE DEF Inv
<1>1. /\ stage = "in" /\ PacketToggle = RCVTOG /\ buf' = buf \o Packet /\ RCVTOG' = 1 - RCVTOG
      /\ call' = call
      /\ rcvToggle' = IF call.kind = "poll" /\ LastPacket(buf') THEN RCVTOG' ELSE rcvToggle
      /\ \/ ~LastPacket(buf') /\ stage' = "in"
         \/ LastPacket(buf') /\ stage' = "idle" /\ rcode' = hrSUCCESS
      /\ PacketAcked \/ dev' = dev
  BY InPacketIs
<1>2. UNCHANGED <<pc, probe, bigbuf, devclass, epinfo, maxpktsize, conf, polled, reports>>
  BY DEF hidVars
<1>3. call = PollOf /\ pc = "polling" /\ polled
  BY <1>1 DEF CallInv, NoCall, SetOf, ReadOf, TypeInv
<1>4. call.kind = "poll" /\ call.nbytes = ReportSize /\ call.maxpktsize = maxpktsize
  BY <1>3 DEF PollOf
<1>5. DataInv'
  BY <1>1, <1>4 DEF DataInv
<1>6. ProbeInv'
  <2>1. dev'.set = dev.set /\ (ConfigurationMatches' <=> ConfigurationMatches)
    BY <1>2, InPacketDevice, SameCalls
  <2> QED
    BY <1>1, <1>2, <1>4, <2>1 DEF ProbeInv
<1>7. ReportInv'
  <2>1. SUFFICES ASSUME OnePacketReports
                 PROVE  ReportInv'
    BY <1>2, SameCalls DEF ReportInv
  <2>2. /\ dev.part = 0 /\ RCVTOG = rcvToggle /\ buf = <<>> /\ dev.rtog = rcvToggle
        /\ dev.report = Len(reports) + 1
        /\ \A i \in 1..Len(reports) : reports[i] = [j \in 1..ReportLength |-> i]
    BY <1>1, <1>3, <2>1, PollPacket DEF ReportInv, Taken, Answered
  <2>3. Packet = [j \in 1..ReportLength |-> dev.report] /\ Len(Packet) = ReportLength
        /\ Packet \in Seq(Nat)
    BY <1>3, <2>1, <2>2, PollPacket
  <2>4. buf' = Packet
    BY <1>1, <2>2, <2>3, ConcatEmptySeq
  <2>5. LastPacket(buf')
    BY <1>4, <2>1, <2>3, <2>4 DEF LastPacket, OnePacketReports
  <2>6. stage' = "idle" /\ rcode' = hrSUCCESS /\ rcvToggle' = 1 - rcvToggle
    BY <1>1, <1>4, <2>2, <2>5
  <2>7. Answered' /\ Taken' = Len(reports) + 1
    BY <1>2, <1>3, <2>6 DEF Answered, Taken
  <2>8. rcvToggle \in {0, 1} /\ Len(reports) \in Nat
    BY DEF TypeInv, TypeOK
  <2>9. /\ dev'.part = 0
        /\ dev'.report = IF dev'.rtog = rcvToggle' THEN Taken' + 1 ELSE Taken'
    <3>1. CASE PacketAcked
      <4>1. dev'.rtog = 1 - dev.rtog /\ dev'.part = 0 /\ dev'.report = dev.report + 1
        BY <1>1, <1>3, <2>1, <2>2, <3>1, PacketTaken
      <4> QED
        BY <4>1, <2>2, <2>6, <2>7, <2>8
    <3>2. CASE dev' = dev
      BY <3>2, <2>2, <2>6, <2>7, <2>8
    <3> QED
      BY <1>1, <3>1, <3>2
  <2>10. ReportLength' = ReportLength
    BY <1>2, SameCalls
  <2> QED
    BY <1>2, <2>2, <2>3, <2>4, <2>6, <2>7, <2>9, <2>10 DEF ReportInv
<1> QED
  BY <1>5, <1>6, <1>7, InPacketTypes

(* The chip hangs: only what becomes of later tokens changes.              *)
LEMMA ChipHangsKeeps ==
  ASSUME Inv, ChipHangs, UNCHANGED hidVars
  PROVE  Inv'
<1>1. /\ mute' = TRUE
      /\ UNCHANGED <<stage, call, nak_count, retry_count, reachable, buf, rcode, rcvToggle, RCVTOG, dev>>
      /\ UNCHANGED <<pc, probe, bigbuf, devclass, epinfo, maxpktsize, conf, polled, reports>>
  BY DEF ChipHangs, hidVars
<1>2. TypeInv'
  BY <1>1, SameCalls DEF Inv, TypeInv, TypeOK
<1>3. CallInv'
  BY <1>1, SameCalls DEF Inv, CallInv
<1>4. DataInv' /\ ProbeInv'
  BY <1>1, SameCalls DEF Inv, DataInv, ProbeInv, Through
<1>5. ReportInv'
  BY <1>1, SameCalls DEF Inv, ReportInv, Taken, Answered
<1> QED
  BY <1>2, <1>3, <1>4, <1>5 DEF Inv

-----------------------------------------------------------------------------
(* The probes.                                                             *)

LEMMA SameReads ==
  ASSUME conf' = conf
  PROVE  /\ ConfInv' <=> ConfInv
         /\ Whole' = Whole /\ ReadOf(1)' = ReadOf(1) /\ ReadOf(Whole)' = ReadOf(Whole)
  BY DEF ConfInv, Whole, ReadOf

(* The table and the buffer keep to their types.                           *)
EntryTyped ==
  /\ probe \in 1..Len(Probes) /\ devclass \in {0, HID_K, HID_M}
  /\ epinfo \in {"dev0ep", "hid_ep"} /\ maxpktsize \in 0..ReportSize
  /\ bigbuf \in [1..BufLen -> Cell]

(* A probe calls XferCtrlReq.                                              *)
LEMMA CallKeeps ==
  ASSUME Inv, pc # "polling", stage = "idle",
         stage' = "setup", Counts', buf' = <<>>, rcvToggle' = 0,
         UNCHANGED <<rcode, RCVTOG, mute, dev, conf, polled, reports>>, EntryTyped',
         \/ pc' = "header" /\ call' = ReadOf(1)
         \/ pc' = "all" /\ call' = ReadOf(Whole) /\ bigbuf'[1] = conf[1]
         \/ pc' = "conf" /\ call' = SetOf("conf")
         \/ pc' = "proto" /\ call' = SetOf("proto") /\ "conf" \in dev.set,
         pc' \in {"conf", "proto"} => epinfo' = "hid_ep" /\ ConfigurationMatches'
  PROVE  Inv'
<1> USE DEF Inv
<1>1. pc' \in {"header", "all", "conf", "proto"}
  OBVIOUS
<1>2. TypeInv'
  <2>1. TypeOK'
    BY <1>1 DEF EntryTyped, Counts, TypeInv, TypeOK
  <2>2. buf' \in Seq(Cell)
    BY EmptySeq
  <2> QED
    BY <1>1, <2>1, <2>2, SameReads DEF EntryTyped, TypeInv
<1>3. call'.kind \in {"read", "set"}
  BY DEF ReadOf, SetOf
<1>4. CallInv'
  BY <1>1, <1>3, SameReads DEF CallInv
<1>5. DataInv' /\ ProbeInv' /\ ReportInv'
  BY <1>1 DEF DataInv, ProbeInv, ReportInv, Through
<1> QED
  BY <1>2, <1>4, <1>5

(* A probe has failed.                                                     *)
LEMMA NextProbeKeeps ==
  ASSUME Inv, pc # "polling", stage = "idle", NextProbe, rcvToggle' = 0,
         UNCHANGED <<stage, call, nak_count, retry_count, reachable, buf, rcode, RCVTOG, mute, dev,
                     conf, polled, reports>>,
         devclass' \in {0, HID_K, HID_M} /\ epinfo' \in {"dev0ep", "hid_ep"}
           /\ maxpktsize' \in 0..ReportSize /\ bigbuf' \in [1..BufLen -> Cell]
  PROVE  Inv'
<1> USE DEF Inv
<1>1. pc' \in {"start", "error"} /\ probe' \in 1..Len(Probes)
  BY DEF NextProbe, Probes, TypeInv, TypeOK
<1>2. TypeInv'
  <2>1. TypeOK'
    BY <1>1 DEF TypeInv, TypeOK
  <2> QED
    BY <1>1, <2>1, SameReads DEF TypeInv
<1>3. CallInv'
  BY <1>1, SameReads DEF CallInv
<1>4. DataInv' /\ ProbeInv' /\ ReportInv'
  BY <1>1 DEF DataInv, ProbeInv, ReportInv, Through
<1> QED
  BY <1>2, <1>3, <1>4

LEMMA XferCtrlReqIs ==
  ASSUME NEW r, NEW n, NEW data, XferCtrlReq(r, n, data)
  PROVE  /\ stage = "idle" /\ stage' = "setup" /\ Counts' /\ buf' = <<>>
         /\ UNCHANGED <<rcode, RCVTOG, mute, dev>>
         /\ call' = [kind |-> IF data = <<>> THEN "set" ELSE "read", nbytes |-> n,
                     maxpktsize |-> MaxPktSize0, request |-> r, data |-> data]
  BY NewCounts DEF XferCtrlReq

LEMMA GetConfIs ==
  ASSUME ConfInv, NEW n \in Nat \ {0}, GetConf(n)
  PROVE  /\ stage = "idle" /\ stage' = "setup" /\ Counts' /\ buf' = <<>>
         /\ UNCHANGED <<rcode, RCVTOG, mute, dev, rcvToggle>>
         /\ call' = ReadOf(n)
<1> DEFINE data == SubSeq(conf, 1, Lesser(n, Len(conf)))
<1>1. data # <<>>
  <2>1. ReadOf(n).data = data /\ Len(ReadOf(n).data) \in 1..n
    BY ReadIs
  <2> HIDE DEF data
  <2>2. Len(data) # 0
    BY <2>1
  <2>3. Len(<<>>) = 0
    BY EmptySeq
  <2> QED
    BY <2>2, <2>3
<1>2. XferCtrlReq("descr", n, data) /\ rcvToggle' = rcvToggle
  BY DEF GetConf
<1> HIDE DEF data
<1>3. call' = [kind |-> "read", nbytes |-> n, maxpktsize |-> MaxPktSize0,
               request |-> "descr", data |-> data]
  BY <1>1, <1>2, XferCtrlReqIs
<1>4. call' = ReadOf(n)
  BY <1>3 DEF ReadOf, data
<1> QED
  BY <1>2, <1>4, XferCtrlReqIs

LEMMA SetIs ==
  ASSUME NEW r, XferCtrlReq(r, 0, <<>>)
  PROVE  /\ stage = "idle" /\ stage' = "setup" /\ Counts' /\ buf' = <<>>
         /\ UNCHANGED <<rcode, RCVTOG, mute, dev>>
         /\ call' = SetOf(r)
  BY XferCtrlReqIs DEF SetOf

LEMMA FilledTyped ==
  ASSUME TypeInv, pc # "polling"
  PROVE  Filled \in [1..BufLen -> Cell]
<1>1. buf \in Seq(Cell) /\ bigbuf \in [1..BufLen -> Cell]
  BY DEF TypeInv
<1> QED
  BY <1>1, ElementOfSeq DEF Filled

(* After a read that succeeded, the buffer begins with the configuration.  *)
LEMMA FilledIs ==
  ASSUME Inv, NEW n \in Nat \ {0}, n <= BufLen, n <= Len(conf), call = ReadOf(n),
         stage = "idle", rcode = hrSUCCESS
  PROVE  \A i \in 1..n : Filled[i] = conf[i]
<1>1. ConfInv /\ Len(conf) \in Nat
  BY DEF Inv, TypeInv, ConfInv
<1>2. Len(call.data) = n /\ \A i \in 1..n : call.data[i] = conf[i]
  BY <1>1, ReadIs DEF Lesser
<1>3. buf = call.data
  BY <1>1, ReadIs DEF Inv, DataInv, Through
<1>4. \A i \in 1..n : i \in 1..BufLen
  BY HidAssumption
<1> QED
  BY <1>2, <1>3, <1>4 DEF Filled

LEMMA EndpointCell ==
  ASSUME NEW c \in Cell, c.type = "ENDPOINT"
  PROVE  c.maxpktsize \in 1..ReportSize
<1>1. c \in Interface => c.type = "INTERFACE"
  BY DEF Interface
<1>2. c \in Other => c.type = "HID"
  BY DEF Other
<1>3. c = Empty => c.type = "nothing yet"
  <2>1. Empty.type = "nothing yet"
    BY DEF Empty
  <2> QED
    BY <2>1
<1>4. c \in [type : {"CONFIGURATION"}, total : Nat] => c.type = "CONFIGURATION"
  OBVIOUS
<1>5. c \in Endpoint
  BY <1>1, <1>2, <1>3, <1>4 DEF Cell
<1> QED
  BY <1>5 DEF Endpoint

(* The walk finds the device's first interface and its first endpoint.     *)
LEMMA WalkFinds ==
  ASSUME TypeInv, pc # "polling", bigbuf[1] = conf[1], \A i \in 1..Whole : Filled[i] = conf[i],
         Matches(Filled), OfType(Filled, "ENDPOINT", FirstInterface(Filled)) # {}
  PROVE  LET intf == Min(Types("INTERFACE", 1))
             ep == FirstEndpoint(Filled)
         IN /\ Types("INTERFACE", 1) # {} /\ conf[intf].protocol = Protocol(Probes[probe])
            /\ Types("ENDPOINT", intf) # {} /\ Min(Types("ENDPOINT", intf)) = ep
            /\ Filled[ep] = conf[ep] /\ Filled[ep].maxpktsize \in 1..ReportSize
<1> DEFINE intf == Min(Types("INTERFACE", 1))
           ep == FirstEndpoint(Filled)
           w == Whole
<1>1. ConfInv /\ Len(conf) \in Nat
  BY DEF TypeInv, ConfInv
<1>2. w \in Nat \ {0} /\ w <= BufLen /\ w <= Len(conf) /\ total_length = w
  BY <1>1, TotalIs
<1>3. \A i \in 1..w : Filled[i] = conf[i]
  OBVIOUS
<1> HIDE DEF w
<1>4. OfType(Filled, "INTERFACE", 1) = {i \in Types("INTERFACE", 1) : i <= w}
  BY <1>1, <1>2, <1>3 DEF OfType, Types
<1>5. Types("INTERFACE", 1) \in SUBSET Nat
  BY DEF Types
<1>6. OfType(Filled, "INTERFACE", 1) # {} /\ FirstInterface(Filled) = Min(OfType(Filled, "INTERFACE", 1))
      /\ Filled[FirstInterface(Filled)].protocol = Protocol(Probes[probe])
  BY DEF Matches, FirstInterface
<1>7. Types("INTERFACE", 1) # {} /\ FirstInterface(Filled) = intf
  BY <1>2, <1>4, <1>5, <1>6, SameLeast
<1>8. intf \in 1..w
  <2>1. intf \in OfType(Filled, "INTERFACE", 1)
    BY <1>4, <1>5, <1>6, <1>7, LeastElement
  <2> QED
    BY <2>1, <1>2 DEF OfType
<1>9. conf[intf].protocol = Protocol(Probes[probe])
  BY <1>3, <1>6, <1>7, <1>8
<1> HIDE DEF intf
<1>10. OfType(Filled, "ENDPOINT", intf) = {i \in Types("ENDPOINT", intf) : i <= w}
  BY <1>1, <1>2, <1>3, <1>8 DEF OfType, Types
<1>11. Types("ENDPOINT", intf) \in SUBSET Nat
  BY <1>8 DEF Types
<1>12. OfType(Filled, "ENDPOINT", intf) # {} /\ ep = Min(OfType(Filled, "ENDPOINT", intf))
  BY <1>7 DEF FirstEndpoint
<1>13. Types("ENDPOINT", intf) # {} /\ Min(Types("ENDPOINT", intf)) = ep
  BY <1>2, <1>10, <1>11, <1>12, SameLeast
<1>14. ep \in OfType(Filled, "ENDPOINT", intf)
  BY <1>10, <1>11, <1>12, LeastElement
<1>15. ep \in 1..w /\ Filled[ep].type = "ENDPOINT"
  BY <1>2, <1>8, <1>14 DEF OfType
<1>16. Filled[ep] \in Cell
  BY <1>2, <1>15, FilledTyped, HidAssumption
<1>17. Filled[ep].maxpktsize \in 1..ReportSize
  BY <1>15, <1>16, EndpointCell
<1> QED
  BY <1>3, <1>7, <1>9, <1>13, <1>15, <1>17 DEF intf

LEMMA ReadHeaderKeeps == ASSUME Inv, ReadHeader PROVE Inv'
<1> USE DEF Inv
<1>1. pc = "start" /\ pc' = "header" /\ GetConf(1)
      /\ UNCHANGED <<probe, bigbuf, devclass, epinfo, maxpktsize, conf, polled, reports>>
  BY DEF ReadHeader
<1>2. /\ stage = "idle" /\ stage' = "setup" /\ Counts' /\ buf' = <<>>
      /\ UNCHANGED <<rcode, RCVTOG, mute, dev, rcvToggle>>
      /\ call' = ReadOf(1)
  BY <1>1, GetConfIs DEF TypeInv
<1>3. EntryTyped' /\ rcvToggle' = 0
  BY <1>1, <1>2 DEF EntryTyped, TypeInv, TypeOK, CallInv
<1> QED
  BY <1>1, <1>2, <1>3, CallKeeps

LEMMA ReadAllKeeps == ASSUME Inv, ReadAll PROVE Inv'
<1> USE DEF Inv
<1>1. pc = "header" /\ pc' = "all" /\ stage = "idle" /\ rcode = hrSUCCESS
      /\ bigbuf' = Filled /\ GetConf(total_length')
      /\ UNCHANGED <<probe, devclass, epinfo, maxpktsize, conf, polled, reports>>
  BY DEF ReadAll, AfterCall
<1>2. call = ReadOf(1) /\ ConfInv /\ Len(conf) \in Nat \ {0}
  BY <1>1 DEF CallInv, TypeInv, ConfInv
<1>3. Filled[1] = conf[1]
  BY <1>1, <1>2, FilledIs, HidAssumption
<1>4. total_length' = Whole /\ Whole \in Nat \ {0}
  <2>1. bigbuf'[1].total = Len(conf)
    BY <1>1, <1>2, <1>3 DEF ConfInv, Header
  <2>2. total_length' = IF bigbuf'[1].total > BufLen THEN BufLen ELSE bigbuf'[1].total
    BY DEF total_length
  <2> QED
    BY <2>1, <2>2, <1>2, TotalIs, HidAssumption DEF Whole, Lesser
<1>5. /\ stage' = "setup" /\ Counts' /\ buf' = <<>>
      /\ UNCHANGED <<rcode, RCVTOG, mute, dev, rcvToggle>>
      /\ call' = ReadOf(Whole)
  BY <1>1, <1>2, <1>4, GetConfIs
<1>6. EntryTyped' /\ rcvToggle' = 0
  BY <1>1, <1>5, FilledTyped DEF EntryTyped, TypeInv, TypeOK, CallInv
<1> QED
  BY <1>1, <1>3, <1>5, <1>6, CallKeeps

LEMMA ReadFailsKeeps == ASSUME Inv, ReadFails PROVE Inv'
<1> USE DEF Inv
<1>1. /\ pc \in {"header", "all"} /\ stage = "idle" /\ bigbuf' = Filled /\ NextProbe
      /\ UNCHANGED <<stage, call, nak_count, retry_count, reachable, buf, rcode, rcvToggle, RCVTOG,
                     mute, dev>>
      /\ UNCHANGED <<devclass, epinfo, maxpktsize, conf, polled, reports>>
  BY DEF ReadFails, ProbeFails, transferVars
<1>2. pc # "polling" /\ rcvToggle' = 0
  BY <1>1 DEF CallInv
<1>3. Filled \in [1..BufLen -> Cell]
  BY <1>2, FilledTyped
<1> QED
  BY <1>1, <1>2, <1>3, NextProbeKeeps DEF TypeInv, TypeOK

LEMMA NoMatchKeeps == ASSUME Inv, NoMatch PROVE Inv'
<1> USE DEF Inv
<1>1. /\ pc = "all" /\ stage = "idle" /\ bigbuf' = Filled /\ NextProbe
      /\ UNCHANGED <<stage, call, nak_count, retry_count, reachable, buf, rcode, rcvToggle, RCVTOG,
                     mute, dev>>
      /\ UNCHANGED <<devclass, epinfo, maxpktsize, conf, polled, reports>>
  BY DEF NoMatch, ProbeFails, AfterCall, transferVars
<1>2. pc # "polling" /\ rcvToggle' = 0
  BY <1>1 DEF CallInv
<1>3. Filled \in [1..BufLen -> Cell]
  BY <1>2, FilledTyped
<1> QED
  BY <1>1, <1>2, <1>3, NextProbeKeeps DEF TypeInv, TypeOK

LEMMA SetFailsKeeps == ASSUME Inv, SetFails PROVE Inv'
<1> USE DEF Inv
<1>1. /\ pc \in {"conf", "proto"} /\ stage = "idle" /\ bigbuf' = bigbuf /\ NextProbe
      /\ UNCHANGED <<stage, call, nak_count, retry_count, reachable, buf, rcode, rcvToggle, RCVTOG,
                     mute, dev>>
      /\ UNCHANGED <<devclass, epinfo, maxpktsize, conf, polled, reports>>
  BY DEF SetFails, ProbeFails, transferVars
<1>2. pc # "polling" /\ rcvToggle' = 0
  BY <1>1 DEF CallInv
<1> QED
  BY <1>1, <1>2, NextProbeKeeps DEF TypeInv, TypeOK

(* The entry is filled in, from the device's first interface if a request  *)
(* follows.                                                                *)
LEMMA FillEntryKeeps == ASSUME Inv, FillEntry PROVE Inv'
<1> USE DEF Inv
<1> DEFINE some == OfType(Filled, "ENDPOINT", FirstInterface(Filled)) # {}
<1>1. /\ pc = "all" /\ stage = "idle" /\ rcode = hrSUCCESS
      /\ bigbuf' = Filled /\ Matches(Filled)
      /\ devclass' = Probes[probe] /\ epinfo' = "hid_ep" /\ rcvToggle' = 0
      /\ UNCHANGED <<conf, polled, reports>>
  BY DEF FillEntry, AfterCall
<1>2. /\ call = ReadOf(Whole) /\ bigbuf[1] = conf[1] /\ ConfInv
      /\ Probes[probe] \in {0, HID_K, HID_M} /\ probe \in 1..Len(Probes)
  BY <1>1 DEF CallInv, TypeInv, TypeOK, Probes
<1>3. Filled \in [1..BufLen -> Cell]
  BY <1>1, FilledTyped
<1>4. CASE some
  <2>1. /\ maxpktsize' = Filled[FirstEndpoint(Filled)].maxpktsize
        /\ pc' = "conf" /\ XferCtrlReq("conf", 0, <<>>) /\ probe' = probe
    BY <1>4 DEF FillEntry
  <2>2. \A i \in 1..Whole : Filled[i] = conf[i]
    BY <1>1, <1>2, TotalIs, FilledIs
  <2> DEFINE intf == Min(Types("INTERFACE", 1))
             ep == FirstEndpoint(Filled)
  <2>3. /\ Types("INTERFACE", 1) # {} /\ conf[intf].protocol = Protocol(Probes[probe])
        /\ Types("ENDPOINT", intf) # {} /\ Min(Types("ENDPOINT", intf)) = ep
        /\ Filled[ep] = conf[ep] /\ Filled[ep].maxpktsize \in 1..ReportSize
    BY <1>1, <1>2, <1>4, <2>2, WalkFinds
  <2>5. ConfigurationMatches'
    BY <1>1, <2>1, <2>3 DEF ConfigurationMatches, Types
  <2>6. /\ stage' = "setup" /\ Counts' /\ buf' = <<>>
        /\ UNCHANGED <<rcode, RCVTOG, mute, dev>>
        /\ call' = SetOf("conf")
    BY <2>1, SetIs
  <2>7. EntryTyped'
    BY <1>1, <1>2, <1>3, <2>1, <2>3, HidAssumption DEF EntryTyped
  <2> QED
    BY <1>1, <2>1, <2>5, <2>6, <2>7, CallKeeps
<1>5. CASE ~some
  <2>1. /\ NextProbe
        /\ UNCHANGED <<maxpktsize, stage, call, nak_count, retry_count, reachable, buf, rcode,
                       RCVTOG, mute, dev>>
    BY <1>5 DEF FillEntry
  <2> QED
    BY <1>1, <1>2, <1>3, <2>1, NextProbeKeeps DEF TypeInv, TypeOK
<1> QED
  BY <1>4, <1>5

LEMMA SetProtoKeeps == ASSUME Inv, SetProto PROVE Inv'
<1> USE DEF Inv
<1>1. pc = "conf" /\ stage = "idle" /\ rcode = hrSUCCESS /\ pc' = "proto"
      /\ XferCtrlReq("proto", 0, <<>>)
      /\ UNCHANGED <<rcvToggle, probe, bigbuf, devclass, epinfo, maxpktsize, conf, polled, reports>>
  BY DEF SetProto, AfterCall
<1>2. call = SetOf("conf") /\ rcvToggle = 0
  BY <1>1 DEF CallInv
<1>3. "conf" \in dev.set
  BY <1>1, <1>2 DEF ProbeInv, Through, SetOf
<1>4. /\ stage' = "setup" /\ Counts' /\ buf' = <<>>
      /\ UNCHANGED <<rcode, RCVTOG, mute, dev>>
      /\ call' = SetOf("proto")
  BY <1>1, SetIs
<1>5. EntryTyped'
  BY <1>1 DEF EntryTyped, TypeInv, TypeOK
<1>6. epinfo' = "hid_ep" /\ ConfigurationMatches'
  BY <1>1, SameCalls DEF ProbeInv
<1> QED
  BY <1>1, <1>2, <1>3, <1>4, <1>5, <1>6, CallKeeps

LEMMA ProbeSucceedsKeeps == ASSUME Inv, ProbeSucceeds PROVE Inv'
<1> USE DEF Inv
<1>1. /\ pc = "proto" /\ stage = "idle" /\ rcode = hrSUCCESS /\ pc' = "polling"
      /\ UNCHANGED <<stage, call, nak_count, retry_count, reachable, buf, rcode, rcvToggle, RCVTOG,
                     mute, dev>>
      /\ UNCHANGED <<probe, bigbuf, devclass, epinfo, maxpktsize, conf, polled, reports>>
  BY DEF ProbeSucceeds, AfterCall, transferVars
<1>2. /\ call = SetOf("proto") /\ ~polled /\ reports = <<>> /\ rcvToggle = 0
      /\ dev.rtog = 0 /\ dev.report = 1 /\ dev.part = 0
  BY <1>1 DEF CallInv
<1>3. "proto" \in dev.set /\ buf = <<>>
  BY <1>1, <1>2 DEF ProbeInv, DataInv, Through, SetOf
<1>4. TypeInv'
  <2>1. TypeOK'
    BY <1>1 DEF TypeInv, TypeOK
  <2>2. buf' \in Seq(Nat)
    BY <1>1, <1>3, EmptySeq
  <2> QED
    BY <1>1, <2>1, <2>2, SameCalls DEF TypeInv
<1>5. CallInv'
  BY <1>1, <1>2, SameCalls DEF CallInv
<1>6. DataInv' /\ ProbeInv'
  BY <1>1, <1>3, SameCalls DEF DataInv, ProbeInv, Through
<1>7. ReportInv'
  <2>1. Len(reports) = 0 /\ reports' = reports /\ ~Answered' /\ Taken' = 0
    BY <1>1, <1>2, EmptySeq DEF Answered, Taken
  <2> QED
    BY <1>1, <1>2, <2>1 DEF ReportInv
<1> QED
  BY <1>4, <1>5, <1>6, <1>7

-----------------------------------------------------------------------------
(* The polls of main.                                                      *)

LEMMA PollKeeps == ASSUME Inv, Poll PROVE Inv'
<1> USE DEF Inv
<1>1. /\ pc = "polling" /\ stage = "idle" /\ polled' = TRUE
      /\ XferInTransfer(ReportSize, maxpktsize, ReportLength)
      /\ UNCHANGED <<pc, probe, bigbuf, devclass, epinfo, maxpktsize, conf, reports>>
  BY DEF Poll
<1>2. /\ stage' = "in" /\ Counts' /\ RCVTOG' = rcvToggle /\ buf' = <<>> /\ call' = PollOf
      /\ UNCHANGED <<rcode, rcvToggle, mute, dev>>
  BY <1>1, NewCounts DEF XferInTransfer, BeginIn, PollOf
<1>3. call'.kind = "poll"
  BY <1>2 DEF PollOf
<1>4. TypeInv'
  <2>1. TypeOK'
    BY <1>1, <1>2 DEF Counts, TypeInv, TypeOK
  <2>2. buf' \in Seq(Nat)
    BY <1>2, EmptySeq
  <2> QED
    BY <1>1, <1>2, <2>1, <2>2, SameCalls DEF TypeInv
<1>5. CallInv'
  BY <1>1, <1>2, <1>3, SameCalls DEF CallInv
<1>6. DataInv'
  BY <1>2, <1>3 DEF DataInv
<1>7. ProbeInv'
  BY <1>1, <1>2, <1>3, SameCalls DEF ProbeInv
<1>8. ReportInv'
  <2>1. SUFFICES ASSUME OnePacketReports
                 PROVE  ReportInv'
    BY <1>1, SameCalls DEF ReportInv
  <2>2. ~polled /\ ~Answered /\ ~Answered'
    BY <1>2 DEF Answered, Poll
  <2>3. /\ dev.part = 0
        /\ dev.report = IF dev.rtog = rcvToggle THEN Len(reports) + 1 ELSE Len(reports)
        /\ \A i \in 1..Len(reports) : reports[i] = [j \in 1..ReportLength |-> i]
    BY <1>1, <2>1, <2>2 DEF ReportInv, Taken
  <2>4. Taken' = Len(reports) /\ ReportLength' = ReportLength
    BY <1>1, <2>2, SameCalls DEF Taken
  <2> QED
    BY <1>1, <1>2, <2>2, <2>3, <2>4 DEF ReportInv
<1> QED
  BY <1>4, <1>5, <1>6, <1>7, <1>8

LEMMA PolledKeeps == ASSUME Inv, Polled PROVE Inv'
<1> USE DEF Inv
<1>1. /\ pc = "polling" /\ stage = "idle" /\ polled /\ polled' = FALSE
      /\ reports' = IF rcode = hrSUCCESS THEN Append(reports, buf) ELSE reports
      /\ UNCHANGED <<stage, call, nak_count, retry_count, reachable, buf, rcode, rcvToggle, RCVTOG,
                     mute, dev>>
      /\ UNCHANGED <<pc, probe, bigbuf, devclass, epinfo, maxpktsize, conf>>
  BY DEF Polled, transferVars
<1>2. buf \in Seq(Nat) /\ reports \in Seq(Seq(Nat)) /\ Len(reports) \in Nat
  BY <1>1 DEF TypeInv
<1>3. TypeInv'
  <2>1. TypeOK'
    BY <1>1 DEF TypeInv, TypeOK
  <2>2. reports' \in Seq(Seq(Nat))
    BY <1>1, <1>2
  <2> QED
    BY <1>1, <2>1, <2>2, SameCalls DEF TypeInv
<1>4. CallInv'
  BY <1>1, SameCalls DEF CallInv
<1>5. DataInv' /\ ProbeInv'
  BY <1>1, SameCalls DEF DataInv, ProbeInv, Through
<1>6. ReportInv'
  <2>1. SUFFICES ASSUME OnePacketReports
                 PROVE  ReportInv'
    BY <1>1, SameCalls DEF ReportInv
  <2>2. /\ dev.part = 0
        /\ dev.report = IF dev.rtog = rcvToggle THEN Taken + 1 ELSE Taken
        /\ Answered => buf = [j \in 1..ReportLength |-> Taken]
        /\ \A i \in 1..Len(reports) : reports[i] = [j \in 1..ReportLength |-> i]
    BY <1>1, <2>1 DEF ReportInv
  <2>3. ~Answered' /\ Taken' = Len(reports') /\ ReportLength' = ReportLength
    BY <1>1, SameCalls DEF Answered, Taken
  <2>4. CASE rcode = hrSUCCESS
    <3>1. Answered /\ Taken = Len(reports) + 1
      BY <1>1, <2>4 DEF Answered, Taken
    <3>2. Len(reports') = Len(reports) + 1 /\ reports'[Len(reports) + 1] = buf
          /\ \A i \in 1..Len(reports) : reports'[i] = reports[i]
      BY <1>1, <1>2, <2>4
    <3>3. ASSUME NEW i \in 1..(Len(reports) + 1)
          PROVE  reports'[i] = [j \in 1..ReportLength |-> i]
      <4>1. CASE i = Len(reports) + 1
        BY <2>2, <3>1, <3>2, <4>1
      <4>2. CASE i \in 1..Len(reports)
        BY <2>2, <3>2, <4>2
      <4> QED
        BY <1>2, <4>1, <4>2
    <3>4. Taken' = Taken
      BY <2>3, <3>1, <3>2
    <3> QED
      BY <1>1, <2>2, <2>3, <3>2, <3>3, <3>4 DEF ReportInv
  <2>5. CASE rcode # hrSUCCESS
    <3>1. ~Answered /\ Taken = Len(reports) /\ reports' = reports
      BY <1>1, <2>5 DEF Answered, Taken
    <3> QED
      BY <1>1, <2>2, <2>3, <3>1 DEF ReportInv
  <2> QED
    BY <2>4, <2>5
<1> QED
  BY <1>3, <1>4, <1>5, <1>6

-----------------------------------------------------------------------------
LEMMA InvInit == Init => Inv
<1> SUFFICES ASSUME Init PROVE Inv
  OBVIOUS
<1>1. /\ stage = "idle" /\ call = NoCall /\ nak_count = 0 /\ retry_count = 0 /\ reachable = TRUE
      /\ buf = <<>> /\ rcode = hrSUCCESS /\ rcvToggle = 0 /\ RCVTOG = 0 /\ mute = FALSE
      /\ dev = [pos |-> 0, tog |-> 0, report |-> 1, part |-> 0, rtog |-> 0, set |-> {}]
  BY DEF Init, TransferInit
<1>2. /\ pc = "start" /\ probe = 1 /\ bigbuf = [i \in 1..BufLen |-> Empty]
      /\ devclass = 0 /\ epinfo = "dev0ep" /\ maxpktsize = 0
      /\ conf \in Configurations /\ polled = FALSE /\ reports = <<>>
  BY DEF Init
<1>3. TypeInv
  <2>1. TypeOK
    BY <1>1, <1>2, TransferAssumption, HidAssumption DEF TypeOK, Probes
  <2>2. dev \in Device
    BY <1>1 DEF Device
  <2>3. bigbuf \in [1..BufLen -> Cell]
    BY <1>2 DEF Cell
  <2>4. buf \in Seq(Cell) /\ reports \in Seq(Seq(Nat))
    BY <1>1, <1>2, EmptySeq
  <2> QED
    BY <1>1, <1>2, <2>1, <2>2, <2>3, <2>4, ConfCorrect DEF TypeInv
<1>4. CallInv
  BY <1>1, <1>2 DEF CallInv
<1>5. call.kind = "none"
  BY <1>1 DEF NoCall
<1>6. DataInv /\ ProbeInv /\ ReportInv
  BY <1>1, <1>2, <1>5 DEF DataInv, ProbeInv, ReportInv
<1> QED
  BY <1>3, <1>4, <1>6 DEF Inv

LEMMA TransactionKeeps == ASSUME Inv, Transaction, UNCHANGED hidVars PROVE Inv'
<1>1. CASE SetupFails \/ StatusFails \/ InFails \/ InToggleError
  <2>1. Unsuccessful
    BY <1>1, UnsuccessfulTransactions DEF Inv
  <2> QED
    BY <2>1, UnsuccessfulKeepsTypes, UnsuccessfulKeepsCalls, UnsuccessfulKeepsData,
       UnsuccessfulKeepsReports DEF Inv
<1> QED
  BY <1>1, SetupAckedKeeps, StatusAckedKeeps, ReadPacketKeeps, PollPacketKeeps DEF Transaction

LEMMA InvStep == Inv /\ [Next]_vars => Inv'
<1> SUFFICES ASSUME Inv, [Next]_vars PROVE Inv'
  OBVIOUS
<1>1. CASE Host
  BY <1>1, TransactionKeeps, ReadHeaderKeeps, ReadAllKeeps, ReadFailsKeeps, NoMatchKeeps,
     FillEntryKeeps, SetProtoKeeps, SetFailsKeeps, ProbeSucceedsKeeps, PollKeeps, PolledKeeps
     DEF Host
<1>2. CASE ChipHangs /\ UNCHANGED hidVars
  BY <1>2, ChipHangsKeeps
<1>3. CASE UNCHANGED vars
  <2>1. UNCHANGED <<stage, call, nak_count, retry_count, reachable, buf, rcode, rcvToggle, RCVTOG, mute, dev,
                    pc, probe, bigbuf, devclass, epinfo, maxpktsize, conf, polled, reports>>
    BY <1>3 DEF vars, transferVars, hidVars
  <2>2. TypeInv' /\ CallInv'
    BY <2>1, SameCalls DEF Inv, TypeInv, TypeOK, CallInv
  <2>3. DataInv' /\ ProbeInv'
    BY <2>1, SameCalls DEF Inv, DataInv, ProbeInv, Through
  <2>4. ReportInv'
    BY <2>1, SameCalls DEF Inv, ReportInv, Taken, Answered
  <2> QED
    BY <2>2, <2>3, <2>4 DEF Inv
<1> QED
  BY <1>1, <1>2, <1>3 DEF Next, Finished

LEMMA InvAlways == Spec => []Inv
  BY InvInit, InvStep, PTL DEF Spec

(* The counters of XferDispatchPkt stay below their limits, and the host's *)
(* and the device's toggles, results and states keep to their values       *)
(* (transfer.c:160).                                                       *)
THEOREM HidTypes == Spec => []TypeOK
<1>1. Inv => TypeOK
  BY DEF Inv, TypeInv
<1> QED
  BY InvAlways, <1>1, PTL

(* A control read that succeeds has stored the data as the device sent     *)
(* them, for any packet size and any limits (transfer.c:193).              *)
THEOREM ReadsIntact == Spec => []DataIntact
<1>1. Inv => DataIntact
  <2> SUFFICES ASSUME Inv, stage = "idle", call.kind = "read", rcode = hrSUCCESS
               PROVE  buf = SubSeq(call.data, 1, Lesser(call.nbytes, Len(call.data)))
    BY DEF DataIntact
  <2>1. /\ buf = call.data /\ call.data \in Seq(Cell) /\ call.nbytes \in Nat
        /\ Len(call.data) <= call.nbytes
    BY ReadCall DEF Inv, DataInv, Through
  <2>2. Lesser(call.nbytes, Len(call.data)) = Len(call.data)
    BY <2>1 DEF Lesser
  <2> QED
    BY <2>1, <2>2, SubSeqFull
<1> QED
  BY InvAlways, <1>1, PTL

(* Once main polls, the table holds class and packet size of the device's  *)
(* first interface, and the device is set up for it, for any length of the *)
(* buffer and every configuration (HID.c:155).                             *)
THEOREM ProbeRight == Spec => []ProbedDevice
<1>1. Inv => ProbedDevice
  BY DEF Inv, ProbeInv, ProbedDevice, ConfigurationMatches, Types
<1> QED
  BY InvAlways, <1>1, PTL

(* Where a report fits into one packet that ends the poll, main gets every *)
(* report once and in order, for any limits and sizes (transfer.c:218).    *)
THEOREM ReportsCorrect == Spec => []ReportsInOrder
<1>1. Inv => ReportsInOrder
  BY DEF Inv, ReportInv, ReportsInOrder
<1> QED
  BY InvAlways, <1>1, PTL

=============================================================================
