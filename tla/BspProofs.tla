------------------------------ MODULE BspProofs ------------------------------
(***************************************************************************)
(* Proofs about two parts of the board support package that the program    *)
(* uses: the alarms of the system clock, and the SPI command routine with  *)
(* the register accesses made of it.                                       *)
(***************************************************************************)
EXTENDS AlarmList, SpiMaster, SequenceTheorems, TLAPS

-----------------------------------------------------------------------------
(* The alarms of AlarmList keep time across any number of wraps of the     *)
(* tick counter, whatever its range.  The invariant says what the rollover *)
(* flag means: of an alarm in the list, the time lies strictly behind the  *)
(* counter if the flag is set and strictly before it if not.               *)

Record == [on : BOOLEAN, time : 0..(WRAP - 1), rollover : BOOLEAN]

(* The flag of alarm r, with the counter at now, is right.                 *)
FlagRight(r, now) ==
  r.on => /\ r.rollover => r.time < now
          /\ ~r.rollover => r.time > now

AlarmInv == AlarmTypeOK /\ \A a \in Alarms : FlagRight(alarm[a], nticks)

Ticks(r, now) == IF ~r.on THEN -1 ELSE IF r.rollover THEN r.time + WRAP - now ELSE r.time - now

(* An alarm started for n ticks: its record is right and n + 1 ticks away. *)
LEMMA StartedRight ==
  ASSUME NEW n \in 0..(WRAP - 2), NEW now \in 0..(WRAP - 1), NEW r,
         r = [on |-> TRUE, time |-> Plus(n, now + 1), rollover |-> Plus(n, now + 1) < now]
  PROVE  r \in Record /\ FlagRight(r, now) /\ Ticks(r, now) = n + 1
<1>1. PICK t \in 0..(WRAP - 1) :
        /\ t = Plus(n, now + 1)
        /\ t = IF n + now + 1 >= WRAP THEN n + now + 1 - WRAP ELSE n + now + 1
  BY AlarmAssumption DEF Plus
<1>2. r.on /\ r.time = t /\ (r.rollover <=> t < now)
  BY <1>1
<1>3. r \in Record
  BY <1>1 DEF Record
<1>4. IF t < now THEN t + WRAP - now = n + 1 ELSE t - now = n + 1 /\ t > now
  BY <1>1, AlarmAssumption
<1> QED  BY <1>2, <1>3, <1>4 DEF FlagRight, Ticks

(* What a tick does to a right record: it is due if it was one tick away,  *)
(* and is right again, one tick nearer or newly set by the callback.       *)
LEMMA TickedRight ==
  ASSUME NEW now \in 0..(WRAP - 1), NEW r \in Record, FlagRight(r, now),
         NEW next \in 0..(WRAP - 1), NEW later, later = Plus(now, 1),
         NEW after, after = Ticked(r, later, next)
  PROVE  /\ after \in Record /\ FlagRight(after, later)
         /\ Due(r, later) <=> Ticks(r, now) = 1
         /\ Ticks(after, later) = IF Ticks(r, now) = -1 THEN -1
                                  ELSE IF Ticks(r, now) > 1 THEN Ticks(r, now) - 1
                                  ELSE IF next = 0 THEN -1 ELSE next
<1>1. /\ WRAP \in Nat /\ WRAP >= 2
      /\ later \in 0..(WRAP - 1) /\ later = IF now = WRAP - 1 THEN 0 ELSE now + 1
      /\ r.on \in BOOLEAN /\ r.rollover \in BOOLEAN /\ r.time \in 0..(WRAP - 1)
  BY AlarmAssumption DEF Plus, Record
<1>2. PICK time \in 0..(WRAP - 1) :
        /\ time = Plus(r.time, next)
        /\ time = IF r.time + next >= WRAP THEN r.time + next - WRAP ELSE r.time + next
  BY <1>1 DEF Plus
<1>3. CASE ~r.on
  <2>1. after = r
    BY <1>3 DEF Ticked
  <2> QED  BY <1>1, <1>3, <2>1 DEF Ticks, Due, FlagRight
<1>4. CASE r.on /\ ~Due(r, later)
  <2>1. after = [r EXCEPT !.rollover = Behind(r, later)]
    BY <1>4 DEF Ticked
  <2>2. after \in Record /\ after.on /\ after.time = r.time /\ (after.rollover <=> Behind(r, later))
    BY <1>1, <1>4, <2>1 DEF Record, Behind
  <2>3. ~(r.time <= later) \/ (r.rollover /\ later # 0)
    BY <1>4 DEF Due, Behind
  <2>4. CASE r.rollover
    <3>1. r.time < now
      BY <1>4, <2>4 DEF FlagRight
    <3> QED  BY <1>1, <1>4, <2>2, <2>3, <2>4, <3>1 DEF Ticks, FlagRight, Behind
  <2>5. CASE ~r.rollover
    <3>1. r.time > now
      BY <1>4, <2>5 DEF FlagRight
    <3> QED  BY <1>1, <1>4, <2>2, <2>3, <2>5, <3>1 DEF Ticks, FlagRight, Behind
  <2> QED  BY <2>4, <2>5
<1>5. CASE r.on /\ Due(r, later)
  <2>1. r.time = later /\ Ticks(r, now) = 1
    BY <1>1, <1>5 DEF Due, Behind, FlagRight, Ticks
  <2>2. CASE next = 0
    <3>1. after = [r EXCEPT !.on = FALSE, !.rollover = FALSE]
      BY <1>5, <2>2 DEF Ticked
    <3>2. after \in Record /\ ~after.on
      BY <1>1, <3>1 DEF Record
    <3> QED  BY <1>5, <2>1, <2>2, <3>2 DEF Ticks, FlagRight
  <2>3. CASE next # 0
    <3>1. after = [r EXCEPT !.time = time, !.rollover = time < later]
      BY <1>2, <1>5, <2>3 DEF Ticked
    <3>2. after.on /\ after.time = time /\ (after.rollover <=> time < later)
      BY <1>5, <3>1 DEF Record
    <3>3. after \in Record
      <4>1. (time < later) \in BOOLEAN
        OBVIOUS
      <4> QED  BY <1>2, <3>1, <4>1 DEF Record
    <3>4. IF time < later THEN time + WRAP - later = next
          ELSE time > later /\ time - later = next
      BY <1>1, <1>2, <2>1, <2>3
    <3> QED  BY <1>5, <2>1, <2>3, <3>2, <3>3, <3>4 DEF Ticks, FlagRight
  <2> QED  BY <2>2, <2>3
<1> QED  BY <1>3, <1>4, <1>5

-----------------------------------------------------------------------------
(* The invariant.                                                          *)

LEMMA AlarmInvInit == AlarmInit => AlarmInv
BY AlarmAssumption DEF AlarmInit, AlarmInv, AlarmTypeOK, FlagRight

LEMMA AlarmInvStep == AlarmInv /\ [AlarmNext]_alarmVars => AlarmInv'
<1> SUFFICES ASSUME AlarmInv, [AlarmNext]_alarmVars PROVE AlarmInv'
  OBVIOUS
<1> USE AlarmAssumption
<1>0. nticks \in 0..(WRAP - 1) /\ alarm \in [Alarms -> Record]
  BY DEF AlarmInv, AlarmTypeOK, Record
<1>1. ASSUME NEW a \in Alarms, alt_alarm_stop(a) PROVE AlarmInv'
  BY <1>1 DEF alt_alarm_stop, AlarmInv, AlarmTypeOK, FlagRight
<1>2. ASSUME NEW a \in Alarms, NEW n \in Intervals, alt_alarm_start(a, n) PROVE AlarmInv'
  <2>1. alarm'[a] = [on |-> TRUE, time |-> Plus(n, nticks + 1),
                     rollover |-> Plus(n, nticks + 1) < nticks]
    BY <1>0, <1>2 DEF alt_alarm_start
  <2>2. alarm'[a] \in Record /\ FlagRight(alarm'[a], nticks)
    BY <1>0, <2>1, StartedRight
  <2>3. /\ alarm' \in [Alarms -> Record] /\ nticks' = nticks /\ fired' = {}
        /\ \A b \in Alarms : b # a => alarm'[b] = alarm[b]
    BY <1>0, <1>2, <2>1, <2>2 DEF alt_alarm_start
  <2> QED  BY <2>2, <2>3 DEF AlarmInv, AlarmTypeOK, Record
<1>3. ASSUME NEW next_callback \in [Alarms -> Results], alt_tick(next_callback) PROVE AlarmInv'
  <2>1. \A a \in Alarms : /\ alarm'[a] = Ticked(alarm[a], nticks', next_callback[a])
                          /\ next_callback[a] \in 0..(WRAP - 1)
    BY <1>3 DEF alt_tick
  <2>2. nticks' = Plus(nticks, 1) /\ nticks' \in 0..(WRAP - 1) /\ fired' \subseteq Alarms
    BY <1>0, <1>3 DEF alt_tick, Plus
  <2>3. \A a \in Alarms : alarm'[a] \in Record /\ FlagRight(alarm'[a], nticks')
    BY <1>0, <2>1, <2>2, TickedRight DEF AlarmInv
  <2>4. alarm' \in [Alarms -> Record]
    BY <1>3, <2>3 DEF alt_tick
  <2> QED  BY <2>2, <2>3, <2>4 DEF AlarmInv, AlarmTypeOK, Record
<1>4. CASE UNCHANGED alarmVars
  BY <1>4 DEF alarmVars, AlarmInv, AlarmTypeOK
<1> QED  BY <1>1, <1>2, <1>3, <1>4 DEF AlarmNext

LEMMA Invariance == AlarmSpec => []AlarmInv
BY AlarmInvInit, AlarmInvStep, PTL DEF AlarmSpec

(* Counter, times and flags stay in their types, for every range of the    *)
(* counter (alt_tick.c:96).                                                *)
THEOREM AlarmTypeCorrect == AlarmSpec => []AlarmTypeOK
<1>1. AlarmInv => AlarmTypeOK
  BY DEF AlarmInv
<1> QED  BY <1>1, Invariance, PTL

-----------------------------------------------------------------------------
(* The refinement.                                                         *)

LEMMA ClockInit == AlarmInit => Clock!Init
BY DEF AlarmInit, Clock!Init, Left, Clock!Off

LEMMA ClockStep == AlarmInv /\ [AlarmNext]_alarmVars => [Clock!Next]_(<<[a \in Alarms |-> Left(alarm[a])], fired>>)
<1> SUFFICES ASSUME AlarmInv, [AlarmNext]_alarmVars
             PROVE  [Clock!Next]_(<<[a \in Alarms |-> Left(alarm[a])], fired>>)
  OBVIOUS
<1> USE AlarmAssumption
<1> DEFINE left == [a \in Alarms |-> Left(alarm[a])]
<1>0. nticks \in 0..(WRAP - 1) /\ alarm \in [Alarms -> Record]
  BY DEF AlarmInv, AlarmTypeOK, Record
<1>a. \A a \in Alarms : left[a] = Ticks(alarm[a], nticks)
  BY DEF Left, Ticks
<1>b. \A a \in Alarms : (Left(alarm[a]))' = Ticks(alarm'[a], nticks')
  BY DEF Left, Ticks
<1>c. \A a \in Alarms : alarm[a].on <=> left[a] # -1
  BY <1>0, <1>a DEF AlarmInv, FlagRight, Ticks, Record
<1>1. ASSUME NEW a \in Alarms, alt_alarm_stop(a) PROVE Clock!Stop(a)
  <2>1. /\ nticks' = nticks /\ fired' = {} /\ alarm'[a].on = FALSE
        /\ \A b \in Alarms : b # a => alarm'[b] = alarm[b]
    BY <1>0, <1>1 DEF alt_alarm_stop, Record
  <2>2. \A b \in Alarms : (Left(alarm[b]))' = IF b = a THEN -1 ELSE left[b]
    BY <1>a, <1>b, <2>1 DEF Ticks
  <2>3. left' = [left EXCEPT ![a] = -1]
    BY <2>2
  <2> QED  BY <1>1, <1>c, <2>1, <2>3 DEF alt_alarm_stop, Clock!Stop, Clock!Off
<1>2. ASSUME NEW a \in Alarms, NEW n \in Intervals, alt_alarm_start(a, n) PROVE Clock!Start(a, n)
  <2>1. /\ nticks' = nticks /\ fired' = {}
        /\ alarm'[a] = [on |-> TRUE, time |-> Plus(n, nticks + 1),
                        rollover |-> Plus(n, nticks + 1) < nticks]
        /\ \A b \in Alarms : b # a => alarm'[b] = alarm[b]
    BY <1>0, <1>2 DEF alt_alarm_start
  <2>2. Ticks(alarm'[a], nticks) = n + 1
    BY <1>0, <2>1, StartedRight
  <2>3. left' = [left EXCEPT ![a] = n + 1]
    BY <1>a, <1>b, <2>1, <2>2
  <2> QED  BY <1>2, <1>c, <2>1, <2>3 DEF alt_alarm_start, Clock!Start, Clock!Off
<1>3. ASSUME NEW next_callback \in [Alarms -> Results], alt_tick(next_callback)
      PROVE  Clock!Tick(next_callback)
  <2>1. \A a \in Alarms : /\ alarm'[a] = Ticked(alarm[a], nticks', next_callback[a])
                          /\ next_callback[a] \in 0..(WRAP - 1)
    BY <1>3 DEF alt_tick
  <2>2. nticks' = Plus(nticks, 1) /\ fired' = {a \in Alarms : Due(alarm[a], nticks')}
    BY <1>3 DEF alt_tick
  <2>3. \A a \in Alarms :
          /\ Due(alarm[a], nticks') <=> left[a] = 1
          /\ Ticks(alarm'[a], nticks') =
               IF left[a] = -1 THEN -1
               ELSE IF left[a] > 1 THEN left[a] - 1
               ELSE IF next_callback[a] = 0 THEN -1 ELSE next_callback[a]
    BY <1>0, <1>a, <2>1, <2>2, TickedRight DEF AlarmInv
  <2>4. fired' = {a \in Alarms : left[a] = 1}
    BY <2>2, <2>3
  <2>5. left' = [a \in Alarms |->
                   IF left[a] = -1 THEN -1
                   ELSE IF left[a] > 1 THEN left[a] - 1
                   ELSE IF next_callback[a] = 0 THEN -1 ELSE next_callback[a]]
    BY <1>b, <2>3
  <2> QED  BY <2>4, <2>5 DEF Clock!Tick, Clock!Off
<1>4. CASE UNCHANGED alarmVars
  BY <1>4 DEF alarmVars, Left
<1> QED  BY <1>1, <1>2, <1>3, <1>4 DEF AlarmNext, Clock!Next

(* The alarms of alt_tick.c keep the promise of AlarmClock, which counts   *)
(* without a limit: every callback at its tick, for every range of the     *)
(* counter, any alarms and any sequence of starts, stops and results.      *)
THEOREM AlarmRefinement == AlarmSpec => AlarmsOnTime
BY ClockInit, ClockStep, Invariance, PTL DEF AlarmSpec, AlarmsOnTime, Clock!Spec

-----------------------------------------------------------------------------
(* A register access is one frame.  The invariant says, for every place in *)
(* the routine, what the chip has seen, which byte is on its way through   *)
(* the core, and what has been stored: there is never more than one byte   *)
(* under way, and the chip is not let go of between two commands.          *)

(* The bytes of an access as the chip sees them.                           *)
Byte(a, i) == IF i = 1 \/ ~Reads(a) THEN i - 1 ELSE ZERO
Bytes(a, k) == [i \in 1..k |-> Byte(a, i)]

(* The replies stored after k bytes, the first of which is the command.    *)
Reply(a, i) == [at |-> a.nbytes - Data(a) + i, byte |-> i]
Stored(a, k) == IF Reads(a) THEN [i \in 1..(k - 1) |-> Reply(a, i)] ELSE <<>>

CoreEmpty == tx = none /\ shift = none /\ rx = none

(* The last access has reached the chip, and it is let go of.              *)
BetweenAccesses ==
  /\ CoreEmpty /\ ~SSO
  /\ frames # <<>> =>
       cmd = Commands(access) /\ frames = <<Bytes(access, cmd)>> /\ data = Stored(access, cmd)

(* The commands so far have reached it, and it is still selected.          *)
BetweenCommands ==
  /\ CoreEmpty /\ data = Stored(access, cmd - 1)
  /\ IF cmd = 1 THEN ~SSO /\ frames = <<>> ELSE SSO /\ frames = <<Bytes(access, cmd - 1)>>

(* The byte of the command waits to be sent, is sent, or has been.         *)
Waiting ==
  /\ credits = 1 /\ written = 0 /\ write_zeros = ReadLength(access, cmd)
  /\ CoreEmpty /\ frames = <<Bytes(access, cmd - 1)>>
UnderWay ==
  /\ credits = 0 /\ rx = none /\ frames = <<Bytes(access, cmd - 1)>>
  /\ \/ tx = Byte(access, cmd) /\ shift = none
     \/ tx = none /\ shift = Byte(access, cmd)

(* The reply has come, and the chip has one byte more.                     *)
Answered ==
  /\ credits = 0 /\ tx = none /\ shift = none /\ rx = cmd - 1
  /\ frames = <<Bytes(access, cmd)>>

(* The whole of it, place by place.                                        *)
AccessInv ==
  /\ access \in Accesses /\ cmd \in 1..Commands(access) /\ ~ROE
  /\ pc \in {"idle", "command", "turn", "drain"}
  /\ pc = "idle" => BetweenAccesses
  /\ pc = "command" => BetweenCommands
  /\ pc = "turn" => /\ SSO /\ read_ignore = WriteLength(access, cmd)
                    /\ data = Stored(access, cmd - 1)
                    /\ Waiting \/ UnderWay \/ Answered
  /\ pc = "drain" => /\ CoreEmpty /\ SSO
                     /\ frames = <<Bytes(access, cmd)>> /\ data = Stored(access, cmd)

(* Lemmas on the operators: one byte, one reply more.                      *)
LEMMA AccessIs ==
  ASSUME NEW a \in Accesses
  PROVE  /\ a.nbytes \in Nat /\ Data(a) \in Nat \ {0} /\ Commands(a) = Data(a) + 1
         /\ ~Reads(a) => a.nbytes = Data(a)
<1>1. a.nbytes \in Nat /\ (~Reads(a) => a.nbytes # 0)
  BY SpiAssumption DEF Accesses, Reads
<1> QED
  BY <1>1 DEF Data, Commands

LEMMA NextByte ==
  ASSUME NEW a, NEW c \in Nat \ {0}
  PROVE  /\ Byte(a, c) \in Nat
         /\ Append(Bytes(a, c - 1), Byte(a, c)) = Bytes(a, c)
         /\ Len(Bytes(a, c - 1)) = c - 1
<1>1. \A i \in Nat \ {0} : Byte(a, i) \in Nat
  BY DEF Byte, ZERO
<1> DEFINE s == [i \in 1..(c - 1) |-> Byte(a, i)]
           t == [i \in 1..c |-> Byte(a, i)]
<1>2. s \in Seq(Nat) /\ Len(s) = c - 1 /\ t \in Seq(Nat) /\ Len(t) = c
  BY <1>1
<1>3. \A i \in 1..c : Append(s, Byte(a, c))[i] = t[i]
  BY <1>2
<1>4. Append(s, Byte(a, c)) \in Seq(Nat) /\ Len(Append(s, Byte(a, c))) = c
  BY <1>1, <1>2
<1>5. Append(s, Byte(a, c)) = t
  BY <1>2, <1>3, <1>4, SeqEqual
<1> QED
  BY <1>1, <1>2, <1>5 DEF Bytes

LEMMA NextReply ==
  ASSUME NEW a \in Accesses, Reads(a), NEW c \in Nat \ {0, 1}
  PROVE  Append(Stored(a, c - 1), Reply(a, c - 1)) = Stored(a, c)
<1> DEFINE T == [at : Int, byte : Int]
           s == [i \in 1..(c - 2) |-> Reply(a, i)]
           t == [i \in 1..(c - 1) |-> Reply(a, i)]
<1>1. \A i \in Nat : Reply(a, i) \in T
  BY AccessIs DEF Reply
<1>2. s \in Seq(T) /\ Len(s) = c - 2 /\ t \in Seq(T) /\ Len(t) = c - 1
  BY <1>1
<1>3. \A i \in 1..(c - 1) : Append(s, Reply(a, c - 1))[i] = t[i]
  BY <1>2
<1>4. Append(s, Reply(a, c - 1)) \in Seq(T) /\ Len(Append(s, Reply(a, c - 1))) = c - 1
  BY <1>1, <1>2
<1>5. Append(s, Reply(a, c - 1)) = t
  BY <1>2, <1>3, <1>4, SeqEqual
<1>6. Stored(a, c - 1) = s /\ Stored(a, c) = t
  <2>1. (c - 1) - 1 = c - 2
    OBVIOUS
  <2> QED
    BY <2>1 DEF Stored
<1> QED
  BY <1>5, <1>6

LEMMA NothingStored ==
  ASSUME NEW a, NEW k \in Int, k <= 1 \/ ~Reads(a)
  PROVE  Stored(a, k) = <<>>
<1>1. CASE Reads(a)
  <2>1. 1..(k - 1) = {}
    BY <1>1
  <2> QED
    BY <1>1, <2>1 DEF Stored
<1>2. CASE ~Reads(a)
  BY <1>2 DEF Stored
<1> QED
  BY <1>1, <1>2

LEMMA NoBytes == ASSUME NEW a PROVE Bytes(a, 0) = <<>>
<1>1. 1..0 = {}
  OBVIOUS
<1> QED
  BY <1>1 DEF Bytes

LEMMA AccessInit == SpiInit => AccessInv
<1> SUFFICES ASSUME SpiInit PROVE AccessInv
  OBVIOUS
<1>1. access \in Accesses
  BY DEF SpiInit, Accesses
<1>2. cmd \in 1..Commands(access)
  BY <1>1, AccessIs DEF SpiInit
<1> QED
  BY <1>1, <1>2 DEF SpiInit, AccessInv, BetweenAccesses, CoreEmpty

-----------------------------------------------------------------------------
(* The core shifts.                                                        *)

LEMMA LoadShiftKeeps == ASSUME AccessInv, LoadShift PROVE AccessInv'
<1>1. /\ tx # none /\ shift = none /\ shift' = tx /\ tx' = none
      /\ frames' = Frames(frames, SSO, shift')
      /\ UNCHANGED <<pc, access, cmd, written, write_zeros, read_ignore, credits, data,
                     SSO, rx, ROE>>
  BY DEF LoadShift, progVars
<1>2. pc = "turn" /\ UnderWay
  BY <1>1 DEF AccessInv, BetweenAccesses, BetweenCommands, CoreEmpty, Waiting, Answered
<1>3. SSO /\ frames' = frames
  BY <1>1, <1>2 DEF AccessInv, Frames, Selected
<1>4. UnderWay'
  BY <1>1, <1>2, <1>3 DEF UnderWay
<1> QED
  BY <1>1, <1>2, <1>3, <1>4 DEF AccessInv

LEMMA ShiftedKeeps == ASSUME AccessInv, Shifted PROVE AccessInv'
<1>1. /\ shift # none /\ shift' = none
      /\ frames' = [frames EXCEPT ![Len(frames)] = Append(@, shift)]
      /\ rx' = Len(frames[Len(frames)]) /\ ROE' = (ROE \/ rx # none)
      /\ UNCHANGED <<pc, access, cmd, written, write_zeros, read_ignore, credits, data, SSO, tx>>
  BY DEF Shifted, progVars
<1>2. pc = "turn" /\ UnderWay
  BY <1>1 DEF AccessInv, BetweenAccesses, BetweenCommands, CoreEmpty, Waiting, Answered
<1>3. /\ credits = 0 /\ rx = none /\ tx = none /\ shift = Byte(access, cmd)
      /\ frames = <<Bytes(access, cmd - 1)>>
  BY <1>1, <1>2 DEF UnderWay
<1>4. cmd \in Nat \ {0}
  BY AccessIs DEF AccessInv
<1>5. Len(frames) = 1 /\ frames[1] = Bytes(access, cmd - 1)
  BY <1>3
<1>6. rx' = cmd - 1
  BY <1>1, <1>4, <1>5, NextByte
<1>7. frames' = <<Append(Bytes(access, cmd - 1), Byte(access, cmd))>>
  BY <1>1, <1>3, <1>5
<1>8. frames' = <<Bytes(access, cmd)>>
  BY <1>4, <1>7, NextByte
<1>9. Answered'
  BY <1>1, <1>3, <1>6, <1>8 DEF Answered
<1> QED
  BY <1>1, <1>2, <1>3, <1>9 DEF AccessInv

-----------------------------------------------------------------------------
(* The program.                                                            *)

LEMMA CallKeeps == ASSUME AccessInv, Call PROVE AccessInv'
<1>1. /\ pc = "idle" /\ pc' = "command" /\ access' \in Accesses
      /\ cmd' = 1 /\ data' = <<>> /\ frames' = <<>>
      /\ UNCHANGED <<SSO, tx, shift, rx, ROE>>
  BY DEF Call
<1>2. cmd' \in 1..Commands(access')
  BY <1>1, AccessIs
<1>3. Stored(access', 0) = <<>>
  BY NothingStored
<1>4. BetweenCommands'
  BY <1>1, <1>3 DEF AccessInv, BetweenAccesses, BetweenCommands, CoreEmpty
<1> QED
  BY <1>1, <1>2, <1>4 DEF AccessInv

LEMMA BeginKeeps == ASSUME AccessInv, Begin PROVE AccessInv'
<1>1. /\ pc = "command" /\ pc' = "turn"
      /\ written' = 0 /\ write_zeros' = ReadLength(access, cmd)
      /\ read_ignore' = WriteLength(access, cmd) /\ credits' = 1
      /\ SSO' = (SSO \/ ~TOGGLE_SS_N(access, cmd))
      /\ frames' = Frames(frames, SSO', shift)
      /\ rx' = none
      /\ UNCHANGED <<access, cmd, data, tx, shift, ROE>>
  BY DEF Begin
<1>2. BetweenCommands /\ cmd \in 1..Commands(access) /\ access \in Accesses /\ ~ROE
  BY <1>1 DEF AccessInv
<1>3. CASE cmd = 1
  <2>1. ~SSO /\ frames = <<>> /\ tx = none /\ shift = none
        /\ ~TOGGLE_SS_N(access, cmd) /\ SSO'
    <3>1. ~TOGGLE_SS_N(access, cmd)
      BY <1>3 DEF TOGGLE_SS_N
    <3>2. SSO'
      BY <1>1, <3>1, Zenon
    <3>3. ~SSO /\ frames = <<>>
      BY <1>2, <1>3 DEF BetweenCommands
    <3>4. tx = none /\ shift = none
      BY <1>2 DEF BetweenCommands, CoreEmpty
    <3> QED
      BY <3>1, <3>2, <3>3, <3>4
  <2>2. frames' = <<Bytes(access, cmd - 1)>>
    <3>1. frames' = Append(<<>>, <<>>)
      BY <1>1, <2>1 DEF Frames, Selected
    <3>2. Bytes(access, 0) = <<>>
      BY NoBytes
    <3> QED
      BY <3>1, <3>2, <1>3
  <2> QED
    BY <1>1, <1>2, <2>1, <2>2 DEF AccessInv, BetweenCommands, Waiting, CoreEmpty, ReadLength, WriteLength
<1>4. CASE cmd # 1
  <2>1. SSO' /\ SSO /\ frames' = <<Bytes(access, cmd - 1)>> /\ tx = none /\ shift = none
    BY <1>1, <1>2, <1>4 DEF BetweenCommands, CoreEmpty, Frames, Selected
  <2> QED
    BY <1>1, <1>2, <2>1 DEF AccessInv, BetweenCommands, Waiting, CoreEmpty, ReadLength, WriteLength
<1> QED
  BY <1>3, <1>4

LEMMA SendKeeps == ASSUME AccessInv, Send PROVE AccessInv'
<1>1. /\ pc = "turn" /\ rx = none /\ credits > 0 /\ credits' = credits - 1
      /\ \/ written < WriteLength(access, cmd) /\ tx' = cmd - 1
         \/ written = WriteLength(access, cmd) /\ tx' = ZERO
      /\ UNCHANGED <<pc, access, cmd, read_ignore, data, SSO, shift, rx, ROE, frames>>
  BY DEF Send, TRDY, RRDY
<1>2. Waiting /\ SSO /\ shift = none
  BY <1>1 DEF AccessInv, UnderWay, Answered, Waiting, CoreEmpty
<1>3. tx' = Byte(access, cmd)
  BY <1>1, <1>2 DEF Waiting, WriteLength, Byte
<1>4. frames' = <<Bytes(access, cmd - 1)>>
  BY <1>1, <1>2 DEF Waiting
<1>5. credits' = 0
  <2>1. credits = 1
    BY <1>2 DEF Waiting
  <2> QED
    BY <1>1, <2>1
<1>6. rx' = none /\ shift' = none /\ access' = access /\ cmd' = cmd
  BY <1>1, <1>2
<1>7. tx' = Byte(access', cmd') /\ frames' = <<Bytes(access', cmd' - 1)>>
  BY <1>3, <1>4, <1>6
<1>8. UnderWay'
  BY <1>5, <1>6, <1>7 DEF UnderWay
<1> QED
  BY <1>1, <1>8 DEF AccessInv

LEMMA ReceiveKeeps == ASSUME AccessInv, Receive PROVE AccessInv'
<1>1. /\ pc = "turn" /\ pc' = "drain" /\ rx # none /\ rx' = none
      /\ IF read_ignore > 0 THEN data' = data
         ELSE data' = Append(data, [at |-> Index(access, cmd), byte |-> rx])
      /\ UNCHANGED <<access, cmd, SSO, tx, shift, ROE, frames>>
  BY DEF Receive, RRDY
<1>2. Answered /\ SSO /\ read_ignore = WriteLength(access, cmd) /\ data = Stored(access, cmd - 1)
  BY <1>1 DEF AccessInv, UnderWay, Waiting, CoreEmpty
<1>3. access \in Accesses /\ cmd \in 1..Commands(access) /\ cmd \in Nat \ {0}
  BY AccessIs DEF AccessInv
<1>4. data' = Stored(access, cmd)
  <2>1. CASE cmd = 1 \/ ~Reads(access)
    <3>1. data' = data
      BY <1>1, <1>2, <2>1 DEF WriteLength
    <3>2. cmd \in Int /\ cmd - 1 \in Int /\ (cmd - 1 <= 1 \/ ~Reads(access)) /\ (cmd <= 1 \/ ~Reads(access))
      BY <1>3, <2>1
    <3>3. Stored(access, cmd) = <<>> /\ Stored(access, cmd - 1) = <<>>
      BY <3>2, NothingStored
    <3> QED
      BY <1>2, <3>1, <3>3
  <2>2. CASE cmd # 1 /\ Reads(access)
    <3>1. data' = Append(data, [at |-> Index(access, cmd), byte |-> cmd - 1])
      BY <1>1, <1>2, <2>2 DEF WriteLength, Answered
    <3>2. Index(access, cmd) = access.nbytes - Data(access) + (cmd - 1)
      BY <1>3, AccessIs DEF Index
    <3>3. data' = Append(Stored(access, cmd - 1), Reply(access, cmd - 1))
      BY <1>2, <3>1, <3>2 DEF Reply
    <3> QED
      BY <1>3, <2>2, <3>3, NextReply
  <2> QED
    BY <2>1, <2>2
<1> QED
  BY <1>1, <1>2, <1>4 DEF AccessInv, Answered, CoreEmpty

LEMMA ReleaseKeeps == ASSUME AccessInv, Release PROVE AccessInv'
<1>1. /\ pc = "drain" /\ SSO' = (SSO /\ MERGE(access, cmd))
      /\ IF cmd < Commands(access) THEN pc' = "command" /\ cmd' = cmd + 1
         ELSE pc' = "idle" /\ cmd' = cmd
      /\ UNCHANGED <<access, data, tx, shift, rx, ROE, frames>>
  BY DEF Release
<1>2. CoreEmpty /\ SSO /\ frames = <<Bytes(access, cmd)>> /\ data = Stored(access, cmd)
  BY <1>1 DEF AccessInv
<1>3. access \in Accesses /\ cmd \in 1..Commands(access) /\ Commands(access) \in Nat
  BY AccessIs DEF AccessInv
<1>4. CASE cmd < Commands(access)
  <2>1. cmd' = cmd + 1 /\ cmd' # 1 /\ cmd' - 1 = cmd /\ cmd' \in 1..Commands(access)
    BY <1>1, <1>3, <1>4
  <2>2. BetweenCommands'
    BY <1>1, <1>2, <1>4, <2>1 DEF BetweenCommands, CoreEmpty, MERGE
  <2> QED
    BY <1>1, <1>4, <2>1, <2>2 DEF AccessInv
<1>5. CASE ~(cmd < Commands(access))
  <2>1. cmd = Commands(access)
    BY <1>3, <1>5
  <2>2. BetweenAccesses'
    BY <1>1, <1>2, <1>5, <2>1 DEF BetweenAccesses, CoreEmpty, MERGE
  <2> QED
    BY <1>1, <1>5, <2>2 DEF AccessInv
<1> QED
  BY <1>4, <1>5

LEMMA AccessStep == AccessInv /\ [SpiNext]_spiVars => AccessInv'
<1>1. ASSUME AccessInv, UNCHANGED spiVars
      PROVE  AccessInv'
  BY <1>1 DEF spiVars, progVars, coreVars, AccessInv, BetweenAccesses, BetweenCommands,
     Waiting, UnderWay, Answered, CoreEmpty
<1> QED
  BY <1>1, LoadShiftKeeps, ShiftedKeeps, CallKeeps, BeginKeeps, SendKeeps, ReceiveKeeps,
     ReleaseKeeps DEF SpiNext, Program, Core, Spin

LEMMA AccessAlways == SpiSpec => []AccessInv
  BY AccessInit, AccessStep, PTL DEF SpiSpec

(* Every register access reaches the chip as one frame, of as many bytes   *)
(* as were asked for, for accesses of any length (MAX3421E.c:57).          *)
THEOREM FramesCorrect == SpiSpec => []OneFrame
<1>1. AccessInv => OneFrame
  <2> SUFFICES ASSUME AccessInv, pc = "idle", frames # <<>>
               PROVE  frames = <<[i \in 1..(IF access.nbytes = 0 THEN 2 ELSE access.nbytes + 1) |->
                                    IF i = 1 \/ ~Reads(access) THEN i - 1 ELSE ZERO]>>
    BY DEF OneFrame
  <2>1. frames = <<Bytes(access, Commands(access))>>
    BY DEF AccessInv, BetweenAccesses
  <2>2. Commands(access) = IF access.nbytes = 0 THEN 2 ELSE access.nbytes + 1
    BY AccessIs DEF AccessInv, Data
  <2> QED
    BY <2>1, <2>2 DEF Bytes, Byte
<1> QED
  BY AccessAlways, <1>1, PTL

(* No reply is lost, and a read of at least one byte stores each reply at *)
(* its place, for reads of any length (MAX3421E.c:101,                    *)
(* altera_avalon_spi.c:107).                                              *)
THEOREM RepliesCorrect == SpiSpec => []RepliesInPlace
<1>1. AccessInv => RepliesInPlace
  <2> SUFFICES ASSUME AccessInv, pc = "idle", frames # <<>>, Reads(access), access.nbytes > 0
               PROVE  data = [i \in 1..access.nbytes |-> [at |-> i, byte |-> i]]
    BY DEF RepliesInPlace, AccessInv
  <2>1. /\ access.nbytes \in Nat /\ Data(access) = access.nbytes
        /\ Commands(access) - 1 = access.nbytes
    BY AccessIs DEF AccessInv, Data
  <2>2. data = Stored(access, Commands(access))
    BY DEF AccessInv, BetweenAccesses
  <2>3. data = [i \in 1..access.nbytes |-> Reply(access, i)]
    BY <2>1, <2>2 DEF Stored
  <2>4. ASSUME NEW i \in 1..access.nbytes PROVE Reply(access, i) = [at |-> i, byte |-> i]
    <3>1. access.nbytes - Data(access) + i = i
      BY <2>1
    <3> QED
      BY <3>1 DEF Reply
  <2> QED
    BY <2>3, <2>4
<1> QED
  BY AccessAlways, <1>1, PTL

=============================================================================
