------------------------------ MODULE AlarmList ------------------------------
(***************************************************************************)
(* The system clock's alarms (alt_alarm_start.c, alt_tick.c): the tick     *)
(* counter and the times of the alarms are unsigned and wrap round, and a  *)
(* flag per alarm tells that its time lies behind the next wrap.           *)
(*                                                                         *)
(* A tick is one step: it runs in the timer's interrupt with interrupts    *)
(* disabled, as starting and stopping do.  The callbacks do not start or   *)
(* stop alarms themselves.                                                 *)
(***************************************************************************)
EXTENDS Integers

CONSTANTS
  Alarms,
  WRAP,          \* range of the tick counter: 2^32
  Intervals,     \* what alarms are started for
  Results        \* what callbacks return

(* An alarm started for the longest time there is would be due at once.    *)
ASSUME AlarmAssumption ==
  /\ WRAP \in Nat /\ WRAP >= 2
  /\ Intervals \subseteq 0..(WRAP - 2) /\ Results \subseteq 0..(WRAP - 1)

VARIABLES
  nticks,     \* _alt_nticks
  alarm,      \* the alarms' records; on: linked into alt_alarm_list
  fired       \* history: callbacks made by the last step

alarmVars == <<nticks, alarm, fired>>

(* Addition of alt_u32.                                                    *)
Plus(a, b) == IF a + b >= WRAP THEN a + b - WRAP ELSE a + b

AlarmInit ==
  /\ nticks = 0 /\ fired = {}
  /\ alarm = [a \in Alarms |-> [on |-> FALSE, time |-> 0, rollover |-> FALSE]]

alt_alarm_start(a, n) ==
  LET time == Plus(n, nticks + 1) IN
  /\ ~alarm[a].on
  /\ alarm' = [alarm EXCEPT ![a] = [on |-> TRUE, time |-> time, rollover |-> time < nticks]]
  /\ fired' = {} /\ UNCHANGED nticks

alt_alarm_stop(a) ==
  /\ alarm[a].on
  /\ alarm' = [alarm EXCEPT ![a].on = FALSE]
  /\ fired' = {} /\ UNCHANGED nticks

(* The flag falls when the counter has wrapped.                            *)
Behind(r, now) == r.rollover /\ now # 0
Due(r, now) == r.on /\ r.time <= now /\ ~Behind(r, now)

(* Mutant of Ticked: the next time is taken without looking for a wrap. *)
TickedEarly(r, now, next) ==
  LET time == Plus(r.time, next) IN
  IF ~r.on THEN r
  ELSE IF ~Due(r, now) THEN [r EXCEPT !.rollover = Behind(r, now)]
  ELSE IF next = 0 THEN [r EXCEPT !.on = FALSE, !.rollover = FALSE]
  ELSE [r EXCEPT !.time = time, !.rollover = FALSE]

(* What a tick makes of an alarm.                                          *)
Ticked(r, now, next) ==
  LET time == Plus(r.time, next) IN
  IF ~r.on THEN r
  ELSE IF ~Due(r, now) THEN [r EXCEPT !.rollover = Behind(r, now)]
  ELSE IF next = 0 THEN [r EXCEPT !.on = FALSE, !.rollover = FALSE]
  ELSE [r EXCEPT !.time = time, !.rollover = time < now]

alt_tick(next_callback) ==
  /\ nticks' = Plus(nticks, 1)
  /\ fired' = {a \in Alarms : Due(alarm[a], nticks')}
  /\ alarm' = [a \in Alarms |-> Ticked(alarm[a], nticks', next_callback[a])]

AlarmNext ==
  \/ \E a \in Alarms : alt_alarm_stop(a) \/ \E n \in Intervals : alt_alarm_start(a, n)
  \/ \E next_callback \in [Alarms -> Results] : alt_tick(next_callback)

AlarmSpec == AlarmInit /\ [][AlarmNext]_alarmVars

-----------------------------------------------------------------------------
(* Properties                                                              *)

AlarmTypeOK ==
  /\ nticks \in 0..(WRAP - 1) /\ fired \subseteq Alarms
  /\ alarm \in [Alarms -> [on : BOOLEAN, time : 0..(WRAP - 1), rollover : BOOLEAN]]

(* Ticks to go, across the wrap if the flag is set.                        *)
Left(r) ==
  IF ~r.on THEN -1 ELSE IF r.rollover THEN r.time + WRAP - nticks ELSE r.time - nticks

Clock == INSTANCE AlarmClock WITH left <- [a \in Alarms |-> Left(alarm[a])]

(* Every alarm calls back exactly at its tick, neither early nor a whole   *)
(* turn of the counter late, across any number of wraps (alt_tick.c:107).  *)
AlarmsOnTime == Clock!Spec

=============================================================================
