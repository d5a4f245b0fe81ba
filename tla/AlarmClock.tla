------------------------------ MODULE AlarmClock ------------------------------
(***************************************************************************)
(* What the alarm facility of the board support package promises: an alarm *)
(* started for n ticks calls back at the (n+1)th tick from there, and when *)
(* the callback returns r, again r ticks later, or never for 0.  Time is   *)
(* counted without a limit here.                                           *)
(***************************************************************************)
EXTENDS Integers

CONSTANTS Alarms, Intervals, Results    \* what start and callbacks may ask for

VARIABLES
  left,      \* ticks to the next callback, or Off
  fired      \* the alarms called back by the last step

Off == -1

Init == left = [a \in Alarms |-> Off] /\ fired = {}

Start(a, n) ==
  /\ left[a] = Off
  /\ left' = [left EXCEPT ![a] = n + 1] /\ fired' = {}

Stop(a) ==
  /\ left[a] # Off
  /\ left' = [left EXCEPT ![a] = Off] /\ fired' = {}

(* One tick; result[a] is what the callback of a returns if it is due.     *)
Tick(result) ==
  /\ fired' = {a \in Alarms : left[a] = 1}
  /\ left' = [a \in Alarms |->
       IF left[a] = Off THEN Off
       ELSE IF left[a] > 1 THEN left[a] - 1
       ELSE IF result[a] = 0 THEN Off ELSE result[a]]

Next ==
  \/ \E a \in Alarms : Stop(a) \/ \E n \in Intervals : Start(a, n)
  \/ \E result \in [Alarms -> Results] : Tick(result)

Spec == Init /\ [][Next]_<<left, fired>>

=============================================================================
