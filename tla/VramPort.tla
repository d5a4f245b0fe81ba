------------------------------ MODULE VramPort -------------------------------
(***************************************************************************)
(* What src/pong/v/Sdram_Control does for its host: a memory with a queue  *)
(* of words to write and a queue of words read ahead, each with an address *)
(* of its own that the host loads and that advances word by word.          *)
(*                                                                         *)
(* A load clears its queue and holds it empty; no access begins meanwhile. *)
(* It does not stop the access under way: that one keeps the address it    *)
(* began with, takes or delivers its word if the load is over by then, and *)
(* advances the new address when it ends.                                  *)
(***************************************************************************)
EXTENDS Integers, Sequences

CONSTANTS Words,      \* data
          MaxAddr,    \* where an address starts over
          MaxQueue    \* words the host may have waiting

VARIABLES mem, wq, rq,        \* memory, words to write, words read ahead
          wa, ra,             \* the next address to write and to read
          wbase, rbase,       \* the addresses last loaded
          wload, rload,       \* an address is being loaded
          stage, at,          \* the access under way and its address
          word                \* the word last taken from the queue

memory == <<mem, word>>
writeSide == <<wq, wa, wbase, wload>>
readSide == <<rq, ra, rbase, rload>>
access == <<stage, at>>
vars == <<memory, writeSide, readSide, access>>

Stages == {"none", "write", "taken", "written", "read", "delivered"}

After(a, base) == IF a < MaxAddr - 1 THEN a + 1 ELSE base

Init == /\ mem = [a \in DOMAIN mem |-> 0] /\ word = 0
        /\ wq = <<>> /\ rq = <<>>
        /\ wa = 0 /\ ra = 0 /\ wbase = 0 /\ rbase = 0
        /\ ~wload /\ ~rload /\ stage = "none" /\ at = 0

-----------------------------------------------------------------------------
(* The host. *)
Push == /\ ~wload /\ Len(wq) < MaxQueue
        /\ \E w \in Words : wq' = Append(wq, w)
        /\ UNCHANGED <<memory, wa, wbase, wload, readSide, access>>

Pop == /\ ~rload /\ rq # <<>> /\ rq' = Tail(rq)
       /\ UNCHANGED <<memory, writeSide, ra, rbase, rload, access>>

LoadWrite == /\ ~wload /\ wload' /\ wq' = <<>> /\ wa' = wbase'
             /\ UNCHANGED <<memory, readSide, access>>

LoadRead == /\ ~rload /\ rload' /\ rq' = <<>> /\ ra' = rbase'
            /\ UNCHANGED <<memory, writeSide, access>>

Loaded == /\ \/ wload /\ ~wload' /\ UNCHANGED rload
             \/ rload /\ ~rload' /\ UNCHANGED wload
          /\ UNCHANGED <<memory, wq, wa, wbase, rq, ra, rbase, access>>

-----------------------------------------------------------------------------
(* One access at a time: a write begins, takes its word, is in memory and  *)
(* ends; a read begins, delivers and ends.                                 *)
Begin(s, a) == /\ stage = "none" /\ ~wload /\ ~rload
               /\ stage' = s /\ at' = a
               /\ UNCHANGED <<memory, writeSide, readSide>>

BeginWrite == wq # <<>> /\ Begin("write", wa)
BeginRead == rq = <<>> /\ Begin("read", ra)

(* If a load has emptied the queue, the word last taken is written again.  *)
Take == /\ stage = "write" /\ stage' = "taken"
        /\ IF wq # <<>> THEN word' = Head(wq) /\ wq' = Tail(wq)
           ELSE UNCHANGED <<word, wq>>
        /\ UNCHANGED <<mem, wa, wbase, wload, readSide, at>>

Write == /\ stage = "taken" /\ stage' = "written"
         /\ mem' = [mem EXCEPT ![at] = word]
         /\ UNCHANGED <<word, writeSide, readSide, at>>

EndWrite == /\ stage = "written" /\ stage' = "none"
            /\ wa' = IF wload THEN wa ELSE After(wa, wbase)
            /\ UNCHANGED <<memory, wq, wbase, wload, readSide, at>>

Deliver == /\ stage = "read" /\ stage' = "delivered"
           /\ rq = <<>> /\ rq' = IF rload THEN <<>> ELSE <<mem[at]>>
           /\ UNCHANGED <<memory, writeSide, ra, rbase, rload, at>>

EndRead == /\ stage = "delivered" /\ stage' = "none"
           /\ ra' = IF rload THEN ra ELSE After(ra, rbase)
           /\ UNCHANGED <<memory, writeSide, rq, rbase, rload, at>>

Next == \/ Push \/ Pop \/ LoadWrite \/ LoadRead \/ Loaded
        \/ BeginWrite \/ Take \/ Write \/ EndWrite
        \/ BeginRead \/ Deliver \/ EndRead

Spec == Init /\ [][Next]_vars
=============================================================================
