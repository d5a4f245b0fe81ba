------------------------------ MODULE JtagProofs ------------------------------
(***************************************************************************)
(* Proofs about the console of JtagUart, for buffers, FIFOs and calls of   *)
(* any length: what program and interrupt routine do to the two ring       *)
(* buffers keeps every byte, in order, with a wake-up to come.             *)
(*                                                                         *)
(* None of the properties is inductive alone.  What has to be added is     *)
(* what a call may rely on between its look at the buffer and its use of   *)
(* it: the room it saw may have grown meanwhile, never shrunk.             *)
(***************************************************************************)
EXTENDS JtagUart, TLAPS

(* The chunk about to be copied still fits, in one piece.                  *)
ChunkFits ==
  pc \in {"copy", "publish"} =>
    n > 0 /\ tx_in + n <= BUF_LEN /\ Fill(tx_in, tx_out) + n < BUF_LEN

(* The chunk about to be taken is still there, in one piece.               *)
ChunkThere ==
  pc = "take" => n > 0 /\ n <= Fill(rx_in, rx_out) /\ rx_out + n <= BUF_LEN

ChunkCounted == pc \in {"copy", "take"} => n <= count

CallInv == ChunkFits /\ ChunkThere /\ ChunkCounted

Types == TypeOK /\ CallInv
ConsoleInv == Types /\ OutputInOrder /\ InputConserved /\ InterruptsEnabled

-----------------------------------------------------------------------------
(* The ring buffer.                                                        *)

LEMMA FillRange ==
  ASSUME NEW in \in Index, NEW out \in Index
  PROVE  Fill(in, out) \in 0..(BUF_LEN - 1) /\ (Fill(in, out) = 0 <=> in = out)
BY JtagAssumption DEF Fill, Index

(* Taking m bytes out.                                                     *)
LEMMA RingOut ==
  ASSUME NEW in \in Index, NEW out \in Index, NEW m \in Nat, m <= Fill(in, out)
  PROVE  /\ Wrap(out + m) \in Index
         /\ Fill(in, Wrap(out + m)) = Fill(in, out) - m
BY JtagAssumption DEF Fill, Index, Wrap

(* Putting m bytes in; one place stays free.                               *)
LEMMA RingIn ==
  ASSUME NEW in \in Index, NEW out \in Index, NEW m \in Nat, Fill(in, out) + m < BUF_LEN
  PROVE  /\ Wrap(in + m) \in Index
         /\ Fill(Wrap(in + m), out) = Fill(in, out) + m
BY JtagAssumption DEF Fill, Index, Wrap

(* What altera_avalon_jtag_uart_write takes for free is free, and in one   *)
(* piece.                                                                  *)
LEMMA RoomFits ==
  ASSUME NEW in \in Index, NEW out \in Index, NEW c \in Nat, NEW m, m = Least(c, Room(in, out))
  PROVE  /\ m \in 0..c /\ in + m <= BUF_LEN /\ Fill(in, out) + m < BUF_LEN
BY JtagAssumption DEF Fill, Index, Room, Least

(* What altera_avalon_jtag_uart_read takes for input is input.             *)
LEMMA AvailableThere ==
  ASSUME NEW in \in Index, NEW out \in Index, NEW c \in Nat,
         NEW m, m = Least(c, Available(in, out))
  PROVE  /\ m \in 0..c /\ out + m <= BUF_LEN /\ m <= Fill(in, out)
BY JtagAssumption DEF Fill, Index, Available, Least

(* Where the k-th byte from the oldest lies: in the old contents, outside  *)
(* the chunk being copied, or in the chunk.                                *)
LEMMA Places ==
  ASSUME NEW in \in Index, NEW out \in Index, NEW m \in Nat, NEW k \in Nat,
         in + m <= BUF_LEN, Fill(in, out) + m < BUF_LEN, k < Fill(in, out) + m
  PROVE  /\ Wrap(out + k) \in Index
         /\ k < Fill(in, out) => Wrap(out + k) \notin in..(in + m - 1)
         /\ k >= Fill(in, out) => /\ Wrap(out + k) \in in..(in + m - 1)
                                  /\ Wrap(out + k) - in = k - Fill(in, out)
BY JtagAssumption DEF Fill, Index, Wrap

LEMMA PlaceAfter ==
  ASSUME NEW out \in Index, NEW m \in Nat, NEW k \in Nat, m + k < BUF_LEN
  PROVE  Wrap(Wrap(out + m) + k) = Wrap(out + m + k)
BY JtagAssumption DEF Index, Wrap

LEMMA NumberAfter ==
  ASSUME NEW a \in Numbers, NEW b \in Nat, NEW c \in Nat, b + c < BUF_LEN
  PROVE  /\ Number(a + b) \in Numbers
         /\ Number(Number(a + b) + c) = Number(a + b + c)
BY JtagAssumption DEF Numbers, Number

LEMMA LeastOf ==
  ASSUME NEW a \in Nat, NEW b \in Nat
  PROVE  Least(a, b) \in Nat /\ Least(a, b) <= a /\ Least(a, b) <= b
         /\ (Least(a, b) = a \/ Least(a, b) = b)
BY DEF Least

-----------------------------------------------------------------------------
(* The interrupt routine.                                                  *)

LEMMA Received ==
  ASSUME TypeOK, Receive
  PROVE  \E m \in Nat :
           /\ m <= rfifo /\ Fill(rx_in, rx_out) + m < BUF_LEN
           /\ rx_in' = Wrap(rx_in + m) /\ rfifo' = rfifo - m
           /\ pause_irq' \in BOOLEAN /\ RE' \in BOOLEAN
           /\ RE' \/ Fill(rx_in, rx_out) + m = BUF_LEN - 1
<1> DEFINE room == BUF_LEN - 1 - Fill(rx_in, rx_out)
           m == Least(room, rfifo)
<1>1. room \in Nat /\ rfifo \in Nat /\ Fill(rx_in, rx_out) \in Nat /\ BUF_LEN \in Nat
  BY FillRange, JtagAssumption DEF TypeOK
<1>2. m \in Nat /\ m <= room /\ m <= rfifo /\ (m = room \/ m = rfifo)
  BY <1>1, LeastOf
<1>3. /\ rx_in' = Wrap(rx_in + m) /\ rfifo' = rfifo - m
      /\ pause_irq' = (pause_irq /\ room = 0) /\ RE' = (rfifo <= room)
  BY DEF Receive
<1>4. RE' \/ m = room
  BY <1>1, <1>2, <1>3
<1>5. Fill(rx_in, rx_out) + m < BUF_LEN /\ (RE' \/ Fill(rx_in, rx_out) + m = BUF_LEN - 1)
  BY <1>1, <1>2, <1>4
<1>6. pause_irq' \in BOOLEAN /\ RE' \in BOOLEAN
  BY <1>3
<1> QED  BY <1>2, <1>3, <1>5, <1>6

LEMMA Transmitted ==
  ASSUME TypeOK, Transmit
  PROVE  \E m \in Nat :
           /\ m <= Fill(tx_in, tx_out) /\ wfifo + m \in 0..WRITE_DEPTH
           /\ tx_out' = Wrap(tx_out + m) /\ wfifo' = wfifo + m /\ sent' = Number(sent + m)
           /\ WE' \in BOOLEAN
           /\ WE' \/ m = Fill(tx_in, tx_out)
<1> DEFINE space == WRITE_DEPTH - wfifo
           m == Least(space, Fill(tx_in, tx_out))
<1>1. space \in Nat /\ wfifo \in Nat /\ Fill(tx_in, tx_out) \in Nat /\ WRITE_DEPTH \in Nat
  BY FillRange, JtagAssumption DEF TypeOK
<1>2. /\ m \in Nat /\ m <= space /\ m <= Fill(tx_in, tx_out)
      /\ m = space \/ m = Fill(tx_in, tx_out)
  BY <1>1, LeastOf
<1>3. /\ tx_out' = Wrap(tx_out + m) /\ wfifo' = wfifo + m /\ sent' = Number(sent + m)
      /\ WE' = (space <= m)
  BY DEF Transmit
<1>4. WE' \/ m = Fill(tx_in, tx_out)
  BY <1>1, <1>2, <1>3
<1>5. wfifo + m \in 0..WRITE_DEPTH
  BY <1>1, <1>2
<1>6. WE' \in BOOLEAN
  BY <1>3
<1> QED  BY <1>2, <1>3, <1>4, <1>5, <1>6

(* The routine seen from either buffer.                                    *)
LEMMA InterruptInput ==
  ASSUME TypeOK, Interrupt
  PROVE  \E m \in Nat :
           /\ m <= rfifo /\ Fill(rx_in, rx_out) + m < BUF_LEN
           /\ rx_in' \in Index /\ rx_out' = rx_out /\ unread' = unread
           /\ Fill(rx_in', rx_out) = Fill(rx_in, rx_out) + m /\ rfifo' = rfifo - m
           /\ pause_irq' \in BOOLEAN /\ RE' \in BOOLEAN
           /\ RE' \/ RE' = RE \/ Fill(rx_in', rx_out) = BUF_LEN - 1
<1>0. rx_in \in Index /\ rx_out \in Index /\ rfifo \in Nat /\ BUF_LEN \in Nat
  BY JtagAssumption DEF TypeOK
<1>1. rx_out' = rx_out /\ unread' = unread
  BY DEF Interrupt
<1>2. CASE RI
  <2>1. Receive
    BY <1>2 DEF Interrupt
  <2>2. PICK m \in Nat :
          /\ m <= rfifo /\ Fill(rx_in, rx_out) + m < BUF_LEN
          /\ rx_in' = Wrap(rx_in + m) /\ rfifo' = rfifo - m
          /\ pause_irq' \in BOOLEAN /\ RE' \in BOOLEAN
          /\ RE' \/ Fill(rx_in, rx_out) + m = BUF_LEN - 1
    BY <2>1, Received
  <2>3. rx_in' \in Index /\ Fill(rx_in', rx_out) = Fill(rx_in, rx_out) + m
    BY <1>0, <2>2, RingIn
  <2> QED  BY <1>1, <2>2, <2>3
<1>3. CASE ~RI
  <2>1. rx_in' = rx_in /\ rfifo' = rfifo /\ pause_irq' = pause_irq /\ RE' = RE
    BY <1>3 DEF Interrupt
  <2>2. Fill(rx_in, rx_out) \in 0..(BUF_LEN - 1)
    BY <1>0, FillRange
  <2> WITNESS 0 \in Nat
  <2>3. pause_irq \in BOOLEAN /\ RE \in BOOLEAN
    BY DEF TypeOK
  <2>4. 0 <= rfifo /\ Fill(rx_in, rx_out) + 0 < BUF_LEN /\ rfifo' = rfifo - 0
        /\ Fill(rx_in', rx_out) = Fill(rx_in, rx_out) + 0
    BY <1>0, <2>1, <2>2
  <2> QED  BY <1>0, <1>1, <2>1, <2>3, <2>4
<1> QED  BY <1>2, <1>3

LEMMA InterruptOutput ==
  ASSUME TypeOK, Interrupt
  PROVE  \E m \in Nat :
           /\ m <= Fill(tx_in, tx_out) /\ wfifo' \in 0..WRITE_DEPTH
           /\ tx_out' \in Index /\ tx_out' = Wrap(tx_out + m) /\ sent' = Number(sent + m)
           /\ Fill(tx_in, tx_out') = Fill(tx_in, tx_out) - m
           /\ tx_in' = tx_in /\ tx_buf' = tx_buf /\ accepted' = accepted
           /\ WE' \in BOOLEAN
           /\ WE' \/ WE' = WE \/ Fill(tx_in, tx_out') = 0
<1>0. /\ tx_in \in Index /\ tx_out \in Index /\ sent \in Numbers
      /\ wfifo \in 0..WRITE_DEPTH /\ BUF_LEN \in Nat /\ WE \in BOOLEAN
      /\ Fill(tx_in, tx_out) \in Nat
  BY JtagAssumption, FillRange DEF TypeOK
<1>1. tx_in' = tx_in /\ tx_buf' = tx_buf /\ accepted' = accepted
  BY DEF Interrupt
<1>2. CASE WI
  <2>1. Transmit
    BY <1>2 DEF Interrupt
  <2>2. PICK m \in Nat :
           /\ m <= Fill(tx_in, tx_out) /\ wfifo + m \in 0..WRITE_DEPTH
           /\ tx_out' = Wrap(tx_out + m) /\ wfifo' = wfifo + m /\ sent' = Number(sent + m)
           /\ WE' \in BOOLEAN
           /\ WE' \/ m = Fill(tx_in, tx_out)
    BY <2>1, Transmitted
  <2>3. tx_out' \in Index /\ Fill(tx_in, tx_out') = Fill(tx_in, tx_out) - m
    BY <1>0, <2>2, RingOut
  <2>4. WE' \/ Fill(tx_in, tx_out') = 0
    BY <1>0, <2>2, <2>3
  <2> QED  BY <1>1, <2>2, <2>3, <2>4
<1>3. CASE ~WI
  <2>1. tx_out' = tx_out /\ wfifo' = wfifo /\ sent' = sent /\ WE' = WE
    BY <1>3 DEF Interrupt
  <2> WITNESS 0 \in Nat
  <2>2. Wrap(tx_out + 0) = tx_out /\ Number(sent + 0) = sent
        /\ Fill(tx_in, tx_out) - 0 = Fill(tx_in, tx_out) /\ 0 <= Fill(tx_in, tx_out)
    BY <1>0 DEF Wrap, Number, Index, Numbers
  <2> QED  BY <1>0, <1>1, <2>1, <2>2
<1> QED  BY <1>2, <1>3

-----------------------------------------------------------------------------
(* Types, and the chunk of the call in progress.                           *)

LEMMA TypesInit == Init => Types
<1> SUFFICES ASSUME Init PROVE Types
  OBVIOUS
<1> USE JtagAssumption
<1>1. /\ 0 \in Index /\ 0 \in Numbers /\ DEFAULT_TIMEOUT \in 1..Never
      /\ [i \in Index |-> BUF_LEN + i] \in [Index -> Numbers]
  BY DEF Index, Numbers, Never
<1>2. nonblock \in BOOLEAN /\ {WE, RE, pause_irq, AC} \subseteq BOOLEAN
  BY Zenon DEF Init
<1>3. TypeOK
  <2>1. /\ pc = "idle" /\ count \in 0..MaxCount /\ n \in 0..MaxCount
        /\ wfifo \in 0..WRITE_DEPTH /\ rfifo \in 0..READ_DEPTH
        /\ unread \in 0..(BUF_LEN - 1 + READ_DEPTH) /\ host_inactive \in 0..INACTIVE_MAX
    BY DEF Init
  <2>2. /\ {seen, tx_in, tx_out, rx_in, rx_out} \subseteq Index /\ {sent, accepted} \subseteq Numbers
        /\ tx_buf \in [Index -> Numbers] /\ timeout \in 1..Never
    BY <1>1 DEF Init
  <2> QED  BY <1>2, <2>1, <2>2 DEF TypeOK
<1>4. CallInv
  BY DEF Init, CallInv, ChunkFits, ChunkThere, ChunkCounted
<1> QED  BY <1>3, <1>4 DEF Types

(* What TypeOK says of each variable, one by one.                          *)
LEMMA Typed ==
  ASSUME TypeOK
  PROVE  /\ tx_in \in Index /\ tx_out \in Index /\ rx_in \in Index /\ rx_out \in Index
         /\ seen \in Index /\ sent \in Numbers /\ accepted \in Numbers
         /\ count \in Nat /\ n \in Nat /\ rfifo \in Nat /\ BUF_LEN \in Nat /\ BUF_LEN >= 2
         /\ Fill(tx_in, tx_out) \in 0..(BUF_LEN - 1) /\ Fill(rx_in, rx_out) \in 0..(BUF_LEN - 1)
BY JtagAssumption, FillRange DEF TypeOK

LEMMA TypesStep == Types /\ InputConserved /\ [Next]_vars => Types'
<1> SUFFICES ASSUME Types, InputConserved, [Next]_vars PROVE Types'
  OBVIOUS
<1> USE JtagAssumption
<1>0. TypeOK /\ ChunkFits /\ ChunkThere /\ ChunkCounted
  BY DEF Types, CallInv
<1>t. /\ tx_in \in Index /\ tx_out \in Index /\ rx_in \in Index /\ rx_out \in Index
      /\ seen \in Index /\ sent \in Numbers /\ accepted \in Numbers
      /\ count \in Nat /\ n \in Nat /\ rfifo \in Nat /\ BUF_LEN \in Nat /\ BUF_LEN >= 2
      /\ Fill(tx_in, tx_out) \in 0..(BUF_LEN - 1) /\ Fill(rx_in, rx_out) \in 0..(BUF_LEN - 1)
  BY <1>0, Typed
<1>r. Return => /\ nonblock' \in BOOLEAN /\ count' \in 0..MaxCount /\ n' \in 0..MaxCount
                /\ seen' \in Index /\ pc' = "idle"
  <2>1. 0 \in 0..MaxCount /\ 0 \in Index
    BY DEF Index
  <2> QED  BY <2>1, Zenon DEF Return
<1>1. CASE Call
  BY <1>0, <1>1 DEF Call, Types, TypeOK, CallInv, ChunkFits, ChunkThere, ChunkCounted,
     txVars, rxVars, hostVars, uartVars
<1>2. CASE Ioctl
  BY <1>0, <1>2 DEF Ioctl, Types, TypeOK, CallInv, ChunkFits, ChunkThere, ChunkCounted,
     callVars, txVars, rxVars, uartVars, Never
<1>3. CASE WriteLook
  <2>1. PICK m : m = Least(count, Room(tx_in, tx_out))
    OBVIOUS
  <2>2. m \in 0..count /\ tx_in + m <= BUF_LEN /\ Fill(tx_in, tx_out) + m < BUF_LEN
    BY <1>t, <2>1, RoomFits
  <2>3. \/ m > 0 /\ pc' = "copy" /\ n' = m /\ seen' = 0
        \/ m = 0 /\ pc' = "kick" /\ n' = 0 /\ seen' = tx_out
    BY <1>3, <2>1 DEF WriteLook
  <2>4. UNCHANGED <<nonblock, count, txVars, rxVars, hostVars, uartVars>>
    BY <1>3 DEF WriteLook
  <2> QED  BY <1>0, <1>t, <2>2, <2>3, <2>4 DEF Types, TypeOK, CallInv, ChunkFits, ChunkThere,
             ChunkCounted, txVars, rxVars, hostVars, uartVars, Index
<1>4. CASE WriteCopy
  <2>1. n > 0 /\ n <= count /\ n < BUF_LEN /\ tx_in + n <= BUF_LEN
        /\ Fill(tx_in, tx_out) + n < BUF_LEN
    BY <1>0, <1>4, <1>t DEF WriteCopy, ChunkFits, ChunkCounted
  <2>2. tx_buf' \in [Index -> Numbers]
    <3>1. \A i \in tx_in..(tx_in + n - 1) : Number(accepted + i - tx_in) \in Numbers
      BY <1>t, <2>1 DEF Index, Numbers, Number
    <3>2. tx_buf \in [Index -> Numbers]
      BY <1>0 DEF TypeOK
    <3> QED  BY <1>4, <3>1, <3>2 DEF WriteCopy
  <2>3. accepted' \in Numbers /\ count' \in 0..MaxCount
    BY <1>0, <1>4, <1>t, <2>1 DEF WriteCopy, Number, Numbers, TypeOK
  <2> QED  BY <1>0, <1>4, <2>1, <2>2, <2>3 DEF WriteCopy, Types, TypeOK, CallInv, ChunkFits,
             ChunkThere, ChunkCounted, rxVars, hostVars, uartVars
<1>5. CASE WritePublish
  <2>1. Wrap(tx_in + n) \in Index
    BY <1>0, <1>5, <1>t, RingIn DEF WritePublish, ChunkFits
  <2> QED  BY <1>0, <1>5, <1>t, <2>1 DEF WritePublish, Types, TypeOK, CallInv, ChunkFits,
             ChunkThere, ChunkCounted, rxVars, hostVars, uartVars
<1>6. CASE Kick
  BY <1>0, <1>6, <1>r DEF Kick, Types, TypeOK, CallInv, ChunkFits, ChunkThere, ChunkCounted,
     txVars, rxVars, hostVars
<1>7. CASE WriteWait \/ ReadWait
  BY <1>0, <1>7 DEF WriteWait, ReadWait, Types, TypeOK, CallInv, ChunkFits, ChunkThere, ChunkCounted,
     txVars, rxVars, hostVars, uartVars
<1>8. CASE WriteAgain \/ ReadAgain \/ Close
  BY <1>0, <1>8, <1>r DEF WriteAgain, ReadAgain, Close, Types, TypeOK, CallInv, ChunkFits,
     ChunkThere, ChunkCounted, txVars, rxVars, hostVars, uartVars
<1>9. CASE ReadLook
  <2>1. PICK m : m = Least(count, Available(rx_in, rx_out))
    OBVIOUS
  <2>2. m \in 0..count /\ rx_out + m <= BUF_LEN /\ m <= Fill(rx_in, rx_out)
    BY <1>t, <2>1, AvailableThere
  <2>3. \/ m > 0 /\ pc' = "take" /\ n' = m /\ seen' = 0 /\ UNCHANGED <<nonblock, count>>
        \/ m = 0 /\ pc = "more" /\ pc' = "enable" /\ UNCHANGED <<nonblock, count, n, seen>>
        \/ m = 0 /\ pc = "read" /\ nonblock /\ Return
        \/ /\ m = 0 /\ pc = "read" /\ ~nonblock
           /\ pc' = "input" /\ seen' = rx_in /\ UNCHANGED <<nonblock, count, n>>
    BY <1>9, <2>1 DEF ReadLook
  <2>4. UNCHANGED <<txVars, rxVars, hostVars, uartVars>>
    BY <1>9 DEF ReadLook
  <2>5. 0 \in Index
    BY DEF Index
  <2> QED  BY <1>0, <1>r, <1>t, <2>2, <2>3, <2>4, <2>5 DEF Types, TypeOK, CallInv, ChunkFits, ChunkThere,
             ChunkCounted, txVars, rxVars, hostVars, uartVars
<1>10. CASE ReadTake
  <2>1. n <= count /\ n <= Fill(rx_in, rx_out)
    BY <1>0, <1>10 DEF ReadTake, ChunkThere, ChunkCounted
  <2>2. Wrap(rx_out + n) \in Index /\ unread - n \in 0..(BUF_LEN - 1 + READ_DEPTH)
    BY <1>0, <1>t, <2>1, RingOut DEF InputConserved, TypeOK
  <2> QED  BY <1>0, <1>10, <1>t, <2>1, <2>2 DEF ReadTake, Types, TypeOK, CallInv, ChunkFits,
             ChunkThere, ChunkCounted, txVars, hostVars, uartVars
<1>11. CASE ReadEnable
  BY <1>0, <1>11, <1>r DEF ReadEnable, Types, TypeOK, CallInv, ChunkFits, ChunkThere,
     ChunkCounted, txVars, rxVars, hostVars
<1>12. CASE Interrupt
  <2>1. PICK m \in Nat :
           /\ m <= rfifo /\ Fill(rx_in, rx_out) + m < BUF_LEN
           /\ rx_in' \in Index /\ rx_out' = rx_out /\ unread' = unread
           /\ Fill(rx_in', rx_out) = Fill(rx_in, rx_out) + m /\ rfifo' = rfifo - m
           /\ pause_irq' \in BOOLEAN /\ RE' \in BOOLEAN
    BY <1>0, <1>12, InterruptInput
  <2>2. PICK k \in Nat :
           /\ k <= Fill(tx_in, tx_out) /\ wfifo' \in 0..WRITE_DEPTH
           /\ tx_out' \in Index /\ sent' = Number(sent + k)
           /\ Fill(tx_in, tx_out') = Fill(tx_in, tx_out) - k
           /\ tx_in' = tx_in /\ tx_buf' = tx_buf /\ accepted' = accepted
           /\ WE' \in BOOLEAN
    BY <1>0, <1>12, InterruptOutput
  <2>3. UNCHANGED <<callVars, hostVars>>
    BY <1>12 DEF Interrupt
  <2>4. sent' \in Numbers /\ rfifo' \in 0..READ_DEPTH
    BY <1>0, <1>t, <2>1, <2>2 DEF Number, Numbers, TypeOK
  <2>5. TypeOK'
    BY <1>0, <1>t, <2>1, <2>2, <2>3, <2>4 DEF TypeOK, callVars, hostVars
  <2>6. ChunkFits'
    BY <1>0, <1>t, <2>2, <2>3 DEF ChunkFits, callVars
  <2>7. ChunkThere' /\ ChunkCounted'
    BY <1>0, <1>t, <2>1, <2>3 DEF ChunkThere, ChunkCounted, callVars
  <2> QED  BY <2>5, <2>6, <2>7 DEF Types, CallInv
<1>13. CASE Timeout
  <2>1. host_inactive' \in 0..INACTIVE_MAX
    BY <1>0, <1>13 DEF Timeout, Least, TypeOK
  <2> QED  BY <1>0, <1>13, <2>1 DEF Timeout, Types, TypeOK, CallInv, ChunkFits, ChunkThere, ChunkCounted,
             callVars, txVars, rxVars, uartVars
<1>14. CASE Host
  <2>1. PICK j \in 0..1 : rfifo + j <= READ_DEPTH /\ rfifo' = rfifo + j /\ unread' = unread + j
    BY <1>14 DEF Host
  <2>2. wfifo' \in 0..WRITE_DEPTH
    BY <1>0, <1>14 DEF Host, TypeOK
  <2>3. unread' \in 0..(BUF_LEN - 1 + READ_DEPTH) /\ rfifo' \in 0..READ_DEPTH
    BY <1>0, <1>t, <2>1 DEF InputConserved
  <2>4. pause_irq' \in BOOLEAN /\ AC' \in BOOLEAN
    BY <1>14 DEF Host
  <2> QED  BY <1>0, <1>14, <2>2, <2>3, <2>4 DEF Host, Types, TypeOK, CallInv, ChunkFits, ChunkThere,
             ChunkCounted, callVars, txVars
<1>15. CASE UNCHANGED vars
  BY <1>0, <1>15 DEF vars, callVars, txVars, rxVars, hostVars, uartVars, Types, TypeOK, CallInv, ChunkFits,
     ChunkThere, ChunkCounted
<1> QED  BY <1>1, <1>2, <1>3, <1>4, <1>5, <1>6, <1>7, <1>8, <1>9, <1>10, <1>11, <1>12, <1>13, <1>14,
           <1>15 DEF Next, Program, Writing, Reading

-----------------------------------------------------------------------------
(* Input, and the interrupts.                                              *)

LEMMA InputInit == Init => InputConserved /\ InterruptsEnabled
BY JtagAssumption DEF Init, InputConserved, InterruptsEnabled, OutputEnabled, InputEnabled, Fill

LEMMA InputStep == Types /\ InputConserved /\ [Next]_vars => InputConserved'
<1> SUFFICES ASSUME Types, InputConserved, [Next]_vars PROVE InputConserved'
  OBVIOUS
<1>0. TypeOK /\ ChunkThere
  BY DEF Types, CallInv
<1>t. /\ rx_in \in Index /\ rx_out \in Index /\ n \in Nat /\ rfifo \in Nat /\ BUF_LEN \in Nat
      /\ Fill(rx_in, rx_out) \in 0..(BUF_LEN - 1)
  BY <1>0, Typed
<1>1. CASE ReadTake
  <2>1. n <= Fill(rx_in, rx_out)
    BY <1>0, <1>1 DEF ReadTake, ChunkThere
  <2>2. Fill(rx_in, Wrap(rx_out + n)) = Fill(rx_in, rx_out) - n
    BY <1>t, <2>1, RingOut
  <2> QED  BY <1>1, <1>t, <2>2 DEF ReadTake, InputConserved, uartVars
<1>2. CASE Interrupt
  <2>1. PICK m \in Nat :
           /\ rx_out' = rx_out /\ unread' = unread
           /\ Fill(rx_in', rx_out) = Fill(rx_in, rx_out) + m /\ rfifo' = rfifo - m
    BY <1>0, <1>2, InterruptInput
  <2> QED  BY <1>t, <2>1 DEF InputConserved
<1>3. CASE Host
  <2>1. PICK j \in 0..1 : rfifo' = rfifo + j /\ unread' = unread + j
    BY <1>3 DEF Host
  <2> QED  BY <1>3, <1>t, <2>1 DEF Host, InputConserved
<1>4. ASSUME UNCHANGED <<rxVars, rfifo>> PROVE InputConserved'
  BY <1>4 DEF InputConserved, rxVars
<1>5. Call \/ Ioctl \/ Writing \/ ReadLook \/ ReadEnable \/ ReadWait \/ ReadAgain \/ Close \/ Timeout
        \/ UNCHANGED vars
      => UNCHANGED <<rxVars, rfifo>>
  BY DEF Call, Ioctl, Writing, WriteLook, WriteCopy, WritePublish, Kick, WriteWait, WriteAgain, ReadLook,
     ReadEnable, ReadWait, ReadAgain, Close, Timeout, vars, uartVars
<1> QED  BY <1>1, <1>2, <1>3, <1>4, <1>5 DEF Next, Program, Reading

LEMMA StrandedStep == Types /\ InterruptsEnabled /\ [Next]_vars => InterruptsEnabled'
<1> SUFFICES ASSUME Types, InterruptsEnabled, [Next]_vars PROVE InterruptsEnabled'
  OBVIOUS
<1>0. TypeOK /\ OutputEnabled /\ InputEnabled
  BY DEF Types, InterruptsEnabled
<1>t. /\ tx_in \in Index /\ tx_out \in Index /\ rx_in \in Index /\ rx_out \in Index
      /\ count \in Nat /\ BUF_LEN \in Nat
      /\ Fill(rx_in, rx_out) \in 0..(BUF_LEN - 1)
  BY <1>0, Typed
<1>1. CASE Call
  BY <1>0, <1>1 DEF Call, InterruptsEnabled, OutputEnabled, InputEnabled, txVars, rxVars, uartVars
<1>2. CASE Ioctl \/ Timeout \/ UNCHANGED vars
  BY <1>0, <1>2 DEF Ioctl, Timeout, vars, InterruptsEnabled, OutputEnabled, InputEnabled, callVars, txVars,
     rxVars, uartVars
<1>3. CASE WriteLook
  BY <1>0, <1>3 DEF WriteLook, InterruptsEnabled, OutputEnabled, InputEnabled, txVars, rxVars, uartVars
<1>4. CASE WriteCopy
  BY <1>0, <1>4 DEF WriteCopy, InterruptsEnabled, OutputEnabled, InputEnabled, rxVars, uartVars
<1>5. CASE WritePublish
  BY <1>0, <1>5 DEF WritePublish, InterruptsEnabled, OutputEnabled, InputEnabled, rxVars, uartVars
<1>6. CASE Kick
  BY <1>0, <1>6 DEF Kick, InterruptsEnabled, OutputEnabled, InputEnabled, txVars, rxVars
<1>7. CASE WriteWait \/ ReadWait
  BY <1>0, <1>7 DEF WriteWait, ReadWait, InterruptsEnabled, OutputEnabled, InputEnabled, txVars, rxVars, uartVars
<1>8. CASE WriteAgain \/ ReadAgain \/ Close
  BY <1>0, <1>8 DEF WriteAgain, ReadAgain, Close, Return, InterruptsEnabled, OutputEnabled, InputEnabled,
     txVars, rxVars, uartVars
<1>9. CASE ReadLook
  <2>1. OutputEnabled'
    BY <1>0, <1>9 DEF ReadLook, OutputEnabled, txVars, uartVars
  <2>2. pc' \in {"take", "enable"} \/ pc = "read"
    BY <1>9 DEF ReadLook
  <2>3. InputEnabled'
    BY <1>0, <1>9, <2>2 DEF ReadLook, InputEnabled, rxVars, uartVars
  <2> QED  BY <2>1, <2>3 DEF InterruptsEnabled
<1>10. CASE ReadTake
  <2>1. pc' \in {"more", "enable"}
    BY <1>10 DEF ReadTake
  <2> QED  BY <1>0, <1>10, <2>1 DEF ReadTake, InterruptsEnabled, OutputEnabled, InputEnabled, txVars, uartVars
<1>11. CASE ReadEnable
  BY <1>0, <1>11 DEF ReadEnable, Return, InterruptsEnabled, OutputEnabled, InputEnabled, txVars
<1>12. CASE Interrupt
  <2>0. pc' = pc
    BY <1>12 DEF Interrupt, callVars
  <2>1. PICK m \in Nat :
           /\ Fill(rx_in, rx_out) + m < BUF_LEN /\ rx_out' = rx_out
           /\ Fill(rx_in', rx_out) = Fill(rx_in, rx_out) + m
           /\ RE' \/ RE' = RE \/ Fill(rx_in', rx_out) = BUF_LEN - 1
    BY <1>0, <1>12, InterruptInput
  <2>2. InputEnabled'
    BY <1>0, <1>t, <2>0, <2>1 DEF InputEnabled
  <2>3. PICK k \in Nat :
           /\ k <= Fill(tx_in, tx_out) /\ tx_out' \in Index /\ tx_in' = tx_in
           /\ Fill(tx_in, tx_out') = Fill(tx_in, tx_out) - k
           /\ WE' \/ WE' = WE \/ Fill(tx_in, tx_out') = 0
    BY <1>0, <1>12, InterruptOutput
  <2>4. /\ Fill(tx_in, tx_out) = 0 <=> tx_in = tx_out
        /\ Fill(tx_in, tx_out') = 0 <=> tx_in = tx_out'
        /\ Fill(tx_in, tx_out) \in Nat /\ Fill(tx_in, tx_out') \in Nat
    BY <1>t, <2>3, FillRange
  <2>5. OutputEnabled'
    BY <1>0, <2>0, <2>3, <2>4 DEF OutputEnabled
  <2> QED  BY <2>2, <2>5 DEF InterruptsEnabled
<1>13. CASE Host
  BY <1>0, <1>13 DEF Host, InterruptsEnabled, OutputEnabled, InputEnabled, callVars, txVars
<1> QED  BY <1>1, <1>2, <1>3, <1>4, <1>5, <1>6, <1>7, <1>8, <1>9, <1>10, <1>11, <1>12, <1>13
         DEF Next, Program, Writing, Reading

-----------------------------------------------------------------------------
(* Output.  m bytes are pending, the chunk that is copied but not yet      *)
(* published included.                                                     *)
Ordered(m) ==
  /\ m < BUF_LEN /\ accepted = Number(sent + m)
  /\ \A k \in 0..(m - 1) : tx_buf[Wrap(tx_out + k)] = Number(sent + k)

Pending == Fill(tx_in, tx_out) + (IF pc = "publish" THEN n ELSE 0)

LEMMA OutputInit == Init => OutputInOrder
BY JtagAssumption DEF Init, OutputInOrder, Fill, Number

LEMMA OutputStep == Types /\ OutputInOrder /\ [Next]_vars => OutputInOrder'
<1> SUFFICES ASSUME Types, OutputInOrder, [Next]_vars PROVE Ordered(Pending)'
  BY DEF OutputInOrder, Ordered, Pending
<1>0. TypeOK /\ ChunkFits /\ Ordered(Pending)
  BY DEF Types, CallInv, OutputInOrder, Ordered, Pending
<1>t. /\ tx_in \in Index /\ tx_out \in Index /\ sent \in Numbers /\ accepted \in Numbers
      /\ n \in Nat /\ BUF_LEN \in Nat /\ BUF_LEN >= 2
      /\ Fill(tx_in, tx_out) \in 0..(BUF_LEN - 1)
  BY <1>0, Typed
<1>1. CASE WriteCopy
  <2>1. /\ n > 0 /\ tx_in + n <= BUF_LEN /\ Fill(tx_in, tx_out) + n < BUF_LEN
        /\ Pending = Fill(tx_in, tx_out) /\ Pending' = Fill(tx_in, tx_out) + n
        /\ accepted' = Number(accepted + n) /\ tx_out' = tx_out /\ sent' = sent
        /\ accepted = Number(sent + Fill(tx_in, tx_out))
    BY <1>0, <1>1, <1>t DEF WriteCopy, ChunkFits, Pending, Ordered
  <2>2. accepted' = Number(sent + Pending')
    <3>1. Number(Number(sent + Fill(tx_in, tx_out)) + n) = Number(sent + Fill(tx_in, tx_out) + n)
      BY <1>t, <2>1, NumberAfter
    <3>2. sent + Fill(tx_in, tx_out) + n = sent + Pending'
      BY <1>t, <2>1 DEF Numbers
    <3> QED  BY <2>1, <3>1, <3>2
  <2>3. ASSUME NEW k \in 0..(Pending' - 1) PROVE tx_buf'[Wrap(tx_out + k)] = Number(sent + k)
    <3>1. /\ Wrap(tx_out + k) \in Index
          /\ k < Fill(tx_in, tx_out) => Wrap(tx_out + k) \notin tx_in..(tx_in + n - 1)
          /\ k >= Fill(tx_in, tx_out) => /\ Wrap(tx_out + k) \in tx_in..(tx_in + n - 1)
                                         /\ Wrap(tx_out + k) - tx_in = k - Fill(tx_in, tx_out)
      BY <1>t, <2>1, Places
    <3>2. tx_buf'[Wrap(tx_out + k)] = IF Wrap(tx_out + k) \in tx_in..(tx_in + n - 1)
                                      THEN Number(accepted + Wrap(tx_out + k) - tx_in)
                                      ELSE tx_buf[Wrap(tx_out + k)]
      BY <1>1, <3>1 DEF WriteCopy
    <3>3. CASE k < Fill(tx_in, tx_out)
      BY <1>0, <1>t, <2>1, <3>1, <3>2, <3>3 DEF Ordered
    <3>4. CASE k >= Fill(tx_in, tx_out)
      <4>1. PICK d \in Nat : d = k - Fill(tx_in, tx_out) /\ d < n
        BY <1>t, <2>1, <3>4
      <4>2. accepted + Wrap(tx_out + k) - tx_in = accepted + d
        BY <1>t, <3>1, <3>4, <4>1 DEF Index, Numbers
      <4>3. Number(accepted + d) = Number(sent + Fill(tx_in, tx_out) + d)
        BY <1>t, <2>1, <4>1, NumberAfter
      <4>4. sent + Fill(tx_in, tx_out) + d = sent + k
        BY <1>t, <4>1 DEF Numbers
      <4> QED  BY <3>1, <3>2, <3>4, <4>2, <4>3, <4>4
    <3> QED  BY <1>t, <2>1, <3>3, <3>4
  <2> QED  BY <2>1, <2>2, <2>3 DEF Ordered
<1>2. CASE WritePublish
  <2>1. /\ n > 0 /\ tx_in + n <= BUF_LEN /\ Fill(tx_in, tx_out) + n < BUF_LEN
        /\ Pending = Fill(tx_in, tx_out) + n
    BY <1>0, <1>2 DEF WritePublish, ChunkFits, Pending
  <2>2. Fill(tx_in', tx_out) = Fill(tx_in, tx_out) + n
    BY <1>2, <1>t, <2>1, RingIn DEF WritePublish
  <2>3. Pending' = Pending
    BY <1>2, <1>t, <2>1, <2>2 DEF WritePublish, Pending
  <2> QED  BY <1>0, <1>2, <2>3 DEF WritePublish, Ordered
<1>3. CASE Interrupt
  <2>1. PICK m \in Nat :
           /\ m <= Fill(tx_in, tx_out)
           /\ tx_out' \in Index /\ tx_out' = Wrap(tx_out + m) /\ sent' = Number(sent + m)
           /\ Fill(tx_in, tx_out') = Fill(tx_in, tx_out) - m
           /\ tx_in' = tx_in /\ tx_buf' = tx_buf /\ accepted' = accepted
    BY <1>0, <1>3, InterruptOutput
  <2>2. pc' = pc /\ n' = n
    BY <1>3 DEF Interrupt, callVars
  <2>3. Pending \in Nat /\ m <= Pending /\ Pending < BUF_LEN
    BY <1>0, <1>t, <2>1 DEF Pending, Ordered
  <2>4. Pending' = Pending - m
    BY <1>t, <2>1, <2>2 DEF Pending
  <2>5. accepted' = Number(sent' + Pending')
    <3>1. Number(Number(sent + m) + (Pending - m)) = Number(sent + m + (Pending - m))
      BY <1>t, <2>3, NumberAfter
    <3>2. sent + m + (Pending - m) = sent + Pending
      BY <1>t, <2>3 DEF Numbers
    <3> QED  BY <1>0, <2>1, <2>4, <3>1, <3>2 DEF Ordered
  <2>6. ASSUME NEW k \in 0..(Pending' - 1) PROVE tx_buf'[Wrap(tx_out' + k)] = Number(sent' + k)
    <3>1. k \in Nat /\ m + k < Pending
      BY <2>3, <2>4
    <3>2. Wrap(tx_out' + k) = Wrap(tx_out + m + k) /\ Number(sent' + k) = Number(sent + m + k)
      BY <1>t, <2>1, <2>3, <3>1, PlaceAfter, NumberAfter
    <3>3. PICK i \in 0..(Pending - 1) : i = m + k
      BY <2>3, <3>1
    <3>4. tx_out + m + k = tx_out + i /\ sent + m + k = sent + i
      BY <1>t, <3>1, <3>3 DEF Index, Numbers
    <3> QED  BY <1>0, <2>1, <3>2, <3>3, <3>4 DEF Ordered
  <2>7. Pending' < BUF_LEN
    BY <1>t, <2>3, <2>4
  <2> QED  BY <2>5, <2>6, <2>7 DEF Ordered
<1>4. ASSUME UNCHANGED txVars, pc # "publish", pc' # "publish" PROVE Ordered(Pending)'
  BY <1>0, <1>4 DEF Ordered, Pending, txVars
<1>5. ASSUME UNCHANGED <<txVars, pc, n>> PROVE Ordered(Pending)'
  BY <1>0, <1>5 DEF Ordered, Pending, txVars
<1>6. CASE Call \/ WriteLook \/ Kick \/ WriteWait \/ WriteAgain \/ Reading \/ Close
  <2>1. UNCHANGED txVars /\ pc # "publish" /\ pc' # "publish"
    BY <1>6 DEF Call, WriteLook, Kick, WriteWait, WriteAgain, Reading, ReadLook, ReadTake, ReadEnable,
       ReadWait, ReadAgain, Close, Return
  <2> QED  BY <1>4, <2>1
<1>7. CASE Ioctl \/ Timeout \/ Host \/ UNCHANGED vars
  <2>1. UNCHANGED <<txVars, pc, n>>
    BY <1>7 DEF Ioctl, Timeout, Host, vars, callVars
  <2> QED  BY <1>5, <2>1
<1> QED  BY <1>1, <1>2, <1>3, <1>6, <1>7 DEF Next, Program, Writing

-----------------------------------------------------------------------------
(* The theorems.                                                           *)

LEMMA ConsoleInvariance == Spec => []ConsoleInv
<1>1. Init => ConsoleInv
  BY TypesInit, InputInit, OutputInit DEF ConsoleInv
<1>2. ConsoleInv /\ [Next]_vars => ConsoleInv'
  BY TypesStep, InputStep, StrandedStep, OutputStep DEF ConsoleInv
<1> QED  BY <1>1, <1>2, PTL DEF Spec

(* Every variable keeps its type; indices never leave their buffer         *)
(* (altera_avalon_jtag_uart_write.c:127, _read.c:152, _init.c:143, 164).   *)
THEOREM ConsoleTypes == Spec => []TypeOK
<1>1. ConsoleInv => TypeOK
  BY DEF ConsoleInv, Types
<1> QED  BY <1>1, ConsoleInvariance, PTL

(* The bytes accepted and not yet sent lie in the buffer in their order,   *)
(* whatever the interrupt routine does in the middle of a call             *)
(* (altera_avalon_jtag_uart_write.c:122).                                  *)
THEOREM OutputOrder == Spec => []OutputInOrder
<1>1. ConsoleInv => OutputInOrder
  BY DEF ConsoleInv
<1> QED  BY <1>1, ConsoleInvariance, PTL

(* No byte typed is lost or counted twice between FIFO, buffer and program *)
(* (_init.c:135, _read.c:122).                                             *)
THEOREM InputKept == Spec => []InputConserved
<1>1. ConsoleInv => InputConserved
  BY DEF ConsoleInv
<1> QED  BY <1>1, ConsoleInvariance, PTL

(* No interrupt that has work to do stays disabled (_init.c:150, 173).     *)
THEOREM KeptEnabled == Spec => []InterruptsEnabled
<1>1. ConsoleInv => InterruptsEnabled
  BY DEF ConsoleInv
<1> QED  BY <1>1, ConsoleInvariance, PTL

=============================================================================
