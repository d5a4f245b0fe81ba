------------------------------ MODULE JtagUart ------------------------------
(***************************************************************************)
(* The console of the USB program: altera_avalon_jtag_uart_write, _read,   *)
(* _close and _ioctl, their interrupt routine and the callback that looks  *)
(* for the host once a second, on top of the JTAG UART and the host at the *)
(* other end of the cable.                                                 *)
(*                                                                         *)
(* One call is under way at a time - there is no operating system.  The    *)
(* interrupt routine and the callback run between any two of its steps,    *)
(* which are its reads and writes of what it shares with them: tx_in,      *)
(* tx_out, rx_in, rx_out, irq_enable and host_inactive.  They cannot be    *)
(* interrupted themselves; a turn of the interrupt routine's loop is one   *)
(* step, to which the host's activity in the meantime can only add what    *)
(* the next turn sees.                                                     *)
(*                                                                         *)
(* Bytes written are numbered modulo two laps of the buffer, so that one   *)
(* left over from the lap before is told from a new one.  Of the bytes     *)
(* typed only the number counts.                                           *)
(***************************************************************************)
EXTENDS Integers

CONSTANTS
  BUF_LEN,         \* ALTERA_AVALON_JTAG_UART_BUF_LEN, of either buffer: 2048
  WRITE_DEPTH, WRITE_THRESHOLD,   \* FIFOs of the UART: 64, 8
  READ_DEPTH, READ_THRESHOLD,
  DEFAULT_TIMEOUT, \* 10 s
  Timeouts,        \* what TIOCSTIMEOUT is asked for
  INACTIVE_MAX,    \* where host_inactive stops counting: INT_MAX - 2
  MaxCount         \* bound: bytes of one call

ASSUME JtagAssumption ==
  /\ BUF_LEN \in Nat /\ BUF_LEN >= 2 /\ MaxCount \in Nat \ {0}
  /\ WRITE_DEPTH \in Nat /\ WRITE_THRESHOLD \in 0..(WRITE_DEPTH - 1)
  /\ READ_DEPTH \in Nat \ {0} /\ READ_THRESHOLD \in 0..(READ_DEPTH - 1)
  /\ INACTIVE_MAX \in Nat /\ DEFAULT_TIMEOUT \in 1..INACTIVE_MAX
  /\ Timeouts \subseteq 0..INACTIVE_MAX

VARIABLES
  pc,                       \* where the call stands
  nonblock,                 \* whether its flags have O_NONBLOCK
  count,                    \* bytes still to be moved, and n, the next chunk
  n, seen,                  \* seen: tx_out or rx_in as the call has read it
  tx_in, tx_out, tx_buf, rx_in, rx_out, host_inactive, timeout,
  WE, RE,                   \* interrupt enables: irq_enable and the UART's
  wfifo, rfifo,             \* bytes in the UART's FIFOs
  pause_irq, AC,            \* the UART: input to look at; the host was there
  sent, accepted, unread    \* history: bytes sent on, taken from calls; typed and not read

callVars == <<pc, nonblock, count, n, seen>>
txVars == <<tx_in, tx_out, tx_buf, sent, accepted>>
rxVars == <<rx_in, rx_out, unread>>
hostVars == <<host_inactive, AC, timeout>>
uartVars == <<WE, RE, wfifo, rfifo, pause_irq>>
vars == <<callVars, txVars, rxVars, hostVars, uartVars>>

Never == INACTIVE_MAX + 1        \* INT_MAX - 1: host_inactive does not get there

Index == 0..(BUF_LEN - 1)

Wrap(i) == IF i >= BUF_LEN THEN i - BUF_LEN ELSE i

Numbers == 0..(2 * BUF_LEN - 1)
Number(i) == IF i >= 2 * BUF_LEN THEN i - 2 * BUF_LEN ELSE i
Fill(in, out) == IF in >= out THEN in - out ELSE in - out + BUF_LEN
Least(a, b) == IF a < b THEN a ELSE b

Init ==
  /\ pc = "idle" /\ nonblock = FALSE /\ count = 0 /\ n = 0 /\ seen = 0
  /\ tx_in = 0 /\ tx_out = 0 /\ tx_buf = [i \in Index |-> BUF_LEN + i]
  /\ rx_in = 0 /\ rx_out = 0
  /\ host_inactive = 0 /\ timeout = DEFAULT_TIMEOUT
  /\ WE = FALSE /\ RE = TRUE /\ wfifo = 0 /\ rfifo = 0 /\ pause_irq = FALSE /\ AC = FALSE
  /\ sent = 0 /\ accepted = 0 /\ unread = 0

-----------------------------------------------------------------------------
(* Calls.                                                                  *)

Call ==
  /\ pc = "idle"
  /\ nonblock' \in BOOLEAN
  /\ \/ pc' \in {"write", "read"} /\ count' \in 1..MaxCount
     \/ pc' = "close" /\ count' = 0
  /\ UNCHANGED <<n, seen, txVars, rxVars, hostVars, uartVars>>

(* TIOCSTIMEOUT.                                                           *)
Ioctl ==
  /\ pc = "idle"
  /\ \E t \in Timeouts : timeout' = IF t >= 2 THEN t ELSE Never
  /\ UNCHANGED <<callVars, txVars, rxVars, host_inactive, AC, uartVars>>

Return == pc' = "idle" /\ nonblock' = FALSE /\ count' = 0 /\ n' = 0 /\ seen' = 0

(* Mutant of Room: the last free place is used too. *)
RoomAll(in, out) == IF in < out THEN out - in ELSE BUF_LEN - in

(* Room in one piece; one place stays free, for a full buffer not to look  *)
(* like an empty one.                                                      *)
Room(in, out) ==
  IF in < out THEN out - 1 - in
  ELSE IF out > 0 THEN BUF_LEN - in ELSE BUF_LEN - 1 - in

(* altera_avalon_jtag_uart_write: how much fits, as of now.  What it saw   *)
(* of tx_out is needed again only if nothing does.                         *)
WriteLook ==
  /\ pc = "write"
  /\ LET m == Least(count, Room(tx_in, tx_out)) IN
     \/ m > 0 /\ pc' = "copy" /\ n' = m /\ seen' = 0
     \/ m = 0 /\ pc' = "kick" /\ n' = 0 /\ seen' = tx_out
  /\ UNCHANGED <<nonblock, count, txVars, rxVars, hostVars, uartVars>>

(* The copy, with tx_in moved on last.                                     *)
WriteCopy ==
  /\ pc = "copy" /\ pc' = "publish"
  /\ tx_buf' = [i \in Index |->
       IF i \in tx_in..(tx_in + n - 1) THEN Number(accepted + i - tx_in) ELSE tx_buf[i]]
  /\ accepted' = Number(accepted + n) /\ count' = count - n
  /\ UNCHANGED <<nonblock, n, seen, tx_in, tx_out, sent, rxVars, hostVars, uartVars>>

WritePublish ==
  /\ pc = "publish"
  /\ tx_in' = Wrap(tx_in + n) /\ n' = 0
  /\ pc' = IF count > 0 THEN "write" ELSE "kick"
  /\ UNCHANGED <<nonblock, count, seen, tx_out, tx_buf, sent, accepted, rxVars, hostVars, uartVars>>

(* Mutant of Kick: the interrupt is left as it is if the buffer was full. *)
KickUnlessFull ==
  /\ pc = "kick"
  /\ WE' = (WE \/ count = 0)
  /\ IF count > 0 /\ ~nonblock THEN pc' = "wait" /\ UNCHANGED <<nonblock, count, n, seen>>
     ELSE Return
  /\ UNCHANGED <<txVars, rxVars, hostVars, RE, wfifo, rfifo, pause_irq>>

Kick ==
  /\ pc = "kick"
  /\ WE' = TRUE
  /\ IF count > 0 /\ ~nonblock THEN pc' = "wait" /\ UNCHANGED <<nonblock, count, n, seen>>
     ELSE Return
  /\ UNCHANGED <<txVars, rxVars, hostVars, RE, wfifo, rfifo, pause_irq>>

HostGone == host_inactive >= timeout

(* The wait ends; the call goes on only if the host was there just now.    *)
WriteWait ==
  /\ pc = "wait"
  /\ seen # tx_out \/ HostGone
  /\ pc' = "waited"
  /\ UNCHANGED <<nonblock, count, n, seen, txVars, rxVars, hostVars, uartVars>>

WriteAgain ==
  /\ pc = "waited"
  /\ IF host_inactive # 0 THEN Return ELSE pc' = "write" /\ UNCHANGED <<nonblock, count, n, seen>>
  /\ UNCHANGED <<txVars, rxVars, hostVars, uartVars>>

(* altera_avalon_jtag_uart_read: what there is in one piece.               *)
Available(in, out) == IF in >= out THEN in - out ELSE BUF_LEN - out

(* "read" if nothing has been read yet, "more" if something has.           *)
ReadLook ==
  /\ pc \in {"read", "more"}
  /\ LET m == Least(count, Available(rx_in, rx_out)) IN
     \/ m > 0 /\ pc' = "take" /\ n' = m /\ seen' = 0 /\ UNCHANGED <<nonblock, count>>
     \/ m = 0 /\ pc = "more" /\ pc' = "enable" /\ UNCHANGED <<nonblock, count, n, seen>>
     \/ m = 0 /\ pc = "read" /\ nonblock /\ Return
     \/ /\ m = 0 /\ pc = "read" /\ ~nonblock
        /\ pc' = "input" /\ seen' = rx_in /\ UNCHANGED <<nonblock, count, n>>
  /\ UNCHANGED <<txVars, rxVars, hostVars, uartVars>>

ReadTake ==
  /\ pc = "take"
  /\ rx_out' = Wrap(rx_out + n) /\ unread' = unread - n
  /\ count' = count - n /\ n' = 0
  /\ pc' = IF count' > 0 THEN "more" ELSE "enable"
  /\ UNCHANGED <<nonblock, seen, txVars, rx_in, hostVars, uartVars>>

(* There is room again.                                                    *)
ReadEnable ==
  /\ pc = "enable"
  /\ RE' = TRUE
  /\ Return
  /\ UNCHANGED <<txVars, rxVars, hostVars, WE, wfifo, rfifo, pause_irq>>

ReadWait ==
  /\ pc = "input"
  /\ seen # rx_in \/ HostGone
  /\ pc' = "came"
  /\ UNCHANGED <<nonblock, count, n, seen, txVars, rxVars, hostVars, uartVars>>

ReadAgain ==
  /\ pc = "came"
  /\ IF seen = rx_in THEN Return ELSE pc' = "read" /\ UNCHANGED <<nonblock, count, n, seen>>
  /\ UNCHANGED <<txVars, rxVars, hostVars, uartVars>>

(* altera_avalon_jtag_uart_close waits for the buffer to be emptied.       *)
Close ==
  /\ pc = "close"
  /\ tx_out = tx_in \/ HostGone \/ nonblock
  /\ Return
  /\ UNCHANGED <<txVars, rxVars, hostVars, uartVars>>

-----------------------------------------------------------------------------
(* The interrupt routine and the callback.                                 *)

RI == RE /\ (pause_irq \/ READ_DEPTH - rfifo <= READ_THRESHOLD)
WI == WE /\ wfifo <= WRITE_THRESHOLD

(* Mutant of Receive: a full buffer goes unnoticed. *)
ReceiveOver ==
  LET room == BUF_LEN - Fill(rx_in, rx_out)
      m == Least(room, rfifo) IN
  /\ rx_in' = Wrap(rx_in + m) /\ rfifo' = rfifo - m
  /\ pause_irq' = (pause_irq /\ room = 0)
  /\ RE' = (rfifo <= room)

(* Input is moved until the buffer is full or the FIFO empty; if some is   *)
(* left the interrupt is disabled.  Reading the FIFO clears pause_irq.     *)
Receive ==
  LET room == BUF_LEN - 1 - Fill(rx_in, rx_out)
      m == Least(room, rfifo) IN
  /\ rx_in' = Wrap(rx_in + m) /\ rfifo' = rfifo - m
  /\ pause_irq' = (pause_irq /\ room = 0)
  /\ RE' = (rfifo <= room)

(* Mutant of Transmit: disabled as soon as the buffer is empty. *)
TransmitOff ==
  LET space == WRITE_DEPTH - wfifo
      m == Least(space, Fill(tx_in, tx_out)) IN
  /\ tx_out' = Wrap(tx_out + m) /\ wfifo' = wfifo + m /\ sent' = Number(sent + m)
  /\ WE' = (m = 0)

(* Output is moved until the FIFO is full or the buffer empty; if there is *)
(* space left the interrupt is disabled.                                   *)
Transmit ==
  LET space == WRITE_DEPTH - wfifo
      m == Least(space, Fill(tx_in, tx_out)) IN
  /\ tx_out' = Wrap(tx_out + m) /\ wfifo' = wfifo + m /\ sent' = Number(sent + m)
  /\ WE' = (space <= m)

(* altera_avalon_jtag_uart_irq: a turn of its loop.                        *)
Interrupt ==
  /\ RI \/ WI
  /\ IF RI THEN Receive ELSE UNCHANGED <<rx_in, rfifo, pause_irq, RE>>
  /\ IF WI THEN Transmit ELSE UNCHANGED <<tx_out, wfifo, sent, WE>>
  /\ UNCHANGED <<callVars, tx_in, tx_buf, accepted, rx_out, unread, hostVars>>

(* Mutant of Timeout: the mark the host left is not cleared. *)
TimeoutKeepsAC ==
  /\ \/ AC /\ UNCHANGED AC /\ host_inactive' = 0
     \/ /\ ~AC /\ UNCHANGED AC
        /\ host_inactive' = Least(host_inactive + 1, INACTIVE_MAX)
  /\ UNCHANGED <<callVars, txVars, rxVars, timeout, uartVars>>

(* altera_avalon_jtag_uart_timeout, called by the alarm once a second.     *)
Timeout ==
  /\ \/ AC /\ AC' = FALSE /\ host_inactive' = 0
     \/ /\ ~AC /\ UNCHANGED AC
        /\ host_inactive' = Least(host_inactive + 1, INACTIVE_MAX)
  /\ UNCHANGED <<callVars, txVars, rxVars, timeout, uartVars>>

-----------------------------------------------------------------------------
(* The host looks in: it takes output, if there is any, may send a byte,   *)
(* and leaves its mark.                                                    *)

Host ==
  /\ \E k \in 0..wfifo : (k = 0 => wfifo = 0) /\ wfifo' = wfifo - k
  /\ \E j \in 0..1 :
       /\ rfifo + j <= READ_DEPTH
       /\ rfifo' = rfifo + j /\ unread' = unread + j
  /\ pause_irq' = (rfifo' > 0) /\ AC' = TRUE
  /\ UNCHANGED <<callVars, txVars, rx_in, rx_out, host_inactive, timeout, WE, RE>>

Writing == WriteLook \/ WriteCopy \/ WritePublish \/ Kick \/ WriteWait \/ WriteAgain
Reading == ReadLook \/ ReadTake \/ ReadEnable \/ ReadWait \/ ReadAgain
Program == Writing \/ Reading \/ Close

Next == Call \/ Ioctl \/ Program \/ Interrupt \/ Timeout \/ Host

Fairness == WF_vars(Program) /\ WF_vars(Interrupt) /\ WF_vars(Timeout)

Spec == Init /\ [][Next]_vars /\ Fairness

-----------------------------------------------------------------------------
(* Properties                                                              *)

TypeOK ==
  /\ pc \in {"idle", "write", "copy", "publish", "kick", "wait", "waited",
             "read", "more", "take", "enable", "input", "came", "close"}
  /\ nonblock \in BOOLEAN /\ count \in 0..MaxCount /\ n \in 0..MaxCount
  /\ {seen, tx_in, tx_out, rx_in, rx_out} \subseteq Index
  /\ tx_buf \in [Index -> Numbers] /\ {sent, accepted} \subseteq Numbers
  /\ host_inactive \in 0..INACTIVE_MAX /\ timeout \in 1..Never
  /\ {WE, RE, pause_irq, AC} \subseteq BOOLEAN
  /\ wfifo \in 0..WRITE_DEPTH /\ rfifo \in 0..READ_DEPTH
  /\ unread \in 0..(BUF_LEN - 1 + READ_DEPTH)

(* What is in the buffer are the bytes accepted and not yet sent, each in  *)
(* its place, wherever the interrupt cuts into the copy: no byte is sent   *)
(* twice, overwritten or left out (altera_avalon_jtag_uart_write.c:122).   *)
OutputInOrder ==
  LET pending == Fill(tx_in, tx_out) + (IF pc = "publish" THEN n ELSE 0) IN
  /\ pending < BUF_LEN /\ accepted = Number(sent + pending)
  /\ \A k \in 0..(pending - 1) : tx_buf[Wrap(tx_out + k)] = Number(sent + k)

(* No byte typed is lost between FIFO, buffer and program, nor counted     *)
(* twice: a full buffer is not mistaken for an empty one.                  *)
InputConserved == unread = Fill(rx_in, rx_out) + rfifo

(* With output in the buffer the routine's interrupt is enabled, or the    *)
(* call in progress is about to enable it.                                 *)
OutputEnabled ==
  tx_in # tx_out => WE \/ pc \in {"write", "copy", "publish", "kick"}

(* That of the input is only off while the buffer is full or the call that *)
(* made room has not returned.                                             *)
InputEnabled ==
  RE \/ Fill(rx_in, rx_out) = BUF_LEN - 1 \/ pc \in {"more", "take", "enable"}

(* Routine and calls both switch the interrupts; however they cut into     *)
(* each other, none stays off that has work to do (_init.c:150, 173;       *)
(* _write.c:136).  Enabled is not pending: a routine that ran out of room  *)
(* has cleared pause_irq, and what it left in the FIFO, if fewer bytes     *)
(* than the threshold, waits there until the host looks in again -         *)
(* InputMoves needs the host for that.                                     *)
InterruptsEnabled == OutputEnabled /\ InputEnabled

(* Every call returns, host or no host: a write or close because the host  *)
(* takes the output or is given up on, a read because there is input or no *)
(* host.  It may not if a read waits for a host that looks in and has sent *)
(* nothing that was not read, or if the time-out was set to less than 2.   *)
CallsReturn ==
  \/ []<>(pc = "idle")
  \/ <>[](pc = "input" /\ unread = 0) /\ []<><<Host>>_vars
  \/ <>[](timeout = Never)

(* As long as the host looks in, output moves on, ...                     *)
OutputMoves ==
  []<><<Host>>_vars => []<>(tx_in = tx_out) \/ []<><<tx_out' # tx_out>>_vars

(* ... and so does input for which there is room.                          *)
InputMoves ==
  []<><<Host>>_vars =>
    \/ []<>(rfifo = 0 \/ Fill(rx_in, rx_out) = BUF_LEN - 1)
    \/ []<><<rx_in' # rx_in>>_vars

(* Neither direction stops for a wake-up that was lost between the program *)
(* and the interrupt routine (_init.c:150, 173).                           *)
BytesMove == OutputMoves /\ InputMoves

=============================================================================
