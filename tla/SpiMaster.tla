------------------------------ MODULE SpiMaster ------------------------------
(***************************************************************************)
(* Register accesses of MAX3421E.c through alt_avalon_spi_command of the   *)
(* board support package, byte by byte, against the SPI core, which shifts *)
(* between any two steps of the program.  An access is one to several SPI  *)
(* commands; the flags of the commands decide whether the chip select      *)
(* stays active in between, and the chip takes each period of it as one    *)
(* register access of its own: a command byte and data.                    *)
(*                                                                         *)
(* Bytes written are numbered, the command byte is 0; the chip's replies   *)
(* are numbered by their place in the frame.  Status polling of the core   *)
(* and what the program does about it are one step: the flags it acts on   *)
(* stay set until it acts.                                                 *)
(***************************************************************************)
EXTENDS Integers, Sequences

CONSTANT MaxBytes     \* bound: data bytes of an access

ASSUME SpiAssumption == MaxBytes \in Nat

none == -1            \* an empty register of the core
ZERO == 99            \* what is clocked out to read

VARIABLES
  pc, access, cmd,                \* place; the access; its command under way
  written, write_zeros, read_ignore, credits,   \* of alt_avalon_spi_command
  data,                           \* what has been stored, by the caller's index
  SSO, tx, shift, rx, ROE,        \* the SPI core
  frames                          \* what the chip has seen of this access

progVars == <<pc, access, cmd, written, write_zeros, read_ignore, credits, data>>
coreVars == <<SSO, tx, shift, rx, ROE, frames>>
spiVars == <<progVars, coreVars>>

Accesses ==
  [kind : {"reg_wr", "reg_rd"}, nbytes : {1}]
    \cup [kind : {"bytes_wr"}, nbytes : 1..MaxBytes]
    \cup [kind : {"bytes_rd"}, nbytes : 0..MaxBytes]
Reads(a) == a.kind \in {"reg_rd", "bytes_rd"}

(* The first command of every access sends the command byte and keeps the  *)
(* chip selected.  Of the n others - one even if nbytes is 0 - each moves  *)
(* a byte, and the last one lets go of the chip.                           *)
Data(a) == IF a.nbytes = 0 THEN 1 ELSE a.nbytes
Commands(a) == 1 + Data(a)
Index(a, c) == a.nbytes - Commands(a) + c         \* of the caller's array, from 1
TOGGLE_SS_N(a, c) == c > 1 /\ c < Commands(a)
WriteLength(a, c) == IF c = 1 \/ ~Reads(a) THEN 1 ELSE 0
ReadLength(a, c) == 1 - WriteLength(a, c)

(* Mutant of MERGE: the command byte's own command lets go of the chip. *)
MERGENever(a, c) == FALSE

MERGE(a, c) == c < Commands(a)

(* The core selects the chip while SSO is set and while it shifts: a byte  *)
(* waits in tx until its transfer has left state zero.                     *)
Selected(sso, s) == sso \/ s # none
Frames(f, sso, s) ==
  IF Selected(sso, s) /\ ~Selected(SSO, shift) THEN Append(f, <<>>) ELSE f

SpiInit ==
  /\ pc = "idle" /\ access = [kind |-> "reg_wr", nbytes |-> 1] /\ cmd = 1
  /\ written = 0 /\ write_zeros = 0 /\ read_ignore = 0 /\ credits = 0 /\ data = <<>>
  /\ SSO = FALSE /\ tx = none /\ shift = none /\ rx = none /\ ROE = FALSE /\ frames = <<>>

-----------------------------------------------------------------------------
(* The SPI core, lab62_soc_spi_0.v.                                        *)

LoadShift ==
  /\ tx # none /\ shift = none
  /\ shift' = tx /\ tx' = none
  /\ frames' = Frames(frames, SSO, shift')
  /\ UNCHANGED <<progVars, SSO, rx, ROE>>

(* A byte has been exchanged.  The chip's reply to byte i is i.            *)
Shifted ==
  LET f == Len(frames) IN
  /\ shift # none
  /\ frames' = [frames EXCEPT ![f] = Append(@, shift)]
  /\ rx' = Len(frames[f]) /\ ROE' = (ROE \/ rx # none)
  /\ shift' = none
  /\ UNCHANGED <<progVars, SSO, tx>>

-----------------------------------------------------------------------------
(* The program.                                                            *)

(* MAXreg_wr, MAXreg_rd, MAXbytes_wr or MAXbytes_rd is called.             *)
Call ==
  /\ pc = "idle" /\ pc' = "command"
  /\ access' \in Accesses /\ cmd' = 1 /\ data' = <<>> /\ frames' = <<>>
  /\ UNCHANGED <<written, write_zeros, read_ignore, credits, SSO, tx, shift, rx, ROE>>

(* alt_avalon_spi_command up to its loop; a stale byte is discarded.       *)
Begin ==
  /\ pc = "command" /\ pc' = "turn"
  /\ written' = 0 /\ write_zeros' = ReadLength(access, cmd)
  /\ read_ignore' = WriteLength(access, cmd)
  /\ credits' = 1
  /\ SSO' = (SSO \/ ~TOGGLE_SS_N(access, cmd))
  /\ frames' = Frames(frames, SSO', shift)
  /\ rx' = none
  /\ UNCHANGED <<access, cmd, data, tx, shift, ROE>>

TRDY == tx = none \/ shift = none
RRDY == rx # none
(* Mutant of TMT: the loop waits for a byte instead. *)
WaitsForByte == rx # none

TMT == tx = none /\ shift = none

(* A turn that sends: the byte of the caller, or a zero for the one to be  *)
(* read.  Every byte sent brings one back, after which the loop ends.      *)
Send ==
  /\ pc = "turn" /\ TRDY /\ credits > 0 /\ ~RRDY
  /\ credits' = credits - 1
  /\ \/ /\ written < WriteLength(access, cmd)
        /\ tx' = cmd - 1 /\ written' = written + 1 /\ UNCHANGED write_zeros
     \/ /\ written = WriteLength(access, cmd) /\ write_zeros > 0
        /\ tx' = ZERO /\ write_zeros' = write_zeros - 1 /\ UNCHANGED written
  /\ UNCHANGED <<pc, access, cmd, read_ignore, data, SSO, shift, rx, ROE, frames>>

(* Mutant of Receive: the byte that came with the command byte is kept. *)
ReceiveAll ==
  /\ pc = "turn" /\ RRDY /\ (credits = 0 \/ ~TRDY)
  /\ rx' = none /\ credits' = credits + 1 /\ read_ignore' = 0
  /\ data' = Append(data, [at |-> Index(access, cmd), byte |-> rx])
  /\ pc' = "drain"
  /\ UNCHANGED <<access, cmd, written, write_zeros, SSO, tx, shift, ROE, frames>>

(* A turn that takes a byte, ignored if it came while writing; it is the   *)
(* last of the command, each of which moves one.                           *)
Receive ==
  /\ pc = "turn" /\ RRDY /\ (credits = 0 \/ ~TRDY)
  /\ rx' = none /\ credits' = credits + 1
  /\ pc' = "drain"
  /\ IF read_ignore > 0 THEN read_ignore' = read_ignore - 1 /\ UNCHANGED data
     ELSE data' = Append(data, [at |-> Index(access, cmd), byte |-> rx]) /\ UNCHANGED read_ignore
  /\ UNCHANGED <<access, cmd, written, write_zeros, SSO, tx, shift, ROE, frames>>

(* The chip is let go of, unless the flags say that more is to come.       *)
Release ==
  /\ pc = "drain" /\ TMT
  /\ SSO' = (SSO /\ MERGE(access, cmd))
  /\ IF cmd < Commands(access) THEN pc' = "command" /\ cmd' = cmd + 1
     ELSE pc' = "idle" /\ UNCHANGED cmd
  /\ UNCHANGED <<access, written, write_zeros, read_ignore, credits, data, tx, shift, rx,
                 ROE, frames>>

(* A turn of either loop that finds no flag set.                           *)
Spin == pc \in {"turn", "drain"} /\ UNCHANGED spiVars

Program == Begin \/ Send \/ Receive \/ Release
Core == LoadShift \/ Shifted

SpiNext == Call \/ Program \/ Spin \/ Core

SpiSpec == SpiInit /\ [][SpiNext]_spiVars /\ WF_spiVars(Program) /\ WF_spiVars(Core)

-----------------------------------------------------------------------------
(* Properties                                                              *)

(* Whatever commands and flags it is made of, an access reaches the chip   *)
(* as one frame: the command byte and the data bytes - at least one, since *)
(* a read of no bytes, which is what XferInTransfer makes of an empty      *)
(* packet (transfer.c:208), takes a byte from the chip all the same        *)
(* (MAX3421E.c:57, 107).                                                   *)
OneFrame ==
  pc = "idle" /\ frames # <<>> =>
    frames = <<[i \in 1..(IF access.nbytes = 0 THEN 2 ELSE access.nbytes + 1) |->
                  IF i = 1 \/ ~Reads(access) THEN i - 1 ELSE ZERO]>>

(* No reply is lost, and a read of at least one byte stores the replies to *)
(* its data bytes, each at its place, in the order of the array            *)
(* (MAX3421E.c:101, altera_avalon_spi.c:107).  What a read of no bytes     *)
(* does is StoresInArray's.                                                *)
RepliesInPlace ==
  /\ ~ROE
  /\ pc = "idle" /\ frames # <<>> /\ Reads(access) /\ access.nbytes > 0 =>
       data = [i \in 1..access.nbytes |-> [at |-> i, byte |-> i]]

(* A read stores into its array alone: "read data[n] from SPI, where n     *)
(* goes from 0 to nbytes-1" (MAX3421E.c:101).  Of no bytes it reads one,   *)
(* to data + nbytes - 1 (line 107).                                        *)
StoresInArray == \A i \in 1..Len(data) : data[i].at \in 1..access.nbytes

(* The loops that wait for the core end, whenever it shifts                *)
(* (altera_avalon_spi.c:75, 119).                                          *)
AccessEnds == pc # "idle" ~> pc = "idle"

=============================================================================
