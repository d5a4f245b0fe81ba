------------------------------ MODULE FileTable ------------------------------
(***************************************************************************)
(* The file descriptors of the board support package: alt_open, alt_close, *)
(* alt_fcntl, the exclusive locks of alt_ioctl and the redirection of the  *)
(* standard streams at boot.                                               *)
(*                                                                         *)
(* There is no operating system and no interrupt routine uses the table:   *)
(* a call is one step.  Calls that pass through to the device and leave    *)
(* the table alone (alt_read, alt_write, alt_lseek, alt_fstat, alt_isatty) *)
(* are left out, and so are the access modes, which only they look at.     *)
(* Descriptors are used only while they are open: what alt_close does to   *)
(* another is undefined.                                                   *)
(***************************************************************************)
EXTENDS Integers

CONSTANTS
  Devices, FileSystems,    \* alt_dev_list and alt_fs_list
  null, std,               \* devices: /dev/null, and the one of ALT_STDOUT etc.
  missing,                 \* a name that none of them has
  ALT_MAX_FD

ASSUME FileAssumption ==
  /\ {null, std} \subseteq Devices /\ Devices \cap FileSystems = {}
  /\ {missing, "none"} \cap (Devices \cup FileSystems) = {} /\ missing # "none"
  /\ ALT_MAX_FD \in Nat /\ ALT_MAX_FD > 3

VARIABLES
  booted,        \* standard streams redirected so far, in the order of alt_io_redirect
  alt_fd_list,   \* EXCL and DEV: ALT_FD_EXCL and ALT_FD_DEV of fd_flags
  alt_max_fd,
  failed         \* history: the last call returned an error

fileVars == <<booted, alt_fd_list, alt_max_fd, failed>>

Fds == 0..(ALT_MAX_FD - 1)
Standard == 0..2
stdin == 0
stdout == 1
stderr == 2

NoDev == "none"
Free == [dev |-> NoDev, EXCL |-> FALSE, DEV |-> FALSE, nonblock |-> FALSE]
Used(list) == {f \in Fds : list[f].dev # NoDev}
Users(list, d) == {f \in Fds : list[f].dev = d}
Lockers(list, d) == {f \in Users(list, d) : list[f].EXCL}

FileInit ==
  /\ booted = 0 /\ alt_max_fd = -1 /\ failed = FALSE
  /\ alt_fd_list = [f \in Fds |-> IF f \in Standard THEN [Free EXCEPT !.dev = null] ELSE Free]

(* alt_get_fd returns the first free descriptor.                           *)
alt_get_fd(f) == f \in Fds \ Used(alt_fd_list) /\ \A g \in Fds \ Used(alt_fd_list) : f <= g
NoneFree == Used(alt_fd_list) = Fds
HighWater(f) == IF f > alt_max_fd THEN f ELSE alt_max_fd

(* Mutant of alt_file_locked: the last descriptor is not looked at. *)
alt_file_locked_short(f, d) ==
  \E g \in 0..(HighWater(f) - 1) : g # f /\ alt_fd_list[g].dev = d /\ alt_fd_list[g].EXCL

(* Whether a lock keeps the descriptor f from being opened on device d.    *)
alt_file_locked(f, d) ==
  \E g \in 0..HighWater(f) : g # f /\ alt_fd_list[g].dev = d /\ alt_fd_list[g].EXCL

Opened(d, nonblock) ==
  [dev |-> d, EXCL |-> FALSE, DEV |-> d \in Devices, nonblock |-> nonblock]

(* Mutant of alt_release_fd: the flags stay. *)
alt_release_fd_flags(list, f) == IF f \in Standard THEN list ELSE [list EXCEPT ![f].dev = NoDev]

alt_release_fd(list, f) == IF f \in Standard THEN list ELSE [list EXCEPT ![f] = Free]

-----------------------------------------------------------------------------
(* Calls.                                                                  *)

(* alt_open of a device that is not locked - neither of them has an open   *)
(* function that could refuse - or of a file, to which its file system     *)
(* agrees.                                                                 *)
Open(name, nonblock) ==
  \E f \in Fds :
    /\ alt_get_fd(f) /\ name \in Devices \cup FileSystems
    /\ name \in Devices => ~alt_file_locked(f, name)
    /\ alt_fd_list' = [alt_fd_list EXCEPT ![f] = Opened(name, nonblock)]
    /\ alt_max_fd' = HighWater(f) /\ failed' = FALSE

(* Mutant of OpenRefused: the descriptor is not released. *)
OpenRefusedKeeps(name) ==
  \E f \in Fds :
    /\ alt_get_fd(f) /\ name \in Devices \cup FileSystems
    /\ name \in Devices => alt_file_locked(f, name)
    /\ alt_fd_list' = [alt_fd_list EXCEPT ![f] = Opened(name, FALSE)]
    /\ alt_max_fd' = HighWater(f) /\ failed' = TRUE

(* A lock or the file system stands against it: the descriptor allocated   *)
(* in the meantime is released.                                            *)
OpenRefused(name) ==
  \E f \in Fds :
    /\ alt_get_fd(f) /\ name \in Devices \cup FileSystems
    /\ name \in Devices => alt_file_locked(f, name)
    /\ alt_fd_list' = alt_release_fd([alt_fd_list EXCEPT ![f] = Opened(name, FALSE)], f)
    /\ alt_max_fd' = HighWater(f) /\ failed' = TRUE

OpenFails(name) ==
  /\ name = missing \/ NoneFree
  /\ failed' = TRUE /\ UNCHANGED <<alt_fd_list, alt_max_fd>>

(* alt_close releases the descriptor even if the device's close function   *)
(* reports an error, as that of the console does for pending output.       *)
Close(f) ==
  /\ f \in Used(alt_fd_list)
  /\ alt_fd_list' = alt_release_fd(alt_fd_list, f)
  /\ failed' \in {FALSE, alt_fd_list[f].nonblock /\ alt_fd_list[f].dev = std}
  /\ UNCHANGED alt_max_fd

(* What alt_fd_lock looks for; it stops one short of alt_max_fd.           *)
Others(f) == {g \in 0..(alt_max_fd - 1) : g # f /\ alt_fd_list[g].dev = alt_fd_list[f].dev}

(* ioctl(f, TIOCEXCL), which only devices know: alt_fd_lock.               *)
TIOCEXCL(f) ==
  /\ f \in Used(alt_fd_list)
  /\ IF alt_fd_list[f].DEV /\ Others(f) = {}
     THEN alt_fd_list' = [alt_fd_list EXCEPT ![f].EXCL = TRUE] /\ failed' = FALSE
     ELSE failed' = TRUE /\ UNCHANGED alt_fd_list
  /\ UNCHANGED alt_max_fd

(* ioctl(f, TIOCNXCL): alt_fd_unlock.                                      *)
TIOCNXCL(f) ==
  /\ f \in Used(alt_fd_list)
  /\ IF alt_fd_list[f].DEV
     THEN alt_fd_list' = [alt_fd_list EXCEPT ![f].EXCL = FALSE] /\ failed' = FALSE
     ELSE failed' = TRUE /\ UNCHANGED alt_fd_list
  /\ UNCHANGED alt_max_fd

(* fcntl(f, F_SETFL, flags).                                               *)
F_SETFL(f, nonblock) ==
  /\ f \in Used(alt_fd_list)
  /\ alt_fd_list' = [alt_fd_list EXCEPT ![f].nonblock = nonblock]
  /\ failed' = FALSE /\ UNCHANGED alt_max_fd

(* alt_open_fd for the next of the standard streams: opened elsewhere,     *)
(* copied and released.                                                    *)
Redirect ==
  LET to == CASE booted = 0 -> stdout [] booted = 1 -> stdin [] booted = 2 -> stderr IN
  /\ booted < 3 /\ booted' = booted + 1
  /\ \E f \in Fds :
       /\ alt_get_fd(f)
       /\ alt_fd_list' = alt_release_fd([alt_fd_list EXCEPT ![to] = Opened(std, FALSE)], f)
       /\ alt_max_fd' = HighWater(f) /\ failed' = FALSE

Calls ==
  \/ \E name \in Devices \cup FileSystems \cup {missing} :
       \/ \E nonblock \in BOOLEAN : Open(name, nonblock)
       \/ OpenRefused(name) \/ OpenFails(name)
  \/ \E f \in Fds :
       \/ Close(f) \/ TIOCEXCL(f) \/ TIOCNXCL(f)
       \/ \E nonblock \in BOOLEAN : F_SETFL(f, nonblock)

(* main is called when the streams are in place.                           *)
FileNext == Redirect \/ (booted = 3 /\ Calls /\ UNCHANGED booted)

FileSpec == FileInit /\ [][FileNext]_fileVars

-----------------------------------------------------------------------------
(* Properties                                                              *)

(* Every descriptor is free or open on something, a free one with no flag  *)
(* left for the next owner, and the standard streams always lead somewhere.*)
FileTypeOK ==
  /\ booted \in 0..3 /\ alt_max_fd \in -1..(ALT_MAX_FD - 1) /\ failed \in BOOLEAN
  /\ \A f \in Fds :
       \/ f \notin Standard /\ alt_fd_list[f] = Free
       \/ alt_fd_list[f] \in
            [dev : Devices \cup FileSystems, EXCL : BOOLEAN, DEV : BOOLEAN, nonblock : BOOLEAN]

(* No device is locked twice, although the search of alt_fd_lock misses    *)
(* the highest descriptor (alt_fd_lock.c:61).                              *)
OneLockHolder == \A d \in Devices : \A f, g \in Lockers(alt_fd_list, d) : f = g

(* The holder of a lock has the device to itself: the lock is granted "if  *)
(* there are no other open file descriptors which reference the same       *)
(* device", and "further calls to open() for this device will fail until   *)
(* the lock is released" (alt_fd_lock.c:43, 44).                           *)
LockHolderAlone ==
  \A d \in Devices : \A f \in Lockers(alt_fd_list, d) : Users(alt_fd_list, d) = {f}

(* What the code keeps of it: beside the holder of a lock there is at most *)
(* one descriptor, higher than its own, the one the search missed.         *)
LockNearlyAlone ==
  \A d \in Devices : \A f \in Lockers(alt_fd_list, d) :
    \A g, h \in Users(alt_fd_list, d) \ {f} : g = h /\ g > f

(* While a device is locked nobody else comes to it, whatever was opened   *)
(* and closed before: the search of alt_open reaches every lock there is.  *)
LockExcludes ==
  [][\A d \in Devices :
       Lockers(alt_fd_list, d) # {} /\ Lockers(alt_fd_list', d) # {}
         => Users(alt_fd_list', d) \subseteq Users(alt_fd_list, d)]_fileVars

(* A call that fails leaves the descriptors as they were, except that a    *)
(* close of the console that output is pending on (the only device whose   *)
(* close can fail, and only of a descriptor that does not block) has       *)
(* closed nevertheless.                                                    *)
FailureLeavesTable ==
  [][failed' =>
       \/ alt_fd_list' = alt_fd_list
       \/ \E f \in Fds \ Standard :
            /\ alt_fd_list[f].nonblock /\ alt_fd_list[f].dev = std
            /\ alt_fd_list' = [alt_fd_list EXCEPT ![f] = Free]]_fileVars

=============================================================================
