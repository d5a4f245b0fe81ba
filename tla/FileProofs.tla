------------------------------ MODULE FileProofs ------------------------------
(***************************************************************************)
(* Proofs about the file descriptors of FileTable, for any devices, file   *)
(* systems and number of descriptors.                                      *)
(*                                                                         *)
(* That a lock keeps others out rests on alt_max_fd, which only ever       *)
(* grows: all descriptors in use are at most alt_max_fd, so the search     *)
(* of alt_open meets every lock and that of alt_fd_lock all but one user.  *)
(***************************************************************************)
EXTENDS FileTable, TLAPS

Names == Devices \cup FileSystems

Fd == [dev : Names \cup {NoDev}, EXCL : BOOLEAN, DEV : BOOLEAN, nonblock : BOOLEAN]

Listed ==
  /\ booted \in 0..3 /\ alt_max_fd \in -1..(ALT_MAX_FD - 1) /\ failed \in BOOLEAN
  /\ alt_fd_list \in [Fds -> Fd]
  /\ \A f \in Fds : alt_fd_list[f].dev = NoDev => f \notin Standard /\ alt_fd_list[f] = Free

(* Until main is called only the standard streams are there, unlocked.     *)
Booting ==
  booted < 3 =>
    \A f \in Fds : ~alt_fd_list[f].EXCL /\ (alt_fd_list[f].dev # NoDev => f \in Standard)

(* The mark has passed every descriptor in use.                            *)
Marked ==
  booted > 0 => alt_max_fd > 2 /\ \A f \in Fds : alt_fd_list[f].dev # NoDev => f <= alt_max_fd

TableInv == Listed /\ Booting /\ Marked /\ LockNearlyAlone

-----------------------------------------------------------------------------
(* Descriptors.                                                            *)

LEMMA Descriptors ==
  /\ Standard \subseteq Fds /\ NoDev \notin Names /\ Free \in Fd /\ Free.dev = NoDev /\ ~Free.EXCL
  /\ \A d \in Names, b \in BOOLEAN :
       /\ Opened(d, b) \in Fd /\ Opened(d, b).dev = d /\ ~Opened(d, b).EXCL
BY FileAssumption DEF Standard, Fds, NoDev, Names, Free, Fd, Opened

LEMMA HighWaterBounds ==
  ASSUME NEW f \in Fds, alt_max_fd \in -1..(ALT_MAX_FD - 1)
  PROVE  /\ HighWater(f) \in 0..(ALT_MAX_FD - 1)
         /\ f <= HighWater(f) /\ alt_max_fd <= HighWater(f)
BY FileAssumption DEF HighWater, Fds

(* The descriptor alt_get_fd gives is free, and no standard one.           *)
LEMMA Given ==
  ASSUME Listed, NEW f \in Fds, alt_get_fd(f)
  PROVE  f \notin Standard /\ alt_fd_list[f] = Free
BY DEF Listed, alt_get_fd, Used

(* While there is a lock on d, alt_open of d is refused.                   *)
LEMMA LockSeen ==
  ASSUME TableInv, booted = 3, NEW d \in Devices, NEW f \in Fds, alt_get_fd(f),
         Lockers(alt_fd_list, d) # {}
  PROVE  alt_file_locked(f, d)
<1>1. PICK g \in Fds : alt_fd_list[g].dev = d /\ alt_fd_list[g].EXCL
  BY DEF Lockers, Users
<1>2. g # f
  BY <1>1, Given, Descriptors DEF TableInv, Names
<1>3. alt_fd_list[g].dev # NoDev
  BY <1>1, Descriptors DEF Names
<1>4. g <= alt_max_fd
  BY <1>3 DEF TableInv, Marked
<1>5. g \in 0..HighWater(f)
  BY <1>4, HighWaterBounds DEF TableInv, Listed, Fds
<1> QED  BY <1>1, <1>2, <1>5 DEF alt_file_locked

-----------------------------------------------------------------------------
(* The steps.                                                              *)

LEMMA TableInit == FileInit => TableInv
<1> SUFFICES ASSUME FileInit PROVE TableInv
  OBVIOUS
<1>1. \A f \in Fds :
        /\ f \in Standard => alt_fd_list[f] = [Free EXCEPT !.dev = null]
        /\ f \notin Standard => alt_fd_list[f] = Free
  BY DEF FileInit
<1>2. \A f \in Standard : /\ alt_fd_list[f].dev = null /\ ~alt_fd_list[f].EXCL
                          /\ alt_fd_list[f] \in Fd
  <2>1. PICK r : r = [Free EXCEPT !.dev = null]
    OBVIOUS
  <2>2. r = [dev |-> null, EXCL |-> FALSE, DEV |-> FALSE, nonblock |-> FALSE]
    BY <2>1 DEF Free
  <2>3. r.dev = null /\ ~r.EXCL /\ r \in Fd
    BY <2>2, FileAssumption DEF Fd, Names
  <2> QED  BY <1>1, <2>1, <2>3, Descriptors
<1>3. null \in Names /\ null # NoDev
  BY FileAssumption DEF Names, NoDev
<1>4. Listed
  <2>1. failed \in BOOLEAN
    BY Zenon DEF FileInit
  <2>2. alt_fd_list \in [Fds -> Fd]
    BY <1>1, <1>2, Descriptors DEF FileInit
  <2> QED  BY <1>1, <1>2, <1>3, <2>1, <2>2, FileAssumption DEF FileInit, Listed
<1>5. Booting /\ Marked
  BY <1>1, <1>2, Descriptors DEF FileInit, Booting, Marked
<1>6. LockNearlyAlone
  BY <1>1, <1>2, Descriptors DEF LockNearlyAlone, Lockers, Users
<1> QED  BY <1>4, <1>5, <1>6 DEF TableInv

(* What open, refused or not, and redirection do to the mark.              *)
LEMMA MarkMoves ==
  ASSUME Listed, NEW f \in Fds, alt_max_fd' = HighWater(f)
  PROVE  alt_max_fd' \in 0..(ALT_MAX_FD - 1) /\ f <= alt_max_fd' /\ alt_max_fd <= alt_max_fd'
BY HighWaterBounds DEF Listed

LEMMA OpenStep ==
  ASSUME TableInv, booted = 3, UNCHANGED booted,
         NEW name \in Names, NEW nonblock \in BOOLEAN, Open(name, nonblock)
  PROVE  TableInv'
<1>1. PICK f \in Fds :
        /\ alt_get_fd(f)
        /\ name \in Devices => ~alt_file_locked(f, name)
        /\ alt_fd_list' = [alt_fd_list EXCEPT ![f] = Opened(name, nonblock)]
        /\ alt_max_fd' = HighWater(f) /\ failed' = FALSE
  BY DEF Open
<1>2. /\ f \notin Standard /\ alt_fd_list[f] = Free /\ Listed
  BY <1>1, Given DEF TableInv
<1>3. alt_max_fd' \in 0..(ALT_MAX_FD - 1) /\ f <= alt_max_fd' /\ alt_max_fd <= alt_max_fd'
  BY <1>1, <1>2, MarkMoves
<1>4. /\ Opened(name, nonblock) \in Fd /\ Opened(name, nonblock).dev = name
      /\ ~Opened(name, nonblock).EXCL /\ name # NoDev
  BY Descriptors
<1>5. /\ alt_fd_list' \in [Fds -> Fd] /\ alt_fd_list'[f] = Opened(name, nonblock)
      /\ \A g \in Fds : g # f => alt_fd_list'[g] = alt_fd_list[g]
  BY <1>1, <1>2, <1>4 DEF Listed
<1>6. Listed'
  <2>1. failed' \in BOOLEAN
    BY <1>1, Zenon
  <2> QED  BY <1>2, <1>3, <1>4, <1>5, <2>1 DEF Listed
<1>7. Booting' /\ Marked'
  BY <1>2, <1>3, <1>4, <1>5 DEF TableInv, Listed, Booting, Marked, Fds
<1>8. LockNearlyAlone'
  <2> SUFFICES ASSUME NEW d \in Devices, NEW h \in Lockers(alt_fd_list', d),
                      NEW i \in Users(alt_fd_list', d) \ {h}, NEW j \in Users(alt_fd_list', d) \ {h}
               PROVE  i = j /\ i > h
    BY DEF LockNearlyAlone
  <2>1. h # f /\ h \in Lockers(alt_fd_list, d)
    BY <1>4, <1>5 DEF Lockers, Users
  <2>2. name # d
    BY <1>1, <2>1, LockSeen
  <2>3. i \in Users(alt_fd_list, d) \ {h} /\ j \in Users(alt_fd_list, d) \ {h}
    BY <1>4, <1>5, <2>2 DEF Users
  <2> QED  BY <2>1, <2>3 DEF TableInv, LockNearlyAlone
<1> QED  BY <1>6, <1>7, <1>8 DEF TableInv

(* A refused open leaves the table as it was.                              *)
LEMMA RefusedKeeps ==
  ASSUME Listed, NEW name \in Names, OpenRefused(name)
  PROVE  /\ alt_fd_list' = alt_fd_list /\ failed' = TRUE
         /\ alt_max_fd' \in 0..(ALT_MAX_FD - 1) /\ alt_max_fd <= alt_max_fd'
<1>1. PICK f \in Fds :
        /\ alt_get_fd(f) /\ alt_max_fd' = HighWater(f) /\ failed' = TRUE
        /\ alt_fd_list' = alt_release_fd([alt_fd_list EXCEPT ![f] = Opened(name, FALSE)], f)
  BY DEF OpenRefused
<1>2. f \notin Standard /\ alt_fd_list[f] = Free
  BY <1>1, Given
<1>3. alt_fd_list' = [[alt_fd_list EXCEPT ![f] = Opened(name, FALSE)] EXCEPT ![f] = Free]
  BY <1>1, <1>2 DEF alt_release_fd
<1>4. alt_fd_list' = alt_fd_list
  BY <1>2, <1>3 DEF Listed
<1> QED  BY <1>1, <1>4, MarkMoves

(* Closing, unlocking, fcntl: a descriptor is freed, or keeps its device   *)
(* and gets no lock.                                                       *)
LEMMA LessStep ==
  ASSUME TableInv, booted = 3, UNCHANGED <<booted, alt_max_fd>>, failed' \in BOOLEAN,
         alt_fd_list' \in [Fds -> Fd],
         \A f \in Fds : \/ f \notin Standard /\ alt_fd_list'[f] = Free
                        \/ /\ alt_fd_list'[f].dev = alt_fd_list[f].dev
                           /\ alt_fd_list[f].dev = NoDev => alt_fd_list'[f] = alt_fd_list[f]
                           /\ alt_fd_list'[f].EXCL => alt_fd_list[f].EXCL
  PROVE  TableInv'
<1>1. Listed'
  BY Descriptors DEF TableInv, Listed
<1>2. Booting' /\ Marked'
  BY Descriptors DEF TableInv, Booting, Marked
<1>3. \A d \in Devices : /\ Users(alt_fd_list', d) \subseteq Users(alt_fd_list, d)
                         /\ Lockers(alt_fd_list', d) \subseteq Lockers(alt_fd_list, d)
  BY Descriptors DEF Users, Lockers, Names
<1>4. LockNearlyAlone'
  BY <1>3 DEF TableInv, LockNearlyAlone
<1> QED  BY <1>1, <1>2, <1>4 DEF TableInv

LEMMA CloseFrees ==
  ASSUME Listed, NEW f \in Fds, Close(f)
  PROVE  /\ alt_fd_list' = IF f \in Standard THEN alt_fd_list ELSE [alt_fd_list EXCEPT ![f] = Free]
         /\ failed' \in BOOLEAN /\ alt_max_fd' = alt_max_fd
         /\ failed' => alt_fd_list[f].nonblock /\ alt_fd_list[f].dev = std
<1>1. alt_fd_list[f] \in Fd
  BY DEF Listed
<1>2. (alt_fd_list[f].nonblock /\ alt_fd_list[f].dev = std) \in BOOLEAN
  BY <1>1 DEF Fd
<1>3. failed' => alt_fd_list[f].nonblock /\ alt_fd_list[f].dev = std
  BY Zenon DEF Close
<1> QED  BY <1>2, <1>3 DEF Close, alt_release_fd

LEMMA CloseStep ==
  ASSUME TableInv, booted = 3, UNCHANGED booted, NEW f \in Fds, Close(f)
  PROVE  TableInv'
<1>1. Listed
  BY DEF TableInv
<1>2. /\ alt_fd_list' = IF f \in Standard THEN alt_fd_list ELSE [alt_fd_list EXCEPT ![f] = Free]
      /\ failed' \in BOOLEAN /\ alt_max_fd' = alt_max_fd
  BY <1>1, CloseFrees
<1>3. alt_fd_list' \in [Fds -> Fd]
  BY <1>1, <1>2, Descriptors DEF Listed
<1>4. \A g \in Fds : (g \notin Standard /\ alt_fd_list'[g] = Free) \/ alt_fd_list'[g] = alt_fd_list[g]
  BY <1>1, <1>2 DEF Listed
<1> QED  BY <1>2, <1>3, <1>4, LessStep

LEMMA UnlockStep ==
  ASSUME TableInv, booted = 3, UNCHANGED booted, NEW f \in Fds,
         \/ TIOCNXCL(f) \/ \E nonblock \in BOOLEAN : F_SETFL(f, nonblock)
  PROVE  TableInv'
<1>1. Listed /\ alt_fd_list[f] \in Fd /\ alt_fd_list[f].dev # NoDev
  BY DEF TableInv, Listed, TIOCNXCL, F_SETFL, Used
<1>2. /\ failed' \in BOOLEAN /\ alt_max_fd' = alt_max_fd
      /\ \/ alt_fd_list' = [alt_fd_list EXCEPT ![f].EXCL = FALSE]
         \/ alt_fd_list' = alt_fd_list
         \/ \E nonblock \in BOOLEAN : alt_fd_list' = [alt_fd_list EXCEPT ![f].nonblock = nonblock]
  BY Zenon DEF TIOCNXCL, F_SETFL
<1>3. CASE alt_fd_list' = [alt_fd_list EXCEPT ![f].EXCL = FALSE]
  <2>1. alt_fd_list' = [alt_fd_list EXCEPT ![f] = [alt_fd_list[f] EXCEPT !.EXCL = FALSE]]
    BY <1>3
  <2>2. /\ [alt_fd_list[f] EXCEPT !.EXCL = FALSE] \in Fd
        /\ [alt_fd_list[f] EXCEPT !.EXCL = FALSE].dev = alt_fd_list[f].dev
        /\ ~[alt_fd_list[f] EXCEPT !.EXCL = FALSE].EXCL
    BY <1>1 DEF Fd
  <2>3. alt_fd_list' \in [Fds -> Fd]
    BY <1>1, <2>1, <2>2 DEF Listed
  <2>4. \A g \in Fds : IF g = f THEN alt_fd_list'[g].dev = alt_fd_list[f].dev /\ ~alt_fd_list'[g].EXCL
                                ELSE alt_fd_list'[g] = alt_fd_list[g]
    BY <1>1, <2>1, <2>2 DEF Listed
  <2> QED  BY <1>1, <1>2, <2>3, <2>4, LessStep
<1>4. CASE alt_fd_list' = alt_fd_list
  <2>1. alt_fd_list' \in [Fds -> Fd]
    BY <1>1, <1>4 DEF Listed
  <2> QED  BY <1>2, <1>4, <2>1, LessStep
<1>5. ASSUME NEW b \in BOOLEAN, alt_fd_list' = [alt_fd_list EXCEPT ![f].nonblock = b] PROVE TableInv'
  <2>1. alt_fd_list' = [alt_fd_list EXCEPT ![f] = [alt_fd_list[f] EXCEPT !.nonblock = b]]
    BY <1>5
  <2>2. /\ [alt_fd_list[f] EXCEPT !.nonblock = b] \in Fd
        /\ [alt_fd_list[f] EXCEPT !.nonblock = b].dev = alt_fd_list[f].dev
        /\ [alt_fd_list[f] EXCEPT !.nonblock = b].EXCL = alt_fd_list[f].EXCL
    BY <1>1 DEF Fd
  <2>3. alt_fd_list' \in [Fds -> Fd]
    BY <1>1, <2>1, <2>2 DEF Listed
  <2>4. \A g \in Fds : IF g = f THEN /\ alt_fd_list'[g].dev = alt_fd_list[f].dev
                                      /\ alt_fd_list'[g].EXCL = alt_fd_list[f].EXCL
                                ELSE alt_fd_list'[g] = alt_fd_list[g]
    BY <1>1, <2>1, <2>2 DEF Listed
  <2> QED  BY <1>1, <1>2, <2>3, <2>4, LessStep
<1> QED  BY <1>2, <1>3, <1>4, <1>5

LEMMA LockStep ==
  ASSUME TableInv, booted = 3, UNCHANGED booted, NEW f \in Fds, TIOCEXCL(f)
  PROVE  TableInv'
<1>1. /\ Listed /\ Marked /\ alt_fd_list[f] \in Fd /\ alt_fd_list[f].dev # NoDev
      /\ alt_max_fd \in Int /\ alt_max_fd' = alt_max_fd /\ f <= alt_max_fd
  BY DEF TableInv, Listed, Marked, TIOCEXCL, Used
<1>2. CASE alt_fd_list[f].DEV /\ Others(f) = {}
  <2>1. /\ alt_fd_list' = [alt_fd_list EXCEPT ![f] = [alt_fd_list[f] EXCEPT !.EXCL = TRUE]]
        /\ failed' = FALSE
    BY <1>2 DEF TIOCEXCL
  <2>2. /\ [alt_fd_list[f] EXCEPT !.EXCL = TRUE] \in Fd
        /\ [alt_fd_list[f] EXCEPT !.EXCL = TRUE].dev = alt_fd_list[f].dev
    BY <1>1 DEF Fd
  <2>3. /\ alt_fd_list' \in [Fds -> Fd]
        /\ alt_fd_list'[f].dev = alt_fd_list[f].dev
        /\ \A g \in Fds : g # f => alt_fd_list'[g] = alt_fd_list[g]
    BY <1>1, <2>1, <2>2 DEF Listed
  <2>4. Listed' /\ Booting' /\ Marked'
    <3>1. failed' \in BOOLEAN
      BY <2>1, Zenon
    <3> QED  BY <1>1, <2>3, <3>1 DEF Listed, Booting, Marked
  <2>5. ASSUME NEW d \in Devices, NEW h \in Lockers(alt_fd_list', d),
               NEW i \in Users(alt_fd_list', d) \ {h}, NEW j \in Users(alt_fd_list', d) \ {h}
        PROVE  i = j /\ i > h
    <3>1. /\ h \in Users(alt_fd_list, d) /\ i \in Users(alt_fd_list, d) /\ j \in Users(alt_fd_list, d)
          /\ i # h /\ j # h
      BY <2>3 DEF Lockers, Users
    <3>2. CASE h = f
      <4>1. \A g \in Users(alt_fd_list, d) : g # f => g = alt_max_fd
        <5> SUFFICES ASSUME NEW g \in Users(alt_fd_list, d), g # f PROVE g = alt_max_fd
          OBVIOUS
        <5>1. g \in Fds /\ g \in Int /\ g >= 0 /\ alt_fd_list[g].dev = alt_fd_list[f].dev
          BY <3>1, <3>2 DEF Users, Fds
        <5>2. g <= alt_max_fd
          BY <1>1, <5>1 DEF Marked
        <5>3. g \notin 0..(alt_max_fd - 1)
          BY <1>2, <5>1 DEF Others
        <5> QED  BY <1>1, <5>1, <5>2, <5>3
      <4>2. i = alt_max_fd /\ j = alt_max_fd
        BY <3>1, <3>2, <4>1
      <4> QED  BY <1>1, <3>1, <3>2, <4>2 DEF Fds
    <3>3. CASE h # f
      <4>1. h \in Lockers(alt_fd_list, d)
        BY <2>3, <3>1, <3>3 DEF Lockers, Users
      <4> QED  BY <3>1, <4>1 DEF TableInv, LockNearlyAlone
    <3> QED  BY <3>2, <3>3
  <2>6. LockNearlyAlone'
    BY <2>5 DEF LockNearlyAlone
  <2> QED  BY <2>4, <2>6 DEF TableInv
<1>3. CASE ~(alt_fd_list[f].DEV /\ Others(f) = {})
  <2>1. alt_fd_list' = alt_fd_list /\ failed' \in BOOLEAN
    BY <1>3, Zenon DEF TIOCEXCL
  <2>2. alt_fd_list' \in [Fds -> Fd]
    BY <1>1, <2>1 DEF Listed
  <2> QED  BY <1>1, <2>1, <2>2, LessStep
<1> QED  BY <1>2, <1>3

LEMMA RedirectStep ==
  ASSUME TableInv, Redirect
  PROVE  TableInv'
<1>0. Listed /\ Booting
  BY DEF TableInv
<1>1. PICK to \in Standard, f \in Fds :
        /\ alt_get_fd(f) /\ alt_max_fd' = HighWater(f) /\ failed' = FALSE
        /\ alt_fd_list' = alt_release_fd([alt_fd_list EXCEPT ![to] = Opened(std, FALSE)], f)
  <2> DEFINE to == CASE booted = 0 -> stdout [] booted = 1 -> stdin [] booted = 2 -> stderr
  <2>1. booted = 0 \/ booted = 1 \/ booted = 2
    BY <1>0 DEF Redirect, Listed
  <2>2. to \in Standard
    BY <2>1 DEF Standard, stdin, stdout, stderr
  <2>3. \E f \in Fds :
          /\ alt_get_fd(f) /\ alt_max_fd' = HighWater(f) /\ failed' = FALSE
          /\ alt_fd_list' = alt_release_fd([alt_fd_list EXCEPT ![to] = Opened(std, FALSE)], f)
    BY Zenon DEF Redirect
  <2> HIDE DEF to
  <2> QED  BY <2>2, <2>3
<1>2. booted < 3 /\ booted \in 0..3 /\ booted' = booted + 1
  BY <1>0 DEF Redirect, Listed
<1>3. f \notin Standard /\ alt_fd_list[f] = Free
  BY <1>0, <1>1, Given
<1>4. to \in Fds /\ to # f /\ f > 2
  BY <1>1, <1>3, Descriptors DEF Standard, Fds
<1>5. PICK new \in Fd : new = Opened(std, FALSE) /\ new.dev # NoDev /\ ~new.EXCL
  BY Descriptors, FileAssumption DEF Names
<1>6. alt_fd_list' = [alt_fd_list EXCEPT ![to] = Opened(std, FALSE)]
  <2>1. alt_fd_list' = [[alt_fd_list EXCEPT ![to] = Opened(std, FALSE)] EXCEPT ![f] = Free]
    BY <1>1, <1>3 DEF alt_release_fd
  <2> QED  BY <1>0, <1>3, <1>4, <2>1 DEF Listed
<1>7. /\ alt_fd_list' \in [Fds -> Fd] /\ alt_fd_list'[to] = new
      /\ \A g \in Fds : g # to => alt_fd_list'[g] = alt_fd_list[g]
  BY <1>0, <1>4, <1>5, <1>6 DEF Listed
<1>8. alt_max_fd' \in 0..(ALT_MAX_FD - 1) /\ f <= alt_max_fd'
  BY <1>0, <1>1, MarkMoves
<1>9. failed' \in BOOLEAN
  BY <1>1, Zenon
<1>10. Listed'
  <2>1. \A g \in Fds : alt_fd_list[g].dev = NoDev => g \notin Standard /\ alt_fd_list[g] = Free
    BY <1>0 DEF Listed
  <2>2. alt_fd_list'[to].dev # NoDev
    BY <1>5, <1>7
  <2>3. \A g \in Fds : alt_fd_list'[g].dev = NoDev => g \notin Standard /\ alt_fd_list'[g] = Free
    BY <1>7, <2>1, <2>2
  <2> QED  BY <1>2, <1>7, <1>8, <1>9, <2>3 DEF Listed
<1>11. \A g \in Fds : /\ alt_fd_list'[g].dev # NoDev => g \in Standard
                      /\ ~alt_fd_list'[g].EXCL
  <2>1. \A g \in Fds : /\ alt_fd_list[g].dev # NoDev => g \in Standard
                       /\ ~alt_fd_list[g].EXCL
    BY <1>0, <1>2 DEF Booting
  <2>2. to \in Standard /\ ~alt_fd_list'[to].EXCL
    BY <1>1, <1>5, <1>7
  <2> QED  BY <1>7, <2>1, <2>2
<1>12. Booting' /\ Marked'
  BY <1>4, <1>8, <1>11 DEF Booting, Marked, Standard, Fds
<1>13. LockNearlyAlone'
  BY <1>11 DEF LockNearlyAlone, Lockers, Users
<1> QED  BY <1>10, <1>12, <1>13 DEF TableInv

LEMMA SameTableStep ==
  ASSUME TableInv, booted = 3, UNCHANGED <<booted, alt_fd_list>>, failed' \in BOOLEAN,
         alt_max_fd' \in -1..(ALT_MAX_FD - 1), alt_max_fd <= alt_max_fd'
  PROVE  TableInv'
<1>1. Listed' /\ Booting'
  BY DEF TableInv, Listed, Booting
<1>2. Marked'
  BY DEF TableInv, Listed, Marked, Fds
<1>3. LockNearlyAlone'
  BY DEF TableInv, LockNearlyAlone
<1> QED  BY <1>1, <1>2, <1>3 DEF TableInv

LEMMA TableStep == TableInv /\ [FileNext]_fileVars => TableInv'
<1> SUFFICES ASSUME TableInv, [FileNext]_fileVars PROVE TableInv'
  OBVIOUS
<1>0. Listed
  BY DEF TableInv
<1>1. CASE Redirect
  BY <1>1, RedirectStep
<1>2. ASSUME booted = 3, UNCHANGED booted, NEW name \in Names \cup {missing},
             \/ \E nonblock \in BOOLEAN : Open(name, nonblock)
             \/ OpenRefused(name) \/ OpenFails(name)
      PROVE  TableInv'
  <2>1. ASSUME NEW nonblock \in BOOLEAN, Open(name, nonblock) PROVE TableInv'
    <3>1. name \in Names
      BY <2>1 DEF Open, Names
    <3> QED  BY <1>2, <2>1, <3>1, OpenStep
  <2>2. CASE OpenRefused(name)
    <3>1. name \in Names
      BY <2>2 DEF OpenRefused, Names
    <3>2. /\ alt_fd_list' = alt_fd_list /\ failed' = TRUE
          /\ alt_max_fd' \in 0..(ALT_MAX_FD - 1) /\ alt_max_fd <= alt_max_fd'
      BY <1>0, <2>2, <3>1, RefusedKeeps
    <3>3. failed' \in BOOLEAN
      BY <3>2, Zenon
    <3>4. alt_max_fd' \in -1..(ALT_MAX_FD - 1)
      BY <3>2
    <3> QED  BY <1>2, <3>2, <3>3, <3>4, SameTableStep
  <2>3. CASE OpenFails(name)
    <3>1. failed' \in BOOLEAN /\ alt_fd_list' = alt_fd_list /\ alt_max_fd' = alt_max_fd
      BY <2>3, Zenon DEF OpenFails
    <3>2. alt_max_fd' \in -1..(ALT_MAX_FD - 1) /\ alt_max_fd <= alt_max_fd'
      BY <1>0, <3>1 DEF Listed
    <3> QED  BY <1>2, <3>1, <3>2, SameTableStep
  <2> QED  BY <1>2, <2>1, <2>2, <2>3
<1>3. ASSUME booted = 3, UNCHANGED booted, NEW f \in Fds,
             \/ Close(f) \/ TIOCEXCL(f) \/ TIOCNXCL(f)
             \/ \E nonblock \in BOOLEAN : F_SETFL(f, nonblock)
      PROVE  TableInv'
  BY <1>3, CloseStep, LockStep, UnlockStep
<1>4. CASE UNCHANGED fileVars
  BY <1>4 DEF fileVars, TableInv, Listed, Booting, Marked, LockNearlyAlone
<1> QED  BY <1>1, <1>2, <1>3, <1>4 DEF FileNext, Calls, Names

-----------------------------------------------------------------------------
(* The theorems.                                                           *)

LEMMA TableInvariance == FileSpec => []TableInv
BY TableInit, TableStep, PTL DEF FileSpec

(* A free descriptor has no flag left for its next owner, and the standard *)
(* streams always lead somewhere (alt_release_fd.c:44).                    *)
THEOREM FileTypes == FileSpec => []FileTypeOK
<1>1. TableInv => FileTypeOK
  <2> SUFFICES ASSUME TableInv PROVE FileTypeOK
    OBVIOUS
  <2>1. Listed
    BY DEF TableInv
  <2>2. ASSUME NEW f \in Fds, alt_fd_list[f].dev # NoDev
        PROVE  alt_fd_list[f] \in
                 [dev : Devices \cup FileSystems, EXCL : BOOLEAN, DEV : BOOLEAN, nonblock : BOOLEAN]
    BY <2>1, <2>2 DEF Listed, Fd, Names
  <2> QED  BY <2>1, <2>2 DEF Listed, FileTypeOK
<1> QED  BY <1>1, TableInvariance, PTL

(* The holder of a lock shares its device with one descriptor at most,     *)
(* which is higher than its own (alt_fd_lock.c:61).                        *)
THEOREM NearlyAlone == FileSpec => []LockNearlyAlone
<1>1. TableInv => LockNearlyAlone
  BY DEF TableInv
<1> QED  BY <1>1, TableInvariance, PTL

(* So no device has two holders: each would be higher than the other.      *)
THEOREM OneHolder == FileSpec => []OneLockHolder
<1>1. LockNearlyAlone => OneLockHolder
  BY DEF LockNearlyAlone, OneLockHolder, Lockers, Users, Fds
<1> QED  BY <1>1, NearlyAlone, PTL

(* While a device is locked nobody else comes to it (alt_open.c:79).       *)
THEOREM LocksExclude == FileSpec => LockExcludes
<1> DEFINE NoNewUser == \A d \in Devices :
              Lockers(alt_fd_list, d) # {} /\ Lockers(alt_fd_list', d) # {}
                => Users(alt_fd_list', d) \subseteq Users(alt_fd_list, d)
<1>1. TableInv /\ [FileNext]_fileVars => [NoNewUser]_fileVars
  <2> SUFFICES ASSUME TableInv, [FileNext]_fileVars, NEW d \in Devices, Lockers(alt_fd_list, d) # {}
               PROVE  Users(alt_fd_list', d) \subseteq Users(alt_fd_list, d)
    OBVIOUS
  <2>0. Listed /\ d \in Names /\ d # NoDev
    BY Descriptors DEF TableInv, Names
  <2>1. CASE Redirect
    <3>1. booted < 3
      BY <2>1 DEF Redirect
    <3> QED  BY <3>1 DEF TableInv, Booting, Lockers, Users
  <2>2. ASSUME booted = 3, NEW name \in Names \cup {missing}, NEW nonblock \in BOOLEAN, Open(name, nonblock)
        PROVE  Users(alt_fd_list', d) \subseteq Users(alt_fd_list, d)
    <3>1. PICK f \in Fds :
            /\ alt_get_fd(f) /\ name \in Names
            /\ name \in Devices => ~alt_file_locked(f, name)
            /\ alt_fd_list' = [alt_fd_list EXCEPT ![f] = Opened(name, nonblock)]
      BY <2>2 DEF Open, Names
    <3>2. name # d
      BY <2>2, <3>1, LockSeen
    <3>3. alt_fd_list'[f].dev = name /\ \A g \in Fds : g # f => alt_fd_list'[g] = alt_fd_list[g]
      BY <2>0, <3>1, Descriptors DEF Listed
    <3> QED  BY <3>2, <3>3 DEF Users
  <2>3. ASSUME booted = 3, NEW name \in Names \cup {missing}, OpenRefused(name) \/ OpenFails(name)
        PROVE  Users(alt_fd_list', d) \subseteq Users(alt_fd_list, d)
    <3>1. alt_fd_list' = alt_fd_list
      BY <2>0, <2>3, RefusedKeeps DEF OpenRefused, OpenFails, Names
    <3> QED  BY <3>1
  <2>4. ASSUME booted = 3, NEW f \in Fds, Close(f)
        PROVE  Users(alt_fd_list', d) \subseteq Users(alt_fd_list, d)
    BY <2>0, <2>4, CloseFrees, Descriptors DEF Listed, Users
  <2>5. ASSUME NEW f \in Fds, TIOCEXCL(f) \/ TIOCNXCL(f) \/ \E nonblock \in BOOLEAN : F_SETFL(f, nonblock)
        PROVE  Users(alt_fd_list', d) \subseteq Users(alt_fd_list, d)
    <3>1. /\ alt_fd_list \in [Fds -> Fd]
          /\ \/ alt_fd_list' = alt_fd_list
             \/ \E b \in BOOLEAN : \/ alt_fd_list' = [alt_fd_list EXCEPT ![f].EXCL = b]
                                   \/ alt_fd_list' = [alt_fd_list EXCEPT ![f].nonblock = b]
      BY <2>0, <2>5, Zenon DEF TIOCEXCL, TIOCNXCL, F_SETFL, Listed
    <3>2. \A g \in Fds : alt_fd_list'[g].dev = alt_fd_list[g].dev
      BY <3>1 DEF Fd
    <3> QED  BY <3>2 DEF Users
  <2>6. CASE UNCHANGED fileVars
    BY <2>6 DEF fileVars
  <2> QED  BY <2>1, <2>2, <2>3, <2>4, <2>5, <2>6 DEF FileNext, Calls, Names
<1> QED  BY <1>1, TableInvariance, PTL DEF FileSpec, LockExcludes

(* A call that fails leaves the table alone, but for a close               *)
(* (alt_open.c:163, alt_close.c:88).                                       *)
THEOREM FailuresLeaveTable == FileSpec => FailureLeavesTable
<1> DEFINE Left == \/ alt_fd_list' = alt_fd_list
                   \/ \E f \in Fds \ Standard :
                        /\ alt_fd_list[f].nonblock /\ alt_fd_list[f].dev = std
                        /\ alt_fd_list' = [alt_fd_list EXCEPT ![f] = Free]
<1>1. TableInv /\ [FileNext]_fileVars => [failed' => Left]_fileVars
  <2> SUFFICES ASSUME TableInv, [FileNext]_fileVars, failed', ~UNCHANGED fileVars PROVE Left
    OBVIOUS
  <2>0. Listed
    BY DEF TableInv
  <2>1. ~Redirect
    BY DEF Redirect
  <2>2. ASSUME NEW name \in Names \cup {missing}, NEW nonblock \in BOOLEAN, Open(name, nonblock) PROVE FALSE
    BY <2>2 DEF Open
  <2>3. ASSUME NEW name \in Names \cup {missing}, OpenRefused(name) \/ OpenFails(name) PROVE Left
    BY <2>0, <2>3, RefusedKeeps DEF OpenRefused, OpenFails, Names
  <2>4. ASSUME NEW f \in Fds, Close(f) PROVE Left
    BY <2>0, <2>4, CloseFrees
  <2>5. ASSUME NEW f \in Fds, TIOCEXCL(f) \/ TIOCNXCL(f) \/ \E nonblock \in BOOLEAN : F_SETFL(f, nonblock)
        PROVE  Left
    BY <2>5, Zenon DEF TIOCEXCL, TIOCNXCL, F_SETFL
  <2> QED  BY <2>1, <2>2, <2>3, <2>4, <2>5 DEF FileNext, Calls, Names
<1> QED  BY <1>1, TableInvariance, PTL DEF FileSpec, FailureLeavesTable

=============================================================================
