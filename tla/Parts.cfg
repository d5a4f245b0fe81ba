\* Game: a column between the walls and the board's edge, and one beyond the
\* board.  Picture: every pulse and porch of the source at a small size.
SPECIFICATION Spec
CONSTANTS
  board_width = 1
  board_height = 4
  frames_per_move = 1
  XMod = 4
  BoardBits = 3
  hpixels = 9
  vlines = 10
  HSyncFirst = 6
  HSyncEnd = 8
  VSyncA = 6
  VSyncB = 7
  HVisible = 5
  VVisible = 4
  MaxBytes = 8
  Alarms = {uart, user}
  WRAP = 6
  Intervals = {0, 1, 4}
  Results = {0, 1, 3, 5}
  Devices = {null, uart}
  FileSystems = {fs}
  null = null
  std = uart
  missing = missing
  ALT_MAX_FD = 7
INVARIANTS
  PileInv
  SyncOutsidePicture
  OneFrame RepliesInPlace
  FileTypeOK
PROPERTIES
  LandedStay PlaysColumnDrop PiecesKeepLanding
  SweepsPicture FrameEdgeInBlanking PictureKeepsComing
  AccessEnds
  AlarmsOnTime
  LockExcludes FailureLeavesTable
CHECK_DEADLOCK TRUE
