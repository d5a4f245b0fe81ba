SPECIFICATION FileSpec
CONSTANTS
  Devices = {null, uart}
  FileSystems = {}
  null = null
  std = uart
  missing = missing
  ALT_MAX_FD = 6
INVARIANT LockHolderAlone
