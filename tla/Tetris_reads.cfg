\* One key press after another, no Reset.
SPECIFICATION VramSpec
CONSTANTS
  PageSize = 4
  PageCount = 6
  BankCount = 1
  SC_CL = 3
  SC_RCD = 3
  INIT_PER = 2
  REF_PER = 32
  MAX_ADDR = 20
  FifoLag = 6
  Words = {1, 2, 3, 4}
  Bases = {}
  MaxFifo = 2
  Lags = {3, 6}
  ResetIn = {}
PROPERTY ReadsLoadedAddress
CHECK_DEADLOCK TRUE
