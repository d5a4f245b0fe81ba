\* The four pages the host uses and page 0; Reset during the writes and
\* between writes and reads.
SPECIFICATION VramFairSpec
CONSTANTS
  PageSize = 4
  PageCount = 6
  BankCount = 1
  SC_CL = 3
  SC_RCD = 3
  INIT_PER = 2
  REF_PER = 32
  MAX_ADDR = 20
  FifoLag = 6
  Words = {1, 2, 3, 4}
  Bases = {}
  MaxFifo = 2
  Lags = {3, 6}
  ResetIn = {"FW", "PR"}
PROPERTIES WordWritten FirstReadRight SequenceEnds
CHECK_DEADLOCK TRUE
