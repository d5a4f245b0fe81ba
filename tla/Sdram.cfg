\* Two banks of two rows of two columns; the host moves within two pages.
SPECIFICATION Spec
CONSTANTS
  PageSize = 2
  PageCount = 1
  BankCount = 2
  SC_CL = 3
  SC_RCD = 3
  INIT_PER = 2
  REF_PER = 29
  MAX_ADDR = 3
  FifoLag = 2
  Words = {1}
  Bases = {2}
  MaxFifo = 2
INVARIANTS TypeOK RowsInTurn ModeNotLost RefreshServed
PROPERTIES ServesPort
CHECK_DEADLOCK TRUE
