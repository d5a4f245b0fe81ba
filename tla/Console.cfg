CONSTANTS
  BUF_LEN = 3
  WRITE_DEPTH = 1
  WRITE_THRESHOLD = 0
  READ_DEPTH = 2
  READ_THRESHOLD = 0
  DEFAULT_TIMEOUT = 2
  Timeouts = {0}
  INACTIVE_MAX = 2
  MaxCount = 3
SPECIFICATION Spec
INVARIANTS OutputInOrder InputConserved InterruptsEnabled
PROPERTIES CallsReturn BytesMove
