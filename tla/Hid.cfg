SPECIFICATION Spec
CONSTANTS
  USB_NAK_LIMIT = 2
  USB_RETRY_LIMIT = 2
  MaxPktSize0 = 2
  MaxReports = 3
  BufLen = 4
  ReportSize = 2
INVARIANTS TypeOK DataIntact ProbedDevice ReportsInOrder
PROPERTIES TransfersEnd
CHECK_DEADLOCK TRUE
