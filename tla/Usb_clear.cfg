SPECIFICATION Spec
CONSTANTS
  Keyboards = {"K"}
  Mice = {"M"}
  Others = {}
  Faulty = {"F"}
  LowSpeed = {"K"}
  Keys = {4}
  USB_NUMDEVICES = 3
INVARIANT DetachClears
CHECK_DEADLOCK TRUE
