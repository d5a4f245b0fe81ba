SPECIFICATION FairSpec
CONSTANTS
  Keyboards = {"K"}
  Mice = {"M"}
  Others = {"D"}
  Faulty = {"F"}
  LowSpeed = {"K"}
  Keys = {4}
  USB_NUMDEVICES = 3
INVARIANTS NoTrafficInReset DriverMatchesDevice SpeedMatches
PROPERTIES KeycodeFromKeyboard EnumerationEnds
CHECK_DEADLOCK TRUE
