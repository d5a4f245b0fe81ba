\* The sizes of the source.
SPECIFICATION VgaSpec
CONSTANTS
  hpixels = 799
  vlines = 524
  HSyncFirst = 656
  HSyncEnd = 752
  VSyncA = 490
  VSyncB = 491
  HVisible = 640
  VVisible = 480
INVARIANT PulseOnItsLines
CHECK_DEADLOCK TRUE
