SPECIFICATION LiveSpec
CONSTANTS
  U32 = 16
  ScreenSizes <- MCScreenSizes
  Requests <- MCRequests
  Encodings <- MCEncodings
  MaxCaptures = 2
  MaxWire = 2
  None = None
INVARIANTS
  CaptureIsFresh
  CaptureShowsRegion
  HandoffIsExact
PROPERTIES
  CaptureReturns
CHECK_DEADLOCK FALSE
