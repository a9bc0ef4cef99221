SPECIFICATION RouterSpec
CONSTANTS
  BufferSize = 2
  MaxMessages = 4
  MaxArrivals = 2
INVARIANTS
  AcceptedIsKept
  TwiceOnlyUnacked
CHECK_DEADLOCK FALSE
