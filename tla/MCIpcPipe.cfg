CONSTANTS
  Callers = {c1, c2}
  Content <- MCContent
  Capacity = 1
  MaxFrames = 3
  MaxConnects = 2
SPECIFICATION FairSpec
INVARIANTS
  FramesAccounted
  ReceivedAsWritten
PROPERTY
  BufferMovesOn
CHECK_DEADLOCK FALSE
