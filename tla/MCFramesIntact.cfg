CONSTANTS
  Callers = {c1}
  Content <- MCContent
  Capacity = 2
  MaxFrames = 3
  MaxConnects = 1
SPECIFICATION Spec
INVARIANT
  FramesIntact
CHECK_DEADLOCK FALSE
