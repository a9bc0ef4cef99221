CONSTANTS
  Agents = {a1, a2}
  MessageIds = {m1}
  MaxSends = 3
  ReliableDatabase = FALSE
SYMMETRY Symmetry
SPECIFICATION CommunicationSpec
INVARIANTS
  DeliveredOnce
  TrailBalanced
CHECK_DEADLOCK FALSE
