CONSTANTS
  MaxConsecutive = 2
  MaxLoss = 3
  Confidences <- MCConfidences
  Amounts <- MCAmounts
  MaxTrades = 4
  MaxEvents = 1
SPECIFICATION Spec
INVARIANTS
  BreakerMatchesHistory
  SignalsAgree
PROPERTY
  HaltedUntilReset
