SPECIFICATION FairSpec
CONSTANTS
  t1 = t1
  t2 = t2
  primary = primary
  fallback = fallback
  Nothing = Nothing
  Threads <- MCThreads
  Calls <- MCCalls
  Models <- MCModels
  MaxConcurrent = 1
  RateLimit = 2
  Threshold = 2
  MAX_ENTRIES = 1
INVARIANTS
  PermitsConserved
  OpenIffThresholdReached
  WithheldNotGenerated
PROPERTY
  RequestEnds
