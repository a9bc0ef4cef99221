CONSTANTS
  Agents = {a1}
  Callers = {c1, c2}
  Host = c1
  MemoryIds = {m1}
  MaxWrites = 2
  PermissionSets <- MCPermissionSets
SPECIFICATION MCSpec
CONSTRAINT Bound
INVARIANTS
  ForgetTrailIsTruthful
  DeletedAtMostOnce
PROPERTY
  OnlyTheWindowMisleads
