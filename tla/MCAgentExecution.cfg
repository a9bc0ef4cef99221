CONSTANTS
  Agents = {a1, a2}
  Calls = {c1, c2}
  TaskIds = {1, 2}
  Priorities = {0, 2}
  ResourceUnits = {2, 4}
  Capacity = 3
  InitialAvailable = 2
  MaxRejections = 1
SPECIFICATION FairSpec
INVARIANTS
  UnitsConserved
  FinishNeverOverflows
  TrailMatchesTasks
  ResultMatchesTask
  OneResultPerTask
PROPERTIES
  FinalStatusIsFinal
  TerminatedOnlyReleases
  StrandedHeadStays
  ExecutedTaskReleases
CHECK_DEADLOCK FALSE
