SPECIFICATION Spec
CONSTANTS
  pkg = pkg
  tmp = tmp
  v1 = v1
  v2 = v2
  bad = bad
  Empty = Empty
  Torn = Torn
  Absent = Absent
  NoBackup = NoBackup
  Paths <- MCPaths
  Good <- MCGood
  Bad <- MCBad
  MaxAuditLogs = 3
INVARIANTS
  RecordIsTrue
  OverwrittenIsBackedUp
  LastEntryIsTheRecord
