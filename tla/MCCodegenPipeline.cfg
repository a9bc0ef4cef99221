SPECIFICATION MCSpec
CONSTANTS
  main = main
  test = test
  manifest = manifest
  old = old
  new = new
  bad = bad
  Empty = Empty
  Torn = Torn
  Absent = Absent
  NoBackup = NoBackup
  Primary = Primary
  Fallback = Fallback
  Paths <- MCPaths
  Modules <- MCModules
  TestOf <- MCTestOf
  Manifest = manifest
  ManifestText = new
  Good <- MCGood
  Bad <- MCBad
  Language = "go"
  RequireHumanApproval = TRUE
  MAX_ATTEMPTS = 5
  MaxRuns = 2
INVARIANTS
  DeployedAsJudged
  ListedIsFresh
  DeployedAfterApproval
PROPERTY
  RunEnds
