SPECIFICATION Spec
CONSTANTS
  Empty = Empty
  d = d
  e = e
  f = f
  Path <- MCPath
  MaxEntries = {0, 1}
  Configs <- TwoAppliances
  MaxFaults = 0
CHECK_DEADLOCK FALSE
INVARIANT
  AllSnapshotsListed
