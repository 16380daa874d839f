SPECIFICATION FairSpec
CONSTANTS
  Empty = Empty
  d = d
  e = e
  f = f
  Path <- MCPath
  MaxEntries = {0, 1, 2}
  Configs <- MCConfigs
  MaxFaults = 1
CHECK_DEADLOCK FALSE
INVARIANTS
  TypeOK
  ListedOnce
  ListingComplete
PROPERTY
  ListingEnds
