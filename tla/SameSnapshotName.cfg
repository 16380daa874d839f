SPECIFICATION Spec
CONSTANTS
  v1 = v1
  v2 = v2
  v3 = v3
  s1 = s1
  acl1 = acl1
  acl2 = acl2
  Volume = {v1, v2, v3}
  UserSnapName = {s1}
  AccessList = {acl1, acl2}
  WriteId = {w1}
  NoSnapshot = NoSnapshot
  NoShare = NoShare
  NoRequest = NoRequest
  Handler = {h1, h2}
  Requests <- SameSnapshotName
  Existing = {v1, v2}
  MaxFaults = 0
  CallsTimeOut = FALSE
CHECK_DEADLOCK FALSE
INVARIANT
  SnapshotNamesUnique
