SPECIFICATION DriverSpec
CONSTANTS
  v1 = v1
  v2 = v2
  t1 = t1
  t2 = t2
  t3 = t3
  a = a
  b = b
  acl1 = acl1
  Volume = {v1, v2}
  UserSnapName = {s1}
  AccessList = {acl1, everyone}
  WriteId = {}
  NoSnapshot = NoSnapshot
  NoShare = NoShare
  NoRequest = NoRequest
  Handler = {h1}
  Requests <- MCRequests
  Existing = {v1}
  MaxFaults = 1
  CallsTimeOut = FALSE
  Parameters <- MCParameters
  Target = {t1}
  Worker = {k1}
  VolumeAt <- MCVolumeAt
  NodeOf <- MCNodeOf
  ReadOnly = {}
  Flags <- MCFlags
  cfg <- MCcfgNFS
  Mode = {"0777", "0750"}
  DefaultMode = "0777"
  Unset = Unset
  Everyone = everyone
  Readers <- MCReaders
  NodeCallsTimeOut = FALSE
CHECK_DEADLOCK FALSE
INVARIANT
  ACLApplied
