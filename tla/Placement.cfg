SPECIFICATION Spec
CONSTANTS
  Empty = Empty
  NoRequest = NoRequest
  cfg <- MCcfg
  Datasets <- MCDatasets
  OldVolumes <- MCOldVolumes
  Requests <- MCRequests
  Handler = {h1, h2}
  MaxFaults = 2
CHECK_DEADLOCK FALSE
SYMMETRY HandlerSymmetry
INVARIANTS
  IDLeadsToVolume
  PlacedAsAsked
  TypeOK
  NoStrayCopies
