SPECIFICATION Spec
CONSTANTS
  n1 = n1
  n2 = n2
  d1 = d1
  d2 = d2
  bad = bad
  Name = {n1, n2}
  Data = {d1, d2, bad}
  BadData = {bad}
  NoData = NoData
  Garbage = Garbage
  NoSecret = NoSecret
  Contents <- MCContents
  Secrets <- NoSecrets
  Caller = {"controller", "identity"}
  Handler = {h1}
  MaxEdits = 1
INVARIANTS
  ServedFromFile
