\* Two overlapping CreateVolume calls for one name.
SPECIFICATION Spec
CONSTANTS
  c1 = c1  c2 = c2  c3 = c3  n1 = n1  p1 = p1
  Calls = {c1, c2}
  Ids <- MCIds2
  Names = {n1}
  Places = {p1}
  Requests <- MCSameRequest
  BytesInGiB = 4  MinSize = 2  MaxInt64 = 31
  MaxAttempts = 2
  Transient = {"Unavailable"}
  Terminal = {"PermissionDenied"}
  NoId = NoId  NoName = NoName  NoPlace = NoPlace
  SerialCO = FALSE
  LateEffects = FALSE
SYMMETRY CallSymmetry
INVARIANTS CreateIdempotent
CHECK_DEADLOCK FALSE
