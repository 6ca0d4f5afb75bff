\* A CO that serialises its calls per volume name, as the CSI specification asks it to, and a
\* cloud that drops a request whose sender has given up.
SPECIFICATION Spec
CONSTANTS
  c1 = c1  c2 = c2  c3 = c3  n1 = n1  p1 = p1
  Calls = {c1, c2, c3}
  Ids <- MCIds2
  Names = {n1}
  Places = {p1}
  Requests <- MCRequests
  BytesInGiB = 4  MinSize = 2  MaxInt64 = 31
  MaxAttempts = 2
  Transient = {"Unavailable"}
  Terminal = {"PermissionDenied"}
  NoId = NoId  NoName = NoName  NoPlace = NoPlace
  SerialCO = TRUE
  LateEffects = FALSE
SYMMETRY CallSymmetry
INVARIANTS TypeOK OthersUntouched CreatedFits DeletedIsGone OneVolumePerName CreateIdempotent
PROPERTIES AnswersUsableVolume ImplementsNameStore
CHECK_DEADLOCK FALSE
