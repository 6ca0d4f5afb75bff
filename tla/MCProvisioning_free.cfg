\* No assumption on the CO: calls overlap at will, and an abandoned request may still arrive.
SPECIFICATION FairSpec
CONSTANTS
  c1 = c1  c2 = c2  c3 = c3  n1 = n1  p1 = p1
  Calls = {c1, c2}
  Ids <- MCIds2
  Names = {n1}
  Places = {p1}
  Requests <- MCAllRequests
  BytesInGiB = 4  MinSize = 2  MaxInt64 = 31
  MaxAttempts = 2
  Transient = {"Unavailable"}
  Terminal = {"PermissionDenied"}
  NoId = NoId  NoName = NoName  NoPlace = NoPlace
  SerialCO = FALSE
  LateEffects = TRUE
INVARIANTS OthersUntouched CreatedFits DeletedIsGone
PROPERTIES EveryCallAnswered
CHECK_DEADLOCK FALSE
