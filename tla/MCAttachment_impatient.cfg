\* A CO that detaches a volume whose attach was not answered OK.
SPECIFICATION Spec
CONSTANTS
  s1 = s1  s2 = s2
  Servers = {s1, s2}
  NoServer = NoServer
  DeviceNames = {"dev"}
  Terminal = {"PermissionDenied"}
  MaxFaults = 1
  PatientCO = FALSE
  SteadyCO = TRUE
SYMMETRY ServerSymmetry
INVARIANTS UnpublishedIsFree
