\* A CO that stages where the volume is attached, unstages before it detaches, and repeats a
\* detach until it succeeds.
SPECIFICATION CustodySpec
CONSTANTS
  s1 = s1  s2 = s2
  Servers = {s1, s2}
  NoServer = NoServer
  DeviceNames = {"dev", "odd"}
  Terminal = {"PermissionDenied", "Conflict"}
  MaxFaults = 2
  PatientCO = TRUE
  SteadyCO = TRUE
INVARIANTS TypeOK PublishedIsAttached UnpublishedIsFree MountedWhereAttached
PROPERTIES RefusalIsReal AnswersMatchListing AttachConverges DetachConverges
