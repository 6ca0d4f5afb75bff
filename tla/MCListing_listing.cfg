\* Volumes are created, change state and leave while the project is walked.
SPECIFICATION Spec
CONSTANTS
  Ids <- MCIds
  Listings <- MCListings
  PageSize = 2
  MaxPages = 2
  MaxChanges = 2
  PageErrors = {"NotFound", "Unavailable"}
  NoId = NoId
INVARIANTS TypeOK QuietWalkIsExact NothingSkipped
CHECK_DEADLOCK FALSE
