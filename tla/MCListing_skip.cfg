\* A volume before the offset leaves the listing between two pages.
SPECIFICATION Spec
CONSTANTS
  Ids <- MCIds
  Listings <- MCListings
  PageSize = 2
  MaxPages = 2
  MaxChanges = 1
  PageErrors = {"NotFound", "Unavailable"}
  NoId = NoId
INVARIANTS NotFoundIsFree
CHECK_DEADLOCK FALSE
