\* One run of the plugin after the other, stopped by signals or killed.
SPECIFICATION FairSpec
CONSTANTS
  p1 = p1  p2 = p2  c1 = c1  c2 = c2
  Processes = {p1, p2}
  Calls = {c1, c2}
  Inputs <- MCInputs
  MaxSignals = 2
  Overlap = FALSE
INVARIANTS FailedStartLeavesNoSocket EndpointIsRecovered ServesIdentified
PROPERTIES NodeStartsAlone StartDecides SignalledEnds
CHECK_DEADLOCK FALSE
