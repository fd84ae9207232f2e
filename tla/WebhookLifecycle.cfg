SPECIFICATION FairSpec
CONSTANTS
  Starts = {a1, a2}
  Stops = {s1, s2}
  None = None
INVARIANTS TypeOK StartedIsOwned
PROPERTIES CancelledStartReturns NoListenerLeft
CHECK_DEADLOCK FALSE
