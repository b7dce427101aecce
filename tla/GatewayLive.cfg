\* Two connections, failing statements; events play no part in shutting down.
SPECIFICATION FairSpec
CONSTANTS
  Runs = 2
  MaxEvents = 0
  NoSession = NoSession
  DBFaults = TRUE
  Crashes = FALSE
PROPERTIES
  JobFinishes
  DeafConnectionEnds
  ChildrenExit
CHECK_DEADLOCK FALSE
