\* Two connections, two events, failing statements and restarts.
SPECIFICATION Spec
CONSTANTS
  Runs = 2
  MaxEvents = 2
  NoSession = NoSession
  DBFaults = TRUE
  Crashes = TRUE
INVARIANTS
  EventsInOrder
  LossBound
  OneUnacked
CHECK_DEADLOCK FALSE
