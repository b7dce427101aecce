\* Two messages, two connections that end, one failed transaction.
SPECIFICATION OutboxFairSpec
CONSTANTS
  Messages = 2
  Resets = 2
  Faults = 1
  NoMessage = NoMessage
INVARIANT DeliveryBound
PROPERTY StoredIsCleared
CHECK_DEADLOCK FALSE
