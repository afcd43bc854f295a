CONSTANTS
  Room = {x}
  Client = {c1, c2}
  QueueLen = 1
  SendLen = 1
  MaxEvents = 2
SPECIFICATION Spec
INVARIANTS TypeOK HubNeverPanics NothingSkipped
PROPERTIES SocketsEnd
CHECK_DEADLOCK FALSE
