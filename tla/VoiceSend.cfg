SPECIFICATION Spec
CONSTANTS
  None = None
  Calls = {a}
  MaxPosted = 2
INVARIANTS SocketOutlivesItsSender
CHECK_DEADLOCK FALSE
