SPECIFICATION FairSpec
CONSTANTS
  Clicks = {"Login", "Logout", "Call", "Hangup"}
  Keys = {"LEFT_KEY"}
  Others = {"ACCEPT_CALL", "REJECT_CALL"}
  Faults = {"refused", "unreachable", "lost", "stream"}
  MaxLogins = 3
  MaxQueue = 4
INVARIANTS NothingOutlives ButtonsFit
PROPERTIES HandlerReturns
CHECK_DEADLOCK FALSE
