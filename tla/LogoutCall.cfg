SPECIFICATION Spec
CONSTANTS
  Clicks = {"Login", "Logout", "Call", "Hangup"}
  Keys = {}
  Others = {}
  Faults = {}
  MaxLogins = 1
  MaxQueue = 4
INVARIANTS LogoutEndsCall
CHECK_DEADLOCK FALSE
