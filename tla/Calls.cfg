SPECIFICATION FairSpec
CONSTANTS
  Sessions = {s1}
  None = None
  Helpers = {h1, h2}
  Uses <- MCUses
INVARIANTS IdleOffersCall
PROPERTIES RingingIsAttended IncomingCallEnds HangupEndsCall
CHECK_DEADLOCK FALSE
