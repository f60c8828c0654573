SPECIFICATION FairSpec
CONSTANTS
  None = None
  Calls = {a, b}
  MaxPosted = 2
INVARIANTS MessagesFindTheirChannel VoiceFollowsFocus SoundThreadsEndFirst
PROPERTIES HangupReturns
CHECK_DEADLOCK FALSE
