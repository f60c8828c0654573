SPECIFICATION MCSpec
CONSTANTS
  Sessions = {s1, s2}
  None = None
  Commands = {"CALL", "HANGUP", "ACCEPT_CALL", "REJECT_CALL", "STR_CHAT"}
INVARIANTS TypeOK NoDanglingCall FocusExists SessionHasCall OneCall
PROPERTIES EndIsAnnounced TerminateSentOnce CallsAreDisposed UnansweredCallEnds CallsAreDeleted
