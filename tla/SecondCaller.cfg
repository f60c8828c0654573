SPECIFICATION Spec
CONSTANTS
  Sessions = {s1,s2}
  None = None
  Helpers = {h1}
  Uses <- MCBoth
INVARIANTS HangupOffered
CHECK_DEADLOCK FALSE
SYMMETRY Symmetry
CONSTRAINT Undisturbed
