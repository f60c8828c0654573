SPECIFICATION Spec
CONSTANTS
  BufSize = 2
  Maxima <- MCMaxima
  PathMtus = {1, 2}
  MaxXmit = 2
  MaxXmitOpening = 1
  MaxProbes = 1
  MaxBytes <- MCMaxBytes
  MaxNet <- MCMaxNet
  Mtus <- MCMtus
  Closers = {"initiator"}
  Rooms = {0, 9}
  Troubles = {"WR_BLOCKING"}
INVARIANTS StreamIsIntact NothingStalls SegmentsAreTheBuffer WindowIsKept
CHECK_DEADLOCK FALSE
