SPECIFICATION FairSpec
CONSTANTS
  signalling = signalling
  worker = worker
  stream = stream
  Threads = {signalling, worker, stream}
  Messages <- MCMessages
  Does <- MCDoes
  Workloads <- MCWorkloads
INVARIANTS SendersWait NothingIsForgotten
PROPERTIES CallsReturn
CHECK_DEADLOCK FALSE
