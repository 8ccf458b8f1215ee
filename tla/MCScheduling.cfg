SPECIFICATION Spec
CONSTANTS
  NumServers = 2
  Threads = {t1, t2}
  QueryNum = 2
  Strategy = 3
SYMMETRY ThreadSymmetry
INVARIANTS
  NoQueryMissed
  EveryQueryInOnePlace
  RepliesMatchWaiters
  QuietShutdown
