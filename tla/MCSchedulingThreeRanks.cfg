SPECIFICATION FairSpec
CONSTANTS
  NumServers = 3
  Threads = {t1}
  QueryNum = 2
  Strategy = 3
INVARIANTS
  GatherUnambiguous
PROPERTIES
  ImplementsWorkPool
  Termination
