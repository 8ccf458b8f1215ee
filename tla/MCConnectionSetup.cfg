SPECIFICATION FairSpec
CONSTANTS
  NumServers = 2
  NumThreads = 1
INVARIANTS
  PairedQueuePairs
  PeersReady
PROPERTIES
  EveryServerRuns
