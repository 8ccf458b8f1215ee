SPECIFICATION BktSpec
CONSTANTS
  NumBuckets = 3
  BaseNum = 4
  Graphs <- TwoGraphs
  DataBytes = 2
  Row <- Rows
  KvstoreSize = 80
INVARIANTS
  ListHoldsPairs
CHECK_DEADLOCK FALSE
