SPECIFICATION FairSpec
CONSTANTS
  Items <- MCItems
  Graphs <- MCGraphs
  Dists <- OneTied
  EntryPoint = 0
  L = 4
INVARIANTS
  SortedWithoutDuplicates
  ForgetsOnlyFarther
PROPERTIES
  ImplementsBestFirst
  AllAnswered
