SPECIFICATION FairSpec
CONSTANTS
  Items <- MCItems
  Graphs <- MCGraphs
  Queries <- MCQueries
  Capacity = 4
  K = 2
  Skippable = {2, 5}
INVARIANTS
  LocallyOptimal
  ExactWhenPoolHoldsAll
  StaleOnlyIfUnreachable
PROPERTIES
  EveryQueryEnds
