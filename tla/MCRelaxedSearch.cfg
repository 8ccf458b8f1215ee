SPECIFICATION FairSpec
CONSTANTS
  Items <- MCItems
  Servers <- MCServers
  Self = 0
  Home <- MCHome
  Graphs <- MCGraphs
  Cached = {1}
  Queries <- TwoQueries
  Capacity = 4
  K = 4
  Relaxes = {0, 2}
INVARIANTS
  
  StaleOnlyIfCutOff
  CopiesArrived
  CompletionsMatchPolls
  FetchedOnce
PROPERTIES
  ImplementsBestFirst
  AllAnswered
