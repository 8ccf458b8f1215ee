SPECIFICATION Spec
CONSTANTS
  Queries <- MCQueries
  K = 2
  Cases <- MCCases
  Root = 0
INVARIANT MergedIsNearest
INVARIANT RecallCountsRows
PROPERTY AllExit
