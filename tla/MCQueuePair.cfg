SPECIFICATION QpSpec
CONSTANTS
  NumServers = 2
  Capacity = 11
  PollThreshold = 4
  MaxBatch = 2
  MaxHops = 2
  MaxBlind = 1
  Calls <- CallNames
INVARIANT OwnDataArrived
INVARIANT CompletionsAccounted
INVARIANT NoPostFails
PROPERTY CallsReturn
