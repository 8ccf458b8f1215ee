SPECIFICATION ServerSpec
CONSTANTS
  num_servers = 3
  num_threads = 2
  Me = 0
  kvs_sz = 4
  buf_sz = 4
  rbf_sz = 1
  hd_sz = 1
  vertex_size = 2
  data_num = 2
  Remote <- MCRemote
  MaxReads = 3
  MaxFetches = 1
  Counts <- MCCounts
  Limits = {1, 2, 4}
INVARIANTS
  MemoryIntact
  HitsReadTheVertex
CHECK_DEADLOCK FALSE
