\* Both threads use the default shard.
CONSTANTS
  t1 = t1
  t2 = t2
  x = x
  Threads = {t1, t2}
  ShardOf <- SharedShard
  Elements = {x}
  ChunkSize = 2
  MaxChunks = 2
  RefMax = 15
  MaxHolders = 1
  MaxOverrun = 1
SPECIFICATION Spec
INVARIANT NodesHaveOnePlace
