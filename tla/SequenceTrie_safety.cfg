\* Two threads with a shard each, ROOT and three more nodes in two chunks, up to
\* two holders of a node.
CONSTANTS
  t1 = t1
  t2 = t2
  x = x
  Threads = {t1, t2}
  ShardOf <- OwnShards
  Elements = {x}
  ChunkSize = 2
  MaxChunks = 2
  RefMax = 15
  MaxHolders = 2
  MaxOverrun = 1
SPECIFICATION FairSpec
INVARIANTS TypeOK NodesHaveOnePlace RefCountIsExact NodesAreBacked AllReleasedAllRecycled
PROPERTY CallsReturn
