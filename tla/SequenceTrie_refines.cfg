\* Two elements, so that a wrong path shows, and a reference count so narrow that
\* it overflows.
CONSTANTS
  t1 = t1
  t2 = t2
  x = x
  y = y
  Threads = {t1, t2}
  ShardOf <- OwnShards
  Elements = {x, y}
  ChunkSize = 3
  MaxChunks = 1
  RefMax = 3
  MaxHolders = 2
  MaxOverrun = 0
SPECIFICATION Spec
ACTION_CONSTRAINT OnlyThrowsAfterOverflow
INVARIANT WalkReadsPath
PROPERTY ImplementsPathStore
\* The exception ends the program.
CHECK_DEADLOCK FALSE
