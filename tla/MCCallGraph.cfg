CONSTANTS
  Levels = 3
  Tails <- MCTails
  Heads = {g, h}
  Buckets <- MCBuckets
  HashOf <- MCHashOf
  PoolSize = 2
  MaxCalls = 4
SPECIFICATION Spec
INVARIANTS ListsWellFormed CountsExact LossReported
PROPERTY DumpIsLast
