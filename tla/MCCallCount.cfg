SPECIFICATION Spec
CONSTANTS
  t1 = t1
  t2 = t2
  f1 = f1
  f2 = f2
  f3 = f3
  Thread <- MCThread
  Func <- MCFunc
  Callers <- ByOne
  ChunkSize = 2
  HeapChunks = 2
  CountMod = 8
  MaxCalls = 5
INVARIANTS ListedInOrder CountsExact
PROPERTY ChunksKept
