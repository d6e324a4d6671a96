SPECIFICATION FairSpec
CONSTANTS
  Thread = {t1, t2}
  NoThread = NoThread
  HeapBegin = 3
  HeapEnd = 12
  Space = 32
  Sizes = {1, 6}
  Aligns = {4}
  MaxCalls = 2
INVARIANTS BlocksDisjoint BlocksInHeap CallocZeroed
PROPERTIES ArenaSpec CallsReturn
CHECK_DEADLOCK FALSE
