SPECIFICATION Spec
CONSTANTS
  Thread = {t1}
  NoThread = NoThread
  HeapBegin = 4
  HeapEnd = 20
  Space = 32
  Sizes = {1, 4}
  Aligns = {4}
  MaxCalls = 3
INVARIANT AllocAligned
CHECK_DEADLOCK FALSE
