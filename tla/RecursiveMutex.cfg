SPECIFICATION Spec
CONSTANTS
  Thread = {t1, t2, t3, t4}
  NoThread = NoThread
  MaxDepth = 3
INVARIANTS MutualExclusion NestedNeverWaits
PROPERTY LockSpec
