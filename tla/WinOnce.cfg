SPECIFICATION OnceSpec
CONSTANTS
  Thread = {t1, t2, t3, t4}
  NoThread = NoThread
INVARIANTS CreatedOnce CreatedFirst SleepersHaveHope
