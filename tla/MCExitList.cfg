SPECIFICATION FairSpec
CONSTANTS
  t1 = t1
  t2 = t2
  t3 = t3
  Thread <- MCThread
  NoThread = NoThread
  Null = Null
  Handler <- MCHandler
  Registrars <- OneEach
  Late <- MCLate
INVARIANTS ListIsStack WalkComplete WalkAlone
PROPERTY ExitEnds
CHECK_DEADLOCK FALSE
