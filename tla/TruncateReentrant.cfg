SPECIFICATION AllSpec
CONSTANTS
  Threads = {1, 2}
  Lengths = {2, 3}
  LBUFSIZ = 2
  MaxFaults = 0
  Path <- MCPath
  Bytes <- MCBytes
  Callers = {1, 2}
  Signal = {2, 9, 18}
  SIGKILL = 9
  Ignored = {18}
  Handler = {"handler"}
  MaxCalls = 3
  MaxNested = 2
  Thread = {"t1", "t2"}
  Routine = {"f", "g"}
  Marked = {"f"}
  MaxCount = 1
  MaxRequests = 1
  PROFBUFSIZE = 3
  MaxExpiries = 7
  Crystal = 8
  Overshoot = 2
  Ticks = {0, 100, 250, 300, 499, 500, 600, 998, 999}
  Users = {"u1", "u2"}
  MaxUses = 3
  Times = {3, 6}
  Summer = {6}
INVARIANTS
  TruncateExact
CHECK_DEADLOCK FALSE
