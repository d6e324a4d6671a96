--------------------------- MODULE BlockCoverage ---------------------------
(* Block coverage of ind_bcnt.c: every function joins a list on its first  *)
(* call and counts its blocks in its own table; at exit, or when the       *)
(* debugger asks, the tables that counted something go to bmon.out.  The   *)
(* list is guarded by __ghs_ProfileLock, which is the interrupt lock if    *)
(* the integrator supplies one and the global lock otherwise; the walk of  *)
(* _Exit that calls the dump always holds the global lock.                 *)
EXTENDS Naturals, FiniteSets

CONSTANTS
  Thread,
  Routine,        \* the functions of the program
  Marked,         \* those whose last block carries the marker -1
  MaxCount,       \* how far a block is counted
  MaxRequests     \* how often the debugger clears or dumps

Null == "null"
Block == {1, 2}                         \* the last one is info[len - 1]
Marker == MaxCount + 1                  \* stands for (unsigned int)-1

VARIABLES
  separate,       \* is __ghs_InterruptLock supplied?
  profiling,      \* the thread in the section of __ghs_ProfileLock
  exiting,        \* the thread in _Exit, which holds __ghsLock
  blocklisthead, inserted, next, cnt,
  func,           \* is the dump on the exit list? (set, then pushed)
  pc, routinfo, test,
  requests, ended,
  executed,       \* the functions that counted since the last clear
  file            \* what the last dump had to write, how often it wrote each
                  \* function, and whether it failed

list   == <<blocklisthead, inserted, next>>
locks  == <<separate, profiling, exiting>>
vars == <<list, locks, cnt, func, pc, routinfo, test, requests, ended, executed, file>>

Fresh(r) == [b \in Block |-> IF r \in Marked /\ b = 2 THEN Marker ELSE 0]

Unwritten == [r \in Routine |-> 0]

Init ==
  /\ separate \in BOOLEAN /\ profiling = Null /\ exiting = Null
  /\ blocklisthead = Null /\ inserted = {} /\ next = [r \in Routine |-> Null]
  /\ cnt = [r \in Routine |-> Fresh(r)]
  /\ func = "none"
  /\ pc = [t \in Thread |-> "idle"] /\ routinfo = [t \in Thread |-> Null]
  /\ test = Null /\ requests = 0 /\ ended = FALSE /\ executed = {}
  /\ file = [must |-> {}, has |-> Unwritten, failed |-> FALSE, closed |-> FALSE]

At(t, from) == ~ended /\ pc[t] = from
Goto(t, label) == pc' = [pc EXCEPT ![t] = label]
Walk == <<test, requests, ended, executed, file>>
GlobalFree(t) == exiting = Null \/ exiting = t
\* A mutant of LockFree: nobody waits for a function that is already inserted.
LockFreeIfInserted(t) == profiling = Null \/ routinfo[t] \in inserted
\* The profile lock is the global lock unless a separate one is supplied.
LockFree(t) == profiling = Null /\ (separate \/ GlobalFree(t))

\* A call of a function enters __ghs_bcount.
Enter(t) ==
  /\ At(t, "idle") /\ exiting # t
  /\ \E r \in Routine : routinfo' = [routinfo EXCEPT ![t] = r]
  /\ Goto(t, "lock")
  /\ UNCHANGED <<list, locks, cnt, func, Walk>>
ProfileLock(t) ==
  /\ At(t, "lock") /\ LockFree(t)
  /\ profiling' = t /\ Goto(t, "inserted")
  /\ UNCHANGED <<list, separate, exiting, cnt, func, routinfo, Walk>>
TestInserted(t) ==
  /\ At(t, "inserted")
  /\ Goto(t, CASE routinfo[t] \in inserted -> "unlock"
               [] routinfo[t] \notin inserted /\ blocklisthead = Null /\ func = "none" -> "setfunc"
               [] OTHER -> "insert")
  /\ UNCHANGED <<list, locks, cnt, func, routinfo, Walk>>
SetFunc(t) ==
  /\ At(t, "setfunc") /\ func' = "set" /\ Goto(t, "atexit")
  /\ UNCHANGED <<list, locks, cnt, routinfo, Walk>>
\* __ghs_at_exit takes the global lock, which nests in itself.
AtExit(t) ==
  /\ At(t, "atexit") /\ GlobalFree(t) /\ func' = "pushed" /\ Goto(t, "insert")
  /\ UNCHANGED <<list, locks, cnt, routinfo, Walk>>
Insert(t) ==
  /\ At(t, "insert") /\ inserted' = inserted \cup {routinfo[t]} /\ Goto(t, "next")
  /\ UNCHANGED <<blocklisthead, next, locks, cnt, func, routinfo, Walk>>
SetNext(t) ==
  /\ At(t, "next") /\ next' = [next EXCEPT ![routinfo[t]] = blocklisthead] /\ Goto(t, "head")
  /\ UNCHANGED <<blocklisthead, inserted, locks, cnt, func, routinfo, Walk>>
SetHead(t) ==
  /\ At(t, "head") /\ blocklisthead' = routinfo[t] /\ Goto(t, "unlock")
  /\ UNCHANGED <<inserted, next, locks, cnt, func, routinfo, Walk>>
ProfileUnlock(t) ==
  /\ At(t, "unlock") /\ profiling' = Null /\ Goto(t, "body")
  /\ UNCHANGED <<list, separate, exiting, cnt, func, routinfo, Walk>>

\* The compiled body counts its blocks without any lock, and returns.
Count(t) ==
  /\ At(t, "body")
  /\ \E b \in Block :
       /\ cnt[routinfo[t]][b] < MaxCount
       /\ cnt' = [cnt EXCEPT ![routinfo[t]][b] = @ + 1]
  /\ executed' = executed \cup {routinfo[t]}
  /\ UNCHANGED <<list, locks, func, pc, routinfo, test, requests, ended, file>>
Return(t) ==
  /\ At(t, "body") /\ Goto(t, "idle")
  /\ UNCHANGED <<list, locks, cnt, func, routinfo, Walk>>

-----------------------------------------------------------------------------
\* The functions of the list, from its head to the first that has no next.
Nth[k \in Nat] == IF k = 0 THEN blocklisthead ELSE IF Nth[k - 1] = Null THEN Null ELSE next[Nth[k - 1]]
Listed == LET reached == {k \in 1..Cardinality(Routine) : Nth[k - 1] # Null}
          IN  [k \in reached |-> Nth[k - 1]]
HasCounted(r) == \E b \in Block : cnt[r][b] # 0 /\ (b = 2 => cnt[r][b] # Marker)

Dumped(n) ==
  [r \in Routine |-> Cardinality({k \in DOMAIN Listed : k <= n /\ Listed[k] = r /\ HasCounted(r)})]

\* The debugger stops the program anywhere and calls the clear, or the dump.
ClearOf(r) == [b \in Block |-> IF b = 2 /\ cnt[r][b] = Marker THEN Marker ELSE 0]
Clear ==
  /\ ~ended /\ requests < MaxRequests /\ requests' = requests + 1
  /\ cnt' = [r \in Routine |-> IF \E k \in DOMAIN Listed : Listed[k] = r THEN ClearOf(r) ELSE cnt[r]]
  /\ executed' = {} /\ file' = [file EXCEPT !.must = {}]
  /\ UNCHANGED <<list, locks, func, pc, routinfo, test, ended>>
DebuggerDump ==
  /\ ~ended /\ requests < MaxRequests /\ requests' = requests + 1
  /\ func # "none" /\ test = Null /\ exiting = Null
  /\ \E failed \in BOOLEAN, n \in 0..Cardinality(Routine) :
       /\ ~failed => n = Cardinality(Routine)
       /\ file' = [must |-> executed, has |-> Dumped(n), failed |-> failed, closed |-> TRUE]
  /\ UNCHANGED <<list, locks, cnt, func, pc, routinfo, test, ended, executed>>

\* A thread calls _Exit, which takes the global lock and runs the dump if the
\* dump is on the exit list by then.
Exit(t) ==
  /\ At(t, "idle") /\ exiting = Null
  /\ ~separate => profiling = Null
  /\ exiting' = t
  /\ IF func = "pushed"
     THEN Goto(t, "creat") /\ UNCHANGED file
     ELSE /\ Goto(t, "end")
          /\ file' = [must |-> executed, has |-> Unwritten, failed |-> FALSE, closed |-> TRUE]
  /\ UNCHANGED <<list, separate, profiling, cnt, func, routinfo, test, requests, ended, executed>>
Creat(t) ==
  /\ At(t, "creat")
  /\ \E failed \in BOOLEAN :
       /\ file' = [must |-> executed, has |-> Unwritten, failed |-> failed, closed |-> failed]
       /\ Goto(t, IF failed THEN "end" ELSE "write")
  /\ test' = blocklisthead
  /\ UNCHANGED <<list, locks, cnt, func, routinfo, requests, ended, executed>>
Write(t) ==
  /\ At(t, "write") /\ test # Null
  /\ IF HasCounted(test)
     THEN \/ /\ file' = [file EXCEPT !.has[test] = @ + 1]
             /\ test' = next[test] /\ UNCHANGED pc
          \/ /\ file' = [file EXCEPT !.failed = TRUE, !.closed = TRUE]
             /\ Goto(t, "end") /\ UNCHANGED test
     ELSE test' = next[test] /\ UNCHANGED <<pc, file>>
  /\ UNCHANGED <<list, locks, cnt, func, routinfo, requests, ended, executed>>
Close(t) ==
  /\ At(t, "write") /\ test = Null
  /\ file' = [file EXCEPT !.closed = TRUE] /\ Goto(t, "end")
  /\ UNCHANGED <<list, locks, cnt, func, routinfo, test, requests, ended, executed>>
End(t) ==
  /\ At(t, "end") /\ ended' = TRUE
  /\ UNCHANGED <<list, locks, cnt, func, pc, routinfo, test, requests, executed, file>>

Step(t) ==
  \/ Enter(t) \/ ProfileLock(t) \/ TestInserted(t) \/ SetFunc(t) \/ AtExit(t)
  \/ Insert(t) \/ SetNext(t) \/ SetHead(t) \/ ProfileUnlock(t) \/ Count(t) \/ Return(t)
  \/ Exit(t) \/ Creat(t) \/ Write(t) \/ Close(t) \/ End(t)

Next == Clear \/ DebuggerDump \/ \E t \in Thread : Step(t)

Spec == Init /\ [][Next]_vars

(* ------------------------------ properties ------------------------------ *)

\* A dump that met no failure holds each function that counted a block between
\* the last clear and its start exactly once, whatever other threads insert
\* meanwhile and wherever the debugger stopped them.
CoverageComplete ==
  file.closed /\ ~file.failed =>
    \A r \in Routine : file.has[r] <= 1 /\ (r \in file.must => file.has[r] = 1)
===========================================================================
