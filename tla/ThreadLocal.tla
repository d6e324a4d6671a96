---------------------------- MODULE ThreadLocal ----------------------------
(* The library's static data that an integrator may keep for each thread:  *)
(* errno, the result of gmtime and localtime, and the exceptions in        *)
(* flight.  Where __ghs_GetThreadLocalStorageItem returns no item of the   *)
(* thread, all threads share one.                                          *)
EXTENDS Naturals, Sequences

CONSTANTS
  Users,          \* the threads
  Summer,         \* the times at which daylight saving moves the clock
  Times,          \* what gmtime and localtime are asked for
  MaxUses         \* bound: the calls in one behaviour

ENOENT == 2
ENOMEM == 12
Items == {"Errno", "gmtime_temp", "__eh_globals"}
Global == "global"
Places == Users \cup {Global}

VARIABLES
  threads,        \* the threads that call the library
  items,          \* what a customized __ghs_GetThreadLocalStorageItem provides
  USE_THREAD_LOCAL_ERRNO, MINIMAL_STARTUP,   \* how the library is built
  errno, tm, eh,  \* place -> what it holds
  step, arg, ptr, \* of the call each thread is in
  failed,         \* the error of each thread's last failing call
  shown,          \* the time each thread last asked for, and in which form
  result,         \* the pointer gmtime or localtime returned for it
  thrown,         \* the exceptions each thread has thrown and not caught
  uses

config == <<threads, items, USE_THREAD_LOCAL_ERRNO, MINIMAL_STARTUP>>
data == <<errno, tm, eh>>
ghosts == <<failed, shown, result, thrown>>
vars == <<config, data, step, arg, ptr, ghosts, uses>>

Init ==
  /\ threads \in (SUBSET Users) \ {{}} /\ items \in SUBSET Items
  /\ USE_THREAD_LOCAL_ERRNO \in BOOLEAN /\ MINIMAL_STARTUP \in BOOLEAN
  /\ errno = [p \in Places |-> 0] /\ eh = [p \in Places |-> <<>>]
  /\ tm = [p \in Places |-> [date |-> 0, hour |-> 0, isdst |-> FALSE]]
  /\ step = [t \in Users |-> "idle"] /\ arg = [t \in Users |-> 0] /\ ptr = [t \in Users |-> Global]
  /\ failed = [t \in Users |-> 0] /\ shown = [t \in Users |-> <<>>]
  /\ result = [t \in Users |-> Global] /\ thrown = [t \in Users |-> <<>>]
  /\ uses = 0

\* A null pointer makes the caller use its global item; the exceptions' default
\* is the address of the global one.
GetThreadLocalStorageItem(t, item) == IF item \in items THEN t ELSE Global

ThreadErrno == USE_THREAD_LOCAL_ERRNO /\ ~MINIMAL_STARTUP
errno_ptr(t) == IF ThreadErrno THEN GetThreadLocalStorageItem(t, "Errno") ELSE Global

At(t, from) == t \in threads /\ step[t] = from
Goto(t, to) == step' = [step EXCEPT ![t] = to]
Use(t) == At(t, "idle") /\ uses < MaxUses /\ uses' = uses + 1

\* A library function fails: __gh_set_errno gets the pointer, then stores.
Fail(t) ==
  /\ Use(t) /\ Goto(t, "set_errno")
  /\ \E err \in {ENOENT, ENOMEM} : arg' = [arg EXCEPT ![t] = err]
  /\ ptr' = [ptr EXCEPT ![t] = errno_ptr(t)]
  /\ UNCHANGED <<config, data, ghosts>>
set_errno(t) ==
  /\ At(t, "set_errno") /\ Goto(t, "idle")
  /\ errno' = [errno EXCEPT ![ptr[t]] = arg[t]]
  /\ failed' = [failed EXCEPT ![t] = arg[t]]
  /\ UNCHANGED <<config, tm, eh, arg, ptr, shown, result, thrown, uses>>
\* Faulty: not built for the errno of a thread.
get_errnoGlobal(t) == errno[Global]
get_errno(t) == errno[errno_ptr(t)]

\* gmtime and localtime fill the item they got, field by field.
TimeItem(t) == GetThreadLocalStorageItem(t, "gmtime_temp")
CallTime(t, to) ==
  /\ Use(t) /\ Goto(t, to)
  /\ \E time \in Times : arg' = [arg EXCEPT ![t] = time]
  /\ ptr' = [ptr EXCEPT ![t] = TimeItem(t)]
  /\ shown' = [shown EXCEPT ![t] = <<>>]
  /\ UNCHANGED <<config, data, failed, result, thrown>>
gmtime(t) == CallTime(t, "date")
localtime(t) == CallTime(t, "local_date")
FillDate(t, from, to) ==
  /\ At(t, from) /\ Goto(t, to)
  /\ tm' = [tm EXCEPT ![ptr[t]].date = arg[t], ![ptr[t]].isdst = FALSE]
  /\ UNCHANGED <<config, errno, eh, arg, ptr, ghosts, uses>>
FillHour(t, from, to) ==
  /\ At(t, from) /\ Goto(t, to)
  /\ tm' = [tm EXCEPT ![ptr[t]].hour = arg[t]]
  /\ UNCHANGED <<config, errno, eh, arg, ptr, ghosts, uses>>
\* The rule of daylight saving reads the item that was filled.
Decide(t) ==
  /\ At(t, "decide")
  /\ Goto(t, IF tm[ptr[t]].date \in Summer THEN "summer" ELSE "return")
  /\ UNCHANGED <<config, data, arg, ptr, ghosts, uses>>
SetDst(t) ==
  /\ At(t, "summer") /\ Goto(t, "return")
  /\ tm' = [tm EXCEPT ![ptr[t]].hour = arg[t] + 1, ![ptr[t]].isdst = TRUE]
  /\ UNCHANGED <<config, errno, eh, arg, ptr, ghosts, uses>>
ReturnTime(t, from, moved) ==
  /\ At(t, from) /\ Goto(t, "idle")
  /\ result' = [result EXCEPT ![t] = ptr[t]]
  /\ shown' = [shown EXCEPT ![t] = <<arg[t], moved>>]
  /\ UNCHANGED <<config, data, arg, ptr, failed, thrown, uses>>
Time(t) ==
  \/ gmtime(t) \/ FillDate(t, "date", "hour") \/ FillHour(t, "hour", "returngm")
  \/ localtime(t) \/ FillDate(t, "local_date", "local_hour") \/ FillHour(t, "local_hour", "decide")
  \/ Decide(t) \/ SetDst(t)
  \/ ReturnTime(t, "returngm", FALSE) \/ ReturnTime(t, "return", arg[t] \in Summer)

\* The C++ library chains the exceptions in flight at what __get_eh_globals returns.
get_eh_globals(t) == GetThreadLocalStorageItem(t, "__eh_globals")
Throw(t) ==
  /\ Use(t)
  /\ eh' = [eh EXCEPT ![get_eh_globals(t)] = Append(@, t)]
  /\ thrown' = [thrown EXCEPT ![t] = Append(@, t)]
  /\ UNCHANGED <<config, errno, tm, step, arg, ptr, failed, shown, result>>
Catch(t) ==
  /\ At(t, "idle") /\ thrown[t] # <<>> /\ eh[get_eh_globals(t)] # <<>>
  /\ eh' = [eh EXCEPT ![get_eh_globals(t)] = SubSeq(@, 1, Len(@) - 1)]
  /\ thrown' = [thrown EXCEPT ![t] = SubSeq(@, 1, Len(@) - 1)]
  /\ UNCHANGED <<config, errno, tm, step, arg, ptr, failed, shown, result, uses>>

Next == \E t \in Users : Fail(t) \/ set_errno(t) \/ Time(t) \/ Throw(t) \/ Catch(t)

Spec == Init /\ [][Next]_vars
-----------------------------------------------------------------------------
(* Properties *)

\* Whether a thread has a copy of an item for itself, because it is provided or
\* because there is no other thread.
Alone == \A t, u \in threads : t = u
Own(item) == Alone \/ item \in items
OwnErrno == Alone \/ (ThreadErrno /\ "Errno" \in items)

\* The time a thread was told is still what it asked for, although localtime
\* reads its own result back before it is finished.
Answer(time, moved) ==
  [date |-> time, isdst |-> moved, hour |-> IF moved THEN time + 1 ELSE time]
TimeIsOwn(t) == shown[t] # <<>> => tm[result[t]] = Answer(shown[t][1], shown[t][2])

ErrnoIsOwn(t) == get_errno(t) = failed[t]
ThrownIsOwn(t) == eh[get_eh_globals(t)] = thrown[t]

\* A thread finds what it has left itself, whatever the others call meanwhile, in
\* each item that is provided for it (ind_thrd.c:17 to 45): in errno only if, as
\* line 38 says, the library is built for it.
OwnCopies ==
  \A t \in threads :
    /\ OwnErrno => ErrnoIsOwn(t)
    /\ Own("gmtime_temp") => TimeIsOwn(t)
    /\ Own("__eh_globals") => ThrownIsOwn(t)

-----------------------------------------------------------------------------
(* The inductive invariant of ThreadLocalProofs                            *)

TimeSteps == {"date", "hour", "returngm", "local_date", "local_hour", "decide", "summer", "return"}
Steps == {"idle", "set_errno"} \cup TimeSteps
Tm == [date : Nat, hour : Nat, isdst : BOOLEAN]

TypeOK ==
  /\ threads \subseteq Users
  /\ errno \in [Places -> Nat] /\ tm \in [Places -> Tm] /\ eh \in [Places -> Seq(Users)]
  /\ step \in [Users -> Steps] /\ arg \in [Users -> Nat] /\ ptr \in [Users -> Places]
  /\ failed \in [Users -> Nat] /\ result \in [Users -> Places]
  /\ shown \in [Users -> {<<>>} \cup (Nat \X BOOLEAN)]
  /\ thrown \in [Users -> Seq(Users)]

\* The pointer a call works on is the one its thread would get again.
PtrInv(t) ==
  /\ step[t] = "set_errno" => ptr[t] = errno_ptr(t)
  /\ step[t] \in TimeSteps => ptr[t] = TimeItem(t) /\ shown[t] = <<>>
  /\ shown[t] # <<>> => result[t] = TimeItem(t)

\* How far the item is filled at each step.
FillInv(t) ==
  LET item == tm[TimeItem(t)] IN
  /\ step[t] \in TimeSteps \ {"date", "local_date"} => item.date = arg[t]
  /\ step[t] \in {"hour", "local_hour", "decide", "summer", "returngm"} => item.isdst = FALSE
  /\ step[t] \in {"decide", "returngm"} => item.hour = arg[t]
  /\ step[t] = "summer" => arg[t] \in Summer
  /\ step[t] = "return" => item = Answer(arg[t], arg[t] \in Summer)

IInv ==
  /\ TypeOK
  /\ \A t \in threads : PtrInv(t) /\ (Own("gmtime_temp") => FillInv(t))
  /\ OwnCopies
===========================================================================
