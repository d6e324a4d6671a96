----------------------------- MODULE LockProofs -----------------------------
(***************************************************************************)
(* Proofs about the locks of ind_lockcpp.c, for any number of threads and  *)
(* any depth of nesting.  First the recursive lock made out of a plain     *)
(* mutex: mutual exclusion, that a holder never waits for itself, and that *)
(* the lock is the recursive lock of GlobalLock.  Then the creation of a   *)
(* critical section at its first use.                                      *)
(***************************************************************************)
EXTENDS RecursiveMutex, WinOnce, TLAPS

LEMMA InitInv == Init => IInv
  BY ThreadAssumption, MutexAssumption DEF Init, IInv, TypeOK, Inside

LEMMA NextInv == IInv /\ [Next]_vars => IInv'
<1> SUFFICES ASSUME IInv, [Next]_vars PROVE IInv'
  OBVIOUS
<1> USE ThreadAssumption, MutexAssumption DEF IInv, TypeOK, Inside, At, Holds
<1>1. ASSUME NEW t \in Thread, LockTest(t) PROVE IInv'
  BY <1>1 DEF LockTest
<1>2. ASSUME NEW t \in Thread, LockAgain(t) PROVE IInv'
  BY <1>2 DEF LockAgain
<1>3. ASSUME NEW t \in Thread, MutexGet(t) PROVE IInv'
  BY <1>3 DEF MutexGet
<1>4. ASSUME NEW t \in Thread, SetOwner(t) PROVE IInv'
  BY <1>4 DEF SetOwner
<1>5. ASSUME NEW t \in Thread, SetCount(t) PROVE IInv'
  BY <1>5 DEF SetCount
<1>6. ASSUME NEW t \in Thread, UnlockCount(t) PROVE IInv'
  BY <1>6 DEF UnlockCount
<1>7. ASSUME NEW t \in Thread, ClearOwner(t) PROVE IInv'
  BY <1>7 DEF ClearOwner
<1>8. ASSUME NEW t \in Thread, MutexRel(t) PROVE IInv'
  BY <1>8 DEF MutexRel
<1>9. CASE UNCHANGED vars
  BY <1>9 DEF vars
<1> QED
  BY <1>1, <1>2, <1>3, <1>4, <1>5, <1>6, <1>7, <1>8, <1>9 DEF Next, Step

LEMMA MutexInvariant == Spec => []IInv
  BY InitInv, NextInv, PTL DEF Spec

(* At most one thread is between a lock call that returned and the unlock  *)
(* call that matches it: the contract above __ghsLockCpp.                  *)
THEOREM MutexExclusion == Spec => []MutualExclusion
<1>1. IInv => MutualExclusion
  BY ThreadAssumption, MutexAssumption DEF IInv, TypeOK, Inside, MutualExclusion
<1> QED
  BY <1>1, MutexInvariant, PTL

(* The unlocked test of owner never sends the holder to wait for a mutex   *)
(* that it holds itself.                                                   *)
THEOREM MutexNested == Spec => []NestedNeverWaits
<1>1. IInv => NestedNeverWaits
  BY DEF IInv, NestedNeverWaits
<1> QED
  BY <1>1, MutexInvariant, PTL
-----------------------------------------------------------------------------
(* Holder is the one thread with held > 0. *)
LEMMA HolderOf ==
  ASSUME IInv
  PROVE  /\ \A t \in Thread : held[t] > 0 => Holder = t /\ Depth = held[t]
         /\ (\A t \in Thread : held[t] = 0) => Holder = NoThread /\ Depth = 0
<1>1. ASSUME NEW t \in Thread, held[t] > 0 PROVE Holder = t /\ Depth = held[t]
  <2>1. \A u \in Thread : held[u] > 0 => u = t
    BY <1>1, ThreadAssumption, MutexAssumption DEF IInv, TypeOK, Inside
  <2>2. Holder = t
    BY <1>1, <2>1 DEF Holder
  <2> QED
    BY <2>2, ThreadAssumption, MutexAssumption DEF Depth
<1>2. ASSUME \A t \in Thread : held[t] = 0 PROVE Holder = NoThread /\ Depth = 0
  <2>1. Holder = NoThread
    BY <1>2 DEF Holder
  <2> QED
    BY <2>1 DEF Depth
<1> QED
  BY <1>1, <1>2

(* A step changes the count of calls of one thread by one at most, and no  *)
(* other thread has any then.                                              *)
LEMMA HeldStep ==
  ASSUME IInv, [Next]_vars
  PROVE  \/ held' = held
         \/ \E t \in Thread :
              /\ \A u \in Thread : u # t => held[u] = 0 /\ held'[u] = 0
              /\ held'[t] = held[t] + 1 \/ held'[t] = held[t] - 1
<1> USE ThreadAssumption, MutexAssumption DEF IInv, TypeOK, Inside, At, Holds
<1>1. ASSUME NEW t \in Thread, LockAgain(t) \/ SetCount(t)
      PROVE  /\ \A u \in Thread : u # t => held[u] = 0 /\ held'[u] = 0
             /\ held'[t] = held[t] + 1
  BY <1>1 DEF LockAgain, SetCount
<1>2. ASSUME NEW t \in Thread, UnlockCount(t) \/ MutexRel(t), held' # held
      PROVE  /\ \A u \in Thread : u # t => held[u] = 0 /\ held'[u] = 0
             /\ held'[t] = held[t] - 1
  BY <1>2 DEF UnlockCount, MutexRel
<1>3. ASSUME NEW t \in Thread,
             LockTest(t) \/ MutexGet(t) \/ SetOwner(t) \/ ClearOwner(t)
      PROVE  held' = held
  BY <1>3 DEF LockTest, MutexGet, SetOwner, ClearOwner
<1>4. CASE UNCHANGED vars
  BY <1>4 DEF vars
<1> QED
  BY <1>1, <1>2, <1>3, <1>4 DEF Next, Step

LEMMA LockStep == IInv /\ IInv' /\ [Next]_vars => [Lock!Next]_<<Holder, Depth>>
<1> SUFFICES ASSUME IInv, IInv', [Next]_vars,
                    ~(UNCHANGED <<Holder, Depth>>)
             PROVE  Lock!Next
  OBVIOUS
<1>1. held' # held
  <2> SUFFICES ASSUME held' = held PROVE UNCHANGED <<Holder, Depth>>
    OBVIOUS
  <2>1. Holder' = Holder
    BY Zenon DEF Holder
  <2> QED
    BY <2>1 DEF Depth
<1>2. PICK t \in Thread :
        /\ \A u \in Thread : u # t => held[u] = 0 /\ held'[u] = 0
        /\ held'[t] = held[t] + 1 \/ held'[t] = held[t] - 1
  BY <1>1, HeldStep
<1>3. held[t] \in Nat /\ held'[t] \in Nat
  BY DEF IInv, TypeOK
<1>4. /\ Holder = IF held[t] > 0 THEN t ELSE NoThread
      /\ Depth = held[t]
  BY <1>2, <1>3, HolderOf
<1>5. /\ Holder' = IF held'[t] > 0 THEN t ELSE NoThread
      /\ Depth' = held'[t]
  <2>1. CASE held'[t] > 0
    <3>1. \A u \in Thread : held'[u] > 0 => u = t
      BY <1>2
    <3>2. Holder' = t
      BY <2>1, <3>1 DEF Holder
    <3> QED
      BY <2>1, <3>2, ThreadAssumption, MutexAssumption DEF Depth
  <2>2. CASE held'[t] = 0
    <3>1. Holder' = NoThread
      BY <1>2, <2>2 DEF Holder
    <3> QED
      BY <2>2, <3>1 DEF Depth
  <2> QED
    BY <1>3, <2>1, <2>2
<1>6. Lock!Acquire(t) \/ Lock!Release(t)
  BY <1>2, <1>3, <1>4, <1>5 DEF Lock!Acquire, Lock!Release
<1> QED
  BY <1>6 DEF Lock!Next

(* __ghsLockCpp and __ghsUnlockCpp implement the recursive lock that the   *)
(* rest of the library is written against.                                 *)
THEOREM MutexImplementsLock == Spec => LockSpec
<1>1. Init => Lock!Init
  BY DEF Init, Lock!Init, Holder, Depth
<1> QED
  BY <1>1, LockStep, MutexInvariant, PTL DEF Spec, LockSpec, Lock!Spec

-----------------------------------------------------------------------------
(* The control word, the threads that are to set it to 2 and the creation of
   the section agree in every reachable state. *)
LEMMA WordInvariant == OnceSpec => []OnceInv
<1>1. OnceInit => OnceInv
  <2> SUFFICES ASSUME OnceInit PROVE OnceInv
    OBVIOUS
  <2>1. OnceTypeOK
    BY DEF OnceInit, OnceTypeOK, Labels
  <2>2. CreatedOnce
    BY DEF OnceInit, CreatedOnce
  <2>3. Busy \cup Putting = {}
    BY DEF OnceInit, Busy, Putting
  <2>4. WordInv
    BY <2>3 DEF OnceInit, WordInv
  <2> QED BY <2>1, <2>2, <2>4 DEF OnceInv
<1>2. OnceInv /\ [OnceNext]_onceVars => OnceInv'
  <2> SUFFICES ASSUME OnceInv, [OnceNext]_onceVars PROVE OnceInv'
    OBVIOUS
  <2> USE DEF OnceInv, OnceTypeOK, CreatedOnce, WordInv, Busy, Putting, Labels, Goto
  <2>1. ASSUME NEW t \in Thread, Test(t) PROVE OnceInv'
    BY <2>1 DEF Test
  <2>2. ASSUME NEW t \in Thread, Exchange(t) PROVE OnceInv'
    <3>1. CASE cntrl = 0
      BY <2>2, <3>1 DEF Exchange
    <3>2. CASE cntrl = 1
      BY <2>2, <3>2 DEF Exchange
    <3>3. CASE cntrl = 2
      BY <2>2, <3>3 DEF Exchange
    <3> QED BY <3>1, <3>2, <3>3
  <2>3. ASSUME NEW t \in Thread, Create(t) PROVE OnceInv'
    BY <2>3 DEF Create
  <2>4. ASSUME NEW t \in Thread, Finish(t) PROVE OnceInv'
    BY <2>4 DEF Finish
  <2>5. ASSUME NEW t \in Thread, Restore(t) PROVE OnceInv'
    BY <2>5 DEF Restore
  <2>6. ASSUME NEW t \in Thread, Wake(t) PROVE OnceInv'
    BY <2>6 DEF Wake
  <2>7. ASSUME NEW t \in Thread, Enter(t) PROVE OnceInv'
    BY <2>7 DEF Enter
  <2>8. ASSUME NEW t \in Thread, Leave(t) PROVE OnceInv'
    BY <2>8 DEF Leave
  <2>9. CASE UNCHANGED onceVars
    BY <2>9 DEF onceVars
  <2> QED
    BY <2>1, <2>2, <2>3, <2>4, <2>5, <2>6, <2>7, <2>8, <2>9 DEF OnceNext
<1> QED BY <1>1, <1>2, PTL DEF OnceSpec

(* __ghsLockCpp calls InitializeCriticalSection once for each lock. *)
THEOREM OnceCreatedOnce == OnceSpec => []CreatedOnce
<1>1. OnceInv => CreatedOnce
  BY DEF OnceInv
<1> QED BY <1>1, WordInvariant, PTL

(* No thread gets to EnterCriticalSection before the section is there. *)
THEOREM OnceCreatedFirst == OnceSpec => []CreatedFirst
<1>1. OnceInv => CreatedFirst
  BY DEF OnceInv, WordInv, CreatedFirst
<1> QED BY <1>1, WordInvariant, PTL

(* A thread in the Sleep loop always has another that will end it. *)
THEOREM OnceSleepers == OnceSpec => []SleepersHaveHope
<1>1. OnceInv => SleepersHaveHope
  BY DEF OnceInv, OnceTypeOK, WordInv, Busy, Putting, SleepersHaveHope
<1> QED BY <1>1, WordInvariant, PTL
=============================================================================
