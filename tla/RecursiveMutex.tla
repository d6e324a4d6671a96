--------------------------- MODULE RecursiveMutex ---------------------------
(***************************************************************************)
(* ind_lockcpp.c: __ghsLockCpp and __ghsUnlockCpp where the system offers  *)
(* a plain mutex only (Chorus, Solaris, OSE, LynxOS) and the library makes *)
(* a recursive lock out of it.  The three locks do not touch each other:   *)
(* this is one of them.  The system's own lock call succeeds here: what    *)
(* happens where it fails is not modelled.                                 *)
(*                                                                         *)
(* owner is tested without holding the mutex.  What makes that work is the *)
(* order of the statements ("DO NOT CHANGE"), so each access to the shared *)
(* words is a step of its own.                                             *)
(***************************************************************************)
EXTENDS Naturals, Threads

CONSTANT
  MaxDepth      (* bound: how deep a thread nests the lock                *)

ASSUME MutexAssumption == MaxDepth \in Nat \ {0}

VARIABLES
  mutex,   (* the system's mutex: who holds it                            *)
  owner,   (* rm->owner; NoThread is THREAD_ID_NIL                        *)
  count,   (* rm->count                                                   *)
  pc,      (* where each thread is inside the two functions               *)
  held     (* history: lock calls of each thread that returned, less the
              unlock calls                                                *)

vars == <<mutex, owner, count, pc, held>>

At(t, from, to) == pc[t] = from /\ pc' = [pc EXCEPT ![t] = to]
Holds(t, n) == held' = [held EXCEPT ![t] = n]

Init ==
  /\ mutex = NoThread /\ owner = NoThread
  /\ count \in {0, 1}   \* the OSE initializer says 1, the others 0
  /\ pc = [t \in Thread |-> "out"]
  /\ held = [t \in Thread |-> 0]
-----------------------------------------------------------------------------
(* Faulty variants, each with a mistake of the kind the warning in the     *)
(* source is about: a count or an owner that is not (re)set.               *)
LockAgainUncounted(t) == At(t, "count++", "out") /\ Holds(t, held[t] + 1)
                         /\ UNCHANGED <<mutex, owner, count>>
SetOwnerForgotten(t) == At(t, "owner=me", "count=1")
                        /\ UNCHANGED <<mutex, owner, count, held>>
ClearOwnerForgotten(t) == At(t, "owner=nil", "release")
                          /\ UNCHANGED <<mutex, owner, count, held>>

(* __ghsLockCpp: the test of rm->owner, with no lock held. *)
LockTest(t) ==
  /\ held[t] < MaxDepth
  /\ At(t, "out", IF owner = t THEN "count++" ELSE "get")
  /\ UNCHANGED <<mutex, owner, count, held>>

LockAgain(t) ==
  /\ At(t, "count++", "out")
  /\ count' = count + 1
  /\ Holds(t, held[t] + 1)
  /\ UNCHANGED <<mutex, owner>>

MutexGet(t) ==
  /\ At(t, "get", "owner=me")
  /\ mutex = NoThread
  /\ mutex' = t
  /\ UNCHANGED <<owner, count, held>>

SetOwner(t) ==
  /\ At(t, "owner=me", "count=1")
  /\ owner' = t
  /\ UNCHANGED <<mutex, count, held>>

SetCount(t) ==
  /\ At(t, "count=1", "out")
  /\ count' = 1
  /\ Holds(t, held[t] + 1)
  /\ UNCHANGED <<mutex, owner>>

(* __ghsUnlockCpp, by a thread whose lock call returned. *)
UnlockCount(t) ==
  /\ held[t] > 0
  /\ At(t, "out", IF count = 1 THEN "owner=nil" ELSE "out")
  /\ count' = count - 1
  /\ Holds(t, IF count = 1 THEN held[t] ELSE held[t] - 1)
  /\ UNCHANGED <<mutex, owner>>

ClearOwner(t) ==
  /\ At(t, "owner=nil", "release")
  /\ owner' = NoThread
  /\ UNCHANGED <<mutex, count, held>>

MutexRel(t) ==
  /\ At(t, "release", "out")
  /\ mutex' = NoThread
  /\ Holds(t, held[t] - 1)
  /\ UNCHANGED <<owner, count>>

Step(t) ==
  \/ LockTest(t) \/ LockAgain(t) \/ MutexGet(t) \/ SetOwner(t) \/ SetCount(t)
  \/ UnlockCount(t) \/ ClearOwner(t) \/ MutexRel(t)

Next == \E t \in Thread : Step(t)

Spec == Init /\ [][Next]_vars
-----------------------------------------------------------------------------
(* The words of the struct RecursiveMutex keep to their types. *)
TypeOK ==
  /\ mutex \in Thread \cup {NoThread}
  /\ owner \in Thread \cup {NoThread}
  /\ count \in Nat
  /\ pc \in [Thread -> {"out", "count++", "get", "owner=me", "count=1",
                        "owner=nil", "release"}]
  /\ held \in [Thread -> 0 .. MaxDepth]

(* "A thread can return from this function only if no other thread has     *)
(* called it with the same value of 'i' without releasing the lock"        *)
(* (ind_lockcpp.c).                                                        *)
MutualExclusion ==
  \A t, u \in Thread : held[t] > 0 /\ held[u] > 0 => t = u

(* A thread that has the lock never waits for the mutex when it locks      *)
(* again: owner, read with no lock held, is never out of date for the      *)
(* thread it is about.                                                     *)
NestedNeverWaits == \A t \in Thread : pc[t] = "get" => held[t] = 0

(* Seen from outside, this is the recursive lock the library relies on.    *)
Holder ==
  IF \E t \in Thread : held[t] > 0
    THEN CHOOSE t \in Thread : held[t] > 0
    ELSE NoThread

Depth == IF Holder = NoThread THEN 0 ELSE held[Holder]

Lock == INSTANCE GlobalLock WITH owner <- Holder, depth <- Depth
LockSpec == Lock!Spec

(* The inductive invariant: which words say what about the thread that     *)
(* holds the mutex, step by step.                                          *)
Inside(t) ==
  held[t] > 0 \/ pc[t] \in {"owner=me", "count=1", "owner=nil", "release"}

IInv ==
  /\ TypeOK
  /\ \A t \in Thread :
       /\ mutex = t <=> Inside(t)
       /\ owner = t <=> mutex = t /\ pc[t] \notin {"owner=me", "release"}
       /\ pc[t] \in {"out", "count++"} /\ held[t] > 0 => count = held[t]
       /\ pc[t] = "count++" => held[t] \in 1 .. MaxDepth - 1
       /\ pc[t] \in {"get", "owner=me", "count=1"} => held[t] = 0
       /\ pc[t] \in {"owner=nil", "release"} => held[t] = 1 /\ count = 0
=============================================================================
