----------------------------- MODULE GlobalLock -----------------------------
(***************************************************************************)
(* The lock behind __ghsLock and __ghsUnlock.  ind_thrd.h declares the two *)
(* functions and leaves them to the integrator of the library, so this is  *)
(* the contract that the callers in tgt/libsys rely on: one owner, and the *)
(* owner may take the lock again (__ghs_alloc calls sbrk while it holds    *)
(* the lock, and the functions that _Exit runs allocate and print).        *)
(***************************************************************************)
EXTENDS Naturals

CONSTANTS
  Thread,    (* the threads of the program             *)
  NoThread   (* not a thread: the owner of a free lock *)

VARIABLES
  owner,  (* the thread that holds the lock              *)
  depth   (* how many times the owner has yet to release *)

Init == owner = NoThread /\ depth = 0

(* Faulty: a lock that its owner cannot take again. *)
AcquireFree(t) ==
  /\ owner = NoThread
  /\ owner' = t
  /\ depth' = depth + 1

(* The caller blocks until the lock is free, unless it owns it already. *)
Acquire(t) ==
  /\ owner \in {NoThread, t}
  /\ owner' = t
  /\ depth' = depth + 1

Release(t) ==
  /\ owner = t
  /\ depth' = depth - 1
  /\ owner' = IF depth = 1 THEN NoThread ELSE t

Next == \E t \in Thread : Acquire(t) \/ Release(t)

Spec == Init /\ [][Next]_<<owner, depth>>

TypeOK ==
  /\ owner \in Thread \cup {NoThread}
  /\ depth \in Nat
  /\ owner = NoThread <=> depth = 0
=============================================================================
