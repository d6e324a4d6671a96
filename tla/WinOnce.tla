------------------------------- MODULE WinOnce -------------------------------
(***************************************************************************)
(* ind_lockcpp.c for multithreaded Windows: __ghsLockCpp creates each      *)
(* critical section at its first use.  A control word says how far that    *)
(* is: 0 untouched, 1 somebody has begun, 2 done.  Whoever exchanges the   *)
(* word's 0 for a 1 creates the section.  A thread that comes late may     *)
(* exchange a 2 for a 1, and has to put the 2 back.                        *)
(***************************************************************************)
EXTENDS Naturals, Threads

VARIABLES
  cntrl,    (* winOnce[i]                                                 *)
  created,  (* InitializeCriticalSection has been called                  *)
  spoiled,  (* it has been called a second time                           *)
  inside,   (* who is in the critical section                             *)
  where     (* where each thread is inside the two functions               *)

onceVars == <<cntrl, created, spoiled, inside, where>>

OnceInit ==
  /\ cntrl = 0 /\ created = FALSE /\ spoiled = FALSE
  /\ inside = NoThread
  /\ where = [t \in Thread |-> "out"]

Goto(t, from, to) == where[t] = from /\ where' = [where EXCEPT ![t] = to]
-----------------------------------------------------------------------------
(* The word is 2: enter.  Else the exchange. *)
Test(t) ==
  /\ Goto(t, "out", IF cntrl = 2 THEN "enter" ELSE "exchange")
  /\ UNCHANGED <<cntrl, created, spoiled, inside>>

(* Faulty: the exchange is a read and a write, and another thread's came in
   between: each of the two sees 0. *)
ExchangeTorn(t) ==
  /\ Goto(t, "exchange", IF cntrl \in {0, 1} THEN "create"
                         ELSE IF cntrl = 2 THEN "restore" ELSE "sleep")
  /\ cntrl' = 1
  /\ UNCHANGED <<created, spoiled, inside>>

(* Faulty: an old value of 2 is taken for a 1. *)
ExchangeWaits(t) ==
  /\ Goto(t, "exchange", IF cntrl = 0 THEN "create" ELSE "sleep")
  /\ cntrl' = 1
  /\ UNCHANGED <<created, spoiled, inside>>

(* old = InterlockedExchange(_Cntrl, 1) *)
Exchange(t) ==
  /\ Goto(t, "exchange", CASE cntrl = 0 -> "create"
                           [] cntrl = 2 -> "restore"
                           [] OTHER -> "sleep")
  /\ cntrl' = 1
  /\ UNCHANGED <<created, spoiled, inside>>

Create(t) ==
  /\ Goto(t, "create", "finish")
  /\ created' = TRUE
  /\ spoiled' = (spoiled \/ created)
  /\ UNCHANGED <<cntrl, inside>>

(* The creator says that the section is there... *)
Finish(t) ==
  /\ Goto(t, "finish", "enter")
  /\ cntrl' = 2
  /\ UNCHANGED <<created, spoiled, inside>>

(* ... and one that took the 2 away puts it back. *)
Restore(t) ==
  /\ Goto(t, "restore", "enter")
  /\ cntrl' = 2
  /\ UNCHANGED <<created, spoiled, inside>>

(* Faulty: a thread that sleeps wakes up when the creator has begun. *)
WakeEarly(t) ==
  /\ cntrl # 0
  /\ Goto(t, "sleep", "enter")
  /\ UNCHANGED <<cntrl, created, spoiled, inside>>

(* The loop around Sleep(1), until the word is 2. *)
Wake(t) ==
  /\ cntrl = 2
  /\ Goto(t, "sleep", "enter")
  /\ UNCHANGED <<cntrl, created, spoiled, inside>>

(* EnterCriticalSection and LeaveCriticalSection. *)
Enter(t) ==
  /\ inside = NoThread
  /\ Goto(t, "enter", "in")
  /\ inside' = t
  /\ UNCHANGED <<cntrl, created, spoiled>>

Leave(t) ==
  /\ Goto(t, "in", "out")
  /\ inside' = NoThread
  /\ UNCHANGED <<cntrl, created, spoiled>>

OnceNext ==
  \E t \in Thread :
    \/ Test(t) \/ Exchange(t) \/ Create(t) \/ Finish(t) \/ Restore(t) \/ Wake(t)
    \/ Enter(t) \/ Leave(t)

OnceSpec == OnceInit /\ [][OnceNext]_onceVars
-----------------------------------------------------------------------------
Labels == {"out", "exchange", "create", "finish", "restore", "sleep", "enter", "in"}

(* Every variable keeps its type. *)
OnceTypeOK ==
  /\ cntrl \in {0, 1, 2}
  /\ {created, spoiled} \subseteq BOOLEAN
  /\ inside \in Thread \cup {NoThread}
  /\ where \in [Thread -> Labels]

(* "This will initialize the critical section only once for each mutex"
   (ind_lockcpp.c), however the threads meet in the first call. *)
CreatedOnce == ~spoiled

(* Nobody tries to enter a section that is not there yet, whichever of the
   four ways through the control word a thread takes. *)
CreatedFirst == \A t \in Thread : where[t] \in {"enter", "in"} => created

(* A thread sleeps until the word is 2.  It never sleeps on a word that
   nobody is about to set to 2: the 2 that an exchange takes away is always on
   its way back. *)
SleepersHaveHope ==
  cntrl # 2 /\ (\E t \in Thread : where[t] = "sleep") =>
    \E u \in Thread : where[u] \in {"create", "finish", "restore"}

(* Why: while the word is 0 nothing has begun, and while it is 1 exactly one
   thread creates, or one puts the 2 back. *)
Busy    == {t \in Thread : where[t] \in {"create", "finish"}}
Putting == {t \in Thread : where[t] = "restore"}

WordInv ==
  /\ cntrl = 0 => ~created /\ \A t \in Thread : where[t] \in {"out", "exchange"}
  /\ cntrl = 1 => Busy \cup Putting # {}
  /\ cntrl = 2 => created /\ Busy \cup Putting = {}
  /\ \A t, u \in Busy \cup Putting : t = u
  /\ \A t \in Thread :
       /\ where[t] = "create" => ~created
       /\ where[t] \in {"finish", "restore", "enter", "in"} => created

OnceInv == OnceTypeOK /\ CreatedOnce /\ WordInv
=============================================================================
