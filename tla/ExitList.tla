------------------------------ MODULE ExitList ------------------------------
(***************************************************************************)
(* ind_exit.c: the list of functions that _Exit runs, and the way its      *)
(* users join it.  A profiling module owns one node.  It looks whether the *)
(* node's func is set, sets it, and hands the node to __ghs_at_exit, which *)
(* pushes it on the list under the global lock.  init_callgraph does so    *)
(* with no lock of its own (ind_gprf.c); __ghs_indmcount and __ghs_bcount  *)
(* are under the profile lock by then, which allows them less.             *)
(*                                                                         *)
(* _Exit walks the list with the lock held.  A function it runs may itself *)
(* join another node: the dump of one profile calls creat and write, which *)
(* "may have been compiled for profiling" (ind_mprf.c).                    *)
(***************************************************************************)
EXTENDS Naturals, Sequences, FiniteSets

CONSTANTS
  Thread, NoThread,
  Handler,     (* the nodes                                             *)
  Null,        (* no node                                               *)
  Registrars,  (* the threads that may be the first to need each node   *)
  Late         (* the node that running a node's function joins, if any *)

ASSUME ExitListAssumption ==
  /\ NoThread \notin Thread /\ Null \notin Handler
  /\ Registrars \in [Handler -> SUBSET Thread]
  /\ Late \in [Handler -> Handler \cup {Null}]

VARIABLES
  head,    (* exitlisthead                                                *)
  next,    (* the nodes' next                                             *)
  func,    (* the nodes whose func is set                                 *)
  owner, depth,   (* the global lock                                      *)
  pc,
  gae,     (* the node each thread is joining                             *)
  caller,  (* where it goes on when that is done                          *)
  el,      (* the loop variable of each thread's _Exit                    *)
  ended,   (* SYSCALL_EXIT has ended the program                          *)
  pushed,  (* history: the nodes in the order of their pushes             *)
  start,   (* history: pushed, when each thread's walk began              *)
  ran      (* history: what each thread's walk ran                        *)

list  == <<head, next, func, pushed>>
lock  == <<owner, depth>>
walk  == <<el, start, ran>>
frame == <<gae, caller>>
vars  == <<list, lock, pc, frame, walk, ended>>

Lock == INSTANCE GlobalLock

Init ==
  /\ head = Null /\ next = [h \in Handler |-> Null] /\ func = {}
  /\ Lock!Init
  /\ pc = [t \in Thread |-> "idle"]
  /\ gae = [t \in Thread |-> Null]
  /\ caller = [t \in Thread |-> "idle"]
  /\ el = [t \in Thread |-> Null]
  /\ ended = FALSE
  /\ pushed = <<>>
  /\ start = [t \in Thread |-> <<>>] /\ ran = [t \in Thread |-> <<>>]

At(t, from) == ~ended /\ pc[t] = from
Goto(t, label) == pc' = [pc EXCEPT ![t] = label]
-----------------------------------------------------------------------------
(* A thread reaches the code that needs node h on the list. *)
Join(t, h) ==
  /\ At(t, "idle") /\ t \in Registrars[h]
  /\ gae' = [gae EXCEPT ![t] = h]
  /\ caller' = [caller EXCEPT ![t] = "idle"]
  /\ Goto(t, "test")
  /\ UNCHANGED <<list, lock, walk, ended>>

(* if (!node.func) ..., under no lock in init_callgraph. *)
TestFunc(t) ==
  /\ At(t, "test")
  /\ Goto(t, IF gae[t] \in func THEN caller[t] ELSE "set")
  /\ UNCHANGED <<list, lock, frame, walk, ended>>

SetFunc(t) ==
  /\ At(t, "set")
  /\ func' = func \cup {gae[t]}
  /\ Goto(t, "atexit")
  /\ UNCHANGED <<head, next, pushed, lock, frame, walk, ended>>

(* Faulty: the push is not locked. *)
AtExitLockMissing(t) ==
  /\ At(t, "atexit")
  /\ Goto(t, "setnext")
  /\ UNCHANGED <<list, lock, frame, walk, ended>>

(* __ghs_at_exit, store by store. *)
AtExitLock(t) ==
  /\ At(t, "atexit")
  /\ Lock!Acquire(t)
  /\ Goto(t, "setnext")
  /\ UNCHANGED <<list, frame, walk, ended>>

SetNext(t) ==
  /\ At(t, "setnext")
  /\ next' = [next EXCEPT ![gae[t]] = head]
  /\ Goto(t, "sethead")
  /\ UNCHANGED <<head, func, pushed, lock, frame, walk, ended>>

SetHead(t) ==
  /\ At(t, "sethead")
  /\ head' = gae[t]
  /\ pushed' = Append(pushed, gae[t])
  /\ Goto(t, "joined")
  /\ UNCHANGED <<next, func, lock, frame, walk, ended>>

AtExitUnlock(t) ==
  /\ At(t, "joined")
  /\ Lock!Release(t)
  /\ Goto(t, caller[t])
  /\ UNCHANGED <<list, frame, walk, ended>>
-----------------------------------------------------------------------------
Exit(t) ==
  /\ At(t, "idle")
  /\ Goto(t, "exit")
  /\ UNCHANGED <<list, lock, frame, walk, ended>>

(* Faulty: the walk is not locked. *)
ExitLockMissing(t) ==
  /\ At(t, "exit")
  /\ el' = [el EXCEPT ![t] = head]
  /\ start' = [start EXCEPT ![t] = pushed]
  /\ Goto(t, "walk")
  /\ UNCHANGED <<list, lock, frame, ran, ended>>

ExitLock(t) ==
  /\ At(t, "exit")
  /\ Lock!Acquire(t)
  /\ el' = [el EXCEPT ![t] = head]
  /\ start' = [start EXCEPT ![t] = pushed]
  /\ Goto(t, "walk")
  /\ UNCHANGED <<list, frame, ran, ended>>

(* el->func(), up to what it joins to the list. *)
Call(t) ==
  /\ At(t, "walk") /\ el[t] # Null
  /\ ran' = [ran EXCEPT ![t] = Append(@, el[t])]
  /\ IF Late[el[t]] = Null
       THEN UNCHANGED frame /\ Goto(t, "advance")
       ELSE /\ gae' = [gae EXCEPT ![t] = Late[el[t]]]
            /\ caller' = [caller EXCEPT ![t] = "advance"]
            /\ Goto(t, "test")
  /\ UNCHANGED <<list, lock, el, start, ended>>

(* el = el->next, read after the function has returned. *)
Advance(t) ==
  /\ At(t, "advance")
  /\ el' = [el EXCEPT ![t] = next[@]]
  /\ Goto(t, "walk")
  /\ UNCHANGED <<list, lock, frame, start, ran, ended>>

(* Faulty: the loop ends at the last node, not after it. *)
ExitUnlockAtLast(t) ==
  /\ At(t, "walk") /\ (el[t] # Null => next[el[t]] = Null)
  /\ Lock!Release(t)
  /\ Goto(t, "syscall")
  /\ UNCHANGED <<list, frame, walk, ended>>

(* The end of the list; the lock is released before the system call. *)
ExitUnlock(t) ==
  /\ At(t, "walk") /\ el[t] = Null
  /\ Lock!Release(t)
  /\ Goto(t, "syscall")
  /\ UNCHANGED <<list, frame, walk, ended>>

(* SYSCALL_EXIT ends the program, or does nothing and _Exit loops. *)
Syscall(t) ==
  /\ At(t, "syscall")
  /\ \/ ended' = TRUE /\ pc' = pc
     \/ Goto(t, "spin") /\ ended' = FALSE
  /\ UNCHANGED <<list, lock, frame, walk>>

Step(t) ==
  \/ TestFunc(t) \/ SetFunc(t)
  \/ AtExitLock(t) \/ SetNext(t) \/ SetHead(t) \/ AtExitUnlock(t)
  \/ ExitLock(t) \/ Call(t) \/ Advance(t) \/ ExitUnlock(t) \/ Syscall(t)

Next ==
  \E t \in Thread : (\E h \in Handler : Join(t, h)) \/ Exit(t) \/ Step(t)

Spec == Init /\ [][Next]_vars

(* A thread inside _Exit or a join keeps running.  Threads compete for the
   lock a bounded number of times: each node is pushed once per registrar. *)
FairSpec == Spec /\ \A t \in Thread : WF_vars(Step(t))
-----------------------------------------------------------------------------
Labels == {"idle", "test", "set", "atexit", "setnext", "sethead", "joined",
           "exit", "walk", "advance", "syscall", "spin"}

(* Every variable keeps its type, the lock's depth included: a joining
   function takes it while _Exit holds it. *)
TypeOK ==
  /\ head \in Handler \cup {Null}
  /\ next \in [Handler -> Handler \cup {Null}]
  /\ func \subseteq Handler
  /\ Lock!TypeOK
  /\ pc \in [Thread -> Labels]
  /\ gae \in [Thread -> Handler \cup {Null}]
  /\ caller \in [Thread -> {"idle", "advance"}]
  /\ el \in [Thread -> Handler \cup {Null}]
  /\ ended \in BOOLEAN
  /\ pushed \in Seq(Handler)
  /\ start \in [Thread -> Seq(Handler)] /\ ran \in [Thread -> Seq(Handler)]

Top(s) == IF s = <<>> THEN Null ELSE s[Len(s)]
Backwards(s) == [i \in 1 .. Len(s) |-> s[Len(s) + 1 - i]]

(* The links are a stack: from head they lead through all pushed nodes,
   newest first, to the null pointer, while other threads push and walk. *)
ListIsStack ==
  /\ head = Top(pushed)
  /\ \A i \in 1 .. Len(pushed) :
       next[pushed[i]] = IF i = 1 THEN Null ELSE pushed[i - 1]

(* When _Exit has left its loop it has run every function that was on the
   list when it took the lock, once each, in the reverse of the order in which
   they were joined; functions joined during the walk change nothing. *)
WalkComplete ==
  \A t \in Thread : pc[t] \in {"syscall", "spin"} => ran[t] = Backwards(start[t])

(* Two threads that exit at once do not run functions at the same time, and
   no push comes between two functions but by the walking thread itself. *)
WalkAlone ==
  \A t, u \in Thread :
    t # u /\ pc[t] \in {"walk", "advance"} =>
      pc[u] \notin {"walk", "advance", "setnext", "sethead", "joined"}

(* _Exit ends the program, or loops because the system call did nothing: it
   is never left waiting for the lock or going round the list. *)
ExitEnds == \A t \in Thread : pc[t] = "exit" ~> (ended \/ pc[t] = "spin")

(* No two threads are ever the first to need the same node: it has one
   registrar, or it is joined only from inside a walk, under the lock. *)
OneFirst ==
  \A h \in Handler :
    \/ Registrars[h] = {}
    \/ \E t \in Thread : Registrars[h] = {t} /\ \A g \in Handler : Late[g] # h

(* The inductive invariant: who holds the lock where, which node a thread is
   joining by what right, and how far each walk has come down its list. *)
Pushing == {"setnext", "sethead", "joined"}
Joining(t) == pc[t] \in {"test", "set", "atexit"} \cup Pushing
InWalk(t)  == \/ pc[t] \in {"walk", "advance"}
              \/ Joining(t) /\ caller[t] = "advance"
Walked(t)  == pc[t] \in {"syscall", "spin"}

LockInv(t) ==
  /\ owner = t <=> (InWalk(t) \/ pc[t] \in Pushing)
  /\ owner = t => depth = IF InWalk(t) /\ pc[t] \in Pushing THEN 2 ELSE 1

JoinInv(t) ==
  Joining(t) =>
    /\ gae[t] \in Handler
    /\ caller[t] = "idle" => t \in Registrars[gae[t]]
    /\ caller[t] = "advance" => el[t] \in Handler /\ gae[t] = Late[el[t]]
    /\ pc[t] = "set" => gae[t] \notin func
    /\ pc[t] \in {"atexit", "setnext", "sethead"} =>
         gae[t] \in func /\ \A i \in 1 .. Len(pushed) : pushed[i] # gae[t]
    /\ pc[t] = "sethead" => next[gae[t]] = head

PushInv ==
  /\ \A i \in 1 .. Len(pushed) : pushed[i] \in func
  /\ \A i, j \in 1 .. Len(pushed) : pushed[i] = pushed[j] => i = j

WalkInv(t) ==
  LET n == Len(start[t])
      k == Len(ran[t])
  IN
  /\ ~(InWalk(t) \/ Walked(t)) => k = 0
  /\ InWalk(t) \/ Walked(t) =>
       /\ n <= Len(pushed) /\ \A i \in 1 .. n : start[t][i] = pushed[i]
       /\ k <= n /\ \A i \in 1 .. k : ran[t][i] = start[t][n + 1 - i]
  /\ pc[t] = "walk" => el[t] = IF k = n THEN Null ELSE start[t][n - k]
  /\ InWalk(t) /\ pc[t] # "walk" => k >= 1 /\ el[t] = start[t][n + 1 - k]
  /\ Walked(t) => k = n

IInv ==
  /\ TypeOK /\ ListIsStack /\ PushInv
  /\ \A t \in Thread : LockInv(t) /\ JoinInv(t) /\ WalkInv(t)
=============================================================================
