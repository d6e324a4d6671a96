--------------------------- MODULE ExitListProofs ---------------------------
(***************************************************************************)
(* What ExitList guarantees for any threads and nodes, if no two threads   *)
(* are the first to need the same node.                                    *)
(***************************************************************************)
EXTENDS ExitList, TLAPS

LEMMA Sequences ==
  ASSUME NEW S, NEW s \in Seq(S), NEW e \in S
  PROVE  /\ Append(s, e) \in Seq(S) /\ Len(s) \in Nat
         /\ Len(Append(s, e)) = Len(s) + 1
         /\ \A i \in 1 .. Len(s) : Append(s, e)[i] = s[i] /\ s[i] \in S
         /\ Append(s, e)[Len(s) + 1] = e
  OBVIOUS

LEMMA Countdown ==
  ASSUME NEW n \in Nat, NEW k \in Nat, k <= n
  PROVE  /\ k >= 1 => n + 1 - k \in 1 .. n
         /\ k # n => n - k \in 1 .. n /\ k + 1 <= n
         /\ n + 1 - (k + 1) = n - k
         /\ \A i \in 1 .. k : n + 1 - i \in 1 .. n
  OBVIOUS

LEMMA InitType == Init => TypeOK
<1>1. <<>> \in Seq(Handler)
  OBVIOUS
<1> SUFFICES ASSUME Init PROVE TypeOK
  OBVIOUS
<1>2. /\ pushed \in Seq(Handler)
      /\ start \in [Thread -> Seq(Handler)] /\ ran \in [Thread -> Seq(Handler)]
  BY <1>1 DEF Init
<1>3. Lock!TypeOK
  BY ExitListAssumption DEF Init, Lock!Init, Lock!TypeOK
<1> QED
  BY <1>2, <1>3 DEF Init, TypeOK, Labels

LEMMA LockType ==
  ASSUME Lock!TypeOK, NEW t \in Thread, Lock!Acquire(t) \/ Lock!Release(t)
  PROVE  Lock!TypeOK'
  BY ExitListAssumption DEF Lock!TypeOK, Lock!Acquire, Lock!Release

(* The node a walk is at is a node of the list as it was at the start. *)
LEMMA WalkAt ==
  ASSUME IInv, NEW t \in Thread
  PROVE  /\ Len(start[t]) \in Nat /\ Len(ran[t]) \in Nat /\ Len(pushed) \in Nat
         /\ InWalk(t) /\ pc[t] # "walk" => el[t] \in Handler
         /\ \A i \in 1 .. Len(pushed) : pushed[i] \in Handler
         /\ \A i \in 1 .. Len(start[t]) : start[t][i] \in Handler
<1>1. start[t] \in Seq(Handler) /\ ran[t] \in Seq(Handler) /\ pushed \in Seq(Handler)
  BY DEF IInv, TypeOK
<1>2. /\ Len(start[t]) \in Nat /\ Len(ran[t]) \in Nat /\ Len(pushed) \in Nat
      /\ \A i \in 1 .. Len(pushed) : pushed[i] \in Handler
      /\ \A i \in 1 .. Len(start[t]) : start[t][i] \in Handler
  BY <1>1
<1>3. WalkInv(t)
  BY DEF IInv
<1>4. ASSUME InWalk(t), pc[t] # "walk" PROVE el[t] \in Handler
  <2>1. /\ Len(ran[t]) >= 1 /\ Len(ran[t]) <= Len(start[t])
        /\ el[t] = start[t][Len(start[t]) + 1 - Len(ran[t])]
    BY <1>3, <1>4 DEF WalkInv
  <2>2. Len(start[t]) + 1 - Len(ran[t]) \in 1 .. Len(start[t])
    BY <2>1, <1>2, Countdown
  <2> QED
    BY <2>1, <2>2, <1>2
<1> QED
  BY <1>2, <1>4

LEMMA NextType == IInv /\ [Next]_vars => TypeOK'
<1> SUFFICES ASSUME IInv, [Next]_vars PROVE TypeOK'
  OBVIOUS
<1> TypeOK /\ \A t \in Thread : JoinInv(t)
  BY DEF IInv
<1> USE ExitListAssumption DEF Goto, At, Labels, list, lock, walk, frame
<1>1. ASSUME NEW t \in Thread, NEW h \in Handler, Join(t, h) PROVE TypeOK'
  BY <1>1 DEF TypeOK, Join, Lock!TypeOK
<1>2. ASSUME NEW t \in Thread, TestFunc(t) PROVE TypeOK'
  BY <1>2 DEF TypeOK, TestFunc, Lock!TypeOK
<1>3. ASSUME NEW t \in Thread, SetFunc(t) PROVE TypeOK'
  BY <1>3 DEF TypeOK, SetFunc, Lock!TypeOK, JoinInv, Joining
<1>4. ASSUME NEW t \in Thread, AtExitLock(t) PROVE TypeOK'
  BY <1>4, LockType DEF TypeOK, AtExitLock
<1>5. ASSUME NEW t \in Thread, SetNext(t) PROVE TypeOK'
  BY <1>5 DEF TypeOK, SetNext, Lock!TypeOK
<1>6. ASSUME NEW t \in Thread, SetHead(t) PROVE TypeOK'
  <2>1. gae[t] \in Handler
    BY <1>6 DEF SetHead, JoinInv, Joining, Pushing
  <2>2. pushed' \in Seq(Handler)
    BY <1>6, <2>1, Sequences DEF SetHead, TypeOK
  <2> QED
    BY <1>6, <2>1, <2>2 DEF TypeOK, SetHead, Lock!TypeOK
<1>7. ASSUME NEW t \in Thread, AtExitUnlock(t) PROVE TypeOK'
  BY <1>7, LockType DEF TypeOK, AtExitUnlock
<1>8. ASSUME NEW t \in Thread, Exit(t) PROVE TypeOK'
  BY <1>8 DEF TypeOK, Exit, Lock!TypeOK
<1>9. ASSUME NEW t \in Thread, ExitLock(t) PROVE TypeOK'
  BY <1>9, LockType DEF TypeOK, ExitLock
<1>10. ASSUME NEW t \in Thread, Call(t) PROVE TypeOK'
  <2>1. el[t] \in Handler /\ Late[el[t]] \in Handler \cup {Null}
    BY <1>10 DEF Call, TypeOK
  <2>2. ran' \in [Thread -> Seq(Handler)]
    BY <1>10, <2>1, Sequences DEF Call, TypeOK
  <2>3. pc' \in [Thread -> Labels] /\ gae' \in [Thread -> Handler \cup {Null}]
        /\ caller' \in [Thread -> {"idle", "advance"}]
    BY <1>10, <2>1 DEF Call, TypeOK
  <2> QED
    BY <1>10, <2>2, <2>3 DEF TypeOK, Call, Lock!TypeOK
<1>11. ASSUME NEW t \in Thread, Advance(t) PROVE TypeOK'
  <2>1. el[t] \in Handler
    BY <1>11, WalkAt DEF Advance, InWalk
  <2> QED
    BY <1>11, <2>1 DEF TypeOK, Advance, Lock!TypeOK
<1>12. ASSUME NEW t \in Thread, ExitUnlock(t) PROVE TypeOK'
  BY <1>12, LockType DEF TypeOK, ExitUnlock
<1>13. ASSUME NEW t \in Thread, Syscall(t) PROVE TypeOK'
  BY <1>13 DEF TypeOK, Syscall, Lock!TypeOK
<1>14. CASE UNCHANGED vars
  BY <1>14 DEF TypeOK, vars, Lock!TypeOK
<1> QED
  BY <1>1, <1>2, <1>3, <1>4, <1>5, <1>6, <1>7, <1>8, <1>9, <1>10, <1>11, <1>12,
     <1>13, <1>14 DEF Next, Step
-----------------------------------------------------------------------------
LEMMA InitInv == Init => IInv
<1> SUFFICES ASSUME Init PROVE IInv
  OBVIOUS
<1>1. TypeOK
  BY InitType
<1>2. ListIsStack /\ PushInv
  BY DEF Init, ListIsStack, PushInv, Top
<1>3. \A t \in Thread : LockInv(t) /\ JoinInv(t)
  BY ExitListAssumption
  DEF Init, Lock!Init, LockInv, JoinInv, Joining, InWalk, Pushing
<1>4. \A t \in Thread : WalkInv(t)
  BY DEF Init, WalkInv, Joining, InWalk, Walked, Pushing
<1> QED
  BY <1>1, <1>2, <1>3, <1>4 DEF IInv

(* Who holds the lock, and how often, in every step. *)
LEMMA LockNext ==
  ASSUME IInv, [Next]_vars, NEW u \in Thread
  PROVE  LockInv(u)'
<1> TypeOK /\ \A t \in Thread : LockInv(t)
  BY DEF IInv
<1> USE ExitListAssumption
    DEF Goto, At, Labels, list, lock, walk, frame, TypeOK, LockInv, InWalk, Joining,
        Pushing
<1>0. ASSUME NEW t \in Thread, NEW h \in Handler, Join(t, h) PROVE LockInv(u)'
  BY <1>0 DEF Join
<1>1. ASSUME NEW t \in Thread, TestFunc(t) PROVE LockInv(u)'
  BY <1>1 DEF TestFunc
<1>2. ASSUME NEW t \in Thread, SetFunc(t) PROVE LockInv(u)'
  BY <1>2 DEF SetFunc
<1>3. ASSUME NEW t \in Thread, AtExitLock(t) PROVE LockInv(u)'
  BY <1>3 DEF AtExitLock, Lock!Acquire, Lock!TypeOK
<1>4. ASSUME NEW t \in Thread, SetNext(t) PROVE LockInv(u)'
  BY <1>4 DEF SetNext
<1>5. ASSUME NEW t \in Thread, SetHead(t) PROVE LockInv(u)'
  BY <1>5 DEF SetHead
<1>6. ASSUME NEW t \in Thread, AtExitUnlock(t) PROVE LockInv(u)'
  BY <1>6 DEF AtExitUnlock, Lock!Release, Lock!TypeOK
<1>7. ASSUME NEW t \in Thread, Exit(t) PROVE LockInv(u)'
  BY <1>7 DEF Exit
<1>8. ASSUME NEW t \in Thread, ExitLock(t) PROVE LockInv(u)'
  BY <1>8 DEF ExitLock, Lock!Acquire, Lock!TypeOK
<1>9. ASSUME NEW t \in Thread, Call(t) PROVE LockInv(u)'
  BY <1>9 DEF Call
<1>10. ASSUME NEW t \in Thread, Advance(t) PROVE LockInv(u)'
  BY <1>10 DEF Advance
<1>11. ASSUME NEW t \in Thread, ExitUnlock(t) PROVE LockInv(u)'
  BY <1>11 DEF ExitUnlock, Lock!Release, Lock!TypeOK
<1>12. ASSUME NEW t \in Thread, Syscall(t) PROVE LockInv(u)'
  BY <1>12 DEF Syscall
<1>13. CASE UNCHANGED vars
  BY <1>13 DEF vars
<1> QED
  BY <1>0, <1>1, <1>2, <1>3, <1>4, <1>5, <1>6, <1>7, <1>8,
     <1>9, <1>10, <1>11, <1>12, <1>13 DEF Next, Step

(* The links follow the pushes, and no node is pushed twice. *)
LEMMA ListNext ==
  ASSUME IInv, [Next]_vars
  PROVE  ListIsStack' /\ PushInv'
<1> ListIsStack /\ PushInv /\ TypeOK
  BY DEF IInv
<1> USE DEF list
<1>1. CASE UNCHANGED list
  BY <1>1 DEF ListIsStack, PushInv, Top
<1>2. ASSUME NEW t \in Thread, SetFunc(t) PROVE ListIsStack' /\ PushInv'
  BY <1>2 DEF SetFunc, ListIsStack, PushInv, Top
<1>3. ASSUME NEW t \in Thread, SetNext(t) PROVE ListIsStack' /\ PushInv'
  <2>1. \A i \in 1 .. Len(pushed) : pushed[i] # gae[t]
    BY <1>3 DEF IInv, JoinInv, Joining, Pushing, SetNext, At
  <2>2. \A i \in 1 .. Len(pushed) : next'[pushed[i]] = next[pushed[i]]
    BY <1>3, <2>1, WalkAt DEF SetNext, TypeOK
  <2> QED
    BY <1>3, <2>2 DEF SetNext, ListIsStack, PushInv, Top
<1>4. ASSUME NEW t \in Thread, SetHead(t) PROVE ListIsStack' /\ PushInv'
  <2>1. /\ gae[t] \in Handler /\ gae[t] \in func /\ next[gae[t]] = head
        /\ \A i \in 1 .. Len(pushed) : pushed[i] # gae[t]
    BY <1>4 DEF IInv, JoinInv, Joining, Pushing, SetHead, At
  <2> DEFINE n == Len(pushed)
  <2>2. /\ n \in Nat /\ Len(pushed') = n + 1 /\ pushed'[n + 1] = gae[t]
        /\ \A i \in 1 .. n : pushed'[i] = pushed[i]
    BY <1>4, <2>1, Sequences DEF SetHead, TypeOK
  <2>3. head' = gae[t] /\ next' = next /\ func' = func
    BY <1>4 DEF SetHead
  <2>4. head = IF n = 0 THEN Null ELSE pushed[n]
    BY <2>2 DEF ListIsStack, Top, TypeOK
  <2>5. pushed' # <<>>
    BY <2>2
  <2>6. ASSUME NEW i \in 1 .. n + 1
        PROVE  next'[pushed'[i]] = IF i = 1 THEN Null ELSE pushed'[i - 1]
    <3>1. CASE i = n + 1
      BY <3>1, <2>1, <2>2, <2>3, <2>4
    <3>2. CASE i # n + 1
      <4>1. i \in 1 .. n /\ (i # 1 => i - 1 \in 1 .. n)
        BY <3>2, <2>2
      <4> QED
        BY <4>1, <2>2, <2>3 DEF ListIsStack
    <3> QED
      BY <3>1, <3>2
  <2>7. ListIsStack'
    BY <2>2, <2>3, <2>5, <2>6 DEF ListIsStack, Top
  <2>8. PushInv'
    BY <2>1, <2>2, <2>3 DEF PushInv
  <2> QED
    BY <2>7, <2>8
<1> QED
  BY <1>1, <1>2, <1>3, <1>4
  DEF Next, Step, vars, Join, TestFunc, AtExitLock, AtExitUnlock, Exit, ExitLock,
      Call, Advance, ExitUnlock, Syscall

(* Two threads never join the same node at the same time. *)
LEMMA OwnNode ==
  ASSUME OneFirst, IInv, NEW t \in Thread, NEW u \in Thread, t # u,
         Joining(t), Joining(u)
  PROVE  gae[t] # gae[u]
<1> SUFFICES ASSUME gae[t] = gae[u] PROVE FALSE
  OBVIOUS
<1>1. /\ JoinInv(t) /\ JoinInv(u) /\ LockInv(t) /\ LockInv(u)
      /\ caller[t] \in {"idle", "advance"} /\ caller[u] \in {"idle", "advance"}
  BY DEF IInv, TypeOK
<1>2. CASE caller[t] = "idle" /\ caller[u] = "idle"
  BY <1>1, <1>2 DEF JoinInv, OneFirst
<1>3. CASE caller[t] = "advance" /\ caller[u] = "advance"
  BY <1>1, <1>3 DEF LockInv, InWalk
<1>4. CASE caller[t] # caller[u]
  BY <1>1, <1>4 DEF JoinInv, OneFirst
<1> QED
  BY <1>1, <1>2, <1>3, <1>4

(* By what right each thread joins a node, and what is still to do. *)
LEMMA JoinNext ==
  ASSUME OneFirst, IInv, [Next]_vars, NEW u \in Thread
  PROVE  JoinInv(u)'
<1> TypeOK /\ \A t \in Thread : JoinInv(t)
  BY DEF IInv
<1> USE ExitListAssumption DEF Goto, At, list, lock, walk, frame
<1>0. ASSUME NEW t \in Thread, NEW h \in Handler, Join(t, h) PROVE JoinInv(u)'
  BY <1>0 DEF TypeOK, JoinInv, Joining, Pushing, Join
<1>1. ASSUME NEW t \in Thread, TestFunc(t) PROVE JoinInv(u)'
  BY <1>1 DEF TypeOK, JoinInv, Joining, Pushing, TestFunc
<1>2. ASSUME NEW t \in Thread, AtExitLock(t) PROVE JoinInv(u)'
  BY <1>2 DEF TypeOK, JoinInv, Joining, Pushing, AtExitLock
<1>3. ASSUME NEW t \in Thread, AtExitUnlock(t) PROVE JoinInv(u)'
  BY <1>3 DEF TypeOK, JoinInv, Joining, Pushing, AtExitUnlock
<1>4. ASSUME NEW t \in Thread, Exit(t) PROVE JoinInv(u)'
  BY <1>4 DEF TypeOK, JoinInv, Joining, Pushing, Exit
<1>5. ASSUME NEW t \in Thread, ExitLock(t) PROVE JoinInv(u)'
  BY <1>5 DEF TypeOK, JoinInv, Joining, Pushing, ExitLock
<1>6. ASSUME NEW t \in Thread, Call(t) PROVE JoinInv(u)'
  <2>1. el[t] \in Handler /\ Late[el[t]] \in Handler \cup {Null} /\ el' = el
    BY <1>6 DEF Call, TypeOK
  <2>2. CASE u # t
    BY <1>6, <2>2 DEF TypeOK, JoinInv, Joining, Pushing, Call
  <2>3. CASE u = t /\ Late[el[t]] = Null
    BY <1>6, <2>3 DEF TypeOK, JoinInv, Joining, Pushing, Call
  <2>4. CASE u = t /\ Late[el[t]] # Null
    <3>1. pc'[u] = "test" /\ gae'[u] = Late[el[t]] /\ caller'[u] = "advance"
      BY <1>6, <2>4 DEF TypeOK, Call
    <3> QED
      BY <2>1, <2>4, <3>1 DEF JoinInv
  <2> QED
    BY <2>2, <2>3, <2>4
<1>7. ASSUME NEW t \in Thread, Advance(t) PROVE JoinInv(u)'
  BY <1>7 DEF TypeOK, JoinInv, Joining, Pushing, Advance
<1>8. ASSUME NEW t \in Thread, ExitUnlock(t) PROVE JoinInv(u)'
  BY <1>8 DEF TypeOK, JoinInv, Joining, Pushing, ExitUnlock
<1>9. ASSUME NEW t \in Thread, Syscall(t) PROVE JoinInv(u)'
  BY <1>9 DEF TypeOK, JoinInv, Joining, Pushing, Syscall
<1>10. ASSUME NEW t \in Thread, SetFunc(t) PROVE JoinInv(u)'
  <2>1. CASE u = t
    <3>1. \A i \in 1 .. Len(pushed) : pushed[i] # gae[t]
      BY <1>10 DEF IInv, PushInv, JoinInv, Joining, SetFunc
    <3> QED
      BY <1>10, <2>1, <3>1 DEF TypeOK, JoinInv, Joining, Pushing, SetFunc
  <2>2. CASE u # t
    <3>1. Joining(u) => gae[t] # gae[u]
      BY <1>10, <2>2, OwnNode DEF SetFunc, Joining
    <3> QED
      BY <1>10, <2>2, <3>1 DEF TypeOK, JoinInv, Joining, Pushing, SetFunc
  <2> QED
    BY <2>1, <2>2
<1>11. ASSUME NEW t \in Thread, SetNext(t) PROVE JoinInv(u)'
  <2>1. u # t => pc[u] # "sethead"
    BY <1>11 DEF IInv, LockInv, Pushing, SetNext
  <2> QED
    BY <1>11, <2>1 DEF TypeOK, JoinInv, Joining, Pushing, SetNext
<1>12. ASSUME NEW t \in Thread, SetHead(t) PROVE JoinInv(u)'
  <2>1. u # t => pc[u] # "sethead"
    BY <1>12 DEF IInv, LockInv, Pushing, SetHead
  <2>2. u # t /\ Joining(u) => gae[u] # gae[t]
    BY <1>12, OwnNode DEF SetHead, Joining, Pushing
  <2>3. gae[t] \in Handler
    BY <1>12 DEF JoinInv, Joining, Pushing, SetHead
  <2>4. /\ Len(pushed') = Len(pushed) + 1 /\ pushed'[Len(pushed) + 1] = gae[t]
        /\ Len(pushed) \in Nat
        /\ \A i \in 1 .. Len(pushed) : pushed'[i] = pushed[i]
    BY <1>12, <2>3, Sequences DEF SetHead, TypeOK
  <2>5. \A i \in 1 .. Len(pushed') : i \in 1 .. Len(pushed) \/ i = Len(pushed) + 1
    BY <2>4
  <2> QED
    BY <1>12, <2>1, <2>2, <2>4, <2>5 DEF TypeOK, JoinInv, Joining, Pushing, SetHead
<1>13. CASE UNCHANGED vars
  BY <1>13 DEF vars, JoinInv, Joining, Pushing
<1> QED
  BY <1>0, <1>1, <1>2, <1>3, <1>4, <1>5, <1>6, <1>7, <1>8,
     <1>9, <1>10, <1>11, <1>12, <1>13 DEF Next, Step

(* A step that leaves a thread's walk alone, and at most pushes a node. *)
LEMMA OtherWalk ==
  ASSUME IInv, NEW u \in Thread,
         pushed' = pushed \/ \E h \in Handler : pushed' = Append(pushed, h),
         start'[u] = start[u], ran'[u] = ran[u], el'[u] = el[u],
         InWalk(u)' <=> InWalk(u), Walked(u)' <=> Walked(u),
         pc'[u] = "walk" <=> pc[u] = "walk"
  PROVE  WalkInv(u)'
<1>1. WalkInv(u)
  BY DEF IInv
<1>2. /\ Len(pushed) <= Len(pushed') /\ Len(pushed) \in Nat
      /\ Len(pushed') \in Nat /\ Len(start[u]) \in Nat
      /\ \A i \in 1 .. Len(pushed) : pushed'[i] = pushed[i]
  <2>1. Len(pushed) \in Nat /\ Len(start[u]) \in Nat /\ pushed \in Seq(Handler)
    BY WalkAt DEF IInv, TypeOK
  <2>2. ASSUME NEW h \in Handler, pushed' = Append(pushed, h)
        PROVE  /\ Len(pushed') = Len(pushed) + 1
               /\ \A i \in 1 .. Len(pushed) : pushed'[i] = pushed[i]
    BY <2>1, <2>2, Sequences
  <2> QED
    BY <2>1, <2>2
<1>3. InWalk(u) \/ Walked(u) =>
        /\ Len(start[u]) <= Len(pushed')
        /\ \A i \in 1 .. Len(start[u]) : start[u][i] = pushed'[i]
  <2> SUFFICES ASSUME InWalk(u) \/ Walked(u)
               PROVE  /\ Len(start[u]) <= Len(pushed')
                      /\ \A i \in 1 .. Len(start[u]) : start[u][i] = pushed'[i]
    OBVIOUS
  <2>1. /\ Len(start[u]) <= Len(pushed)
        /\ \A i \in 1 .. Len(start[u]) : start[u][i] = pushed[i]
    BY <1>1 DEF WalkInv
  <2>2. \A i \in 1 .. Len(start[u]) : i \in 1 .. Len(pushed)
    BY <2>1, <1>2
  <2> QED
    BY <2>1, <2>2, <1>2
<1> QED
  BY <1>1, <1>3 DEF WalkInv

(* How far each walk has come. *)
LEMMA WalkNext ==
  ASSUME IInv, [Next]_vars, NEW u \in Thread
  PROVE  WalkInv(u)'
<1> TypeOK /\ WalkInv(u)
  BY DEF IInv
<1> USE DEF Goto, At, list, lock, walk, frame
<1>0. ASSUME NEW t \in Thread, NEW h \in Handler, Join(t, h) PROVE WalkInv(u)'
  BY <1>0, OtherWalk DEF TypeOK, Join, InWalk, Walked, Joining, Pushing
<1>1. ASSUME NEW t \in Thread, TestFunc(t) PROVE WalkInv(u)'
  BY <1>1, OtherWalk DEF TypeOK, TestFunc, InWalk, Walked, Joining, Pushing
<1>2. ASSUME NEW t \in Thread, SetFunc(t) PROVE WalkInv(u)'
  BY <1>2, OtherWalk DEF TypeOK, SetFunc, InWalk, Walked, Joining, Pushing
<1>3. ASSUME NEW t \in Thread, AtExitLock(t) PROVE WalkInv(u)'
  BY <1>3, OtherWalk DEF TypeOK, AtExitLock, InWalk, Walked, Joining, Pushing
<1>4. ASSUME NEW t \in Thread, SetNext(t) PROVE WalkInv(u)'
  BY <1>4, OtherWalk DEF TypeOK, SetNext, InWalk, Walked, Joining, Pushing
<1>5. ASSUME NEW t \in Thread, AtExitUnlock(t) PROVE WalkInv(u)'
  BY <1>5, OtherWalk DEF TypeOK, AtExitUnlock, InWalk, Walked, Joining, Pushing
<1>6. ASSUME NEW t \in Thread, Exit(t) PROVE WalkInv(u)'
  BY <1>6, OtherWalk DEF TypeOK, Exit, InWalk, Walked, Joining, Pushing
<1>7. ASSUME NEW t \in Thread, Syscall(t) PROVE WalkInv(u)'
  BY <1>7, OtherWalk DEF TypeOK, Syscall, InWalk, Walked, Joining, Pushing
<1>8. ASSUME NEW t \in Thread, SetHead(t) PROVE WalkInv(u)'
  <2>1. gae[t] \in Handler
    BY <1>8 DEF IInv, JoinInv, Joining, Pushing, SetHead
  <2> QED
    BY <1>8, <2>1, OtherWalk DEF TypeOK, SetHead, InWalk, Walked, Joining, Pushing
<1>9. ASSUME NEW t \in Thread, ExitLock(t) PROVE WalkInv(u)'
  <2>1. CASE u # t
    BY <1>9, <2>1, OtherWalk DEF TypeOK, ExitLock, InWalk, Walked, Joining, Pushing
  <2>2. CASE u = t
    <3>1. /\ start'[u] = pushed /\ pushed' = pushed /\ ran'[u] = ran[u]
          /\ el'[u] = head /\ pc'[u] = "walk"
      BY <1>9, <2>2 DEF TypeOK, ExitLock
    <3>2. Len(ran[u]) = 0
      BY <1>9, <2>2 DEF WalkInv, InWalk, Walked, Joining, Pushing, ExitLock
    <3>3. head = IF Len(pushed) = 0 THEN Null ELSE pushed[Len(pushed)]
      BY DEF IInv, ListIsStack, Top, TypeOK
    <3>4. Len(pushed) \in Nat
      BY WalkAt
    <3> QED
      BY <3>1, <3>2, <3>3, <3>4 DEF WalkInv, InWalk, Walked, Joining
  <2> QED
    BY <2>1, <2>2
<1>10. ASSUME NEW t \in Thread, Call(t) PROVE WalkInv(u)'
  <2>1. CASE u # t
    BY <1>10, <2>1, OtherWalk DEF TypeOK, Call, InWalk, Walked, Joining, Pushing
  <2>2. CASE u = t
    <3> DEFINE n == Len(start[u])
               k == Len(ran[u])
    <3>1. /\ pc[u] = "walk" /\ el[u] \in Handler /\ el' = el
          /\ pushed' = pushed /\ start' = start
          /\ ran'[u] = Append(ran[u], el[u])
      BY <1>10, <2>2 DEF TypeOK, Call
    <3>2. InWalk(u)' /\ pc'[u] # "walk"
      BY <1>10, <2>2 DEF TypeOK, Call, InWalk, Joining
    <3>3. n \in Nat /\ k \in Nat /\ k <= n
      BY <3>1, WalkAt DEF WalkInv, InWalk
    <3>4. k # n /\ el[u] = start[u][n - k]
      BY <3>1, ExitListAssumption DEF WalkInv
    <3>5. /\ Len(ran'[u]) = k + 1 /\ ran'[u][k + 1] = el[u]
          /\ \A i \in 1 .. k : ran'[u][i] = ran[u][i]
      BY <3>1, Sequences DEF TypeOK
    <3>6. k + 1 <= n /\ n + 1 - (k + 1) = n - k
      BY <3>3, <3>4, Countdown
    <3>7. \A i \in 1 .. k + 1 : ran'[u][i] = start[u][n + 1 - i]
      <4> SUFFICES ASSUME NEW i \in 1 .. k + 1
                   PROVE  ran'[u][i] = start[u][n + 1 - i]
        OBVIOUS
      <4>1. CASE i = k + 1
        BY <4>1, <3>4, <3>5, <3>6
      <4>2. CASE i # k + 1
        <5>1. i \in 1 .. k
          BY <4>2, <3>3
        <5> QED
          BY <5>1, <3>1, <3>5 DEF WalkInv, InWalk
      <4> QED
        BY <4>1, <4>2
    <3>8. /\ n <= Len(pushed') /\ \A i \in 1 .. n : start'[u][i] = pushed'[i]
      BY <3>1 DEF WalkInv, InWalk
    <3>9. ~Walked(u)'
      BY <1>10, <2>2 DEF Call, Walked, TypeOK
    <3>10. Len(start'[u]) = n /\ el'[u] = start'[u][n + 1 - (k + 1)]
      BY <3>1, <3>4, <3>6
    <3>11. \A i \in 1 .. k + 1 : ran'[u][i] = start'[u][n + 1 - i]
      BY <3>1, <3>7
    <3>12. k + 1 >= 1
      BY <3>3
    <3> HIDE DEF n, k
    <3> QED
      BY <3>2, <3>5, <3>6, <3>8, <3>9, <3>10, <3>11, <3>12 DEF WalkInv
  <2> QED
    BY <2>1, <2>2
<1>11. ASSUME NEW t \in Thread, Advance(t) PROVE WalkInv(u)'
  <2>1. CASE u # t
    BY <1>11, <2>1, OtherWalk DEF TypeOK, Advance, InWalk, Walked, Joining, Pushing
  <2>2. CASE u = t
    <3> DEFINE n == Len(start[u])
               k == Len(ran[u])
    <3>1. /\ pc[u] = "advance" /\ pc'[u] = "walk" /\ el'[u] = next[el[u]]
          /\ UNCHANGED <<pushed, start, ran>>
      BY <1>11, <2>2 DEF TypeOK, Advance
    <3>2. /\ n \in Nat /\ k \in Nat /\ k <= n /\ k >= 1 /\ n <= Len(pushed)
          /\ el[u] = start[u][n + 1 - k] /\ Len(pushed) \in Nat
          /\ \A i \in 1 .. n : start[u][i] = pushed[i]
      BY <3>1, WalkAt DEF WalkInv, InWalk
    <3> HIDE DEF n, k
    <3>3. n + 1 - k \in 1 .. n /\ (n + 1 - k = 1 <=> k = n) /\ (n + 1 - k) - 1 = n - k
          /\ (k # n => n - k \in 1 .. n)
      BY <3>2, Countdown
    <3>4. n + 1 - k \in 1 .. Len(pushed) /\ el[u] = pushed[n + 1 - k]
      BY <3>2, <3>3
    <3>5. next[el[u]] = IF k = n THEN Null ELSE pushed[n - k]
      BY <3>3, <3>4 DEF IInv, ListIsStack
    <3>6. el'[u] = IF k = n THEN Null ELSE start[u][n - k]
      BY <3>1, <3>2, <3>3, <3>5
    <3>7. InWalk(u) /\ InWalk(u)' /\ ~Walked(u)'
      BY <3>1 DEF InWalk, Walked
    <3> QED
      BY <3>1, <3>6, <3>7 DEF WalkInv, n, k
  <2> QED
    BY <2>1, <2>2
<1>12. ASSUME NEW t \in Thread, ExitUnlock(t) PROVE WalkInv(u)'
  <2>1. CASE u # t
    BY <1>12, <2>1, OtherWalk DEF TypeOK, ExitUnlock, InWalk, Walked, Joining, Pushing
  <2>2. CASE u = t
    <3>1. /\ pc[u] = "walk" /\ pc'[u] = "syscall" /\ el[u] = Null
          /\ UNCHANGED <<pushed, start, ran>>
      BY <1>12, <2>2 DEF TypeOK, ExitUnlock
    <3>2. Len(start[u]) - Len(ran[u]) \in 1 .. Len(start[u]) \/ Len(ran[u]) = Len(start[u])
      BY <3>1, WalkAt, Countdown DEF WalkInv, InWalk
    <3>3. Len(ran[u]) = Len(start[u])
      BY <3>1, <3>2, WalkAt, ExitListAssumption DEF WalkInv
    <3>4. InWalk(u) /\ ~InWalk(u)' /\ Walked(u)'
      BY <3>1 DEF InWalk, Walked, Joining, Pushing
    <3> QED
      BY <3>1, <3>3, <3>4 DEF WalkInv
  <2> QED
    BY <2>1, <2>2
<1>13. CASE UNCHANGED vars
  BY <1>13, OtherWalk DEF vars, InWalk, Walked, Joining, Pushing
<1> QED
  BY <1>0, <1>1, <1>2, <1>3, <1>4, <1>5, <1>6, <1>7, <1>8,
     <1>9, <1>10, <1>11, <1>12, <1>13 DEF Next, Step
-----------------------------------------------------------------------------
LEMMA ExitListInvariant == ASSUME OneFirst PROVE Spec => []IInv
<1>1. IInv /\ [Next]_vars => IInv'
  BY NextType, LockNext, ListNext, JoinNext, WalkNext DEF IInv
<1> QED
  BY <1>1, InitInv, PTL DEF Spec

(* Every variable keeps its type, in particular the lock's depth agrees with
   its owner while functions that _Exit runs take it again. *)
THEOREM ExitListType == ASSUME OneFirst PROVE Spec => []TypeOK
<1>1. IInv => TypeOK
  BY DEF IInv
<1> QED
  BY <1>1, ExitListInvariant, PTL

(* The links lead from exitlisthead through all nodes that __ghs_at_exit was
   given, newest first, to the null pointer. *)
THEOREM ExitListStack == ASSUME OneFirst PROVE Spec => []ListIsStack
<1>1. IInv => ListIsStack
  BY DEF IInv
<1> QED
  BY <1>1, ExitListInvariant, PTL

(* _Exit runs what was on the list when it took the lock, each function once
   and in reverse, and nothing else. *)
THEOREM ExitListComplete == ASSUME OneFirst PROVE Spec => []WalkComplete
<1>1. ASSUME IInv, NEW t \in Thread, Walked(t) PROVE ran[t] = Backwards(start[t])
  <2> DEFINE n == Len(start[t])
  <2>1. /\ n \in Nat /\ Len(ran[t]) = n
        /\ \A i \in 1 .. n : ran[t][i] = start[t][n + 1 - i]
    BY <1>1, WalkAt DEF IInv, WalkInv
  <2>2. ran[t] \in Seq(Handler)
    BY <1>1 DEF IInv, TypeOK
  <2>3. ran[t] = [i \in 1 .. n |-> ran[t][i]]
    BY <2>1, <2>2
  <2> QED
    BY <2>1, <2>3 DEF Backwards
<1>2. IInv => WalkComplete
  BY <1>1 DEF WalkComplete, Walked
<1> QED
  BY <1>2, ExitListInvariant, PTL

(* Functions run in one thread at a time, and no other thread pushes a node
   meanwhile. *)
THEOREM ExitListAlone == ASSUME OneFirst PROVE Spec => []WalkAlone
<1>1. IInv => WalkAlone
  BY DEF IInv, LockInv, InWalk, Pushing, WalkAlone
<1> QED
  BY <1>1, ExitListInvariant, PTL
=============================================================================
