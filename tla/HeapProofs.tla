----------------------------- MODULE HeapProofs -----------------------------
(***************************************************************************)
(* Proofs about Heap: types, the safety of the blocks handed out, and the  *)
(* refinement of Arena, for any threads, sizes and alignments that satisfy *)
(* RequestsFit.                                                            *)
(***************************************************************************)
EXTENDS Heap, TLAPS

(* What HeapAssumption says of the constants, in the form the steps use. *)
LEMMA Constants ==
  /\ Space \in Nat /\ HeapBegin \in Nat /\ HeapEnd \in Nat /\ MaxCalls \in Nat
  /\ 0 < HeapBegin /\ HeapBegin <= HeapEnd /\ HeapEnd < Space - 1
  /\ 0 \in 0 .. Space - 1 /\ HeapBegin \in 0 .. Space - 1
  /\ Minus1 \in 0 .. Space - 1
  /\ \A s \in Sizes \cup {0} : s \in 0 .. Space - 1
  /\ \A a \in Aligns \cup {1} : a \in 1 .. Space - 1
  BY HeapAssumption DEF Minus1

(* The range of the two wrapping operators and of the padding. *)
LEMMA PtrArith ==
  ASSUME NEW p \in 0 .. Space - 1, NEW n \in 0 .. Space - 1
  PROVE  /\ PtrAdd(p, n) \in 0 .. Space - 1
         /\ PtrSub(p, n) \in 0 .. Space - 1
  BY HeapAssumption DEF PtrAdd, PtrSub

LEMMA ModRange ==
  ASSUME NEW x \in Int, NEW a \in Nat \ {0}
  PROVE  x % a \in 0 .. a - 1
  OBVIOUS

LEMMA PaddingRange ==
  ASSUME NEW p \in 0 .. Space - 1, NEW a \in Aligns \cup {1}
  PROVE  Padding(p, a) \in 0 .. a - 1
<1>1. a \in Nat \ {0}
  BY HeapAssumption
<1>2. p \in Int
  OBVIOUS
<1>3. p % a \in 0 .. a - 1
  BY <1>1, <1>2, ModRange
<1>4. a - (p % a) \in Int
  BY <1>1, <1>3
<1>5. QED
  BY <1>1, <1>4, ModRange DEF Padding
-----------------------------------------------------------------------------
LEMMA InitType == Init => TypeOK
  BY Constants, HeapAssumption
  DEF Init, TypeOK, Lock!Init, Lock!TypeOK, Frame, EmptyFrame, NewFrame, Block, Null

LEMMA NewFrameType ==
  /\ EmptyFrame \in Frame
  /\ \A s \in Sizes : NewFrame("sbrk", s, 1, s) \in Frame
  /\ \A s \in Sizes, a \in Aligns, o \in {"alloc", "calloc"} :
       NewFrame(o, s, a, 0) \in Frame
  BY Constants DEF EmptyFrame, NewFrame, Frame, Null

(* Taking and releasing the lock keeps its own type. *)
LEMMA LockType ==
  ASSUME Lock!TypeOK, NEW t \in Thread,
         Lock!Acquire(t) \/ Lock!Release(t)
  PROVE  Lock!TypeOK'
  BY HeapAssumption DEF Lock!TypeOK, Lock!Acquire, Lock!Release

(* The arithmetic facts about the registers of a call. *)
LEMMA FrameFields ==
  ASSUME TypeOK, NEW t \in Thread
  PROVE  /\ frame[t] \in Frame
         /\ frame[t].size \in Nat /\ frame[t].size \in 0 .. Space - 1
         /\ frame[t].align \in Aligns \cup {1}
         /\ frame[t].arg \in Nat /\ frame[t].npt \in Nat
         /\ frame[t].ret \in Nat /\ frame[t].base \in Nat
  BY Constants DEF TypeOK, Frame

LEMMA DeliverType ==
  ASSUME TypeOK, NEW t \in Thread, NEW lo \in Nat, NEW failed \in BOOLEAN,
         Deliver(t, lo, failed)
  PROVE  blocks' \subseteq Block /\ zeroed' \subseteq Int
<1> DEFINE b == [lo |-> lo, size |-> frame[t].size, align |-> frame[t].align,
                 op |-> frame[t].op, by |-> t, serial |-> calls[t]]
<1>1. b \in Block
  BY FrameFields DEF TypeOK, Block, Frame
<1>2. lo .. lo + frame[t].size - 1 \subseteq Int
  BY FrameFields
<1> QED
  BY <1>1, <1>2 DEF TypeOK, Deliver

LEMMA NextType == TypeOK /\ [Next]_vars => TypeOK'
<1> SUFFICES ASSUME TypeOK, [Next]_vars PROVE TypeOK'
  OBVIOUS
<1> USE DEF Goto
<1>a. Frame = Frame'
  BY DEF Frame
<1>1. ASSUME NEW t \in Thread, CallSbrk(t) PROVE TypeOK'
  BY <1>1, NewFrameType, Constants DEF TypeOK, CallSbrk, Lock!TypeOK
<1>2. ASSUME NEW t \in Thread, CallAlloc(t) PROVE TypeOK'
  BY <1>2, NewFrameType, Constants DEF TypeOK, CallAlloc, Lock!TypeOK
<1>3. ASSUME NEW t \in Thread, AllocLock(t) PROVE TypeOK'
  <2>1. Lock!TypeOK'
    BY <1>3, LockType DEF AllocLock, TypeOK
  <2>2. frame' \in [Thread -> Frame]
    <3> DEFINE f == [frame[t] EXCEPT !.site = "query", !.arg = 0]
    <3>1. 0 \in 0 .. Space - 1
      BY Constants
    <3>2. f \in Frame
      BY <3>1, FrameFields DEF Frame
    <3>3. frame' = [frame EXCEPT ![t] = f]
      BY <1>3 DEF AllocLock, TypeOK
    <3> QED
      BY <3>2, <3>3 DEF TypeOK
  <2> QED
    BY <1>3, <2>1, <2>2 DEF AllocLock, TypeOK
<1>4. ASSUME NEW t \in Thread, SbrkLock(t) PROVE TypeOK'
  BY <1>4, LockType DEF SbrkLock, TypeOK
<1>5. ASSUME NEW t \in Thread, SbrkGrow(t) PROVE TypeOK'
  <2>1. pt' \in 0 .. Space - 1
    BY <1>5, Constants DEF SbrkGrow, TypeOK
  <2>2. PtrAdd(pt', frame[t].arg) \in 0 .. Space - 1
    BY <2>1, PtrArith DEF TypeOK, Frame
  <2>3. frame' \in [Thread -> Frame]
    BY <1>5, <2>2 DEF SbrkGrow, TypeOK, Frame
  <2> QED
    BY <1>5, <2>1, <2>3 DEF SbrkGrow, TypeOK, Lock!TypeOK
<1>6. ASSUME NEW t \in Thread, SbrkCommit(t) PROVE TypeOK'
  <2>1. frame[t] \in Frame
    BY DEF TypeOK
  <2>2. /\ PtrSub(frame[t].npt, frame[t].arg) \in 0 .. Space - 1
        /\ Minus1 \in 0 .. Space - 1
        /\ frame[t].npt \in 0 .. Space - 1
    BY <2>1, PtrArith, Constants DEF Frame, Minus1
  <2>3. frame' \in [Thread -> Frame]
    BY <1>6, <2>1, <2>2 DEF SbrkCommit, TypeOK, Frame
  <2> QED
    BY <1>6, <2>2, <2>3 DEF SbrkCommit, TypeOK, Lock!TypeOK
<1>7. ASSUME NEW t \in Thread, SbrkReturn(t) PROVE TypeOK'
  <2>1. frame[t].ret \in Nat
    BY Constants DEF TypeOK, Frame
  <2>2. blocks' \subseteq Block /\ zeroed' \subseteq Int
    BY <1>7, <2>1, DeliverType DEF SbrkReturn
  <2> QED
    BY <1>7, <2>2, LockType, NewFrameType DEF SbrkReturn, TypeOK
<1>8. ASSUME NEW t \in Thread, QueryReturn(t) PROVE TypeOK'
  <2>1. frame[t] \in Frame
    BY DEF TypeOK
  <2>2. Padding(frame[t].ret, frame[t].align) \in 0 .. Space - 1
    BY <2>1, PaddingRange, Constants DEF Frame
  <2>3. frame' \in [Thread -> Frame]
    BY <1>8, <2>1, <2>2, Constants
    DEF QueryReturn, AllocResume, TypeOK, Frame, Null
  <2> QED
    BY <1>8, <2>3, LockType DEF QueryReturn, AllocResume, TypeOK
<1>9. ASSUME NEW t \in Thread, PadReturn(t) PROVE TypeOK'
  <2>1. frame' \in [Thread -> Frame]
    BY <1>9, FrameFields, Constants DEF PadReturn, AllocResume, TypeOK, Frame, Null
  <2> QED
    BY <1>9, <2>1, LockType DEF PadReturn, AllocResume, TypeOK
<1>10. ASSUME NEW t \in Thread, BodyReturn(t) PROVE TypeOK'
  <2>1. frame' \in [Thread -> Frame]
    BY <1>10, Constants DEF BodyReturn, TypeOK, Frame, Null
  <2> QED
    BY <1>10, <2>1, LockType DEF BodyReturn, TypeOK
<1>11. ASSUME NEW t \in Thread, AllocReturn(t) PROVE TypeOK'
  <2>1. frame[t].base \in Nat
    BY Constants DEF TypeOK, Frame
  <2>2. blocks' \subseteq Block /\ zeroed' \subseteq Int
    BY <1>11, <2>1, DeliverType DEF AllocReturn
  <2> QED
    BY <1>11, <2>2, LockType, NewFrameType DEF AllocReturn, TypeOK
<1>12. ASSUME NEW t \in Thread, Memset(t) PROVE TypeOK'
  <2>a. frame[t].base .. frame[t].base + frame[t].size - 1 \subseteq Int
    BY FrameFields
  <2>1. zeroed' \subseteq Int
    BY <1>12, <2>a DEF Memset, TypeOK
  <2> QED
    BY <1>12, <2>1, NewFrameType DEF Memset, TypeOK, Lock!TypeOK
<1>13. CASE UNCHANGED vars
  BY <1>13 DEF vars, TypeOK, Lock!TypeOK
<1> QED
  BY <1>1, <1>2, <1>3, <1>4, <1>5, <1>6, <1>7, <1>8, <1>9, <1>10, <1>11,
     <1>12, <1>13 DEF Next, Step

(* The registers of sbrk and __ghs_alloc keep to their widths and the lock *)
(* is owned exactly when its depth is positive (ind_heap.c, ind_alloc.c).  *)
THEOREM HeapType == Spec => []TypeOK
  BY InitType, NextType, PTL DEF Spec
-----------------------------------------------------------------------------
(* A step of t that runs under the lock, or takes or releases it, cannot   *)
(* disturb what the invariant says of another thread: that thread is not   *)
(* inside the lock, so it knows nothing of the cursor.                     *)
LEMMA OtherThread ==
  ASSUME IInv, NEW t \in Thread, NEW u \in Thread, u # t,
         owner \in {NoThread, t}, owner' \in {NoThread, t},
         pc'[u] = pc[u], frame'[u] = frame[u]
  PROVE  LockInv(u)' /\ FrameInv(u)'
<1>1. pc[u] \notin {"grow", "commit", "unlock", "leave"}
      /\ ~(pc[u] = "lock" /\ frame[u].site # "caller")
  BY HeapAssumption DEF IInv, LockInv
<1>2. owner' # u
  BY HeapAssumption
<1>3. LockInv(u)'
  BY <1>1, <1>2 DEF LockInv
<1>4. FrameInv(u)'
  BY <1>1 DEF IInv, FrameInv
<1> QED
  BY <1>3, <1>4

(* Nor can a step that leaves lock, cursor and blocks alone. *)
LEMMA QuietStep ==
  ASSUME IInv, NEW t \in Thread, NEW u \in Thread, u # t,
         UNCHANGED <<pt, owner, depth, blocks>>,
         pc'[u] = pc[u], frame'[u] = frame[u]
  PROVE  LockInv(u)' /\ FrameInv(u)'
  BY DEF IInv, LockInv, FrameInv, Fresh, Below

(* The modes of the lock, from the two operations. *)
LEMMA LockSteps ==
  ASSUME NEW t \in Thread
  PROVE  /\ Lock!Acquire(t) =>
              owner \in {NoThread, t} /\ owner' = t /\ depth' = depth + 1
         /\ Lock!Release(t) =>
              /\ owner = t /\ owner' \in {NoThread, t} /\ depth' = depth - 1
              /\ (depth # 1 => owner' = t) /\ (depth = 1 => owner' = NoThread)
  BY DEF Lock!Acquire, Lock!Release

LEMMA InitInv == Init => IInv
  BY InitType, HeapAssumption
  DEF Init, IInv, LockInv, FrameInv, CursorInv, SerialInv, BlocksDisjoint,
      Lock!Init, Null

LEMMA CallSbrkInv ==
  ASSUME RequestsFit, IInv, TypeOK', NEW t \in Thread, CallSbrk(t)
  PROVE  IInv'
<1> USE DEF CallSbrk, Goto
<1>1. PICK s \in Sizes : frame' = [frame EXCEPT ![t] = NewFrame("sbrk", s, 1, s)]
  OBVIOUS
<1>2. /\ frame'[t].site = "caller" /\ frame'[t].size = s /\ frame'[t].arg = s
      /\ pc'[t] = "lock" /\ owner # t
  BY <1>1 DEF NewFrame, IInv, TypeOK, LockInv
<1>3. ASSUME NEW u \in Thread, u # t PROVE LockInv(u)' /\ FrameInv(u)'
  BY <1>1, <1>3, QuietStep DEF IInv, TypeOK
<1>4. LockInv(t)' /\ FrameInv(t)'
  BY <1>2 DEF LockInv, FrameInv, RequestsFit
<1>5. CursorInv' /\ BlocksDisjoint'
  BY DEF IInv, CursorInv, BlocksDisjoint
<1>6. SerialInv'
  BY <1>2, HeapAssumption DEF IInv, SerialInv, TypeOK, Block
<1> QED
  BY <1>3, <1>4, <1>5, <1>6 DEF IInv

LEMMA CallAllocInv ==
  ASSUME RequestsFit, IInv, TypeOK', NEW t \in Thread, CallAlloc(t)
  PROVE  IInv'
<1> USE DEF CallAlloc, Goto
<1>1. PICK s \in Sizes, a \in Aligns, o \in {"alloc", "calloc"} :
        frame' = [frame EXCEPT ![t] = NewFrame(o, s, a, 0)]
  OBVIOUS
<1>2. pc'[t] = "alloc" /\ owner # t
  BY DEF IInv, TypeOK, LockInv
<1>3. ASSUME NEW u \in Thread, u # t PROVE LockInv(u)' /\ FrameInv(u)'
  BY <1>1, <1>3, QuietStep DEF IInv, TypeOK
<1>4. LockInv(t)' /\ FrameInv(t)'
  BY <1>2 DEF LockInv, FrameInv
<1>5. CursorInv' /\ BlocksDisjoint'
  BY DEF IInv, CursorInv, BlocksDisjoint
<1>6. SerialInv'
  BY <1>2, HeapAssumption DEF IInv, SerialInv, TypeOK, Block
<1> QED
  BY <1>3, <1>4, <1>5, <1>6 DEF IInv

LEMMA AllocLockInv ==
  ASSUME RequestsFit, IInv, TypeOK', NEW t \in Thread, AllocLock(t)
  PROVE  IInv'
<1> USE DEF AllocLock, Goto
<1>1. /\ owner \in {NoThread, t} /\ owner # t
      /\ owner' = t /\ depth' = 1
  BY LockSteps DEF IInv, LockInv, TypeOK, Lock!TypeOK
<1>2. /\ frame'[t].site = "query" /\ frame'[t].arg = 0 /\ pc'[t] = "lock"
  BY DEF IInv, TypeOK, Frame
<1>3. ASSUME NEW u \in Thread, u # t PROVE LockInv(u)' /\ FrameInv(u)'
  BY <1>1, <1>3, OtherThread DEF IInv, TypeOK
<1>4. LockInv(t)' /\ FrameInv(t)'
  BY <1>1, <1>2, Constants DEF LockInv, FrameInv
<1>5. CursorInv' /\ BlocksDisjoint'
  BY DEF IInv, CursorInv, BlocksDisjoint
<1>6. SerialInv'
  BY DEF IInv, SerialInv, TypeOK
<1> QED
  BY <1>3, <1>4, <1>5, <1>6 DEF IInv

LEMMA SbrkLockInv ==
  ASSUME RequestsFit, IInv, TypeOK', NEW t \in Thread, SbrkLock(t)
  PROVE  IInv'
<1> USE DEF SbrkLock, Goto
<1>1. /\ owner \in {NoThread, t} /\ owner' = t
      /\ depth' = IF frame[t].site = "caller" THEN 1 ELSE 2
  BY LockSteps DEF IInv, LockInv, TypeOK, Lock!TypeOK
<1>2. pc'[t] = "grow" /\ frame' = frame
  BY DEF IInv, TypeOK
<1>3. ASSUME NEW u \in Thread, u # t PROVE LockInv(u)' /\ FrameInv(u)'
  BY <1>1, <1>3, OtherThread DEF IInv, TypeOK
<1>4. LockInv(t)'
  BY <1>1, <1>2 DEF LockInv
<1>5. FrameInv(t)'
  BY <1>2 DEF IInv, FrameInv, Fresh, Below
<1>6. CursorInv' /\ BlocksDisjoint'
  BY DEF IInv, CursorInv, BlocksDisjoint
<1>7. SerialInv'
  BY DEF IInv, SerialInv, TypeOK
<1> QED
  BY <1>3, <1>4, <1>5, <1>6, <1>7 DEF IInv

LEMMA SbrkGrowInv ==
  ASSUME RequestsFit, IInv, TypeOK', NEW t \in Thread, SbrkGrow(t)
  PROVE  IInv'
<1> USE DEF SbrkGrow, Goto
<1>1. owner = t /\ owner' = t /\ depth' = depth
  BY DEF IInv, LockInv
<1>2. /\ pc'[t] = "commit" /\ frame'[t].site = frame[t].site
      /\ frame'[t].arg = frame[t].arg /\ frame'[t].size = frame[t].size
      /\ frame'[t].base = frame[t].base
      /\ frame'[t].npt = PtrAdd(pt', frame[t].arg)
  BY FrameFields DEF IInv, TypeOK, Frame
<1>3. ASSUME NEW u \in Thread, u # t PROVE LockInv(u)' /\ FrameInv(u)'
  BY <1>1, <1>3, OtherThread DEF IInv, TypeOK
<1>4. LockInv(t)'
  BY <1>1, <1>2 DEF IInv, LockInv
<1>5. CursorInv' /\ pt' # Null /\ pt' <= HeapEnd /\ pt \in Nat /\ pt' \in Nat
      /\ pt <= pt'
  <2>1. CASE pt = Null
    BY <2>1, Constants DEF IInv, CursorInv, TypeOK, Null, Block
  <2>2. CASE pt # Null
    BY <2>2, Constants DEF IInv, CursorInv, TypeOK, Null
  <2> QED BY <2>1, <2>2
<1>6. frame'[t].npt = pt' + frame[t].arg
  <2>1. HeapEnd + frame[t].arg < Space
    BY DEF IInv, FrameInv
  <2> QED
    BY <1>2, <1>5, <2>1, FrameFields, Constants DEF PtrAdd, IInv
<1>7. FrameInv(t)'
  <2>1. frame[t].site = "body" => Fresh(frame[t].base, frame[t].base)'
    BY <1>5, FrameFields, Constants DEF IInv, FrameInv, Fresh, Below
  <2> QED
    BY <1>2, <1>5, <1>6, <2>1 DEF IInv, FrameInv
<1>8. BlocksDisjoint'
  BY DEF IInv, BlocksDisjoint
<1>9. SerialInv'
  BY DEF IInv, SerialInv, TypeOK
<1> QED
  BY <1>3, <1>4, <1>5, <1>7, <1>8, <1>9 DEF IInv

LEMMA SbrkCommitInv ==
  ASSUME RequestsFit, IInv, TypeOK', NEW t \in Thread, SbrkCommit(t)
  PROVE  IInv'
<1> USE DEF SbrkCommit, Goto
<1> DEFINE f == frame[t]
           n == f.npt
<1>1. owner = t /\ owner' = t /\ depth' = depth
  BY DEF IInv, LockInv
<1>2. /\ pc'[t] = "unlock" /\ frame'[t].site = f.site
      /\ frame'[t].arg = f.arg /\ frame'[t].size = f.size
      /\ frame'[t].base = f.base
  BY FrameFields DEF IInv, TypeOK, Frame
<1>3. ASSUME NEW u \in Thread, u # t PROVE LockInv(u)' /\ FrameInv(u)'
  BY <1>1, <1>3, OtherThread DEF IInv, TypeOK
<1>4. LockInv(t)'
  BY <1>1, <1>2 DEF IInv, LockInv
<1>5. /\ pt # Null /\ pt \in Nat /\ f.arg \in Nat /\ n = pt + f.arg
      /\ HeapBegin <= pt
  BY FrameFields DEF IInv, FrameInv, TypeOK, CursorInv
<1>6. ASSUME HeapBegin <= n /\ n <= HeapEnd PROVE CursorInv' /\ FrameInv(t)'
  <2>1. pt' = n /\ frame'[t].ret = pt
    BY <1>5, <1>6, FrameFields, Constants DEF IInv, TypeOK, Frame, PtrSub
  <2>2. CursorInv'
    BY <1>5, <1>6, <2>1, Constants DEF IInv, CursorInv, TypeOK, Block, Null
  <2>3. Fresh(frame[t].ret, frame[t].ret + frame[t].arg)'
    BY <1>2, <1>5, <2>1 DEF IInv, CursorInv, Fresh, Below
  <2>4. f.site = "body" => Fresh(frame[t].base, frame[t].base + frame[t].size)'
    <3>1. ASSUME f.site = "body"
          PROVE  HeapBegin <= f.base /\ f.base <= pt /\ Below(f.base) /\ f.arg = f.size
      BY <3>1 DEF IInv, FrameInv, Fresh
    <3> QED
      BY <1>2, <1>5, <2>1, <3>1, FrameFields, Constants DEF IInv, Fresh, Below
  <2>5. FrameInv(t)'
    BY <1>2, <1>5, <2>1, <2>3, <2>4 DEF IInv, FrameInv
  <2> QED
    BY <2>2, <2>5
<1>7. ASSUME ~(HeapBegin <= n /\ n <= HeapEnd) PROVE CursorInv' /\ FrameInv(t)'
  <2>1. pt' = pt /\ frame'[t].ret = Minus1
    BY <1>7, FrameFields DEF IInv, TypeOK, Frame
  <2>2. CursorInv'
    BY <2>1 DEF IInv, CursorInv
  <2>3. FrameInv(t)'
    BY <1>2, <2>1 DEF IInv, FrameInv
  <2> QED
    BY <2>2, <2>3
<1>8. BlocksDisjoint'
  BY DEF IInv, BlocksDisjoint
<1>9. SerialInv'
  BY DEF IInv, SerialInv, TypeOK
<1> QED
  BY <1>3, <1>4, <1>6, <1>7, <1>8, <1>9 DEF IInv

(* Handing out memory that no block covers keeps the blocks apart, inside  *)
(* the heap and numbered by their calls.                                   *)
LEMMA DeliverInv ==
  ASSUME IInv, NEW t \in Thread, NEW lo \in Nat, NEW failed \in BOOLEAN,
         Deliver(t, lo, failed),
         ~failed => Fresh(lo, lo + frame[t].size),
         pc[t] \notin {"idle", "memset"},
         UNCHANGED <<pt, calls>>,
         \A u \in Thread : u # t => pc'[u] = pc[u],
         pc'[t] \in {"idle", "memset"}
  PROVE  CursorInv' /\ SerialInv' /\ BlocksDisjoint'
<1> DEFINE b == [lo |-> lo, size |-> frame[t].size, align |-> frame[t].align,
                 op |-> frame[t].op, by |-> t, serial |-> calls[t]]
<1>1. CASE failed
  BY <1>1 DEF IInv, Deliver, CursorInv, SerialInv, BlocksDisjoint
<1>2. CASE ~failed
  <2>1. /\ blocks' = blocks \cup {b} /\ b.lo = lo /\ b.size = frame[t].size
        /\ b.by = t /\ b.serial = calls[t]
    BY <1>2 DEF Deliver
  <2>2. /\ HeapBegin <= lo /\ lo + frame[t].size <= pt
        /\ \A c \in blocks : c.lo + c.size <= lo
    BY <1>2 DEF Fresh, Below
  <2>3. CursorInv'
    BY <2>1, <2>2 DEF IInv, CursorInv
  <2>4. SerialInv'
    BY <2>1, HeapAssumption DEF IInv, SerialInv, TypeOK
  <2>5. \A c \in blocks : Bytes(c) \cap Bytes(b) = {}
    BY <2>1, <2>2, FrameFields DEF IInv, TypeOK, Block, Bytes
  <2>6. BlocksDisjoint'
    <3>1. \A c, d \in blocks \cup {b} : c # d => Bytes(c) \cap Bytes(d) = {}
      BY <2>5 DEF IInv, BlocksDisjoint
    <3> QED BY <2>1, <3>1 DEF BlocksDisjoint, Bytes
  <2> QED
    BY <2>3, <2>4, <2>6
<1> QED
  BY <1>1, <1>2

LEMMA SbrkReturnInv ==
  ASSUME RequestsFit, IInv, TypeOK', NEW t \in Thread, SbrkReturn(t)
  PROVE  IInv'
<1> USE DEF SbrkReturn, Goto
<1>1. owner = t /\ depth = 1 /\ owner' = NoThread
  BY LockSteps DEF IInv, LockInv
<1>2. pc'[t] = "idle" /\ \A u \in Thread : u # t => pc'[u] = pc[u]
  BY DEF IInv, TypeOK
<1>3. ASSUME NEW u \in Thread, u # t PROVE LockInv(u)' /\ FrameInv(u)'
  BY <1>1, <1>3, OtherThread DEF IInv, TypeOK
<1>4. LockInv(t)' /\ FrameInv(t)'
  BY <1>1, <1>2, HeapAssumption DEF LockInv, FrameInv
<1>5. frame[t].ret # Minus1 =>
        Fresh(frame[t].ret, frame[t].ret + frame[t].size)
  BY DEF IInv, FrameInv
<1>6. CursorInv' /\ SerialInv' /\ BlocksDisjoint'
  BY <1>2, <1>5, FrameFields, DeliverInv DEF IInv
<1> QED
  BY <1>3, <1>4, <1>6 DEF IInv

(* The first two returns into __ghs_alloc: the next call's argument fits,  *)
(* and before the third call base is above every block.                    *)
LEMMA AllocResumeInv ==
  ASSUME RequestsFit, IInv, TypeOK', NEW t \in Thread,
         QueryReturn(t) \/ PadReturn(t)
  PROVE  IInv'
<1> USE DEF QueryReturn, PadReturn, AllocResume, Goto
<1>1. /\ owner = t /\ depth = 2 /\ owner' = t /\ depth' = 1
  BY LockSteps DEF IInv, LockInv, TypeOK, Lock!TypeOK
<1>2. \A u \in Thread : u # t => pc'[u] = pc[u]
  BY DEF IInv, TypeOK
<1>3. ASSUME NEW u \in Thread, u # t PROVE LockInv(u)' /\ FrameInv(u)'
  BY <1>1, <1>3, OtherThread DEF IInv, TypeOK
<1>4. LockInv(t)' /\ FrameInv(t)'
  <2>1. CASE frame[t].ret = Minus1
    <3>1. pc'[t] = "leave" /\ frame'[t].base = Null
      BY <2>1, FrameFields DEF IInv, TypeOK, Frame
    <3> QED BY <1>1, <3>1 DEF LockInv, FrameInv
  <2>2. CASE frame[t].ret # Minus1
    <3>0. frame[t].size \in Sizes \cup {0}
      BY FrameFields DEF IInv, Frame
    <3>1. HeapEnd + frame[t].size < Space
      BY <3>0, Constants DEF RequestsFit
    <3>2. /\ pc'[t] = "lock" /\ frame'[t].base = frame[t].ret
          /\ frame'[t].size = frame[t].size
      BY <2>2, FrameFields DEF IInv, TypeOK, Frame
    <3>3. CASE QueryReturn(t)
      <4>1. /\ frame'[t].site = "pad"
            /\ frame'[t].arg = Padding(frame[t].ret, frame[t].align)
        BY <2>2, <3>3, FrameFields DEF IInv, TypeOK, Frame
      <4>2. HeapEnd + frame[t].align <= Space
        BY FrameFields, Constants DEF IInv, RequestsFit
      <4>3. Padding(frame[t].ret, frame[t].align) \in 0 .. frame[t].align - 1
        BY FrameFields, PaddingRange DEF IInv, Frame
      <4>4. frame[t].align \in Nat
        BY FrameFields, Constants DEF IInv
      <4>5. HeapEnd + frame'[t].arg < Space
        BY <4>1, <4>2, <4>3, <4>4, Constants
      <4> QED BY <1>1, <3>2, <4>1, <4>5 DEF LockInv, FrameInv
    <3>4. CASE PadReturn(t)
      <4>1. frame'[t].site = "body" /\ frame'[t].arg = frame[t].size
        BY <2>2, <3>4, FrameFields DEF IInv, TypeOK, Frame
      <4>2. Fresh(frame[t].ret, frame[t].ret)
        BY <2>2, FrameFields DEF IInv, FrameInv, Fresh, TypeOK
      <4>3. Fresh(frame[t].base, frame[t].base)'
        BY <3>2, <4>2 DEF Fresh, Below
      <4> QED BY <1>1, <3>1, <3>2, <4>1, <4>3 DEF LockInv, FrameInv
    <3> QED BY <3>3, <3>4
  <2> QED BY <2>1, <2>2
<1>5. CursorInv' /\ BlocksDisjoint'
  BY DEF IInv, CursorInv, BlocksDisjoint
<1>6. SerialInv'
  BY DEF IInv, SerialInv, TypeOK
<1> QED
  BY <1>3, <1>4, <1>5, <1>6 DEF IInv

LEMMA BodyReturnInv ==
  ASSUME RequestsFit, IInv, TypeOK', NEW t \in Thread, BodyReturn(t)
  PROVE  IInv'
<1> USE DEF BodyReturn, Goto
<1>1. /\ owner = t /\ depth = 2 /\ owner' = t /\ depth' = 1
  BY LockSteps DEF IInv, LockInv, TypeOK, Lock!TypeOK
<1>2. /\ pc'[t] = "leave" /\ frame'[t].size = frame[t].size
      /\ frame'[t].base = IF frame[t].ret = Minus1 THEN Null ELSE frame[t].base
  BY FrameFields DEF IInv, TypeOK, Frame
<1>3. ASSUME NEW u \in Thread, u # t PROVE LockInv(u)' /\ FrameInv(u)'
  BY <1>1, <1>3, OtherThread DEF IInv, TypeOK
<1>4. frame[t].ret # Minus1 =>
        Fresh(frame[t].base, frame[t].base + frame[t].size)
  BY DEF IInv, FrameInv
<1>5. LockInv(t)' /\ FrameInv(t)'
  BY <1>1, <1>2, <1>4 DEF LockInv, FrameInv, Fresh, Below
<1>6. CursorInv' /\ BlocksDisjoint'
  BY DEF IInv, CursorInv, BlocksDisjoint
<1>7. SerialInv'
  BY DEF IInv, SerialInv, TypeOK
<1> QED
  BY <1>3, <1>5, <1>6, <1>7 DEF IInv

LEMMA AllocReturnInv ==
  ASSUME RequestsFit, IInv, TypeOK', NEW t \in Thread, AllocReturn(t)
  PROVE  IInv'
<1> USE DEF AllocReturn, Goto
<1>1. owner = t /\ depth = 1 /\ owner' = NoThread
  BY LockSteps DEF IInv, LockInv
<1>2. /\ pc'[t] \in {"idle", "memset"}
      /\ \A u \in Thread : u # t => pc'[u] = pc[u] /\ frame'[u] = frame[u]
  BY DEF IInv, TypeOK
<1>3. ASSUME NEW u \in Thread, u # t PROVE LockInv(u)' /\ FrameInv(u)'
  BY <1>1, <1>2, <1>3, OtherThread
<1>4. LockInv(t)' /\ FrameInv(t)'
  BY <1>1, <1>2, HeapAssumption DEF LockInv, FrameInv
<1>5. frame[t].base # Null =>
        Fresh(frame[t].base, frame[t].base + frame[t].size)
  BY DEF IInv, FrameInv
<1>6. CursorInv' /\ SerialInv' /\ BlocksDisjoint'
  BY <1>2, <1>5, FrameFields, DeliverInv DEF IInv
<1> QED
  BY <1>3, <1>4, <1>6 DEF IInv

LEMMA MemsetInv ==
  ASSUME RequestsFit, IInv, TypeOK', NEW t \in Thread, Memset(t)
  PROVE  IInv'
<1> USE DEF Memset, Goto
<1>1. pc'[t] = "idle" /\ owner # t
  BY DEF IInv, TypeOK, LockInv
<1>2. ASSUME NEW u \in Thread, u # t PROVE LockInv(u)' /\ FrameInv(u)'
  BY <1>2, QuietStep DEF IInv, TypeOK
<1>3. LockInv(t)' /\ FrameInv(t)'
  BY <1>1 DEF LockInv, FrameInv
<1>4. CursorInv' /\ BlocksDisjoint'
  BY DEF IInv, CursorInv, BlocksDisjoint
<1>5. SerialInv'
  BY DEF IInv, SerialInv, TypeOK
<1> QED
  BY <1>2, <1>3, <1>4, <1>5 DEF IInv

LEMMA NextInv == RequestsFit /\ IInv /\ [Next]_vars => IInv'
<1> SUFFICES ASSUME RequestsFit, IInv, [Next]_vars PROVE IInv'
  OBVIOUS
<1>1. TypeOK'
  BY NextType DEF IInv
<1>2. CASE Next
  BY <1>1, <1>2, CallSbrkInv, CallAllocInv, AllocLockInv, SbrkLockInv,
     SbrkGrowInv, SbrkCommitInv, SbrkReturnInv, AllocResumeInv, BodyReturnInv,
     AllocReturnInv, MemsetInv DEF Next, Step
<1>3. CASE UNCHANGED vars
  BY <1>1, <1>3 DEF vars, IInv, LockInv, FrameInv, CursorInv, SerialInv,
                    BlocksDisjoint, Fresh, Below
<1> QED
  BY <1>2, <1>3

LEMMA HeapInvariant == ASSUME RequestsFit PROVE Spec => []IInv
  BY InitInv, NextInv, PTL DEF Spec

(* However threads mix sbrk, __ghs_alloc and __ghs_calloc, and whatever    *)
(* fails, no byte of the heap is handed out twice.                         *)
THEOREM HeapBlocksDisjoint == ASSUME RequestsFit PROVE Spec => []BlocksDisjoint
<1>1. IInv => BlocksDisjoint
  BY DEF IInv
<1> QED
  BY <1>1, HeapInvariant, PTL

(* Every block lies inside the heap segment and below the cursor of sbrk.  *)
THEOREM HeapBlocksInHeap == ASSUME RequestsFit PROVE Spec => []BlocksInHeap
<1>1. IInv => BlocksInHeap
  BY Constants DEF IInv, CursorInv, BlocksInHeap, Block, TypeOK, Null
<1> QED
  BY <1>1, HeapInvariant, PTL
-----------------------------------------------------------------------------
(* Handing out uncovered memory is the arena's Grant. *)
LEMMA DeliverGrants ==
  ASSUME IInv, NEW t \in Thread, NEW lo \in Nat, NEW failed \in BOOLEAN,
         Deliver(t, lo, failed),
         ~failed => Fresh(lo, lo + frame[t].size)
  PROVE  A!Grant \/ blocks' = blocks
<1> DEFINE b == [lo |-> lo, size |-> frame[t].size, align |-> frame[t].align,
                 op |-> frame[t].op, by |-> t, serial |-> calls[t]]
<1>1. CASE failed
  BY <1>1 DEF Deliver
<1>2. CASE ~failed
  <2>1. blocks' = blocks \cup {b} /\ b \in blocks'
    BY <1>2 DEF Deliver
  <2>2. /\ HeapBegin <= lo /\ lo + frame[t].size <= pt /\ pt <= HeapEnd
        /\ \A c \in blocks : c.lo + c.size <= lo
    BY <1>2, FrameFields, Constants DEF Fresh, Below, IInv, CursorInv, TypeOK, Null
  <2>3. A!Fits(b)
    BY <2>2, FrameFields, Constants DEF A!Fits, IInv, TypeOK
  <2>4. \A c \in blocks : A!Apart(b, c)
    BY <2>2, FrameFields DEF IInv, TypeOK, Block, A!Apart, A!Bytes
  <2> QED
    BY <2>1, <2>3, <2>4 DEF A!Grant
<1> QED
  BY <1>1, <1>2

LEMMA ArenaStep == IInv /\ [Next]_vars => [A!Grant]_blocks
<1> SUFFICES ASSUME IInv, [Next]_vars PROVE A!Grant \/ blocks' = blocks
  OBVIOUS
<1>1. ASSUME NEW t \in Thread, SbrkReturn(t) PROVE A!Grant \/ blocks' = blocks
  <2>1. frame[t].ret # Minus1 =>
          Fresh(frame[t].ret, frame[t].ret + frame[t].size)
    BY <1>1 DEF SbrkReturn, IInv, FrameInv
  <2> QED
    BY <1>1, <2>1, FrameFields, DeliverGrants DEF SbrkReturn, IInv
<1>2. ASSUME NEW t \in Thread, AllocReturn(t) PROVE A!Grant \/ blocks' = blocks
  <2>1. frame[t].base # Null =>
          Fresh(frame[t].base, frame[t].base + frame[t].size)
    BY <1>2 DEF AllocReturn, IInv, FrameInv
  <2> QED
    BY <1>2, <2>1, FrameFields, DeliverGrants DEF AllocReturn, IInv
<1>3. ASSUME NEW t \in Thread,
             \/ CallSbrk(t) \/ CallAlloc(t) \/ AllocLock(t) \/ SbrkLock(t)
             \/ SbrkGrow(t) \/ SbrkCommit(t) \/ QueryReturn(t) \/ PadReturn(t)
             \/ BodyReturn(t) \/ Memset(t)
      PROVE  blocks' = blocks
  BY <1>3 DEF CallSbrk, CallAlloc, AllocLock, SbrkLock, SbrkGrow, SbrkCommit,
              QueryReturn, PadReturn, AllocResume, BodyReturn, Memset
<1>4. CASE UNCHANGED vars
  BY <1>4 DEF vars
<1> QED
  BY <1>1, <1>2, <1>3, <1>4 DEF Next, Step

(* sbrk, __ghs_alloc and __ghs_calloc together implement the abstract      *)
(* arena: the detailed calls, locks and failures show as grants or not at  *)
(* all.                                                                    *)
THEOREM HeapImplementsArena == ASSUME RequestsFit PROVE Spec => ArenaSpec
<1>1. Init => A!Init
  BY DEF Init, A!Init
<1> QED
  BY <1>1, ArenaStep, HeapInvariant, PTL DEF Spec, ArenaSpec, A!Spec
-----------------------------------------------------------------------------
(* What is zeroed stays zeroed: a calloc'd block between its return and    *)
(* its memset is the only one that need not be.                            *)
ZeroInv ==
  /\ CallocZeroed
  /\ \A t \in Thread : pc[t] = "memset" =>
       \A b \in blocks : b.by = t /\ b.serial = calls[t] =>
         b.lo = frame[t].base /\ b.size = frame[t].size
  /\ \A t \in Thread : pc[t] \notin {"idle", "alloc"} /\ frame[t].op = "calloc"
       => frame[t].site # "caller"

LEMMA ZeroInit == Init => ZeroInv
  BY DEF Init, ZeroInv, CallocZeroed

LEMMA DeliverZero ==
  ASSUME IInv, ZeroInv, NEW t \in Thread, NEW lo \in Nat, NEW failed \in BOOLEAN,
         Deliver(t, lo, failed),
         ~failed => Fresh(lo, lo + frame[t].size),
         pc[t] \notin {"idle", "memset"}, calls' = calls,
         \A u \in Thread : u # t => pc'[u] = pc[u],
         ~failed /\ frame[t].op = "calloc" => pc'[t] = "memset"
  PROVE  CallocZeroed'
<1> DEFINE b == [lo |-> lo, size |-> frame[t].size, align |-> frame[t].align,
                 op |-> frame[t].op, by |-> t, serial |-> calls[t]]
<1>1. CASE failed
  <2>1. blocks' = blocks /\ zeroed' = zeroed
    BY <1>1 DEF Deliver
  <2> QED
    BY <2>1 DEF ZeroInv, CallocZeroed, IInv, TypeOK, Block, Bytes
<1>2. CASE ~failed
  <2>1. /\ blocks' = blocks \cup {b} /\ zeroed' = zeroed \ Bytes(b)
        /\ b.by = t /\ b.serial = calls[t]
        /\ (b.op = "calloc" => pc'[t] = "memset")
    BY <1>2 DEF Deliver, Bytes
  <2>2. ASSUME NEW c \in blocks, c.op = "calloc",
               ~(pc'[c.by] = "memset" /\ calls[c.by] = c.serial)
        PROVE  Bytes(c) \subseteq zeroed'
    <3>1. ~(pc[c.by] = "memset" /\ calls[c.by] = c.serial)
      BY <2>2 DEF IInv, TypeOK, Block
    <3>2. Bytes(c) \subseteq zeroed
      BY <2>2, <3>1 DEF ZeroInv, CallocZeroed
    <3>3. c.lo + c.size <= lo
      BY <1>2 DEF Fresh, Below
    <3>4. Bytes(c) \cap Bytes(b) = {}
      BY <3>3, FrameFields DEF Bytes, IInv, TypeOK, Block
    <3> QED
      BY <2>1, <3>2, <3>4
  <2>3. ASSUME NEW c \in blocks', c.op = "calloc",
               ~(pc'[c.by] = "memset" /\ calls'[c.by] = c.serial)
        PROVE  Bytes(c) \subseteq zeroed'
    BY <2>1, <2>2, <2>3
  <2> QED
    BY <2>3 DEF CallocZeroed, Bytes
<1> QED
  BY <1>1, <1>2

(* Steps that hand nothing out and do not write memory. *)
LEMMA ZeroQuiet ==
  ASSUME IInv, ZeroInv, NEW t \in Thread, UNCHANGED <<blocks, zeroed>>,
         \A u \in Thread : u # t => pc'[u] = pc[u] /\ calls'[u] = calls[u],
         pc[t] # "memset", pc'[t] # "memset"
  PROVE  CallocZeroed'
  BY DEF ZeroInv, CallocZeroed, IInv, TypeOK, Block, Bytes

LEMMA ZeroNext == IInv /\ ZeroInv /\ [Next]_vars => ZeroInv'
<1> SUFFICES ASSUME IInv, ZeroInv, [Next]_vars PROVE ZeroInv'
  OBVIOUS
<1> USE DEF Goto
<1> DEFINE Here(t) == pc[t] = "memset" =>
                        \A b \in blocks : b.by = t /\ b.serial = calls[t] =>
                          b.lo = frame[t].base /\ b.size = frame[t].size
           Site(t) == pc[t] \notin {"idle", "alloc"} /\ frame[t].op = "calloc"
                        => frame[t].site # "caller"
<1>1. ASSUME NEW t \in Thread, CallSbrk(t) \/ CallAlloc(t) PROVE ZeroInv'
  <2>1. /\ UNCHANGED <<blocks, zeroed>>
        /\ \A u \in Thread : u # t =>
             pc'[u] = pc[u] /\ calls'[u] = calls[u] /\ frame'[u] = frame[u]
        /\ pc[t] = "idle" /\ pc'[t] \in {"lock", "alloc"}
        /\ pc'[t] = "lock" => frame'[t].op = "sbrk"
    BY <1>1 DEF CallSbrk, CallAlloc, NewFrame, IInv, TypeOK
  <2>2. CallocZeroed'
    BY <2>1, ZeroQuiet
  <2>3. ASSUME NEW u \in Thread PROVE Here(u)' /\ Site(u)'
    BY <2>1 DEF ZeroInv
  <2> QED BY <2>2, <2>3 DEF ZeroInv
<1>2. ASSUME NEW t \in Thread, AllocLock(t) \/ SbrkLock(t) \/ SbrkGrow(t) \/ SbrkCommit(t)
             \/ QueryReturn(t) \/ PadReturn(t) \/ BodyReturn(t)
      PROVE  ZeroInv'
  <2>1. /\ UNCHANGED <<blocks, zeroed, calls>>
        /\ \A u \in Thread : u # t => pc'[u] = pc[u] /\ frame'[u] = frame[u]
        /\ pc[t] \notin {"idle", "memset"} /\ pc'[t] # "memset"
    BY <1>2 DEF AllocLock, SbrkLock, SbrkGrow, SbrkCommit, QueryReturn,
                PadReturn, AllocResume, BodyReturn, IInv, TypeOK
  <2>2. /\ frame'[t].op = frame[t].op
        /\ frame'[t].site # frame[t].site => frame'[t].site # "caller"
        /\ pc[t] = "alloc" => frame'[t].site # "caller"
    BY <1>2, FrameFields DEF AllocLock, SbrkLock, SbrkGrow, SbrkCommit,
                QueryReturn, PadReturn, AllocResume, BodyReturn, IInv, TypeOK, Frame
  <2>3. CallocZeroed'
    BY <2>1, ZeroQuiet
  <2>4. ASSUME NEW u \in Thread PROVE Here(u)' /\ Site(u)'
    BY <2>1, <2>2 DEF ZeroInv
  <2> QED BY <2>3, <2>4 DEF ZeroInv
<1>3. ASSUME NEW t \in Thread, SbrkReturn(t) PROVE ZeroInv'
  <2>1. /\ calls' = calls /\ pc[t] = "unlock" /\ pc'[t] = "idle"
        /\ \A u \in Thread : u # t => pc'[u] = pc[u] /\ frame'[u] = frame[u]
    BY <1>3 DEF SbrkReturn, IInv, TypeOK
  <2>2. frame[t].op # "calloc"
    BY <1>3 DEF SbrkReturn, ZeroInv
  <2>3. /\ Deliver(t, frame[t].ret, frame[t].ret = Minus1)
        /\ frame[t].ret # Minus1 => Fresh(frame[t].ret, frame[t].ret + frame[t].size)
    BY <1>3 DEF SbrkReturn, IInv, FrameInv
  <2>4. CallocZeroed'
    BY <2>1, <2>2, <2>3, FrameFields, DeliverZero DEF IInv
  <2>5. \A b \in blocks' : b \in blocks \/ b.by = t
    BY <2>3 DEF Deliver
  <2>6. ASSUME NEW u \in Thread PROVE Here(u)' /\ Site(u)'
    BY <2>1, <2>5 DEF ZeroInv
  <2> QED BY <2>4, <2>6 DEF ZeroInv
<1>4. ASSUME NEW t \in Thread, AllocReturn(t) PROVE ZeroInv'
  <2>1. /\ calls' = calls /\ pc[t] = "leave" /\ pc'[t] \in {"idle", "memset"}
        /\ frame[t].op = "calloc" /\ frame[t].base # Null => pc'[t] = "memset"
        /\ pc'[t] = "memset" => frame' = frame /\ frame[t].base # Null
        /\ \A u \in Thread : u # t => pc'[u] = pc[u] /\ frame'[u] = frame[u]
    BY <1>4 DEF AllocReturn, IInv, TypeOK
  <2>2. /\ Deliver(t, frame[t].base, frame[t].base = Null)
        /\ frame[t].base # Null => Fresh(frame[t].base, frame[t].base + frame[t].size)
    BY <1>4 DEF AllocReturn, IInv, FrameInv
  <2>3. CallocZeroed'
    BY <2>1, <2>2, FrameFields, DeliverZero DEF IInv
  <2>4. \A b \in blocks' : b \in blocks
          \/ (b.by = t /\ b.lo = frame[t].base /\ b.size = frame[t].size)
    BY <2>2 DEF Deliver
  <2>5. \A b \in blocks : b.by = t => b.serial # calls[t]
    BY <2>1 DEF IInv, SerialInv
  <2>6. ASSUME NEW u \in Thread PROVE Here(u)' /\ Site(u)'
    BY <2>1, <2>4, <2>5 DEF ZeroInv
  <2> QED BY <2>3, <2>6 DEF ZeroInv
<1>5. ASSUME NEW t \in Thread, Memset(t) PROVE ZeroInv'
  <2>1. /\ UNCHANGED <<blocks, calls>> /\ pc[t] = "memset" /\ pc'[t] = "idle"
        /\ zeroed' = zeroed \cup (frame[t].base .. frame[t].base + frame[t].size - 1)
        /\ \A u \in Thread : u # t => pc'[u] = pc[u] /\ frame'[u] = frame[u]
    BY <1>5 DEF Memset, IInv, TypeOK
  <2>2. ASSUME NEW b \in blocks, b.op = "calloc",
               ~(pc'[b.by] = "memset" /\ calls[b.by] = b.serial)
        PROVE  Bytes(b) \subseteq zeroed'
    <3>1. CASE b.by = t /\ b.serial = calls[t]
      BY <2>1, <3>1 DEF ZeroInv, Bytes
    <3>2. CASE ~(b.by = t /\ b.serial = calls[t])
      BY <2>1, <2>2, <3>2 DEF ZeroInv, CallocZeroed, IInv, TypeOK, Block
    <3> QED BY <3>1, <3>2
  <2>3. CallocZeroed'
    BY <2>1, <2>2 DEF CallocZeroed, Bytes
  <2>4. ASSUME NEW u \in Thread PROVE Here(u)' /\ Site(u)'
    BY <2>1 DEF ZeroInv
  <2> QED BY <2>3, <2>4 DEF ZeroInv
<1>6. CASE UNCHANGED vars
  BY <1>6 DEF vars, ZeroInv, CallocZeroed, Bytes
<1> QED
  BY <1>1, <1>2, <1>3, <1>4, <1>5, <1>6 DEF Next, Step

(* The memset of __ghs_calloc runs after the lock is gone; the block holds *)
(* zeros all the same, because nobody else was given a byte of it.         *)
THEOREM HeapCallocZeroed == ASSUME RequestsFit PROVE Spec => []CallocZeroed
<1>1. ZeroInv => CallocZeroed
  BY DEF ZeroInv
<1> QED
  BY <1>1, ZeroInit, ZeroNext, HeapInvariant, PTL DEF Spec
=============================================================================
