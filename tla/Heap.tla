-------------------------------- MODULE Heap --------------------------------
(***************************************************************************)
(* ind_heap.c and ind_alloc.c: the heap cursor of sbrk, with __ghs_alloc   *)
(* and __ghs_calloc on top of it, called by several threads.               *)
(*                                                                         *)
(* sbrk keeps one static pointer pt.  __ghs_alloc asks sbrk three times:   *)
(* for the cursor (size 0), for the padding that aligns it, for the block. *)
(* It returns what the second call returned, so the three calls must be    *)
(* contiguous: it holds the global lock around them, and sbrk takes that   *)
(* same lock again.                                                        *)
(***************************************************************************)
EXTENDS Integers

CONSTANTS
  Thread, NoThread,
  HeapBegin, HeapEnd,  (* the linker's __ghsbegin_heap and __ghsend_heap *)
  Space,               (* pointers and size_t count modulo Space         *)
  Sizes,               (* the sizes callers ask for                      *)
  Aligns,              (* the alignments callers ask for                 *)
  MaxCalls             (* bound: calls per thread                        *)

ASSUME HeapAssumption ==
  /\ NoThread \notin Thread
  /\ HeapBegin \in Nat /\ HeapEnd \in Nat /\ Space \in Nat
  /\ 0 < HeapBegin /\ HeapBegin <= HeapEnd /\ HeapEnd < Space - 1
  /\ Sizes \subseteq 0 .. Space - 1
  /\ Aligns \subseteq 1 .. Space - 1
  /\ MaxCalls \in Nat

(* No request is so large that cursor + size wraps around the address     *)
(* space.  sbrk does not check this; its callers have to see to it.       *)
RequestsFit ==
  /\ \A s \in Sizes : HeapEnd + s < Space
  /\ \A a \in Aligns : HeapEnd + a <= Space

Null   == 0
Minus1 == Space - 1   (* the pointer -1, what sbrk returns on an error *)

VARIABLES
  pt,      (* sbrk's static cursor, Null before the first call             *)
  errno,   (* the program's one errno: USE_THREAD_LOCAL_ERRNO is not set   *)
  owner, depth,   (* the global lock                                       *)
  pc,      (* where each thread is                                         *)
  frame,   (* the arguments and locals of the call it makes                *)
  calls,   (* calls made so far                                            *)
  blocks,  (* history: the blocks returned to callers                      *)
  zeroed   (* the addresses known to hold zero                             *)

vars == <<pt, errno, owner, depth, pc, frame, calls, blocks, zeroed>>

Lock == INSTANCE GlobalLock

(* op, size and align are the caller's; site says who called sbrk (the    *)
(* caller itself or one of the three places in __ghs_alloc); arg, npt and *)
(* ret are sbrk's; base is the variable __ghs_alloc calls ret.            *)
Frame ==
  [op : {"sbrk", "alloc", "calloc"}, size : Sizes \cup {0},
   align : Aligns \cup {1}, site : {"caller", "query", "pad", "body"},
   arg : 0 .. Space - 1, npt : 0 .. Space - 1, ret : 0 .. Space - 1,
   base : 0 .. Space - 1]

NewFrame(op, size, align, arg) ==
  [op |-> op, size |-> size, align |-> align, site |-> "caller", arg |-> arg,
   npt |-> Null, ret |-> Null, base |-> Null]

EmptyFrame == NewFrame("sbrk", 0, 1, 0)

(* by and serial tell apart two blocks at the same place. *)
Block ==
  [lo : Nat, size : Nat, align : Aligns \cup {1}, op : {"sbrk", "alloc", "calloc"},
   by : Thread, serial : 0 .. MaxCalls]

Bytes(b) == b.lo .. b.lo + b.size - 1

(* Pointer arithmetic wraps; both arguments are below Space. *)
PtrAdd(p, n) == IF p + n < Space THEN p + n ELSE p + n - Space
PtrSub(p, n) == IF n <= p THEN p - n ELSE p - n + Space

(* (-(intptr_t)ret) & (align-1), for align a power of two. *)
Padding(p, align) == (align - (p % align)) % align

Goto(t, label) == pc' = [pc EXCEPT ![t] = label]

Init ==
  /\ pt = Null /\ errno = "0"
  /\ Lock!Init
  /\ pc = [t \in Thread |-> "idle"]
  /\ frame = [t \in Thread |-> EmptyFrame]
  /\ calls = [t \in Thread |-> 0]
  /\ blocks = {} /\ zeroed = {}
-----------------------------------------------------------------------------
(* A thread calls sbrk(size). *)
CallSbrk(t) ==
  /\ pc[t] = "idle" /\ calls[t] < MaxCalls
  /\ calls' = [calls EXCEPT ![t] = @ + 1]
  /\ \E s \in Sizes :
       frame' = [frame EXCEPT ![t] = NewFrame("sbrk", s, 1, s)]
  /\ Goto(t, "lock")
  /\ UNCHANGED <<pt, errno, owner, depth, blocks, zeroed>>

(* A thread calls __ghs_alloc(size, align) or __ghs_calloc(size, align). *)
CallAlloc(t) ==
  /\ pc[t] = "idle" /\ calls[t] < MaxCalls
  /\ calls' = [calls EXCEPT ![t] = @ + 1]
  /\ \E s \in Sizes, a \in Aligns, o \in {"alloc", "calloc"} :
       frame' = [frame EXCEPT ![t] = NewFrame(o, s, a, 0)]
  /\ Goto(t, "alloc")
  /\ UNCHANGED <<pt, errno, owner, depth, blocks, zeroed>>

(* __ghs_alloc takes the lock and calls sbrk(0). *)
AllocLock(t) ==
  /\ pc[t] = "alloc"
  /\ Lock!Acquire(t)
  /\ frame' = [frame EXCEPT ![t].site = "query", ![t].arg = 0]
  /\ Goto(t, "lock")
  /\ UNCHANGED <<pt, errno, calls, blocks, zeroed>>

SbrkLock(t) ==
  /\ pc[t] = "lock"
  /\ Lock!Acquire(t)
  /\ Goto(t, "grow")
  /\ UNCHANGED <<pt, errno, frame, calls, blocks, zeroed>>

(* First use sets pt; npt is computed from what pt holds now. *)
SbrkGrow(t) ==
  /\ pc[t] = "grow"
  /\ pt' = IF pt = Null THEN HeapBegin ELSE pt
  /\ frame' = [frame EXCEPT ![t].npt = PtrAdd(pt', frame[t].arg)]
  /\ Goto(t, "commit")
  /\ UNCHANGED <<errno, owner, depth, calls, blocks, zeroed>>

(* Faulty: the old cursor is compared with the end, not the new one. *)
SbrkCommitOldCursor(t) ==
  /\ pc[t] = "commit"
  /\ LET n == frame[t].npt IN
     \/ /\ HeapBegin <= n /\ pt <= HeapEnd
        /\ pt' = n
        /\ frame' = [frame EXCEPT ![t].ret = PtrSub(n, frame[t].arg)]
        /\ UNCHANGED errno
     \/ /\ ~(HeapBegin <= n /\ pt <= HeapEnd)
        /\ frame' = [frame EXCEPT ![t].ret = Minus1]
        /\ errno' = "ENOMEM"
        /\ UNCHANGED pt
  /\ Goto(t, "unlock")
  /\ UNCHANGED <<owner, depth, calls, blocks, zeroed>>

(* Faulty: the new break is returned, as brk would have it. *)
SbrkCommitNewBreak(t) ==
  /\ pc[t] = "commit"
  /\ LET n == frame[t].npt IN
     \/ /\ HeapBegin <= n /\ n <= HeapEnd
        /\ pt' = n
        /\ frame' = [frame EXCEPT ![t].ret = n]
        /\ UNCHANGED errno
     \/ /\ ~(HeapBegin <= n /\ n <= HeapEnd)
        /\ frame' = [frame EXCEPT ![t].ret = Minus1]
        /\ errno' = "ENOMEM"
        /\ UNCHANGED pt
  /\ Goto(t, "unlock")
  /\ UNCHANGED <<owner, depth, calls, blocks, zeroed>>

(* The bounds check, and the cursor moves or errno is set. *)
SbrkCommit(t) ==
  /\ pc[t] = "commit"
  /\ LET n == frame[t].npt IN
     \/ /\ HeapBegin <= n /\ n <= HeapEnd
        /\ pt' = n
        /\ frame' = [frame EXCEPT ![t].ret = PtrSub(n, frame[t].arg)]
        /\ UNCHANGED errno
     \/ /\ ~(HeapBegin <= n /\ n <= HeapEnd)
        /\ frame' = [frame EXCEPT ![t].ret = Minus1]
        /\ errno' = "ENOMEM"
        /\ UNCHANGED pt
  /\ Goto(t, "unlock")
  /\ UNCHANGED <<owner, depth, calls, blocks, zeroed>>
-----------------------------------------------------------------------------
(* A call returns lo to thread t; Null and Minus1 stand for no block. *)
Deliver(t, lo, failed) ==
  /\ blocks' = IF failed THEN blocks
               ELSE blocks \cup
                 {[lo |-> lo, size |-> frame[t].size, align |-> frame[t].align,
                   op |-> frame[t].op, by |-> t, serial |-> calls[t]]}
  (* what the caller of sbrk or __ghs_alloc writes there is its business *)
  /\ zeroed' = IF failed THEN zeroed
               ELSE zeroed \ (lo .. lo + frame[t].size - 1)

(* sbrk releases the lock and returns to the thread... *)
SbrkReturn(t) ==
  /\ pc[t] = "unlock" /\ frame[t].site = "caller"
  /\ Lock!Release(t)
  /\ Deliver(t, frame[t].ret, frame[t].ret = Minus1)
  /\ frame' = [frame EXCEPT ![t] = EmptyFrame]
  /\ Goto(t, "idle")
  /\ UNCHANGED <<pt, errno, calls>>

(* ... or to __ghs_alloc, which gives up or makes its next call. *)
AllocResume(t, nextSite, nextArg) ==
  /\ pc[t] = "unlock"
  /\ Lock!Release(t)
  /\ IF frame[t].ret = Minus1
       THEN /\ frame' = [frame EXCEPT ![t].base = Null]
            /\ Goto(t, "leave")
       ELSE /\ frame' = [frame EXCEPT ![t].base = frame[t].ret,
                                      ![t].site = nextSite,
                                      ![t].arg = nextArg]
            /\ Goto(t, "lock")
  /\ UNCHANGED <<pt, errno, calls, blocks, zeroed>>

QueryReturn(t) ==
  /\ frame[t].site = "query"
  /\ AllocResume(t, "pad", Padding(frame[t].ret, frame[t].align))

PadReturn(t) ==
  /\ frame[t].site = "pad"
  /\ AllocResume(t, "body", frame[t].size)

(* Faulty: the third call's failure goes unnoticed. *)
BodyReturnUntested(t) ==
  /\ pc[t] = "unlock" /\ frame[t].site = "body"
  /\ Lock!Release(t)
  /\ Goto(t, "leave")
  /\ UNCHANGED <<pt, errno, frame, calls, blocks, zeroed>>

(* The third call's value is only tested: base keeps the second's. *)
BodyReturn(t) ==
  /\ pc[t] = "unlock" /\ frame[t].site = "body"
  /\ Lock!Release(t)
  /\ frame' = [frame EXCEPT ![t].base = IF frame[t].ret = Minus1 THEN Null ELSE @]
  /\ Goto(t, "leave")
  /\ UNCHANGED <<pt, errno, calls, blocks, zeroed>>

(* __ghs_alloc releases the lock; __ghs_calloc goes on to memset. *)
AllocReturn(t) ==
  /\ pc[t] = "leave"
  /\ Lock!Release(t)
  /\ Deliver(t, frame[t].base, frame[t].base = Null)
  /\ IF frame[t].op = "calloc" /\ frame[t].base # Null
       THEN Goto(t, "memset") /\ UNCHANGED frame
       ELSE Goto(t, "idle") /\ frame' = [frame EXCEPT ![t] = EmptyFrame]
  /\ UNCHANGED <<pt, errno, calls>>

(* Faulty: the last byte is left out. *)
MemsetShort(t) ==
  /\ pc[t] = "memset"
  /\ zeroed' = zeroed \cup (frame[t].base .. frame[t].base + frame[t].size - 2)
  /\ frame' = [frame EXCEPT ![t] = EmptyFrame]
  /\ Goto(t, "idle")
  /\ UNCHANGED <<pt, errno, owner, depth, calls, blocks>>

Memset(t) ==
  /\ pc[t] = "memset"
  /\ zeroed' = zeroed \cup (frame[t].base .. frame[t].base + frame[t].size - 1)
  /\ frame' = [frame EXCEPT ![t] = EmptyFrame]
  /\ Goto(t, "idle")
  /\ UNCHANGED <<pt, errno, owner, depth, calls, blocks>>

Step(t) ==
  \/ AllocLock(t) \/ SbrkLock(t) \/ SbrkGrow(t) \/ SbrkCommit(t)
  \/ SbrkReturn(t) \/ QueryReturn(t) \/ PadReturn(t) \/ BodyReturn(t)
  \/ AllocReturn(t) \/ Memset(t)

Next == \E t \in Thread : CallSbrk(t) \/ CallAlloc(t) \/ Step(t)

Spec == Init /\ [][Next]_vars

(* A thread inside a call keeps running; nobody has to make a call. *)
FairSpec == Spec /\ \A t \in Thread : WF_vars(Step(t))
-----------------------------------------------------------------------------
(* Every variable keeps to its type: the 32-bit registers of the calls in  *)
(* ind_heap.c and ind_alloc.c stay below Space, and the lock is owned      *)
(* exactly when its depth is positive.                                     *)
TypeOK ==
  /\ pt \in 0 .. Space - 1
  /\ errno \in {"0", "ENOMEM"}
  /\ Lock!TypeOK
  /\ pc \in [Thread -> {"idle", "alloc", "lock", "grow", "commit", "unlock",
                        "leave", "memset"}]
  /\ frame \in [Thread -> Frame]
  /\ calls \in [Thread -> 0 .. MaxCalls]
  /\ blocks \subseteq Block
  /\ zeroed \subseteq Int

(* No byte is handed out twice, by whatever mix of sbrk, __ghs_alloc and   *)
(* __ghs_calloc calls the threads make.                                    *)
BlocksDisjoint ==
  \A b, c \in blocks : b # c => Bytes(b) \cap Bytes(c) = {}

(* Every block lies between the linker's heap symbols and below the        *)
(* cursor, so no later call can reach it.                                  *)
BlocksInHeap ==
  \A b \in blocks : HeapBegin <= b.lo /\ b.lo + b.size <= pt /\ pt <= HeapEnd

(* A block from __ghs_calloc holds zeros when the call has returned, and   *)
(* still does whatever other threads were given since: the memset runs     *)
(* after the lock is released.                                             *)
CallocZeroed ==
  \A b \in blocks :
    b.op = "calloc" /\ ~(pc[b.by] = "memset" /\ calls[b.by] = b.serial)
      => Bytes(b) \subseteq zeroed

(* "At an address that is aligned to at least a multiple of align"         *)
(* (ind_alloc.c).  It is not: what __ghs_alloc returns is the value of the *)
(* second sbrk call, which is the address where the padding starts.        *)
AllocAligned == \A b \in blocks : b.lo % b.align = 0

(* The inductive invariant behind BlocksDisjoint and BlocksInHeap: who     *)
(* holds the lock in which step, what the registers of a call in progress  *)
(* say about the cursor, and that the block it will return starts above    *)
(* all blocks returned so far.                                             *)
LockInv(t) ==
  /\ pc[t] \in {"idle", "alloc", "memset"} => owner # t
  /\ pc[t] = "lock" /\ frame[t].site = "caller" => owner # t
  /\ pc[t] = "lock" /\ frame[t].site # "caller" => owner = t /\ depth = 1
  /\ pc[t] \in {"grow", "commit", "unlock"} =>
       owner = t /\ depth = IF frame[t].site = "caller" THEN 1 ELSE 2
  /\ pc[t] = "leave" => owner = t /\ depth = 1

Below(a) == \A b \in blocks : b.lo + b.size <= a

(* [lo, hi) is memory that no block covers. *)
Fresh(lo, hi) == HeapBegin <= lo /\ hi <= pt /\ Below(lo)

FrameInv(t) ==
  LET f == frame[t] IN
  /\ pc[t] \in {"lock", "grow", "commit", "unlock"} =>
       /\ HeapEnd + f.arg < Space
       /\ f.site \in {"caller", "body"} => f.arg = f.size
       /\ f.site = "query" => f.arg = 0
  /\ pc[t] = "commit" => pt # Null /\ f.npt = pt + f.arg
  /\ pc[t] = "unlock" /\ f.ret # Minus1 =>
       f.ret + f.arg = pt /\ Fresh(f.ret, f.ret + f.arg)
  /\ pc[t] \in {"lock", "grow", "commit"} /\ f.site = "body" =>
       Fresh(f.base, f.base)
  /\ pc[t] = "unlock" /\ f.site = "body" /\ f.ret # Minus1 =>
       Fresh(f.base, f.base + f.size)
  /\ pc[t] = "leave" /\ f.base # Null => Fresh(f.base, f.base + f.size)

CursorInv ==
  /\ pt # Null => HeapBegin <= pt /\ pt <= HeapEnd
  /\ \A b \in blocks : HeapBegin <= b.lo /\ b.lo + b.size <= pt

(* No two blocks are from the same call. *)
SerialInv ==
  /\ \A b \in blocks : b.serial <= calls[b.by]
  /\ \A t \in Thread : pc[t] \notin {"idle", "memset"} =>
       \A b \in blocks : b.by = t => b.serial # calls[t]

IInv ==
  /\ TypeOK
  /\ \A t \in Thread : LockInv(t) /\ FrameInv(t)
  /\ CursorInv /\ SerialInv /\ BlocksDisjoint

(* Every call returns: sbrk takes the lock its caller __ghs_alloc holds,   *)
(* and nobody is left waiting for it.                                      *)
CallsReturn == \A t \in Thread : pc[t] # "idle" ~> pc[t] = "idle"

(* The blocks behave as the abstract arena says: in the heap, apart from   *)
(* all earlier ones, never taken back.                                     *)
A == INSTANCE Arena WITH Begin <- HeapBegin, End <- HeapEnd
ArenaSpec == A!Spec
=============================================================================
