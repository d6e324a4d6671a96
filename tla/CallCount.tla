------------------------------ MODULE CallCount ------------------------------
(***************************************************************************)
(* ind_mprf.c as libsys builds it, with threads and without in_mcount: the *)
(* call counter.  Every function compiled with -p owns a counter, its      *)
(* area, and calls __ghs_indmcount with it.  A counter of 0 means that the *)
(* function is not listed yet: it is then entered in the last chunk of a   *)
(* list of chunks, under the profile lock.  The counter is tested before   *)
(* the lock and incremented after it.                                      *)
(*                                                                         *)
(* The profile lock is __ghsLock unless the system supplies an interrupt   *)
(* lock (ind_thrd.h); here it is __ghsLock, which _Exit holds around its   *)
(* dump.  So what happens under it is one step, and so is a dump.          *)
(***************************************************************************)
EXTENDS Naturals, Sequences, SequencesExt

CONSTANTS
  Thread,
  Func,         (* the profiled functions                                 *)
  Callers,      (* the threads that call each of them                     *)
  ChunkSize,    (* CNTCHUNKSIZE                                           *)
  HeapChunks,   (* bound: chunks that __ghs_calloc may be able to grant   *)
  CountMod,     (* an int counts modulo this                              *)
  MaxCalls      (* bound: calls that are counted                          *)

ASSUME CallCountAssumption ==
  /\ Callers \in [Func -> SUBSET Thread]
  /\ ChunkSize \in Nat \ {0} /\ HeapChunks \in Nat
  /\ CountMod \in Nat \ {0, 1} /\ MaxCalls \in Nat

VARIABLES
  area,      (* each function's counter                                   *)
  list,      (* the chunks from cntHead to cntTail, each the functions it
                holds in order                                            *)
  free,      (* the chunks of cntFreeList, with what they held            *)
  heap,      (* chunks not yet allocated                                  *)
  nomemory,
  atExit,    (* the dump is on the exit list                              *)
  pc, fn,    (* each thread: where it is, for which function              *)
  reg,       (* the counter it has loaded                                 *)
  monout,    (* the functions and counts in mon.out                       *)
  made,      (* history: calls of each function since the last clear      *)
  returned,  (* history: functions since then with a counted call that has
                returned                                                  *)
  before,    (* history: what was so when each function's first call began *)
  calls      (* bound                                                     *)

lists == <<list, free, heap>>
hist  == <<made, returned, before, calls>>
local == <<pc, fn, reg>>
vars  == <<area, lists, nomemory, atExit, local, monout, hist>>

Init ==
  /\ area = [f \in Func |-> 0]
  /\ list = <<>> /\ free = <<>> /\ heap \in 0 .. HeapChunks
  /\ nomemory = FALSE /\ atExit = FALSE
  /\ pc = [t \in Thread |-> "idle"]
  /\ fn = [t \in Thread |-> CHOOSE f \in Func : TRUE]
  /\ reg = [t \in Thread |-> 0]
  /\ monout = {}
  /\ made = [f \in Func |-> 0] /\ calls = 0
  /\ returned = {} /\ before = [f \in Func |-> {}]

Goto(t, label) == pc' = [pc EXCEPT ![t] = label]
Quiet == \A t \in Thread : pc[t] = "idle"
-----------------------------------------------------------------------------
(* __ghs_indmcount up to the test of nomemory. *)
Call(t, f) ==
  /\ pc[t] = "idle" /\ t \in Callers[f] /\ calls < MaxCalls
  /\ ~nomemory
  /\ Goto(t, "test")
  /\ fn' = [fn EXCEPT ![t] = f]
  /\ made' = [made EXCEPT ![f] = @ + 1]
  /\ before' = IF made[f] = 0 THEN [before EXCEPT ![f] = returned] ELSE before
  /\ calls' = calls + 1
  /\ UNCHANGED <<area, lists, nomemory, atExit, reg, monout, returned>>

TestArea(t) ==
  /\ pc[t] = "test"
  /\ Goto(t, IF area[fn[t]] = 0 THEN "add" ELSE "load")
  /\ UNCHANGED <<area, lists, nomemory, atExit, fn, reg, monout, hist>>

TailIsFull == list # <<>> => Len(Last(list)) = ChunkSize

(* A slot in the last chunk. *)
AddToTail(t) ==
  /\ pc[t] = "add" /\ ~TailIsFull
  /\ list' = [list EXCEPT ![Len(list)] = Append(@, fn[t])]
  /\ Goto(t, "load")
  /\ UNCHANGED <<area, free, heap, nomemory, atExit, fn, reg, monout, hist>>

(* The first slot of a chunk from the free list... *)
AddReused(t) ==
  /\ pc[t] = "add" /\ TailIsFull /\ free # <<>>
  /\ list' = Append(list, <<fn[t]>>)
  /\ free' = Tail(free)
  /\ atExit' = TRUE
  /\ Goto(t, "load")
  /\ UNCHANGED <<area, heap, nomemory, fn, reg, monout, hist>>

(* Faulty: the new chunk goes in front of the list. *)
AddAllocatedFirst(t) ==
  /\ pc[t] = "add" /\ TailIsFull /\ free = <<>> /\ heap > 0
  /\ list' = <<<<fn[t]>>>> \o list
  /\ heap' = heap - 1
  /\ atExit' = TRUE
  /\ Goto(t, "load")
  /\ UNCHANGED <<area, free, nomemory, fn, reg, monout, hist>>

(* ... or of a new one. *)
AddAllocated(t) ==
  /\ pc[t] = "add" /\ TailIsFull /\ free = <<>> /\ heap > 0
  /\ list' = Append(list, <<fn[t]>>)
  /\ heap' = heap - 1
  /\ atExit' = TRUE
  /\ Goto(t, "load")
  /\ UNCHANGED <<area, free, nomemory, fn, reg, monout, hist>>

(* No chunk: this call is not counted... *)
AddNoMemory(t) ==
  /\ pc[t] = "add" /\ TailIsFull /\ free = <<>> /\ heap = 0
  /\ Goto(t, "nomemory")
  /\ UNCHANGED <<area, lists, nomemory, atExit, fn, reg, monout, hist>>

(* ... nor is any that begins after this, when the lock has been released. *)
SetNoMemory(t) ==
  /\ pc[t] = "nomemory"
  /\ nomemory' = TRUE
  /\ Goto(t, "idle")
  /\ UNCHANGED <<area, lists, atExit, fn, reg, monout, hist>>

(* ++*area: a load, an addition in a register, a store. *)
Load(t) ==
  /\ pc[t] = "load"
  /\ reg' = [reg EXCEPT ![t] = area[fn[t]]]
  /\ Goto(t, "store")
  /\ UNCHANGED <<area, lists, nomemory, atExit, fn, monout, hist>>

Store(t) ==
  /\ pc[t] = "store"
  /\ area' = [area EXCEPT ![fn[t]] = (reg[t] + 1) % CountMod]
  /\ reg' = [reg EXCEPT ![t] = 0]
  /\ returned' = returned \cup {fn[t]}
  /\ Goto(t, "idle")
  /\ UNCHANGED <<lists, nomemory, atExit, fn, monout, made, before, calls>>
-----------------------------------------------------------------------------
Entries == FlattenSeq(list)

(* The debugger clears with the program stopped, here outside the counter. *)
Stopped == Quiet

(* Faulty: the counters of the last chunk's functions keep their values. *)
ClearButTail ==
  /\ Stopped
  /\ area' = [f \in Func |-> IF list # <<>> /\ f \in ToSet(FlattenSeq(Front(list)))
                               THEN 0 ELSE area[f]]
  /\ free' = Reverse(list) \o free
  /\ list' = <<>>
  /\ made' = [f \in Func |-> 0] /\ returned' = {} /\ before' = [f \in Func |-> {}]
  /\ UNCHANGED <<heap, nomemory, atExit, local, monout, calls>>

(* __ghs_prof_clear_callcounts, with the program stopped: the counters that
   are listed are zeroed, and the chunks go to the free list one by one. *)
Clear ==
  /\ Stopped
  /\ area' = [f \in Func |-> IF f \in ToSet(Entries) THEN 0 ELSE area[f]]
  /\ free' = Reverse(list) \o free
  /\ list' = <<>>
  /\ made' = [f \in Func |-> 0] /\ returned' = {} /\ before' = [f \in Func |-> {}]
  /\ UNCHANGED <<heap, nomemory, atExit, local, monout, calls>>

Listed == {<<f, area[f]>> : f \in ToSet(Entries)}

(* Threads may be counting while _Exit runs the dump in another. *)
DumpRuns == atExit

(* Faulty: the extra chunk is not put on the free list. *)
DumpKeepsTemp ==
  /\ DumpRuns /\ Entries # <<>>
  /\ \/ free # <<>> /\ free' = Tail(free) /\ heap' = heap
     \/ free = <<>> /\ heap > 0 /\ free' = free /\ heap' = heap - 1
  /\ monout' \in {Listed, {}}
  /\ UNCHANGED <<area, list, nomemory, atExit, local, hist>>

(* __ghs_prof_dump_callcounts, from the debugger or from _Exit: it takes one
   chunk to write from, off the free list or new, and puts it on the free list
   when it is done, all of the file written or not. *)
Dump ==
  /\ DumpRuns /\ Entries # <<>>
  /\ \/ free # <<>> /\ UNCHANGED <<free, heap>>
     \/ free = <<>> /\ heap > 0 /\ free' = <<<<>>>> /\ heap' = heap - 1
  /\ monout' \in {Listed, {}}
  /\ UNCHANGED <<area, list, nomemory, atExit, local, hist>>

(* No entries, or no file: nothing to take a chunk for. *)
DumpNothing ==
  /\ DumpRuns
  /\ monout' = {}
  /\ UNCHANGED <<area, lists, nomemory, atExit, local, hist>>

(* No chunk to write from: an early return, after the header. *)
DumpNoMemory ==
  /\ DumpRuns /\ Entries # <<>> /\ free = <<>> /\ heap = 0
  /\ monout' = {}
  /\ UNCHANGED <<area, lists, nomemory, atExit, local, hist>>

Next ==
  \/ \E t \in Thread :
       \/ \E f \in Func : Call(t, f)
       \/ TestArea(t) \/ AddToTail(t) \/ AddReused(t) \/ AddAllocated(t)
       \/ AddNoMemory(t) \/ SetNoMemory(t) \/ Load(t) \/ Store(t)
  \/ Clear \/ Dump \/ DumpNothing \/ DumpNoMemory

Spec == Init /\ [][Next]_vars
-----------------------------------------------------------------------------
(* Every variable keeps its type; no chunk holds more than its array. *)
TypeOK ==
  /\ area \in [Func -> 0 .. CountMod - 1]
  /\ \A chunk \in ToSet(list) \cup ToSet(free) :
       chunk \in Seq(Func) /\ Len(chunk) <= ChunkSize
  /\ heap \in 0 .. HeapChunks
  /\ {nomemory, atExit} \subseteq BOOLEAN
  /\ pc \in [Thread -> {"idle", "test", "add", "nomemory", "load", "store"}]
  /\ fn \in [Thread -> Func] /\ reg \in [Thread -> Nat]
  /\ monout \subseteq Func \X (0 .. CountMod - 1)
  /\ made \in [Func -> Nat] /\ calls \in 0 .. MaxCalls
  /\ returned \subseteq Func /\ before \in [Func -> SUBSET Func]

(* mon.out has each function once, and a function one of whose calls returned
   before another function was first called stands before that one: chunks are
   filled front to back, added at the end, and start empty when they come back
   from the free list. *)
ListedInOrder ==
  /\ \A i, j \in DOMAIN Entries :
       /\ Entries[i] = Entries[j] => i = j
       /\ Entries[i] \in before[Entries[j]] => i < j
  /\ \A i \in 1 .. Len(list) - 1 : Len(list[i]) = ChunkSize

(* Between calls a counter is the number of calls since the last clear, while
   there was memory, and is zero exactly when the function is not listed. *)
CountsExact ==
  Quiet /\ ~nomemory =>
    \A f \in Func : area[f] = made[f] /\ (area[f] # 0 <=> f \in ToSet(Entries))

(* Chunks are reused, not lost: clears and dumps leave none behind. *)
Chunks == Len(list) + Len(free) + heap
ChunksKept == [][Chunks' = Chunks]_vars

==============================================================================
