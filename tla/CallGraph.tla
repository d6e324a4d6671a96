------------------------------ MODULE CallGraph ------------------------------
(***************************************************************************)
(* ind_gprf.c, built with __disable_thread_safe_extensions: the call graph *)
(* recorder.  Every function compiled with -pg calls __ghs_indgcount with  *)
(* an arc (call site, called function).  Interrupt handlers are compiled   *)
(* that way too, and run to completion on top of whatever they interrupt.  *)
(*                                                                         *)
(* A hash table of lists holds the arcs; their nodes come from a pool that *)
(* is used front to back.  in_gcount turns nested calls away.  The         *)
(* debugger, with the program stopped, may clear the data or dump it.      *)
(***************************************************************************)
EXTENDS Naturals, FiniteSets

CONSTANTS
  Levels,      (* 1 is the program, 2 .. Levels are interrupt priorities  *)
  Tails,       (* call sites                                              *)
  Heads,       (* called functions                                        *)
  Buckets,     (* the indices of the hash table                           *)
  HashOf,      (* the index of each call site, in Buckets or outside      *)
  PoolSize,    (* __ghscallgraph_arcpool_count                            *)
  MaxCalls     (* bound: the calls of a run                               *)

ASSUME CallGraphAssumption ==
  /\ Levels \in Nat \ {0}
  /\ HashOf \in [Tails -> Nat] /\ Buckets \subseteq Nat
  /\ PoolSize \in Nat /\ MaxCalls \in Nat

Level == 1 .. Levels
Arc   == Tails \X Heads
NoArc == <<>>
Null  == 0             (* nodes of the pool are 1 .. PoolSize *)
Node  == 1 .. PoolSize
Blank == [arc |-> NoArc, count |-> 0, next |-> Null]

VARIABLES
  allocated,  (* __ghscallgraph_hashtbl is set                            *)
  nomemory,   (* __ghscallgraph_nomemory                                  *)
  inGcount,   (* __ghscallgraph_in_gcount                                 *)
  table,      (* first node of each list                                  *)
  pool,       (* the nodes                                                *)
  used,       (* __ghscallgraph_arcpool_next                              *)
  atExit,     (* the dump is on the exit list                             *)
  pc, loc,    (* each level: where it is; its arc, link and node          *)
  dump,       (* what the last dump wrote and said                        *)
  made,       (* history: all calls of each arc since the last clear      *)
  missed,     (* history: those that came while another call was being
                 recorded, or after a dump                                *)
  lost,       (* history: arcs since then that found the pool used up     *)
  calls       (* bound                                                    *)

data == <<allocated, nomemory, table, pool, used, atExit>>
hist == <<made, missed, lost, calls>>
vars == <<data, inGcount, pc, loc, dump, hist>>

(* A link is the place that points to a node: a table entry or a next. *)
TableLink(i) == [in |-> "table", at |-> i]
NodeLink(n)  == [in |-> "pool", at |-> n]
Follow(link) == IF link.in = "table" THEN table[link.at] ELSE pool[link.at].next

(* An interrupt handler runs to completion before what it interrupted. *)
Runs(l) == \A m \in Level : m > l => pc[m] = "out"
Quiet   == \A l \in Level : pc[l] = "out"
At(l, from, to) == pc[l] = from /\ Runs(l) /\ pc' = [pc EXCEPT ![l] = to]

NoDump   == [arcs |-> {}, error |-> FALSE, done |-> FALSE]
EmptyLoc == [arc |-> NoArc, link |-> TableLink(0), node |-> Null]

Init ==
  /\ allocated = FALSE /\ nomemory = FALSE /\ inGcount = FALSE
  /\ table = [i \in Buckets |-> Null]
  /\ pool = [n \in Node |-> Blank]
  /\ used = 0 /\ atExit = FALSE
  /\ pc = [l \in Level |-> "out"]
  /\ loc = [l \in Level |-> EmptyLoc]
  /\ dump = NoDump
  /\ made = [a \in Arc |-> 0] /\ missed = [a \in Arc |-> 0] /\ lost = {} /\ calls = 0
-----------------------------------------------------------------------------
(* A call is under way and has set in_gcount. *)
Recording == \E l \in Level : pc[l] \notin {"out", "claim"}

(* The program or a handler calls a function, whatever the guard says then. *)
Calls(a) ==
  /\ calls < MaxCalls
  /\ calls' = calls + 1
  /\ made' = [made EXCEPT ![a] = @ + 1]
  /\ missed' = [missed EXCEPT ![a] = IF Recording \/ dump.done THEN @ + 1 ELSE @]
  /\ lost' = lost

(* Faulty: a call does not look at in_gcount. *)
EnterUnguarded(l) ==
  /\ At(l, "out", "claim")
  /\ \E a \in Arc : Calls(a) /\ loc' = [loc EXCEPT ![l].arc = a]
  /\ UNCHANGED <<data, inGcount, dump>>

(* __ghs_indgcount finds in_gcount clear. *)
Enter(l) ==
  /\ ~inGcount
  /\ At(l, "out", "claim")
  /\ \E a \in Arc : Calls(a) /\ loc' = [loc EXCEPT ![l].arc = a]
  /\ UNCHANGED <<data, inGcount, dump>>

(* It finds in_gcount set and returns at once: the call is not recorded. *)
Skip(l) ==
  /\ inGcount
  /\ pc[l] = "out" /\ Runs(l)
  /\ \E a \in Arc : Calls(a)
  /\ UNCHANGED <<data, inGcount, pc, loc, dump>>

(* The call returns to the program with in_gcount as the code leaves it. *)
Leave(l, guard) ==
  /\ pc' = [pc EXCEPT ![l] = "out"]
  /\ loc' = [loc EXCEPT ![l] = EmptyLoc]
  /\ inGcount' = guard

(* Faulty: a call site outside the table is left by return, not by goto unlock. *)
SearchReturns(l) ==
  LET tail == loc[l].arc[1] IN
  IF HashOf[tail] \in Buckets
    THEN /\ pc' = [pc EXCEPT ![l] = "walk"]
         /\ loc' = [loc EXCEPT ![l].link = TableLink(HashOf[tail])]
    ELSE /\ pc' = [pc EXCEPT ![l] = "out"]
         /\ loc' = [loc EXCEPT ![l] = EmptyLoc]

(* in_gcount is set in a step of its own; then the table is looked up. *)
Search(l) ==
  LET tail == loc[l].arc[1] IN
  IF HashOf[tail] \in Buckets
    THEN /\ pc' = [pc EXCEPT ![l] = "walk"]
         /\ loc' = [loc EXCEPT ![l].link = TableLink(HashOf[tail])]
    ELSE /\ pc' = [pc EXCEPT ![l] = "unlock"]
         /\ loc' = loc

Claim(l) ==
  /\ pc[l] = "claim" /\ Runs(l)
  /\ ~nomemory /\ allocated
  /\ inGcount' = TRUE
  /\ Search(l)
  /\ UNCHANGED <<data, dump, hist>>

(* The first call allocates: init_callgraph. *)
ClaimFirst(l) ==
  /\ pc[l] = "claim" /\ Runs(l)
  /\ ~nomemory /\ ~allocated
  /\ inGcount' = TRUE
  /\ allocated' = TRUE /\ used' = 0 /\ atExit' = TRUE
  /\ Search(l)
  /\ UNCHANGED <<nomemory, table, pool, dump, hist>>

(* __ghs_calloc fails: the module stays inactive, in_gcount set. *)
ClaimNoMemory(l) ==
  /\ pc[l] = "claim" /\ Runs(l)
  /\ nomemory \/ ~allocated
  /\ nomemory' = TRUE
  /\ Leave(l, TRUE)
  /\ UNCHANGED <<allocated, table, pool, used, atExit, dump, hist>>

(* One turn of the search: count the arc, go on, or find the end. *)
Walk(l) ==
  LET n == Follow(loc[l].link) IN
  /\ pc[l] = "walk" /\ Runs(l)
  /\ \/ /\ n # Null /\ pool[n].arc = loc[l].arc
        /\ pool' = [pool EXCEPT ![n].count = @ + 1]
        /\ pc' = [pc EXCEPT ![l] = "unlock"]
        /\ UNCHANGED loc
     \/ /\ n # Null /\ pool[n].arc # loc[l].arc
        /\ loc' = [loc EXCEPT ![l].link = NodeLink(n)]
        /\ UNCHANGED <<pool, pc>>
     \/ /\ n = Null
        /\ pc' = [pc EXCEPT ![l] = "take"]
        /\ UNCHANGED <<pool, loc>>
  /\ UNCHANGED <<allocated, nomemory, table, used, atExit, inGcount, dump,
                 hist>>

(* A node from the pool, or the mark that there was none. *)
Take(l) ==
  /\ pc[l] = "take" /\ Runs(l)
  /\ \/ /\ used >= PoolSize
        /\ used' = PoolSize + 1
        /\ lost' = lost \cup {loc[l].arc}
        /\ pc' = [pc EXCEPT ![l] = "unlock"]
        /\ UNCHANGED loc
     \/ /\ used < PoolSize
        /\ loc' = [loc EXCEPT ![l].node = used + 1]
        /\ pc' = [pc EXCEPT ![l] = "fill"]
        /\ UNCHANGED <<used, lost>>
  /\ UNCHANGED <<allocated, nomemory, table, pool, atExit, inGcount, dump,
                 made, missed, calls>>

Fill(l) ==
  /\ At(l, "fill", "link")
  /\ pool' = [pool EXCEPT ![loc[l].node] =
                [arc |-> loc[l].arc, count |-> 1, next |-> Follow(loc[l].link)]]
  /\ UNCHANGED <<allocated, nomemory, table, used, atExit, inGcount, loc, dump,
                 hist>>

Link(l) ==
  LET k == loc[l].link IN
  /\ At(l, "link", "bump")
  /\ IF k.in = "table"
       THEN table' = [table EXCEPT ![k.at] = loc[l].node] /\ pool' = pool
       ELSE pool' = [pool EXCEPT ![k.at].next = loc[l].node] /\ table' = table
  /\ UNCHANGED <<allocated, nomemory, used, atExit, inGcount, loc, dump, hist>>

Bump(l) ==
  /\ At(l, "bump", "unlock")
  /\ used' = used + 1
  /\ UNCHANGED <<allocated, nomemory, table, pool, atExit, inGcount, loc, dump,
                 hist>>

Unlock(l) ==
  /\ pc[l] = "unlock" /\ Runs(l)
  /\ Leave(l, FALSE)
  /\ UNCHANGED <<data, dump, hist>>
-----------------------------------------------------------------------------
(* The nodes of a list: its first one, and the next of each. *)
Follows(S, i) ==
  /\ table[i] # Null => table[i] \in S
  /\ \A n \in S : pool[n].next # Null => pool[n].next \in S
Listed(i) == {n \in Node : \A S \in SUBSET Node : Follows(S, i) => n \in S}
Recorded == UNION {Listed(i) : i \in Buckets}
CountOf(a) == LET N == {n \in Recorded : pool[n].arc = a} IN
              IF N = {} THEN 0 ELSE pool[CHOOSE n \in N : TRUE].count

(* The debugger runs the next two with the program stopped: outside the
   recorder, which goes on with old pointers if it was stopped inside. *)
Stopped == Quiet

(* __ghs_prof_clear_callgraph: the memset covers table, pool and buffer. *)
Clear ==
  /\ Stopped
  /\ IF allocated
       THEN table' = [i \in Buckets |-> Null] /\ pool' = [n \in Node |-> Blank]
       ELSE UNCHANGED <<table, pool>>
  /\ inGcount' = FALSE
  /\ made' = [a \in Arc |-> 0] /\ missed' = [a \in Arc |-> 0] /\ lost' = {}
  /\ dump' = NoDump
  /\ UNCHANGED <<allocated, nomemory, used, atExit, pc, loc, calls>>

(* What a dump leaves in gmon.out: all arcs, or, when the host refuses to
   create or write the file, none that counts. *)
Written == {<<pool[n].arc, pool[n].count>> : n \in Recorded}

(* Faulty: the error is reported for the exact end of the pool only. *)
DumpAtExactEnd ==
  /\ Stopped
  /\ atExit /\ ~nomemory
  /\ inGcount' = TRUE
  /\ \E arcs \in {Written, {}} :
       dump' = [arcs |-> arcs, error |-> used = PoolSize, done |-> TRUE]
  /\ UNCHANGED <<data, pc, loc, hist>>

(* Faulty: the dump turns the recorder on again. *)
DumpUnlocks ==
  /\ Stopped
  /\ atExit /\ ~nomemory
  /\ inGcount' = FALSE
  /\ \E arcs \in {Written, {}} :
       dump' = [arcs |-> arcs, error |-> used >= PoolSize, done |-> TRUE]
  /\ UNCHANGED <<data, pc, loc, hist>>

(* __ghs_prof_dump_callgraph: from the debugger or from the exit list. *)
Dump ==
  /\ Stopped
  /\ atExit /\ ~nomemory
  /\ inGcount' = TRUE
  /\ \E arcs \in {Written, {}} :
       dump' = [arcs |-> arcs, error |-> used >= PoolSize, done |-> TRUE]
  /\ UNCHANGED <<data, pc, loc, hist>>

Next ==
  \/ \E l \in Level :
       \/ Enter(l) \/ Skip(l) \/ Claim(l) \/ ClaimFirst(l) \/ ClaimNoMemory(l)
       \/ Walk(l) \/ Take(l) \/ Fill(l) \/ Link(l) \/ Bump(l) \/ Unlock(l)
  \/ Clear \/ Dump

Spec == Init /\ [][Next]_vars
-----------------------------------------------------------------------------
(* Every variable keeps its type; the next node never runs past the mark. *)
TypeOK ==
  /\ {allocated, nomemory, inGcount, atExit} \subseteq BOOLEAN
  /\ table \in [Buckets -> Node \cup {Null}]
  /\ pool \in [Node -> [arc : Arc \cup {NoArc}, count : Nat,
                        next : Node \cup {Null}]]
  /\ used \in 0 .. PoolSize + 1
  /\ pc \in [Level -> {"out", "claim", "walk", "take", "fill", "link", "bump",
                       "unlock"}]
  /\ \A l \in Level : loc[l].arc \in Arc \cup {NoArc}
                     /\ loc[l].node \in Node \cup {Null}
  /\ {made, missed} \subseteq [Arc -> Nat] /\ lost \subseteq Arc /\ calls \in 0 .. MaxCalls

(* The list that starts at n ends: no node of it comes back to itself.  A
   search and the dump follow a list until a null pointer. *)
Ends(i) == table[i] # Null =>
             \E n \in Listed(i) : pool[n].next = Null

(* Whatever interrupts an insertion, every list ends, holds only arcs of its
   own index, shares no node with another list and reaches no node that the
   pool has not yet given out. *)
ListsWellFormed ==
  \A i \in Buckets :
    /\ Ends(i)
    /\ \A n \in Listed(i) : /\ HashOf[pool[n].arc[1]] = i
                            /\ n <= used \/ \E l \in Level : loc[l].node = n
    /\ \A j \in Buckets \ {i} : Listed(i) \cap Listed(j) = {}

(* Between calls an arc's count is the number of its calls since the last
   clear, but for those of handlers that came in the middle of another call's
   recording and those after a dump, which in_gcount turns away.  No other call
   is missed, counted twice or given to another arc.  An arc the pool had no
   node for has no count at all. *)
CountsExact ==
  Quiet /\ ~nomemory =>
    \A a \in Arc : HashOf[a[1]] \in Buckets =>
      CountOf(a) = IF a \in lost THEN 0 ELSE made[a] - missed[a]

(* A dump of a graph that misses an arc for want of a node says so.  That calls
   were turned away by in_gcount is not reported. *)
LossReported == dump.done /\ lost # {} => dump.error

(* "We are finished profiling": after a dump no call changes the graph until
   the data are cleared. *)
DumpIsLast == [][dump.done /\ dump.done' => data' = data]_vars

=============================================================================
