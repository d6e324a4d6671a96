--------------------------- MODULE CallGraphProofs ---------------------------
(* The call graph recorder: its lists, its counts and its dumps, for any   *)
(* number of interrupt levels, functions, lists and nodes.                 *)
EXTENDS CallGraph, FiniteSetTheorems, WellFoundedInduction, TLAPS

Inside    == {"walk", "take", "fill", "link", "bump", "unlock"}
Searching == {"walk", "take", "fill", "link"}
Labels    == {"out", "claim"} \cup Inside

TypeInv ==
  /\ allocated \in BOOLEAN /\ nomemory \in BOOLEAN /\ inGcount \in BOOLEAN
  /\ table \in [Buckets -> Node \cup {Null}]
  /\ pool \in [Node -> [arc : Arc \cup {NoArc}, count : Nat, next : Node \cup {Null}]]
  /\ used \in 0 .. PoolSize + 1
  /\ pc \in [Level -> Labels]
  /\ loc \in [Level -> [arc : Arc \cup {NoArc}, link : [in : {"table", "pool"}, at : Nat],
                        node : Nat]]
  /\ made \in [Arc -> Nat] /\ missed \in [Arc -> Nat] /\ lost \subseteq Arc
  /\ \A a \in Arc : missed[a] <= made[a]
  /\ dump.done \in BOOLEAN /\ dump.error \in BOOLEAN

(* A level that has set in_gcount is alone with the data until it clears   *)
(* it: what it interrupted has not got that far, and nothing that          *)
(* interrupts it gets in.  After a dump nothing gets in at all.  Nor is it *)
(* left set for any other reason, as long as there is memory.              *)
GuardInv ==
  /\ \A l \in Level : pc[l] \in Inside =>
       inGcount /\ allocated /\ \A m \in Level : m > l => pc[m] = "out"
  /\ ~allocated => used = 0
  /\ dump.done => inGcount /\ Quiet
  /\ inGcount /\ ~nomemory => Recording \/ dump.done

(* The nodes that are in a list, by what they hold and not by the links,   *)
(* and those of one index.                                                 *)
Linked == {n \in Node : /\ pool[n].arc # NoArc
                        /\ n <= used \/ \E l \in Level : pc[l] = "bump" /\ loc[l].node = n}
Of(i) == {n \in Linked : HashOf[pool[n].arc[1]] = i}

(* The links: from the table, here place 0, each leads to the next node of *)
(* the index in the order of the pool.                                     *)
NextOf(i, p) == IF p = Null THEN table[i] ELSE pool[p].next
LinkAt(i, p) == IF p = Null THEN TableLink(i) ELSE NodeLink(p)
Places(i)    == Of(i) \cup {Null}
Chained(i) ==
  \A p \in Places(i) :
    \/ NextOf(i, p) = Null /\ \A n \in Of(i) : n <= p
    \/ /\ NextOf(i, p) \in Of(i) /\ NextOf(i, p) > p
       /\ \A n \in Of(i) : n > p => NextOf(i, p) <= n

ListInv ==
  /\ \A n \in Linked : HashOf[pool[n].arc[1]] \in Buckets
  /\ \A m, n \in Linked : pool[m].arc = pool[n].arc => m = n
  /\ \A i \in Buckets : Chained(i)

(* A search stands at a place of its list and has passed every node up to  *)
(* it; a node that is inserted goes behind the last one.                   *)
Index(l) == HashOf[loc[l].arc[1]]
Passed(l, p) == \A n \in Of(Index(l)) : n <= p => pool[n].arc # loc[l].arc
SearchInv(l) ==
  /\ pc[l] # "out" => loc[l].arc \in Arc
  /\ pc[l] \in Searching =>
       /\ Index(l) \in Buckets
       /\ \E p \in Places(Index(l)) :
            /\ loc[l].link = LinkAt(Index(l), p) /\ Passed(l, p)
            /\ pc[l] # "walk" => NextOf(Index(l), p) = Null
  /\ pc[l] \in {"fill", "link", "bump"} => loc[l].node = used + 1 /\ used < PoolSize
  /\ pc[l] = "link" =>
       pool[used + 1] = [arc |-> loc[l].arc, count |-> 1, next |-> Null]

(* The calls of an arc that in_gcount let in, and those of them that are    *)
(* neither counted nor lost yet.                                           *)
Kept == [a \in Arc |-> made[a] - missed[a]]
Pending(a) == {l \in Level : pc[l] \in {"claim"} \cup Searching /\ loc[l].arc = a}

CountInv ==
  ~nomemory =>
    \A a \in Arc : HashOf[a[1]] \in Buckets =>
      /\ \A n \in Linked : pool[n].arc = a => Kept[a] = pool[n].count + Cardinality(Pending(a))
      /\ a \notin lost /\ (\A n \in Linked : pool[n].arc # a) => Kept[a] = Cardinality(Pending(a))

(* An arc is lost only when the pool is used up, which it stays. *)
LostInv ==
  /\ lost # {} => used = PoolSize + 1
  /\ \A n \in Linked : pool[n].arc \notin lost
  /\ dump.done /\ lost # {} => dump.error

IInv ==
  /\ TypeInv /\ GuardInv /\ ListInv /\ CountInv /\ LostInv
  /\ \A l \in Level : SearchInv(l)
-----------------------------------------------------------------------------
(* One level at a time. *)
Acts(l) == IF pc[l] = "out" THEN ~inGcount ELSE Runs(l)

(* The others have not set in_gcount. *)
LEMMA Bystanders ==
  ASSUME TypeInv, GuardInv, NEW l \in Level, Acts(l)
  PROVE  \A u \in Level \ {l} : pc[u] \in {"out", "claim"}
<1> SUFFICES ASSUME NEW u \in Level \ {l}, pc[u] \in Inside PROVE FALSE
  BY DEF TypeInv, Labels
<1>1. inGcount /\ \A m \in Level : m > u => pc[m] = "out"
  BY DEF GuardInv
<1>2. pc[l] # "out" /\ \A m \in Level : m > l => pc[m] = "out"
  BY <1>1 DEF Acts, Runs
<1>3. l \in Nat /\ u \in Nat /\ (l > u \/ u > l)
  BY CallGraphAssumption DEF Level
<1> QED
  BY <1>1, <1>2, <1>3 DEF Inside

(* What a step of one level has to show for itself. *)
LEMMA LevelStep ==
  ASSUME IInv, NEW l \in Level, Acts(l), TypeInv', SearchInv(l)', dump' = dump,
         \A u \in Level \ {l} : pc'[u] = pc[u] /\ loc'[u] = loc[u],
         pc'[l] \in Inside => inGcount' /\ allocated' /\ pc[l] # "out",
         ~allocated' => used' = 0, inGcount' /\ ~nomemory' => pc'[l] \notin {"out", "claim"}
  PROVE  GuardInv' /\ (\A u \in Level : SearchInv(u)') /\ ~dump.done
<1>1. TypeInv /\ GuardInv /\ \A u \in Level \ {l} : pc[u] \in {"out", "claim"}
  BY Bystanders DEF IInv
<1>2. ~dump.done
  BY <1>1 DEF GuardInv, Quiet, Acts
<1>3. \A u \in Level : SearchInv(u)'
  <2> SUFFICES ASSUME NEW u \in Level \ {l} PROVE SearchInv(u)'
    OBVIOUS
  <2>1. pc'[u] \in {"out", "claim"} /\ (pc'[u] # "out" => loc'[u].arc \in Arc)
    BY <1>1 DEF IInv, SearchInv
  <2> QED
    BY <2>1 DEF SearchInv, Searching
<1>4. ASSUME NEW u \in Level, pc'[u] \in Inside
      PROVE  inGcount' /\ allocated' /\ \A m \in Level : m > u => pc'[m] = "out"
  <2>1. u = l /\ inGcount' /\ allocated' /\ Runs(l)
    BY <1>1, <1>4 DEF Inside, Acts
  <2>2. \A m \in Level : m > l => m # l
    BY CallGraphAssumption DEF Level
  <2> QED
    BY <2>1, <2>2 DEF Runs
<1>5. inGcount' /\ ~nomemory' => Recording'
  BY DEF Recording
<1>6. GuardInv'
  BY <1>2, <1>4, <1>5 DEF GuardInv
<1> QED
  BY <1>2, <1>3, <1>6

(* Steps that change no list. *)
LEMMA ListKept ==
  ASSUME ListInv, Linked' = Linked, table' = table,
         \A n \in Linked : pool'[n].arc = pool[n].arc /\ pool'[n].next = pool[n].next
  PROVE  /\ ListInv'
         /\ \A i \in Buckets : Of(i)' = Of(i)
         /\ \A i \in Buckets : \A p \in Places(i) : NextOf(i, p)' = NextOf(i, p)
<1>1. \A i \in Buckets : Of(i)' = Of(i)
  BY DEF Of
<1>2. \A i \in Buckets : \A p \in Places(i) : NextOf(i, p)' = NextOf(i, p)
  BY DEF NextOf, Places, Of
<1>3. \A i \in Buckets : Chained(i)'
  BY <1>1, <1>2 DEF ListInv, Chained, Places
<1>4. /\ \A n \in Linked' : HashOf[pool'[n].arc[1]] \in Buckets
      /\ \A m, n \in Linked' : pool'[m].arc = pool'[n].arc => m = n
  BY DEF ListInv
<1> QED
  BY <1>1, <1>2, <1>3, <1>4 DEF ListInv

(* The calls that are under way. *)
LEMMA LevelFinite == IsFiniteSet(Level)
  BY CallGraphAssumption, FS_Interval DEF Level

LEMMA PendingFinite ==
  ASSUME NEW a
  PROVE  IsFiniteSet(Pending(a)) /\ Cardinality(Pending(a)) \in Nat
<1>1. Pending(a) \subseteq Level
  BY DEF Pending
<1> QED
  BY <1>1, LevelFinite, FS_Subset, FS_CardinalityType

LEMMA PendingKept ==
  ASSUME NEW a, NEW l \in Level,
         \A u \in Level \ {l} : pc'[u] = pc[u] /\ loc'[u] = loc[u],
         l \in Pending(a)' <=> l \in Pending(a)
  PROVE  Pending(a)' = Pending(a)
  BY DEF Pending

LEMMA PendingMore ==
  ASSUME NEW a, NEW l \in Level,
         \A u \in Level \ {l} : pc'[u] = pc[u] /\ loc'[u] = loc[u],
         l \in Pending(a)', l \notin Pending(a)
  PROVE  Cardinality(Pending(a)') = Cardinality(Pending(a)) + 1
<1>1. Pending(a)' = Pending(a) \cup {l}
  BY DEF Pending
<1> QED
  BY <1>1, PendingFinite, FS_AddElement

LEMMA PendingLess ==
  ASSUME NEW a, NEW l \in Level,
         \A u \in Level \ {l} : pc'[u] = pc[u] /\ loc'[u] = loc[u],
         l \notin Pending(a)', l \in Pending(a)
  PROVE  Cardinality(Pending(a)) = Cardinality(Pending(a)') + 1
<1>1. Pending(a)' = Pending(a) \ {l}
  BY DEF Pending
<1>2. Cardinality(Pending(a)) \in Nat
  BY PendingFinite
<1>3. Cardinality(Pending(a) \ {l}) = Cardinality(Pending(a)) - 1
  BY PendingFinite, FS_RemoveElement
<1> QED
  BY <1>1, <1>2, <1>3

LEMMA KeptType ==
  ASSUME TypeInv
  PROVE  Kept \in [Arc -> Nat]
  BY DEF TypeInv, Kept

LEMMA KeptSame ==
  ASSUME made' = made, missed' = missed
  PROVE  Kept' = Kept
  BY DEF Kept

LEMMA CountKept ==
  ASSUME CountInv, nomemory' = nomemory, Linked' = Linked, Kept' = Kept, lost' = lost,
         \A n \in Linked : pool'[n].arc = pool[n].arc /\ pool'[n].count = pool[n].count,
         \A a \in Arc : HashOf[a[1]] \in Buckets => Pending(a)' = Pending(a)
  PROVE  CountInv'
  BY DEF CountInv

-----------------------------------------------------------------------------
(* What a call does to the history. *)
LEMMA CallsType ==
  ASSUME TypeInv, NEW a \in Arc, Calls(a)
  PROVE  /\ made' \in [Arc -> Nat] /\ missed' \in [Arc -> Nat]
         /\ \A b \in Arc : missed'[b] <= made'[b]
<1>1. /\ made \in [Arc -> Nat] /\ missed \in [Arc -> Nat]
      /\ \A b \in Arc : missed[b] <= made[b]
  BY DEF TypeInv
<1>2. PICK k \in {0, 1} : /\ made' = [made EXCEPT ![a] = made[a] + 1]
                          /\ missed' = [missed EXCEPT ![a] = missed[a] + k]
  <2>1. /\ made' = [made EXCEPT ![a] = made[a] + 1]
        /\ missed' = [missed EXCEPT ![a] = IF Recording \/ dump.done THEN missed[a] + 1 ELSE missed[a]]
    BY <1>1 DEF Calls
  <2>2. CASE Recording \/ dump.done
    <3>1. missed' = [missed EXCEPT ![a] = missed[a] + 1]
      BY <2>1, <2>2
    <3> QED
      BY <2>1, <3>1
  <2>3. CASE ~(Recording \/ dump.done)
    <3>1. missed' = [missed EXCEPT ![a] = missed[a]]
      BY <2>1, <2>3
    <3>2. missed[a] = missed[a] + 0
      BY <1>1
    <3> QED
      BY <2>1, <3>1, <3>2
  <2> QED
    BY <2>2, <2>3
<1>3. made' \in [Arc -> Nat] /\ missed' \in [Arc -> Nat]
  BY <1>1, <1>2
<1>4. ASSUME NEW b \in Arc PROVE missed'[b] <= made'[b]
  <2>1. made[b] \in Nat /\ missed[b] \in Nat /\ missed[b] <= made[b]
    BY <1>1
  <2>2. CASE b = a
    <3>1. made'[b] = made[b] + 1 /\ missed'[b] = missed[b] + k
      BY <1>1, <1>2, <2>2
    <3> QED
      BY <1>2, <2>1, <3>1
  <2>3. CASE b # a
    BY <1>1, <1>2, <2>1, <2>3
  <2> QED
    BY <2>2, <2>3
<1> QED
  BY <1>3, <1>4

LEMMA EnterInv ==
  ASSUME IInv, NEW l \in Level, Enter(l)
  PROVE  IInv'
<1>1. PICK a \in Arc : Calls(a) /\ loc' = [loc EXCEPT ![l].arc = a]
  BY DEF Enter
<1>2. /\ pc[l] = "out" /\ ~inGcount /\ pc' = [pc EXCEPT ![l] = "claim"]
      /\ UNCHANGED <<allocated, nomemory, table, pool, used, inGcount, dump, lost>>
  BY <1>1 DEF Enter, At, data, Calls
<1>3. TypeInv /\ Acts(l) /\ ~Recording /\ ~dump.done
  BY <1>2 DEF IInv, Acts, GuardInv, Recording, TypeInv, Labels
<1>4. /\ loc' \in [Level -> [arc : Arc \cup {NoArc}, link : [in : {"table", "pool"}, at : Nat],
                             node : Nat]]
      /\ loc'[l].arc = a /\ \A u \in Level \ {l} : loc'[u] = loc[u]
  BY <1>1, <1>3 DEF TypeInv
<1>5. /\ pc' \in [Level -> Labels] /\ pc'[l] = "claim" /\ \A u \in Level \ {l} : pc'[u] = pc[u]
  BY <1>2, <1>3 DEF TypeInv, Labels
<1>6. made' \in [Arc -> Nat] /\ Kept'[a] = Kept[a] + 1 /\ \A b \in Arc \ {a} : Kept'[b] = Kept[b]
  <2>1. made' = [made EXCEPT ![a] = @ + 1] /\ missed' = [missed EXCEPT ![a] = @]
    BY <1>1, <1>3 DEF Calls
  <2>2. /\ made' \in [Arc -> Nat] /\ missed' = missed
        /\ made'[a] = made[a] + 1 /\ \A b \in Arc \ {a} : made'[b] = made[b]
    BY <1>3, <2>1 DEF TypeInv
  <2>3. made[a] \in Nat /\ missed[a] \in Nat
    BY <1>3 DEF TypeInv
  <2> QED
    BY <2>2, <2>3 DEF Kept
<1>7. TypeInv'
  BY <1>1, <1>2, <1>3, <1>4, <1>5, CallsType DEF TypeInv
<1>8. SearchInv(l)'
  BY <1>4, <1>5 DEF SearchInv, Searching
<1>9. ~allocated' => used' = 0
  BY <1>2 DEF IInv, GuardInv
<1>10. GuardInv' /\ (\A u \in Level : SearchInv(u)') /\ ~dump.done
  BY <1>2, <1>3, <1>4, <1>5, <1>7, <1>8, <1>9, LevelStep DEF Inside
<1>11. Linked' = Linked
  <2>1. \A u \in Level : (pc'[u] = "bump" /\ loc'[u] = loc[u]) <=> pc[u] = "bump"
    BY <1>2, <1>4, <1>5
  <2> QED
    BY <1>2, <2>1 DEF Linked
<1>12. ListInv'
  BY <1>2, <1>11, ListKept DEF IInv
<1>13. LostInv'
  BY <1>2, <1>10, <1>11 DEF IInv, LostInv
<1>14. CountInv'
  <2> SUFFICES ASSUME ~nomemory, NEW b \in Arc, HashOf[b[1]] \in Buckets
      PROVE  /\ \A n \in Linked : pool[n].arc = b => Kept'[b] = pool[n].count + Cardinality(Pending(b)')
             /\ b \notin lost /\ (\A n \in Linked : pool[n].arc # b) => Kept'[b] = Cardinality(Pending(b)')
    BY <1>2, <1>11 DEF CountInv
  <2>1. /\ \A n \in Linked : pool[n].arc = b => Kept[b] = pool[n].count + Cardinality(Pending(b))
        /\ b \notin lost /\ (\A n \in Linked : pool[n].arc # b) => Kept[b] = Cardinality(Pending(b))
    BY DEF IInv, CountInv
  <2>2. l \notin Pending(b)
    BY <1>2 DEF Pending, Searching
  <2>3. \A n \in Linked : pool[n].count \in Nat
    BY <1>3 DEF TypeInv, Linked
  <2>4. Kept[b] \in Nat /\ Cardinality(Pending(b)) \in Nat
    BY <1>3, KeptType, PendingFinite
  <2>5. CASE b = a
    <3>1. l \in Pending(b)'
      BY <1>4, <1>5, <2>5 DEF Pending
    <3>2. Cardinality(Pending(b)') = Cardinality(Pending(b)) + 1
      BY <1>4, <1>5, <2>2, <3>1, PendingMore
    <3>3. Kept'[b] = Kept[b] + 1
      BY <1>6, <2>5
    <3> QED
      BY <2>1, <2>3, <2>4, <3>2, <3>3
  <2>6. CASE b # a
    <3>1. l \notin Pending(b)'
      BY <1>4, <2>6 DEF Pending
    <3>2. Pending(b)' = Pending(b)
      BY <1>4, <1>5, <2>2, <3>1, PendingKept
    <3> QED
      BY <1>6, <2>1, <2>6, <3>2
  <2> QED
    BY <2>5, <2>6
<1> QED
  BY <1>7, <1>10, <1>12, <1>13, <1>14 DEF IInv

(* A call that is turned away: it came in the middle of another, or after  *)
(* a dump, unless the memory had run out.                                  *)
LEMMA SkipInv ==
  ASSUME IInv, NEW l \in Level, Skip(l)
  PROVE  IInv'
<1>1. /\ inGcount
      /\ UNCHANGED <<allocated, nomemory, table, pool, used, inGcount, pc, loc, dump, lost>>
  BY DEF Skip, data, Calls
<1>2. TypeInv /\ TypeInv'
  BY <1>1, CallsType DEF IInv, TypeInv, Skip
<1>3. Linked' = Linked
  BY <1>1 DEF Linked
<1>4. GuardInv' /\ LostInv'
  BY <1>1, <1>3 DEF IInv, GuardInv, LostInv, Quiet, Recording
<1>5. ListInv'
  BY <1>1, <1>3, ListKept DEF IInv
<1>6. \A u \in Level : SearchInv(u)'
  BY <1>1 DEF IInv, SearchInv, Index, Places, Of, Linked, Passed, NextOf
<1>7. CountInv'
  <2>1. CASE nomemory
    BY <1>1, <2>1 DEF CountInv
  <2>2. CASE ~nomemory
    <3>1. PICK a \in Arc : Calls(a)
      BY DEF Skip
    <3>2. Recording \/ dump.done
      BY <1>1, <2>2 DEF IInv, GuardInv
    <3>3. made' = [made EXCEPT ![a] = @ + 1] /\ missed' = [missed EXCEPT ![a] = @ + 1]
      BY <3>1, <3>2 DEF Calls
    <3>4. \A b \in Arc : made'[b] - missed'[b] = made[b] - missed[b]
      BY <1>2, <3>3 DEF TypeInv
    <3>5. Kept' = Kept
      BY <3>4 DEF Kept
    <3>6. \A b \in Arc : Pending(b)' = Pending(b)
      BY <1>1 DEF Pending
    <3> QED
      BY <1>1, <1>3, <3>5, <3>6, CountKept DEF IInv
  <2> QED
    BY <2>1, <2>2
<1> QED
  BY <1>2, <1>4, <1>5, <1>6, <1>7 DEF IInv

(* The steps of a level that keep the lists, their counts and the history: *)
(* what is left to show for each.                                          *)
LEMMA QuietStep ==
  ASSUME IInv, NEW l \in Level, Acts(l), TypeInv', SearchInv(l)',
         UNCHANGED <<nomemory, table, made, missed, lost, dump>>,
         \A u \in Level \ {l} : pc'[u] = pc[u] /\ loc'[u] = loc[u],
         pc'[l] \in Inside => inGcount' /\ allocated' /\ pc[l] # "out",
         inGcount' /\ ~nomemory' => pc'[l] \notin {"out", "claim"},
         ~allocated' => used' = 0, lost # {} => used' = PoolSize + 1,
         Linked' = Linked,
         \A n \in Linked : pool'[n] = pool[n],
         \A a \in Arc : HashOf[a[1]] \in Buckets => (l \in Pending(a)' <=> l \in Pending(a))
  PROVE  IInv'
<1>1. GuardInv' /\ (\A u \in Level : SearchInv(u)') /\ ~dump.done
  BY LevelStep
<1>2. ListInv'
  BY ListKept DEF IInv
<1>3. CountInv'
  <2>1. \A a \in Arc : HashOf[a[1]] \in Buckets => Pending(a)' = Pending(a)
    BY PendingKept
  <2> QED
    BY <2>1, KeptSame, CountKept DEF IInv
<1>4. LostInv'
  BY <1>1 DEF IInv, LostInv
<1> QED
  BY <1>1, <1>2, <1>3, <1>4 DEF IInv

(* The step that sets in_gcount and looks the list up. *)
LEMMA SearchStep ==
  ASSUME IInv, NEW l \in Level, pc[l] = "claim", Runs(l), Search(l),
         inGcount' = TRUE, allocated' = TRUE, used' = used,
         UNCHANGED <<nomemory, table, pool, made, missed, lost, dump>>
  PROVE  IInv'
<1> DEFINE a == loc[l].arc
           i == HashOf[a[1]]
<1>1. TypeInv /\ Acts(l) /\ a \in Arc
  BY DEF IInv, Acts, SearchInv
<1>2. \/ /\ i \in Buckets /\ pc' = [pc EXCEPT ![l] = "walk"]
         /\ loc' = [loc EXCEPT ![l].link = TableLink(i)]
      \/ /\ i \notin Buckets /\ pc' = [pc EXCEPT ![l] = "unlock"] /\ loc' = loc
  BY DEF Search
<1>3. i \in Buckets => TableLink(i) \in [in : {"table", "pool"}, at : Nat]
  BY CallGraphAssumption DEF TableLink
<1>4. /\ loc' \in [Level -> [arc : Arc \cup {NoArc}, link : [in : {"table", "pool"}, at : Nat],
                             node : Nat]]
      /\ loc'[l].arc = a /\ \A u \in Level \ {l} : loc'[u] = loc[u]
      /\ i \in Buckets => loc'[l].link = TableLink(i)
  <2>1. loc \in [Level -> [arc : Arc \cup {NoArc}, link : [in : {"table", "pool"}, at : Nat],
                           node : Nat]]
    BY <1>1 DEF TypeInv
  <2>2. CASE i \in Buckets
    <3>1. PICK k : k = TableLink(i)
      OBVIOUS
    <3>2. k \in [in : {"table", "pool"}, at : Nat] /\ loc' = [loc EXCEPT ![l].link = k]
      BY <1>2, <1>3, <2>2, <3>1
    <3> HIDE DEF i
    <3> QED
      BY <2>1, <2>2, <3>1, <3>2
  <2>3. CASE i \notin Buckets
    <3>1. loc' = loc
      BY <1>2, <2>3
    <3> HIDE DEF i
    <3> QED
      BY <2>1, <2>3, <3>1
  <2> QED
    BY <2>2, <2>3
<1>5. /\ pc' \in [Level -> Labels] /\ pc'[l] = (IF i \in Buckets THEN "walk" ELSE "unlock")
      /\ \A u \in Level \ {l} : pc'[u] = pc[u]
  BY <1>1, <1>2 DEF TypeInv, Labels, Inside
<1>6. TypeInv'
  BY <1>1, <1>4, <1>5 DEF TypeInv
<1>7. Linked' = Linked
  <2>1. \A u \in Level : pc'[u] = "bump" <=> pc[u] = "bump"
    BY <1>5
  <2>2. \A u \in Level : pc[u] = "bump" => loc'[u] = loc[u]
    BY <1>4
  <2> QED
    BY <2>1, <2>2 DEF Linked
<1>8. SearchInv(l)'
  <2>1. CASE i \in Buckets
    <3>1. Null \in Places(i)' /\ LinkAt(i, Null) = TableLink(i)
      <4> HIDE DEF i
      <4> QED
        BY DEF Places, LinkAt
    <3>2. Index(l)' = i
      BY <1>4 DEF Index
    <3>3. Passed(l, Null)'
      <4>1. \A n \in Linked' : n \in Nat \ {0}
        BY CallGraphAssumption DEF Linked, Node
      <4> QED
        BY <4>1 DEF Passed, Of, Null
    <3> QED
      BY <1>1, <1>4, <1>5, <2>1, <3>1, <3>2, <3>3 DEF SearchInv, Searching
  <2>2. CASE i \notin Buckets
    BY <1>1, <1>4, <1>5, <2>2 DEF SearchInv, Searching
  <2> QED
    BY <2>1, <2>2
<1>9. \A b \in Arc : HashOf[b[1]] \in Buckets => (l \in Pending(b)' <=> l \in Pending(b))
  BY <1>4, <1>5 DEF Pending, Searching
<1>10. lost # {} => used' = PoolSize + 1
  BY DEF IInv, LostInv
<1> HIDE DEF a, i
<1> QED
  BY <1>1, <1>4, <1>5, <1>6, <1>7, <1>8, <1>9, <1>10, QuietStep

LEMMA ClaimInv ==
  ASSUME IInv, NEW l \in Level, Claim(l) \/ ClaimFirst(l)
  PROVE  IInv'
<1>1. CASE Claim(l)
  BY <1>1, SearchStep DEF Claim, data, hist
<1>2. CASE ClaimFirst(l)
  <2>1. used' = used
    BY <1>2 DEF ClaimFirst, IInv, GuardInv
  <2> QED
    BY <1>2, <2>1, SearchStep DEF ClaimFirst, hist
<1> QED
  BY <1>1, <1>2

LEMMA LeaveType ==
  ASSUME TypeInv, NEW l \in Level, NEW guard \in BOOLEAN, Leave(l, guard)
  PROVE  /\ loc' \in [Level -> [arc : Arc \cup {NoArc}, link : [in : {"table", "pool"}, at : Nat],
                                node : Nat]]
         /\ pc' \in [Level -> Labels] /\ pc'[l] = "out" /\ inGcount' = guard
         /\ \A u \in Level \ {l} : pc'[u] = pc[u] /\ loc'[u] = loc[u]
<1>1. EmptyLoc \in [arc : Arc \cup {NoArc}, link : [in : {"table", "pool"}, at : Nat], node : Nat]
  BY DEF EmptyLoc, TableLink, Null
<1> QED
  BY <1>1 DEF Leave, TypeInv, Labels

LEMMA ClaimNoMemoryInv ==
  ASSUME IInv, NEW l \in Level, ClaimNoMemory(l)
  PROVE  IInv'
<1>1. /\ pc[l] = "claim" /\ Runs(l) /\ nomemory' = TRUE /\ Leave(l, TRUE)
      /\ UNCHANGED <<allocated, table, pool, used, dump, made, missed, lost>>
  BY DEF ClaimNoMemory, hist
<1>2. TypeInv /\ Acts(l)
  BY <1>1 DEF IInv, Acts
<1>3. TypeInv'
  BY <1>1, <1>2, LeaveType DEF TypeInv
<1>4. SearchInv(l)' /\ pc'[l] = "out"
  BY <1>1, <1>2, LeaveType DEF SearchInv, Searching
<1>5. ~allocated' => used' = 0
  BY <1>1 DEF IInv, GuardInv
<1>6. GuardInv' /\ (\A u \in Level : SearchInv(u)') /\ ~dump.done
  BY <1>1, <1>2, <1>3, <1>4, <1>5, LeaveType, LevelStep DEF Inside
<1>7. Linked' = Linked
  <2>1. \A u \in Level : (pc'[u] = "bump" <=> pc[u] = "bump") /\ (pc[u] = "bump" => loc'[u] = loc[u])
    BY <1>1, <1>2, <1>4, LeaveType
  <2> QED
    BY <1>1, <2>1 DEF Linked
<1>8. ListInv'
  BY <1>1, <1>7, ListKept DEF IInv
<1>9. CountInv' /\ LostInv'
  BY <1>1, <1>6, <1>7 DEF IInv, CountInv, LostInv
<1> QED
  BY <1>3, <1>6, <1>8, <1>9 DEF IInv

LEMMA UnlockInv ==
  ASSUME IInv, NEW l \in Level, Unlock(l)
  PROVE  IInv'
<1>1. /\ pc[l] = "unlock" /\ Runs(l) /\ Leave(l, FALSE)
      /\ UNCHANGED <<allocated, nomemory, table, pool, used, dump, made, missed, lost>>
  BY DEF Unlock, data, hist
<1>2. TypeInv /\ Acts(l)
  BY <1>1 DEF IInv, Acts
<1>3. TypeInv'
  BY <1>1, <1>2, LeaveType DEF TypeInv
<1>4. SearchInv(l)' /\ pc'[l] = "out"
  BY <1>1, <1>2, LeaveType DEF SearchInv, Searching
<1>5. (~allocated' => used' = 0) /\ (lost # {} => used' = PoolSize + 1)
  BY <1>1 DEF IInv, GuardInv, LostInv
<1>6. Linked' = Linked
  <2>1. \A u \in Level : (pc'[u] = "bump" <=> pc[u] = "bump") /\ (pc[u] = "bump" => loc'[u] = loc[u])
    BY <1>1, <1>2, <1>4, LeaveType
  <2> QED
    BY <1>1, <2>1 DEF Linked
<1>7. \A a \in Arc : l \notin Pending(a) /\ l \notin Pending(a)'
  BY <1>1, <1>4 DEF Pending, Searching
<1> QED
  BY <1>1, <1>2, <1>3, <1>4, <1>5, <1>6, <1>7, LeaveType, QuietStep DEF Inside
-----------------------------------------------------------------------------
LEMMA FollowIs ==
  ASSUME NEW i \in Buckets, NEW p \in Nat
  PROVE  Follow(LinkAt(i, p)) = NextOf(i, p)
  BY DEF Follow, LinkAt, NextOf, TableLink, NodeLink

(* Where a search stands. *)
LEMMA Stands ==
  ASSUME IInv, NEW l \in Level, pc[l] \in Searching
  PROVE  /\ loc[l].arc \in Arc /\ Index(l) \in Buckets
         /\ \E p \in Places(Index(l)) :
              /\ p \in Nat /\ p <= PoolSize
              /\ loc[l].link = LinkAt(Index(l), p) /\ Passed(l, p)
              /\ pc[l] # "walk" => NextOf(Index(l), p) = Null
              /\ Follow(loc[l].link) = NextOf(Index(l), p)
<1>1. /\ SearchInv(l) /\ pc[l] # "out"
  BY DEF IInv, Searching
<1>2. PICK p \in Places(Index(l)) :
            /\ loc[l].link = LinkAt(Index(l), p) /\ Passed(l, p)
            /\ pc[l] # "walk" => NextOf(Index(l), p) = Null
  BY <1>1 DEF SearchInv
<1>3. p \in Nat /\ p <= PoolSize
  BY CallGraphAssumption DEF Places, Of, Linked, Node, Null
<1>4. loc[l].arc \in Arc /\ Index(l) \in Buckets
  BY <1>1 DEF SearchInv
<1>5. Follow(loc[l].link) = NextOf(Index(l), p)
  BY <1>2, <1>3, <1>4, FollowIs
<1> QED
  BY <1>2, <1>3, <1>4, <1>5

(* The search has found the arc. *)
LEMMA WalkCounts ==
  ASSUME IInv, NEW l \in Level, pc[l] = "walk", Runs(l),
         NEW n \in Linked, pool[n].arc = loc[l].arc,
         pool' = [pool EXCEPT ![n].count = @ + 1],
         pc' = [pc EXCEPT ![l] = "unlock"], loc' = loc,
         UNCHANGED <<allocated, nomemory, inGcount, table, used, made, missed, lost, dump>>
  PROVE  IInv'
<1>1. TypeInv /\ Acts(l) /\ loc[l].arc \in Arc /\ n \in Node
  BY DEF IInv, Acts, SearchInv, Linked
<1>2. /\ pool' \in [Node -> [arc : Arc \cup {NoArc}, count : Nat, next : Node \cup {Null}]]
      /\ \A m \in Node : pool'[m].arc = pool[m].arc /\ pool'[m].next = pool[m].next
      /\ \A m \in Node : pool'[m].count = pool[m].count + (IF m = n THEN 1 ELSE 0)
  BY <1>1 DEF TypeInv
<1>3. /\ pc' \in [Level -> Labels] /\ pc'[l] = "unlock" /\ \A u \in Level \ {l} : pc'[u] = pc[u]
  BY <1>1 DEF TypeInv, Labels, Inside
<1>4. TypeInv'
  BY <1>1, <1>2, <1>3 DEF TypeInv
<1>5. SearchInv(l)'
  BY <1>1, <1>3 DEF SearchInv, Searching
<1>6. inGcount /\ allocated /\ (~allocated' => used' = 0)
  BY DEF IInv, GuardInv, Inside
<1>7. GuardInv' /\ (\A u \in Level : SearchInv(u)') /\ ~dump.done
  BY <1>1, <1>3, <1>4, <1>5, <1>6, LevelStep
<1>8. Linked' = Linked
  <2>1. \A u \in Level : pc'[u] = "bump" <=> pc[u] = "bump"
    BY <1>3
  <2> QED
    BY <1>2, <2>1 DEF Linked
<1>9. Linked \subseteq Node
  BY DEF Linked
<1>10. ListInv'
  BY <1>2, <1>8, <1>9, ListKept DEF IInv
<1>11. LostInv'
  BY <1>2, <1>7, <1>8, <1>9 DEF IInv, LostInv
<1>12. CountInv'
  <2> SUFFICES ASSUME ~nomemory, NEW b \in Arc, HashOf[b[1]] \in Buckets
      PROVE  /\ \A m \in Linked : pool[m].arc = b => Kept[b] = pool'[m].count + Cardinality(Pending(b)')
             /\ b \notin lost /\ (\A m \in Linked : pool[m].arc # b) => Kept[b] = Cardinality(Pending(b)')
    BY <1>2, <1>8, <1>9, KeptSame DEF CountInv
  <2>1. /\ \A m \in Linked : pool[m].arc = b => Kept[b] = pool[m].count + Cardinality(Pending(b))
        /\ b \notin lost /\ (\A m \in Linked : pool[m].arc # b) => Kept[b] = Cardinality(Pending(b))
    BY DEF IInv, CountInv
  <2>2. l \notin Pending(b)'
    BY <1>3 DEF Pending, Searching
  <2>3. CASE b = loc[l].arc
    <3>1. l \in Pending(b)
      BY <2>3 DEF Pending, Searching
    <3>2. Cardinality(Pending(b)) = Cardinality(Pending(b)') + 1
      BY <1>3, <2>2, <3>1, PendingLess
    <3>3. \A m \in Linked : pool[m].arc = b => m = n
      BY <2>3 DEF IInv, ListInv
    <3>4. pool'[n].count = pool[n].count + 1 /\ pool[n].count \in Nat
      BY <1>1, <1>2 DEF TypeInv
    <3>5. Cardinality(Pending(b)) \in Nat /\ Cardinality(Pending(b)') \in Nat
      <4>1. IsFiniteSet(Pending(b)')
        <5>1. Pending(b)' \subseteq Level
          BY DEF Pending
        <5> QED
          BY <5>1, LevelFinite, FS_Subset
      <4> QED
        BY <4>1, PendingFinite, FS_CardinalityType
    <3> QED
      BY <2>1, <2>3, <3>2, <3>3, <3>4, <3>5
  <2>4. CASE b # loc[l].arc
    <3>1. Pending(b)' = Pending(b)
      <4>1. l \notin Pending(b)
        BY <2>4 DEF Pending
      <4> QED
        BY <1>3, <2>2, <4>1, PendingKept
    <3>2. \A m \in Linked : pool[m].arc = b => pool'[m].count = pool[m].count
      <4>1. \A m \in Linked : pool[m].arc = b => m # n
        BY <2>4
      <4> QED
        BY <1>1, <1>9, <4>1 DEF TypeInv
    <3> QED
      BY <2>1, <3>1, <3>2
  <2> QED
    BY <2>3, <2>4
<1> QED
  BY <1>4, <1>7, <1>10, <1>11, <1>12 DEF IInv

(* A search after a step: for constants, which a step does not change. *)
LEMMA SearchStands ==
  ASSUME NEW l \in Level, NEW a \in Arc, NEW i \in Buckets, i = HashOf[a[1]],
         NEW p \in Places(i)',
         pc'[l] \in Searching, loc'[l].arc = a, loc'[l].link = LinkAt(i, p),
         \A n \in Of(i)' : n <= p => pool'[n].arc # a,
         pc'[l] # "walk" => NextOf(i, p)' = Null,
         pc'[l] \in {"fill", "link"} => loc'[l].node = used' + 1 /\ used' < PoolSize,
         pc'[l] = "link" => pool'[used' + 1] = [arc |-> a, count |-> 1, next |-> Null]
  PROVE  SearchInv(l)'
<1>1. Index(l)' = i
  BY DEF Index
<1>2. Passed(l, p)'
  BY <1>1 DEF Passed
<1>3. LinkAt(i, p)' = LinkAt(i, p)
  BY DEF LinkAt, TableLink, NodeLink
<1>4. pc'[l] # "bump"
  BY DEF Searching
<1> QED
  BY <1>1, <1>2, <1>3, <1>4 DEF SearchInv

LEMMA WalkInv ==
  ASSUME IInv, NEW l \in Level, Walk(l)
  PROVE  IInv'
<1>0. PICK n, i, a : n = Follow(loc[l].link) /\ i = Index(l) /\ a = loc[l].arc
  OBVIOUS
<1>1. /\ pc[l] = "walk" /\ Runs(l)
      /\ UNCHANGED <<allocated, nomemory, table, used, inGcount, dump, made, missed, lost>>
  BY DEF Walk, hist
<1>2. pc[l] \in Searching /\ TypeInv /\ Acts(l)
  BY <1>1 DEF Searching, IInv, Acts
<1>3. PICK p \in Places(i) :
         /\ p \in Nat /\ p <= PoolSize /\ Passed(l, p) /\ n = NextOf(i, p)
         /\ loc[l].link = LinkAt(i, p)
  BY <1>0, <1>2, Stands
<1>4. a \in Arc /\ i \in Buckets /\ i = HashOf[a[1]]
  BY <1>0, <1>2, Stands DEF Index
<1>5. \/ n = Null
      \/ /\ n \in Of(i) /\ n > p /\ \A m \in Of(i) : m > p => n <= m
  BY <1>3, <1>4 DEF IInv, ListInv, Chained
<1>6. \A m \in Linked : m \in Node /\ m \in Nat
  BY CallGraphAssumption DEF Linked, Node
<1>7. inGcount /\ allocated
  BY <1>1 DEF IInv, GuardInv, Inside
<1>8. lost # {} => used' = PoolSize + 1
  BY <1>1 DEF IInv, LostInv
<1>9. CASE n # Null /\ pool[n].arc = a
  <2>1. n \in Linked
    BY <1>5, <1>9 DEF Of
  <2>2. /\ pool' = [pool EXCEPT ![n].count = @ + 1] /\ pc' = [pc EXCEPT ![l] = "unlock"]
        /\ loc' = loc
    BY <1>0, <1>9 DEF Walk
  <2> QED
    BY <1>0, <1>1, <1>9, <2>1, <2>2, WalkCounts
<1>10. CASE n # Null /\ pool[n].arc # a
  <2>1. loc' = [loc EXCEPT ![l].link = NodeLink(n)] /\ pool' = pool /\ pc' = pc
    BY <1>0, <1>10 DEF Walk
  <2>2. n \in Linked /\ n \in Nat /\ n # Null /\ n \in Of(i)
    BY <1>5, <1>6, <1>10 DEF Of
  <2>3. NodeLink(n) \in [in : {"table", "pool"}, at : Nat]
    BY <2>2 DEF NodeLink
  <2>4. /\ loc' \in [Level -> [arc : Arc \cup {NoArc}, link : [in : {"table", "pool"}, at : Nat],
                               node : Nat]]
        /\ loc'[l].arc = loc[l].arc /\ loc'[l].link = NodeLink(n)
        /\ \A u \in Level \ {l} : loc'[u] = loc[u]
    BY <1>2, <2>1, <2>3 DEF TypeInv
  <2>5. TypeInv'
    BY <1>1, <1>2, <2>1, <2>4 DEF TypeInv
  <2>6. Linked' = Linked
    <3>1. \A u \in Level : pc[u] = "bump" => loc'[u] = loc[u]
      BY <1>1, <2>4
    <3> QED
      BY <1>1, <2>1, <3>1 DEF Linked
  <2>7. SearchInv(l)'
    <3>1. Of(i)' = Of(i)
      BY <2>1, <2>6 DEF Of
    <3>2. n \in Places(i)' /\ loc'[l].link = LinkAt(i, n) /\ loc'[l].arc = a
      BY <1>0, <2>2, <2>4, <3>1 DEF Places, LinkAt
    <3>3. \A m \in Of(i) : m <= n => pool[m].arc # a
      <4> SUFFICES ASSUME NEW m \in Of(i), m <= n PROVE pool[m].arc # a
        OBVIOUS
      <4>1. m \in Nat
        BY <1>6 DEF Of
      <4>2. CASE m <= p
        BY <1>0, <1>3, <4>2 DEF Passed
      <4>3. CASE m > p
        <5>1. m = n
          BY <1>5, <1>10, <2>2, <4>1, <4>3
        <5> QED
          BY <1>10, <5>1
      <4> QED
        BY <1>3, <4>1, <4>2, <4>3
    <3>4. pc'[l] = "walk"
      BY <1>1, <2>1
    <3>5. \A m \in Of(i)' : m <= n => pool'[m].arc # a
      BY <2>1, <3>1, <3>3
    <3>6. pc'[l] \in Searching /\ pc'[l] \notin {"fill", "link"}
      BY <3>4 DEF Searching
    <3> QED
      BY <1>4, <3>2, <3>4, <3>5, <3>6, SearchStands
  <2>8. \A b \in Arc : l \in Pending(b)' <=> l \in Pending(b)
    BY <2>1, <2>4 DEF Pending
  <2> QED
    BY <1>1, <1>2, <1>7, <1>8, <2>1, <2>4, <2>5, <2>6, <2>7, <2>8, QuietStep
<1>11. CASE n = Null
  <2>1. pc' = [pc EXCEPT ![l] = "take"] /\ pool' = pool /\ loc' = loc
    BY <1>0, <1>11 DEF Walk
  <2>2. /\ pc' \in [Level -> Labels] /\ pc'[l] = "take" /\ \A u \in Level \ {l} : pc'[u] = pc[u]
    BY <1>2, <2>1 DEF TypeInv, Labels, Inside
  <2>3. TypeInv'
    BY <1>1, <1>2, <2>1, <2>2 DEF TypeInv
  <2>4. Linked' = Linked
    <3>1. \A u \in Level : pc'[u] = "bump" <=> pc[u] = "bump"
      BY <1>1, <2>2
    <3> QED
      BY <1>1, <2>1, <3>1 DEF Linked
  <2>5. SearchInv(l)'
    <3>1. Of(i)' = Of(i) /\ Places(i)' = Places(i) /\ NextOf(i, p)' = NextOf(i, p)
      BY <1>1, <2>1, <2>4 DEF Of, Places, NextOf
    <3>2. \A m \in Of(i) : m <= p => pool[m].arc # a
      BY <1>0, <1>3 DEF Passed
    <3>3. \A m \in Of(i)' : m <= p => pool'[m].arc # a
      BY <2>1, <3>1, <3>2
    <3>4. pc'[l] \in Searching /\ pc'[l] \notin {"fill", "link"}
      BY <2>2 DEF Searching
    <3>5. p \in Places(i)' /\ loc'[l].link = LinkAt(i, p) /\ loc'[l].arc = a /\ NextOf(i, p)' = Null
      BY <1>0, <1>3, <1>11, <2>1, <3>1
    <3> QED
      BY <1>4, <3>3, <3>4, <3>5, SearchStands
  <2>6. \A b \in Arc : l \in Pending(b)' <=> l \in Pending(b)
    BY <1>1, <2>1, <2>2 DEF Pending, Searching
  <2> QED
    BY <1>1, <1>2, <1>7, <1>8, <2>1, <2>2, <2>3, <2>4, <2>5, <2>6, QuietStep
<1> QED
  BY <1>9, <1>10, <1>11
-----------------------------------------------------------------------------
LEMMA ArcIsArc == \A a \in Arc : a # NoArc
  BY DEF Arc, NoArc

(* A search that has come to the end of its list has not missed the arc. *)
LEMMA Absent ==
  ASSUME IInv, NEW l \in Level, pc[l] \in {"take", "fill", "link"}
  PROVE  \A n \in Linked : pool[n].arc # loc[l].arc
<1>1. pc[l] \in Searching /\ pc[l] # "walk"
  BY DEF Searching
<1>2. PICK i \in Buckets : i = Index(l)
  BY <1>1, Stands
<1>3. PICK p \in Places(i) : p \in Nat /\ Passed(l, p) /\ NextOf(i, p) = Null
  BY <1>1, <1>2, Stands
<1>4. \A n \in Of(i) : n \in Nat \ {Null}
  BY CallGraphAssumption DEF Of, Linked, Node, Null
<1>5. \A n \in Of(i) : n <= p
  BY <1>3, <1>4 DEF IInv, ListInv, Chained
<1>6. \A n \in Linked : pool[n].arc = loc[l].arc => n \in Of(i)
  BY <1>2 DEF Of, Index
<1> QED
  BY <1>2, <1>3, <1>5, <1>6 DEF Passed

(* There is one node being inserted, and it is not in a list yet. *)
LEMMA NewNode ==
  ASSUME IInv, NEW l \in Level, Acts(l), pc[l] \in {"fill", "link", "bump"}
  PROVE  /\ loc[l].node = used + 1 /\ used + 1 \in Node /\ used \in Nat
         /\ \A u \in Level \ {l} : pc[u] # "bump"
         /\ pc[l] # "bump" => Linked = {n \in Node : pool[n].arc # NoArc /\ n <= used}
         /\ lost = {}
<1>1. loc[l].node = used + 1 /\ used < PoolSize /\ used \in Nat /\ PoolSize \in Nat
  <2>1. SearchInv(l)
    BY DEF IInv
  <2>2. used \in Nat /\ PoolSize \in Nat
    BY CallGraphAssumption DEF IInv, TypeInv
  <2> QED
    BY <2>1, <2>2 DEF SearchInv
<1>2. \A u \in Level \ {l} : pc[u] # "bump"
  BY Bystanders DEF IInv
<1>3. lost = {}
  BY <1>1 DEF IInv, LostInv
<1>4. used + 1 \in Node
  BY <1>1 DEF Node
<1> QED
  BY <1>1, <1>2, <1>3, <1>4 DEF Linked

LEMMA TakeInv ==
  ASSUME IInv, NEW l \in Level, Take(l)
  PROVE  IInv'
<1>1. /\ pc[l] = "take" /\ Runs(l) /\ pc[l] \in Searching
      /\ UNCHANGED <<allocated, nomemory, table, pool, inGcount, dump, made, missed>>
  BY DEF Take, Searching
<1>2. TypeInv /\ Acts(l) /\ inGcount /\ allocated
  BY <1>1 DEF IInv, Acts, GuardInv, Inside
<1>3. used \in Nat /\ PoolSize \in Nat
  BY <1>2, CallGraphAssumption DEF TypeInv
<1>4. PICK a \in Arc, i \in Buckets : a = loc[l].arc /\ i = HashOf[a[1]] /\ i = Index(l)
  BY <1>1, Stands DEF Index
<1>5. CASE used >= PoolSize
  <2>1. /\ used' = PoolSize + 1 /\ lost' = lost \cup {a} /\ pc' = [pc EXCEPT ![l] = "unlock"]
        /\ loc' = loc
    BY <1>3, <1>4, <1>5 DEF Take
  <2>2. /\ pc' \in [Level -> Labels] /\ pc'[l] = "unlock" /\ \A u \in Level \ {l} : pc'[u] = pc[u]
    BY <1>2, <2>1 DEF TypeInv, Labels, Inside
  <2>3. TypeInv'
    BY <1>1, <1>2, <1>3, <2>1, <2>2 DEF TypeInv
  <2>4. SearchInv(l)'
    BY <1>4, <2>1, <2>2 DEF SearchInv, Searching
  <2>5. GuardInv' /\ (\A u \in Level : SearchInv(u)') /\ ~dump.done
    BY <1>1, <1>2, <2>1, <2>2, <2>3, <2>4, LevelStep
  <2>6. Linked' = Linked
    <3>1. \A n \in Node : n <= used /\ n <= used'
      BY <1>3, <1>5, <2>1 DEF Node
    <3> QED
      BY <1>1, <3>1 DEF Linked
  <2>7. ListInv'
    BY <1>1, <2>6, ListKept DEF IInv
  <2>8. \A n \in Linked : pool[n].arc # a
    BY <1>1, <1>4, Absent
  <2>9. LostInv'
    BY <1>1, <2>1, <2>5, <2>6, <2>8 DEF IInv, LostInv
  <2>10. CountInv'
    <3> SUFFICES ASSUME ~nomemory, NEW b \in Arc, HashOf[b[1]] \in Buckets, b # a
        PROVE  /\ \A n \in Linked : pool[n].arc = b => Kept[b] = pool[n].count + Cardinality(Pending(b)')
               /\ b \notin lost /\ (\A n \in Linked : pool[n].arc # b) => Kept[b] = Cardinality(Pending(b)')
      BY <1>1, <2>1, <2>6, <2>8, KeptSame DEF CountInv
    <3>1. l \notin Pending(b) /\ l \notin Pending(b)'
      BY <1>4, <2>1 DEF Pending
    <3>2. Pending(b)' = Pending(b)
      BY <2>1, <2>2, <3>1, PendingKept
    <3> QED
      BY <3>2 DEF IInv, CountInv
  <2> QED
    BY <2>3, <2>5, <2>7, <2>9, <2>10 DEF IInv
<1>6. CASE used < PoolSize
  <2>1. /\ loc' = [loc EXCEPT ![l].node = used + 1] /\ pc' = [pc EXCEPT ![l] = "fill"]
        /\ UNCHANGED <<used, lost>>
    BY <1>3, <1>6 DEF Take
  <2>2. /\ pc' \in [Level -> Labels] /\ pc'[l] = "fill" /\ \A u \in Level \ {l} : pc'[u] = pc[u]
    BY <1>2, <2>1 DEF TypeInv, Labels, Inside
  <2>3. /\ loc' \in [Level -> [arc : Arc \cup {NoArc}, link : [in : {"table", "pool"}, at : Nat],
                               node : Nat]]
        /\ loc'[l].arc = a /\ loc'[l].link = loc[l].link /\ loc'[l].node = used + 1
        /\ \A u \in Level \ {l} : loc'[u] = loc[u]
    BY <1>2, <1>3, <1>4, <2>1 DEF TypeInv
  <2>4. TypeInv'
    BY <1>1, <1>2, <2>1, <2>2, <2>3 DEF TypeInv
  <2>5. Linked' = Linked
    <3>1. \A u \in Level : pc'[u] = "bump" <=> pc[u] = "bump"
      BY <1>1, <2>2
    <3>2. \A u \in Level : pc[u] = "bump" => loc'[u] = loc[u]
      BY <1>1, <2>3
    <3> QED
      BY <1>1, <2>1, <3>1, <3>2 DEF Linked
  <2>6. SearchInv(l)'
    <3>1. PICK p \in Places(i) : /\ p \in Nat /\ Passed(l, p) /\ NextOf(i, p) = Null
                                 /\ loc[l].link = LinkAt(i, p)
      BY <1>1, <1>4, Stands
    <3>2. Of(i)' = Of(i) /\ Places(i)' = Places(i) /\ NextOf(i, p)' = NextOf(i, p)
      BY <1>1, <2>5 DEF Of, Places, NextOf
    <3>3. \A m \in Of(i)' : m <= p => pool'[m].arc # a
      BY <1>1, <1>4, <3>1, <3>2 DEF Passed
    <3>4. pc'[l] \in Searching /\ pc'[l] # "walk" /\ pc'[l] # "link"
      BY <2>2 DEF Searching
    <3>5. p \in Places(i)' /\ loc'[l].link = LinkAt(i, p) /\ NextOf(i, p)' = Null
      BY <2>3, <3>1, <3>2
    <3>6. loc'[l].node = used' + 1 /\ used' < PoolSize
      BY <1>6, <2>1, <2>3
    <3> QED
      BY <1>4, <2>3, <3>3, <3>4, <3>5, <3>6, SearchStands
  <2>7. \A b \in Arc : l \in Pending(b)' <=> l \in Pending(b)
    BY <1>1, <1>4, <2>2, <2>3 DEF Pending, Searching
  <2>8. (lost # {} => used' = PoolSize + 1) /\ (~allocated' => used' = 0)
    BY <1>1, <1>2, <2>1 DEF IInv, LostInv
  <2> QED
    BY <1>1, <1>2, <2>1, <2>2, <2>3, <2>4, <2>5, <2>6, <2>7, <2>8, QuietStep
<1> QED
  BY <1>3, <1>5, <1>6

LEMMA FillInv ==
  ASSUME IInv, NEW l \in Level, Fill(l)
  PROVE  IInv'
<1>1. /\ pc[l] = "fill" /\ Runs(l) /\ pc[l] \in Searching
      /\ pc' = [pc EXCEPT ![l] = "link"]
      /\ pool' = [pool EXCEPT ![loc[l].node] =
                    [arc |-> loc[l].arc, count |-> 1, next |-> Follow(loc[l].link)]]
      /\ UNCHANGED <<allocated, nomemory, table, used, inGcount, loc, dump, made, missed, lost>>
  BY DEF Fill, At, hist, Searching
<1>2. TypeInv /\ Acts(l) /\ inGcount /\ allocated
  BY <1>1 DEF IInv, Acts, GuardInv, Inside
<1>3. /\ loc[l].node = used + 1 /\ used + 1 \in Node /\ used \in Nat
      /\ \A u \in Level \ {l} : pc[u] # "bump"
      /\ Linked = {n \in Node : pool[n].arc # NoArc /\ n <= used} /\ lost = {}
  BY <1>1, <1>2, NewNode
<1>4. PICK a \in Arc, i \in Buckets : a = loc[l].arc /\ i = HashOf[a[1]] /\ i = Index(l)
  BY <1>1, Stands DEF Index
<1>5. PICK p \in Places(i) : /\ p \in Nat /\ Passed(l, p) /\ NextOf(i, p) = Null
                             /\ loc[l].link = LinkAt(i, p) /\ Follow(loc[l].link) = NextOf(i, p)
  BY <1>1, <1>4, Stands
<1>6. /\ pc' \in [Level -> Labels] /\ pc'[l] = "link" /\ \A u \in Level \ {l} : pc'[u] = pc[u]
  BY <1>1, <1>2 DEF TypeInv, Labels, Inside
<1>7. /\ pool' \in [Node -> [arc : Arc \cup {NoArc}, count : Nat, next : Node \cup {Null}]]
      /\ pool'[used + 1] = [arc |-> a, count |-> 1, next |-> Null]
      /\ \A n \in Node \ {used + 1} : pool'[n] = pool[n]
  <2>1. [arc |-> a, count |-> 1, next |-> Null]
          \in [arc : Arc \cup {NoArc}, count : Nat, next : Node \cup {Null}]
    OBVIOUS
  <2>2. pool' = [pool EXCEPT ![used + 1] = [arc |-> a, count |-> 1, next |-> Null]]
    BY <1>1, <1>3, <1>4, <1>5
  <2> QED
    BY <1>2, <1>3, <2>1, <2>2 DEF TypeInv
<1>8. TypeInv'
  BY <1>1, <1>2, <1>6, <1>7 DEF TypeInv
<1>9. \A n \in Linked : n # used + 1 /\ pool'[n] = pool[n]
  <2>1. \A n \in Linked : n \in Nat /\ n <= used
    BY <1>3, CallGraphAssumption DEF Node
  <2> QED
    BY <1>3, <1>7, <2>1
<1>10. Linked' = Linked
  <2>1. \A u \in Level : pc'[u] # "bump"
    BY <1>3, <1>6
  <2>2. Linked' = {n \in Node : pool'[n].arc # NoArc /\ n <= used}
    BY <1>1, <2>1 DEF Linked
  <2>3. ~(used + 1 <= used)
    BY <1>3
  <2> QED
    BY <1>3, <1>7, <2>2, <2>3
<1>11. SearchInv(l)'
  <2>1. Of(i)' = Of(i) /\ Places(i)' = Places(i)
    BY <1>9, <1>10 DEF Of, Places
  <2>2. NextOf(i, p)' = NextOf(i, p)
    BY <1>1, <1>9 DEF NextOf, Places, Of
  <2>3. \A m \in Of(i)' : m <= p => pool'[m].arc # a
    BY <1>4, <1>5, <1>9, <2>1 DEF Passed, Of
  <2>4. pc'[l] \in Searching /\ pc'[l] # "walk"
    BY <1>6 DEF Searching
  <2>5. p \in Places(i)' /\ loc'[l].link = LinkAt(i, p) /\ NextOf(i, p)' = Null /\ loc'[l].arc = a
    BY <1>1, <1>4, <1>5, <2>1, <2>2
  <2>6. loc'[l].node = used' + 1 /\ used' < PoolSize
    BY <1>1, <1>3 DEF IInv, SearchInv
  <2>7. pool'[used' + 1] = [arc |-> a, count |-> 1, next |-> Null]
    BY <1>1, <1>7
  <2> QED
    BY <1>4, <2>3, <2>4, <2>5, <2>6, <2>7, SearchStands
<1>12. \A b \in Arc : l \in Pending(b)' <=> l \in Pending(b)
  BY <1>1, <1>6 DEF Pending, Searching
<1> QED
  BY <1>1, <1>2, <1>3, <1>6, <1>8, <1>9, <1>10, <1>11, <1>12, QuietStep

LEMMA BumpInv ==
  ASSUME IInv, NEW l \in Level, Bump(l)
  PROVE  IInv'
<1>1. /\ pc[l] = "bump" /\ Runs(l) /\ used' = used + 1 /\ pc' = [pc EXCEPT ![l] = "unlock"]
      /\ UNCHANGED <<allocated, nomemory, table, pool, inGcount, loc, dump, made, missed, lost>>
  BY DEF Bump, At, hist
<1>2. TypeInv /\ Acts(l) /\ inGcount /\ allocated /\ loc[l].arc \in Arc
  BY <1>1 DEF IInv, Acts, GuardInv, Inside, SearchInv
<1>3. /\ loc[l].node = used + 1 /\ used + 1 \in Node /\ used \in Nat
      /\ \A u \in Level \ {l} : pc[u] # "bump"
      /\ lost = {}
  BY <1>1, <1>2, NewNode
<1>4. /\ pc' \in [Level -> Labels] /\ pc'[l] = "unlock" /\ \A u \in Level \ {l} : pc'[u] = pc[u]
  BY <1>1, <1>2 DEF TypeInv, Labels, Inside
<1>5. TypeInv'
  <2>1. used' \in 0 .. PoolSize + 1
    BY <1>1, <1>3, CallGraphAssumption DEF Node
  <2> QED
    BY <1>1, <1>2, <1>4, <2>1 DEF TypeInv
<1>6. Linked' = Linked
  <2>1. Linked' = {n \in Node : pool[n].arc # NoArc /\ n <= used + 1}
    BY <1>1, <1>3, <1>4 DEF Linked
  <2>2. Linked = {n \in Node : pool[n].arc # NoArc /\ (n <= used \/ n = used + 1)}
    BY <1>1, <1>3 DEF Linked
  <2>3. \A n \in Node : n <= used + 1 <=> (n <= used \/ n = used + 1)
    BY <1>3, CallGraphAssumption DEF Node
  <2> QED
    BY <2>1, <2>2, <2>3
<1>7. SearchInv(l)'
  BY <1>1, <1>2, <1>4 DEF SearchInv, Searching
<1>8. \A a \in Arc : l \notin Pending(a)' /\ l \notin Pending(a)
  BY <1>1, <1>4 DEF Pending, Searching
<1> QED
  BY <1>1, <1>2, <1>3, <1>4, <1>5, <1>6, <1>7, <1>8, QuietStep
-----------------------------------------------------------------------------
(* The node goes behind the last one of its list: an abstract step, for a  *)
(* list as a set of nodes and the links between them.                      *)
LEMMA LinkedStep ==
  ASSUME IInv, NEW l \in Level, Link(l), NEW a \in Arc, NEW i \in Buckets,
         a = loc[l].arc, i = HashOf[a[1]], NEW k \in Node, k = used + 1
  PROVE  /\ pool' \in [Node -> [arc : Arc \cup {NoArc}, count : Nat, next : Node \cup {Null}]]
         /\ table' \in [Buckets -> Node \cup {Null}]
         /\ Linked' = Linked \cup {k} /\ \A n \in Linked : n < k
         /\ \A n \in Node : pool'[n].arc = pool[n].arc /\ pool'[n].count = pool[n].count
         /\ pool[k].arc = a /\ pool[k].count = 1 /\ NextOf(i, k)' = Null
         /\ \E p \in Places(i) :
              /\ NextOf(i, p) = Null /\ p \in Nat /\ p < k
              /\ NextOf(i, p)' = k
              /\ \A j \in Buckets : \A q \in Places(j) :
                   (j # i \/ q # p) => NextOf(j, q)' = NextOf(j, q)
<1>1. /\ pc[l] = "link" /\ Runs(l) /\ pc[l] \in Searching
      /\ pc' = [pc EXCEPT ![l] = "bump"]
      /\ UNCHANGED <<allocated, nomemory, used, inGcount, loc, dump, made, missed, lost>>
  BY DEF Link, At, hist, Searching
<1>2. TypeInv /\ Acts(l)
  BY <1>1 DEF IInv, Acts
<1>3. /\ loc[l].node = k /\ used \in Nat /\ \A u \in Level \ {l} : pc[u] # "bump"
      /\ Linked = {n \in Node : pool[n].arc # NoArc /\ n <= used}
  BY <1>1, <1>2, NewNode
<1>4. PICK p \in Places(i) : /\ p \in Nat /\ NextOf(i, p) = Null /\ loc[l].link = LinkAt(i, p)
  BY <1>1, Stands DEF Index
<1>5. \A n \in Linked : n \in Nat /\ n # Null /\ n < k
  BY <1>3, CallGraphAssumption DEF Node, Null
<1>6. p < k /\ (p # Null => p \in Linked)
  BY <1>3, <1>4, <1>5 DEF Places, Of, Null
<1>7. pool[k] = [arc |-> a, count |-> 1, next |-> Null]
  BY <1>1 DEF IInv, SearchInv
<1>8. \/ p = Null /\ table' = [table EXCEPT ![i] = k] /\ pool' = pool
      \/ p # Null /\ pool' = [pool EXCEPT ![p].next = k] /\ table' = table
  BY <1>3, <1>4 DEF Link, LinkAt, TableLink, NodeLink
<1>9. /\ pool' \in [Node -> [arc : Arc \cup {NoArc}, count : Nat, next : Node \cup {Null}]]
      /\ table' \in [Buckets -> Node \cup {Null}]
      /\ \A n \in Node : pool'[n].arc = pool[n].arc /\ pool'[n].count = pool[n].count
      /\ \A n \in Node : n # p => pool'[n].next = pool[n].next
      /\ p # Null => pool'[p].next = k /\ table' = table
      /\ p = Null => table'[i] = k /\ \A j \in Buckets \ {i} : table'[j] = table[j]
  <2>1. CASE p = Null
    BY <1>2, <1>8, <2>1 DEF TypeInv
  <2>2. CASE p # Null
    <3>1. p \in Node /\ pool' = [pool EXCEPT ![p].next = k] /\ table' = table
      BY <1>6, <1>8, <2>2 DEF Linked
    <3>2. pool \in [Node -> [arc : Arc \cup {NoArc}, count : Nat, next : Node \cup {Null}]]
      BY <1>2 DEF TypeInv
    <3>3. pool' \in [Node -> [arc : Arc \cup {NoArc}, count : Nat, next : Node \cup {Null}]]
      BY <3>1, <3>2
    <3>4. /\ \A n \in Node : pool'[n].arc = pool[n].arc /\ pool'[n].count = pool[n].count
          /\ \A n \in Node : n # p => pool'[n].next = pool[n].next
          /\ pool'[p].next = k
      BY <3>1, <3>2
    <3>5. table' \in [Buckets -> Node \cup {Null}]
      BY <1>2, <3>1 DEF TypeInv
    <3> QED
      BY <2>2, <3>1, <3>3, <3>4, <3>5
  <2> QED
    BY <2>1, <2>2
<1>10. Linked' = Linked \cup {k}
  <2>1. pc'[l] = "bump" /\ \A u \in Level \ {l} : pc'[u] # "bump"
    BY <1>1, <1>2, <1>3 DEF TypeInv
  <2>2. Linked' = {n \in Node : pool'[n].arc # NoArc /\ (n <= used \/ n = k)}
    BY <1>1, <1>3, <2>1 DEF Linked
  <2>3. pool[k].arc # NoArc
    BY <1>7, ArcIsArc
  <2>4. \A n \in Node : pool'[n].arc = pool[n].arc
    BY <1>9
  <2>5. Linked' = {n \in Node : pool[n].arc # NoArc /\ (n <= used \/ n = k)}
    BY <2>2, <2>4
  <2>6. Linked = {n \in Node : pool[n].arc # NoArc /\ n <= used}
    BY <1>3
  <2> QED
    BY <2>3, <2>5, <2>6
<1>11. NextOf(i, k)' = Null
  <2>1. k # Null /\ k # p
    BY <1>3, <1>6 DEF Null
  <2> QED
    BY <1>7, <1>9, <2>1 DEF NextOf
<1>12. NextOf(i, p)' = k
  BY <1>9 DEF NextOf
<1>13. ASSUME NEW j \in Buckets, NEW q \in Places(j), j # i \/ q # p
       PROVE  NextOf(j, q)' = NextOf(j, q)
  <2>1. CASE q = Null
    BY <1>9, <1>13, <2>1 DEF NextOf
  <2>2. CASE q # Null
    <3>1. q \in Node /\ q \in Of(j)
      BY <2>2 DEF Places, Of, Linked
    <3>2. q # p
      BY <1>4, <1>13, <2>2, <3>1 DEF Places, Of
    <3> QED
      BY <1>9, <2>2, <3>1, <3>2 DEF NextOf
  <2> QED
    BY <2>1, <2>2
<1> QED
  BY <1>4, <1>5, <1>6, <1>7, <1>9, <1>10, <1>11, <1>12, <1>13

LEMMA LinkList ==
  ASSUME IInv, NEW a \in Arc, NEW i \in Buckets, i = HashOf[a[1]],
         NEW k \in Node, Linked' = Linked \cup {k}, \A n \in Linked : n < k,
         \A n \in Node : pool'[n].arc = pool[n].arc,
         pool[k].arc = a, \A n \in Linked : pool[n].arc # a, NextOf(i, k)' = Null,
         NEW p \in Places(i), NextOf(i, p) = Null, p \in Nat, p < k, NextOf(i, p)' = k,
         \A j \in Buckets : \A q \in Places(j) :
           (j # i \/ q # p) => NextOf(j, q)' = NextOf(j, q)
  PROVE  ListInv'
<1>1. Linked \subseteq Node /\ k \in Nat \ {Null} /\ \A n \in Linked : n \in Nat \ {Null}
  BY CallGraphAssumption DEF Linked, Node, Null
<1>2. /\ Of(i)' = Of(i) \cup {k} /\ Places(i)' = Places(i) \cup {k}
      /\ \A j \in Buckets \ {i} : Of(j)' = Of(j) /\ Places(j)' = Places(j)
  <2>1. Of(i)' = {n \in Linked \cup {k} : HashOf[pool[n].arc[1]] = i}
    BY <1>1 DEF Of
  <2>2. HashOf[pool[k].arc[1]] = i
    OBVIOUS
  <2>3. Of(i)' = Of(i) \cup {k}
    BY <2>1, <2>2 DEF Of
  <2>4. ASSUME NEW j \in Buckets \ {i} PROVE Of(j)' = Of(j)
    <3>1. Of(j)' = {n \in Linked \cup {k} : HashOf[pool[n].arc[1]] = j}
      BY <1>1 DEF Of
    <3> QED
      BY <2>2, <3>1 DEF Of
  <2> QED
    BY <2>3, <2>4 DEF Places
<1>3. \A n \in Linked' : HashOf[pool'[n].arc[1]] \in Buckets
  BY <1>1 DEF IInv, ListInv
<1>4. \A m, n \in Linked' : pool'[m].arc = pool'[n].arc => m = n
  BY <1>1 DEF IInv, ListInv
<1>5. ASSUME NEW j \in Buckets \ {i} PROVE Chained(j)'
  <2>1. Chained(j) /\ Of(j)' = Of(j) /\ Places(j)' = Places(j)
    BY <1>2 DEF IInv, ListInv
  <2> SUFFICES ASSUME NEW q \in Places(j)
      PROVE \/ NextOf(j, q)' = Null /\ \A n \in Of(j) : n <= q
            \/ /\ NextOf(j, q)' \in Of(j) /\ NextOf(j, q)' > q
               /\ \A n \in Of(j) : n > q => NextOf(j, q)' <= n
    BY <2>1 DEF Chained
  <2>2. NextOf(j, q)' = NextOf(j, q)
    OBVIOUS
  <2> QED
    BY <2>1, <2>2 DEF Chained
<1>6. Chained(i)'
  <2>1. Chained(i) /\ \A n \in Of(i) : n \in Nat \ {Null} /\ n < k
    BY <1>1 DEF IInv, ListInv, Of
  <2>2. \A n \in Of(i) : n <= p
    BY <2>1 DEF Chained
  <2>3. \A q \in Places(i) : q \in Nat
    <3>1. \A q \in Places(i) : q \in Of(i) \/ q = 0
      BY DEF Places, Null
    <3> QED
      BY <2>1, <3>1
  <2> SUFFICES ASSUME NEW q \in Places(i) \cup {k}
      PROVE \/ NextOf(i, q)' = Null /\ \A n \in Of(i) \cup {k} : n <= q
            \/ /\ NextOf(i, q)' \in Of(i) \cup {k} /\ NextOf(i, q)' > q
               /\ \A n \in Of(i) \cup {k} : n > q => NextOf(i, q)' <= n
    BY <1>2 DEF Chained
  <2>4. CASE q = k
    <3>1. \A n \in Of(i) \cup {k} : n <= k
      BY <1>1, <2>1
    <3> QED
      BY <2>4, <3>1
  <2>5. CASE q # k /\ q = p
    <3>1. \A n \in Of(i) \cup {k} : n > p => n = k
      BY <2>1, <2>2
    <3>2. k > p /\ k \in Of(i) \cup {k} /\ k <= k
      BY <1>1
    <3> QED
      BY <2>5, <3>1, <3>2
  <2>6. CASE q # k /\ q # p
    <3>1. q \in Places(i) /\ NextOf(i, q)' = NextOf(i, q) /\ q \in Nat
      BY <2>3, <2>6
    <3>2. ~\A n \in Of(i) : n <= q
      <4>1. SUFFICES ASSUME \A n \in Of(i) : n <= q PROVE FALSE
        OBVIOUS
      <4>2. p <= q
        BY <3>1, <4>1 DEF Places, Null
      <4>3. q <= p
        BY <2>2, <3>1 DEF Places, Null
      <4> QED
        BY <2>6, <3>1, <4>2, <4>3
    <3>3. /\ NextOf(i, q) \in Of(i) /\ NextOf(i, q) > q
          /\ \A n \in Of(i) : n > q => NextOf(i, q) <= n
      BY <2>1, <3>1, <3>2 DEF Chained
    <3>4. NextOf(i, q) <= k
      BY <1>1, <2>1, <3>3
    <3> QED
      BY <3>1, <3>3, <3>4
  <2> QED
    BY <2>4, <2>5, <2>6
<1> QED
  BY <1>3, <1>4, <1>5, <1>6 DEF ListInv

LEMMA LinkInv ==
  ASSUME IInv, NEW l \in Level, Link(l)
  PROVE  IInv'
<1>1. /\ pc[l] = "link" /\ Runs(l) /\ pc[l] \in Searching
      /\ pc' = [pc EXCEPT ![l] = "bump"]
      /\ UNCHANGED <<allocated, nomemory, used, inGcount, loc, dump, made, missed, lost>>
  BY DEF Link, At, hist, Searching
<1>2. TypeInv /\ Acts(l) /\ inGcount /\ allocated
  BY <1>1 DEF IInv, Acts, GuardInv, Inside
<1>3. PICK a \in Arc, i \in Buckets, k \in Node :
         a = loc[l].arc /\ i = HashOf[a[1]] /\ k = used + 1 /\ k = loc[l].node /\ lost = {}
  <2>1. used + 1 \in Node /\ used + 1 = loc[l].node /\ lost = {}
    BY <1>1, <1>2, NewNode
  <2> QED
    BY <1>1, <2>1, Stands DEF Index
<1>4. /\ pool' \in [Node -> [arc : Arc \cup {NoArc}, count : Nat, next : Node \cup {Null}]]
      /\ table' \in [Buckets -> Node \cup {Null}]
      /\ Linked' = Linked \cup {k} /\ \A n \in Linked : n < k
      /\ \A n \in Node : pool'[n].arc = pool[n].arc /\ pool'[n].count = pool[n].count
      /\ pool[k].arc = a /\ pool[k].count = 1 /\ NextOf(i, k)' = Null
  BY <1>3, LinkedStep
<1>5. PICK p \in Places(i) :
         /\ NextOf(i, p) = Null /\ p \in Nat /\ p < k /\ NextOf(i, p)' = k
         /\ \A j \in Buckets : \A q \in Places(j) :
              (j # i \/ q # p) => NextOf(j, q)' = NextOf(j, q)
  BY <1>3, LinkedStep
<1>6. \A n \in Linked : pool[n].arc # a
  BY <1>1, <1>3, Absent
<1>7. ListInv'
  BY <1>3, <1>4, <1>5, <1>6, LinkList
<1>8. /\ pc' \in [Level -> Labels] /\ pc'[l] = "bump" /\ \A u \in Level \ {l} : pc'[u] = pc[u]
  BY <1>1, <1>2 DEF TypeInv, Labels, Inside
<1>9. TypeInv'
  BY <1>1, <1>2, <1>4, <1>8 DEF TypeInv
<1>10. SearchInv(l)'
  <2>1. SearchInv(l)
    BY DEF IInv
  <2> QED
    BY <1>1, <1>3, <1>8, <2>1 DEF SearchInv, Searching
<1>11. ~allocated' => used' = 0
  BY <1>1, <1>2
<1>12. GuardInv' /\ (\A u \in Level : SearchInv(u)') /\ ~dump.done
  BY <1>1, <1>2, <1>8, <1>9, <1>10, <1>11, LevelStep
<1>13. LostInv'
  BY <1>1, <1>3, <1>12 DEF LostInv
<1>14. Linked \subseteq Node
  BY DEF Linked
<1>15. CountInv'
  <2> SUFFICES ASSUME ~nomemory, NEW b \in Arc, HashOf[b[1]] \in Buckets
      PROVE  /\ \A m \in Linked \cup {k} :
                  pool[m].arc = b => Kept[b] = pool[m].count + Cardinality(Pending(b)')
             /\ b \notin lost /\ (\A m \in Linked \cup {k} : pool[m].arc # b) =>
                  Kept[b] = Cardinality(Pending(b)')
    BY <1>1, <1>4, <1>14, KeptSame DEF CountInv
  <2>1. /\ \A m \in Linked : pool[m].arc = b => Kept[b] = pool[m].count + Cardinality(Pending(b))
        /\ b \notin lost /\ (\A m \in Linked : pool[m].arc # b) => Kept[b] = Cardinality(Pending(b))
    BY DEF IInv, CountInv
  <2>2. l \notin Pending(b)'
    BY <1>8 DEF Pending, Searching
  <2>3. CASE b = a
    <3>1. l \in Pending(b)
      BY <1>1, <1>3, <2>3 DEF Pending
    <3>2. Cardinality(Pending(b)) = Cardinality(Pending(b)') + 1
      BY <1>1, <1>8, <2>2, <3>1, PendingLess
    <3>3. Kept[b] = Cardinality(Pending(b))
      BY <1>3, <1>6, <2>1, <2>3
    <3>4. Cardinality(Pending(b)') \in Nat
      <4>1. Pending(b)' \subseteq Level
        BY DEF Pending
      <4> QED
        BY <4>1, LevelFinite, FS_Subset, FS_CardinalityType
    <3>5. \A m \in Linked \cup {k} : pool[m].arc = b => pool[m].count = 1
      BY <1>4, <1>6, <2>3
    <3>6. Kept[b] = 1 + Cardinality(Pending(b)')
      BY <3>2, <3>3, <3>4
    <3> QED
      BY <1>4, <2>3, <3>5, <3>6
  <2>4. CASE b # a
    <3>1. l \notin Pending(b)
      BY <1>3, <2>4 DEF Pending
    <3>2. Pending(b)' = Pending(b)
      BY <1>1, <1>8, <2>2, <3>1, PendingKept
    <3> QED
      BY <1>4, <2>1, <2>4, <3>2
  <2> QED
    BY <2>3, <2>4
<1> QED
  BY <1>7, <1>9, <1>12, <1>13, <1>15 DEF IInv
-----------------------------------------------------------------------------
(* The debugger, with no level in the recorder. *)
LEMMA ClearInv ==
  ASSUME IInv, Clear
  PROVE  IInv'
<1>1. /\ \A l \in Level : pc[l] = "out"
      /\ allocated => table' = [i \in Buckets |-> Null] /\ pool' = [n \in Node |-> Blank]
      /\ ~allocated => UNCHANGED <<table, pool>>
      /\ inGcount' = FALSE /\ lost' = {} /\ dump' = NoDump
      /\ made' = [a \in Arc |-> 0] /\ missed' = [a \in Arc |-> 0]
      /\ UNCHANGED <<allocated, nomemory, used, pc, loc>>
  BY DEF Clear, Stopped, Quiet
<1>2. TypeInv
  BY DEF IInv
<1>3. TypeInv'
  <2>1. /\ table' \in [Buckets -> Node \cup {Null}]
        /\ pool' \in [Node -> [arc : Arc \cup {NoArc}, count : Nat, next : Node \cup {Null}]]
    BY <1>1, <1>2 DEF TypeInv, Blank
  <2>2. made' \in [Arc -> Nat] /\ missed' \in [Arc -> Nat] /\ \A a \in Arc : missed'[a] <= made'[a]
    BY <1>1
  <2>3. lost' \subseteq Arc /\ dump'.done = FALSE /\ dump'.error = FALSE
    BY <1>1 DEF NoDump
  <2> QED
    BY <1>1, <1>2, <2>1, <2>2, <2>3 DEF TypeInv
<1>4. Linked' = {}
  <2>1. \A n \in Node : n > 0
    BY CallGraphAssumption DEF Node
  <2>2. CASE allocated
    <3>1. \A n \in Node : pool'[n].arc = NoArc
      BY <1>1, <2>2 DEF Blank
    <3> QED
      BY <3>1 DEF Linked
  <2>3. CASE ~allocated
    <3>1. used' = 0 /\ \A l \in Level : pc'[l] # "bump"
      BY <1>1, <2>3 DEF IInv, GuardInv
    <3> QED
      BY <2>1, <3>1, CallGraphAssumption DEF Linked, Node
  <2> QED
    BY <2>2, <2>3
<1>5. ListInv'
  <2>1. \A i \in Buckets : Of(i)' = {} /\ Places(i)' = {Null}
    BY <1>4 DEF Of, Places
  <2>2. ASSUME NEW i \in Buckets PROVE NextOf(i, Null)' = Null
    <3>1. CASE allocated
      BY <1>1, <3>1 DEF NextOf
    <3>2. CASE ~allocated
      <4>1. Of(i) = {}
        <5>1. used = 0 /\ \A l \in Level : pc[l] # "bump"
          BY <1>1, <3>2 DEF IInv, GuardInv
        <5> QED
          BY <5>1, CallGraphAssumption DEF Of, Linked, Node
      <4>2. NextOf(i, Null) = Null
        BY <4>1 DEF IInv, ListInv, Chained, Places
      <4> QED
        BY <1>1, <3>2, <4>2 DEF NextOf
    <3> QED
      BY <3>1, <3>2
  <2>3. \A i \in Buckets : Chained(i)'
    BY <2>1, <2>2 DEF Chained
  <2> QED
    BY <1>4, <2>3 DEF ListInv
<1>6. GuardInv' /\ \A l \in Level : SearchInv(l)'
  BY <1>1 DEF IInv, GuardInv, SearchInv, Inside, Searching, NoDump
<1>7. LostInv'
  BY <1>1, <1>4 DEF LostInv
<1>8. CountInv'
  <2>1. \A a \in Arc : Pending(a)' = {}
    BY <1>1 DEF Pending, Searching
  <2>2. Cardinality({}) = 0
    BY FS_EmptySet
  <2>3. \A a \in Arc : Kept'[a] = 0
    BY <1>1 DEF Kept
  <2> QED
    BY <1>1, <1>4, <2>1, <2>2, <2>3 DEF CountInv
<1> QED
  BY <1>3, <1>5, <1>6, <1>7, <1>8 DEF IInv

LEMMA DumpInv ==
  ASSUME IInv, Dump
  PROVE  IInv'
<1>1. /\ \A l \in Level : pc[l] = "out"
      /\ inGcount' = TRUE /\ dump'.error = (used >= PoolSize) /\ dump'.done = TRUE
      /\ UNCHANGED <<allocated, nomemory, table, pool, used, pc, loc, made, missed, lost>>
  BY DEF Dump, Stopped, Quiet, data, hist
<1>2. TypeInv /\ Linked' = Linked
  BY <1>1 DEF IInv, Linked
<1>3. TypeInv'
  <2>1. dump'.error \in BOOLEAN
    BY <1>1
  <2>2. dump'.done \in BOOLEAN /\ inGcount' \in BOOLEAN
    BY <1>1
  <2> QED
    BY <1>1, <1>2, <2>1, <2>2 DEF TypeInv
<1>4. GuardInv' /\ \A l \in Level : SearchInv(l)'
  BY <1>1 DEF IInv, GuardInv, SearchInv, Inside, Searching, Quiet
<1>5. ListInv'
  BY <1>1, <1>2, ListKept DEF IInv
<1>6. CountInv'
  <2>1. \A a \in Arc : Pending(a)' = Pending(a)
    BY <1>1 DEF Pending
  <2> QED
    BY <1>1, <1>2, <2>1, KeptSame, CountKept DEF IInv
<1>7. LostInv'
  <2>1. lost # {} => used = PoolSize + 1 /\ used >= PoolSize
    BY CallGraphAssumption DEF IInv, LostInv
  <2> QED
    BY <1>1, <1>2, <2>1 DEF IInv, LostInv
<1> QED
  BY <1>3, <1>4, <1>5, <1>6, <1>7 DEF IInv

LEMMA InitInv ==
  ASSUME Init
  PROVE  IInv
<1>1. /\ allocated = FALSE /\ nomemory = FALSE /\ inGcount = FALSE /\ used = 0
      /\ table = [i \in Buckets |-> Null] /\ pool = [n \in Node |-> Blank]
      /\ pc = [l \in Level |-> "out"] /\ loc = [l \in Level |-> EmptyLoc]
      /\ made = [a \in Arc |-> 0] /\ missed = [a \in Arc |-> 0] /\ lost = {} /\ dump = NoDump
  BY DEF Init
<1>2. TypeInv
  <2>1. table \in [Buckets -> Node \cup {Null}]
    BY <1>1
  <2>2. pool \in [Node -> [arc : Arc \cup {NoArc}, count : Nat, next : Node \cup {Null}]]
    BY <1>1 DEF Blank
  <2>3. loc \in [Level -> [arc : Arc \cup {NoArc}, link : [in : {"table", "pool"}, at : Nat],
                           node : Nat]]
    BY <1>1 DEF EmptyLoc, TableLink, Null
  <2>4. /\ pc \in [Level -> Labels] /\ made \in [Arc -> Nat] /\ missed \in [Arc -> Nat]
        /\ lost \subseteq Arc /\ \A a \in Arc : missed[a] <= made[a]
    BY <1>1 DEF Labels
  <2>5. used \in 0 .. PoolSize + 1
    BY <1>1, CallGraphAssumption
  <2>6. dump.done = FALSE /\ dump.error = FALSE
    BY <1>1 DEF NoDump
  <2> QED
    BY <1>1, <2>1, <2>2, <2>3, <2>4, <2>5, <2>6 DEF TypeInv
<1>3. Linked = {}
  BY <1>1 DEF Linked, Blank
<1>4. ListInv
  <2>1. \A i \in Buckets : Of(i) = {} /\ Places(i) = {Null} /\ NextOf(i, Null) = Null
    BY <1>1, <1>3 DEF Of, Places, NextOf
  <2> QED
    BY <1>3, <2>1 DEF ListInv, Chained
<1>5. GuardInv /\ \A l \in Level : SearchInv(l)
  BY <1>1 DEF GuardInv, SearchInv, Inside, Searching, NoDump
<1>6. LostInv
  BY <1>1, <1>3 DEF LostInv
<1>7. CountInv
  <2>1. \A a \in Arc : Pending(a) = {}
    BY <1>1 DEF Pending, Searching
  <2>2. Cardinality({}) = 0
    BY FS_EmptySet
  <2>3. \A a \in Arc : Kept[a] = 0
    BY <1>1 DEF Kept
  <2> QED
    BY <1>1, <1>3, <2>1, <2>2, <2>3 DEF CountInv
<1> QED
  BY <1>2, <1>4, <1>5, <1>6, <1>7 DEF IInv

LEMMA NextInv ==
  ASSUME IInv, [Next]_vars
  PROVE  IInv'
<1>1. CASE UNCHANGED vars
  <2>1. UNCHANGED <<allocated, nomemory, inGcount, table, pool, used, pc, loc, dump, made, missed, lost>>
    BY <1>1 DEF vars, data, hist
  <2>2. TypeInv' /\ GuardInv' /\ LostInv'
    BY <2>1 DEF IInv, TypeInv, GuardInv, LostInv, Linked, Quiet, Recording
  <2>3. ListInv' /\ Linked' = Linked
    <3>1. Linked' = Linked
      BY <2>1 DEF Linked
    <3> QED
      BY <2>1, <3>1, ListKept DEF IInv
  <2>4. CountInv'
    <3>1. \A a \in Arc : Pending(a)' = Pending(a)
      BY <2>1 DEF Pending
    <3> QED
      BY <2>1, <2>3, <3>1, KeptSame, CountKept DEF IInv
  <2>5. \A l \in Level : SearchInv(l)'
    BY <2>1 DEF IInv, SearchInv, Index, Places, Of, Linked, Passed, NextOf
  <2> QED
    BY <2>2, <2>3, <2>4, <2>5 DEF IInv
<1>2. CASE Next
  <2>1. ASSUME NEW l \in Level,
               \/ Enter(l) \/ Skip(l) \/ Claim(l) \/ ClaimFirst(l) \/ ClaimNoMemory(l)
               \/ Walk(l) \/ Take(l) \/ Fill(l) \/ Link(l) \/ Bump(l) \/ Unlock(l)
        PROVE  IInv'
    BY <2>1, EnterInv, SkipInv, ClaimInv, ClaimNoMemoryInv, WalkInv, TakeInv, FillInv, LinkInv, BumpInv,
       UnlockInv
  <2> QED
    BY <1>2, <2>1, ClearInv, DumpInv DEF Next
<1> QED
  BY <1>1, <1>2
-----------------------------------------------------------------------------
(* The least element of a set of numbers. *)
LEMMA Least ==
  ASSUME NEW T \in SUBSET Nat, T # {}
  PROVE  \E x \in T : \A y \in T : x <= y
<1> DEFINE R == OpToRel(<, Nat)
<1>1. IsWellFoundedOn(R, Nat)
  BY NatLessThanWellFounded
<1>2. \A x, y \in Nat : <<x, y>> \in R <=> x < y
  BY DEF OpToRel
<1> HIDE DEF R
<1>3. PICK x \in T : \A y \in T : <<y, x>> \notin R
  BY <1>1, WFMin
<1>4. ASSUME NEW y \in T PROVE x <= y
  <2>1. x \in Nat /\ y \in Nat /\ ~(y < x)
    BY <1>2, <1>3
  <2> QED
    BY <2>1
<1> QED
  BY <1>4


(* The nodes reached by the links are those the invariant speaks of. *)
LEMMA OfFacts ==
  ASSUME IInv, NEW i \in Buckets
  PROVE  /\ Chained(i) /\ Of(i) \subseteq Node /\ Null \notin Of(i)
         /\ Node \subseteq Nat \ {0}
         /\ table[i] = NextOf(i, Null) /\ \A n \in Node : NextOf(i, n) = pool[n].next
<1>1. Node \subseteq Nat \ {0} /\ Null \notin Node
  BY CallGraphAssumption DEF Node, Null
<1>2. Chained(i) /\ Of(i) \subseteq Node
  BY DEF IInv, ListInv, Of, Linked
<1> QED
  BY <1>1, <1>2 DEF NextOf

LEMMA OfFollows ==
  ASSUME IInv, NEW i \in Buckets
  PROVE  Follows(Of(i), i)
<1>1. /\ Chained(i) /\ Of(i) \subseteq Node
      /\ table[i] = NextOf(i, Null) /\ \A n \in Node : NextOf(i, n) = pool[n].next
  BY OfFacts
<1>2. \A p \in Places(i) : NextOf(i, p) # Null => NextOf(i, p) \in Of(i)
  BY <1>1 DEF Chained
<1> QED
  BY <1>1, <1>2 DEF Follows, Places

(* The greatest place below a node leads to that node. *)
LEMMA Before ==
  ASSUME IInv, NEW i \in Buckets, NEW m \in Of(i)
  PROVE  \E p \in Places(i) : p < m /\ NextOf(i, p) = m
<1>1. /\ Chained(i) /\ Of(i) \subseteq Nat /\ m \in Nat /\ m > 0 /\ 0 \notin Of(i)
  BY OfFacts DEF Null
<1>2. Places(i) = Of(i) \cup {0}
  BY DEF Places, Null
<1> DEFINE T == {m - p : p \in {q \in Places(i) : q < m}}
<1>3. T \in SUBSET Nat
  BY <1>1, <1>2
<1>4. T # {}
  <2>1. 0 \in {q \in Places(i) : q < m}
    BY <1>1, <1>2
  <2> QED
    BY <2>1
<1>5. PICK d \in T : \A e \in T : d <= e
  <2> HIDE DEF T
  <2> QED
    BY <1>3, <1>4, Least
<1>6. PICK p \in Places(i) : p < m /\ d = m - p
  BY <1>5
<1>7. \A q \in Of(i) : q > p => m <= q
  <2> SUFFICES ASSUME NEW q \in Of(i), q > p, q < m PROVE FALSE
    BY <1>1
  <2>1. q \in Places(i) /\ m - q \in T
    BY <1>2
  <2>2. d <= m - q
    BY <1>5, <2>1
  <2>3. p \in Nat /\ q \in Nat
    BY <1>1, <1>2
  <2> QED
    BY <1>1, <1>6, <2>2, <2>3
<1>8. p \in Nat
  BY <1>1, <1>2
<1>9. NextOf(i, p) = m
  <2>1. ~(\A n \in Of(i) : n <= p)
    BY <1>1, <1>6, <1>8
  <2>2. NextOf(i, p) \in Of(i) /\ NextOf(i, p) > p /\ (m > p => NextOf(i, p) <= m)
    BY <1>1, <2>1 DEF Chained
  <2>3. m <= NextOf(i, p) /\ NextOf(i, p) <= m /\ NextOf(i, p) \in Nat
    BY <1>1, <1>6, <1>7, <1>8, <2>2
  <2> QED
    BY <1>1, <2>3
<1> QED
  BY <1>6, <1>9

LEMMA ListedIs ==
  ASSUME IInv, NEW i \in Buckets
  PROVE  Listed(i) = Of(i)
<1>1. /\ Of(i) \subseteq Node /\ Of(i) \subseteq Nat /\ Null \notin Of(i)
      /\ table[i] = NextOf(i, Null) /\ \A n \in Node : NextOf(i, n) = pool[n].next
  BY OfFacts
<1>2. Listed(i) \subseteq Of(i)
  BY <1>1, OfFollows DEF Listed
<1>3. ASSUME NEW S \in SUBSET Node, Follows(S, i), NEW n \in Of(i), n \notin S PROVE FALSE
  <2> DEFINE T == Of(i) \ S
  <2>1. T \in SUBSET Nat /\ T # {}
    BY <1>1, <1>3
  <2>2. PICK m \in T : \A e \in T : m <= e
    <3> HIDE DEF T
    <3> QED
      BY <2>1, Least
  <2>3. m \in Of(i) /\ m \notin S
    BY <2>2
  <2>4. PICK p \in Places(i) : p < m /\ NextOf(i, p) = m
    BY <2>3, Before
  <2>5. m # Null
    BY <1>1, <2>3
  <2>6. CASE p = Null
    BY <1>1, <1>3, <2>3, <2>4, <2>5, <2>6 DEF Follows
  <2>7. CASE p # Null
    <3>1. p \in Of(i)
      BY <2>7 DEF Places
    <3>2. p \in S
      <4>1. p \notin T
        BY <1>1, <2>2, <2>3, <2>4, <3>1
      <4> QED
        BY <3>1, <4>1
    <3>3. pool[p].next = m
      BY <1>1, <2>4, <3>1
    <3> QED
      BY <1>3, <2>3, <2>5, <3>2, <3>3 DEF Follows
  <2> QED
    BY <2>6, <2>7
<1>4. Of(i) \subseteq Listed(i)
  <2> SUFFICES ASSUME NEW n \in Of(i) PROVE n \in Listed(i)
    OBVIOUS
  <2>1. \A S \in SUBSET Node : Follows(S, i) => n \in S
    BY <1>3
  <2> QED
    BY <1>1, <2>1 DEF Listed
<1> QED
  BY <1>2, <1>4

LEMMA RecordedIs ==
  ASSUME IInv
  PROVE  Recorded = Linked
<1>1. \A i \in Buckets : Listed(i) = Of(i)
  BY ListedIs
<1>2. \A n \in Linked : HashOf[pool[n].arc[1]] \in Buckets
  BY DEF IInv, ListInv
<1> QED
  BY <1>1, <1>2 DEF Recorded, Of
-----------------------------------------------------------------------------
(* Every list ends: its last node in the order of the pool points nowhere. *)
LEMMA ListEnds ==
  ASSUME IInv, NEW i \in Buckets
  PROVE  Ends(i)
<1>1. /\ Chained(i) /\ Of(i) \subseteq Node /\ Null \notin Of(i)
      /\ table[i] = NextOf(i, Null) /\ \A n \in Node : NextOf(i, n) = pool[n].next
  BY OfFacts
<1>2. Listed(i) = Of(i)
  BY ListedIs
<1>3. SUFFICES ASSUME table[i] # Null PROVE \E n \in Of(i) : pool[n].next = Null
  BY <1>2 DEF Ends
<1>4. Of(i) # {}
  BY <1>1, <1>3 DEF Chained, Places
<1> DEFINE T == {PoolSize - n : n \in Of(i)}
<1>5. T \in SUBSET Nat /\ T # {}
  BY <1>1, <1>4, CallGraphAssumption DEF Node
<1>6. PICK d \in T : \A e \in T : d <= e
  <2> HIDE DEF T
  <2> QED
    BY <1>5, Least
<1>7. PICK n \in Of(i) : d = PoolSize - n
  BY <1>6
<1>8. \A m \in Of(i) : m <= n
  <2> SUFFICES ASSUME NEW m \in Of(i) PROVE m <= n
    OBVIOUS
  <2>1. PoolSize - m \in T
    OBVIOUS
  <2>2. d <= PoolSize - m
    BY <1>6, <2>1
  <2> QED
    BY <1>1, <1>7, <2>2, CallGraphAssumption DEF Node
<1>9. NextOf(i, n) = Null
  <2>1. n \in Nat /\ n \in Places(i) /\ Of(i) \subseteq Nat
    BY <1>1, CallGraphAssumption DEF Places, Node
  <2> QED
    BY <1>1, <1>8, <2>1 DEF Chained
<1> QED
  BY <1>1, <1>9

LEMMA WellFormed ==
  ASSUME IInv
  PROVE  ListsWellFormed
<1> SUFFICES ASSUME NEW i \in Buckets
             PROVE  /\ Ends(i)
                    /\ \A n \in Of(i) : /\ HashOf[pool[n].arc[1]] = i
                                        /\ n <= used \/ \E l \in Level : loc[l].node = n
                    /\ \A j \in Buckets \ {i} : Of(i) \cap Of(j) = {}
  BY ListedIs DEF ListsWellFormed
<1> QED
  BY ListEnds DEF Of, Linked

(* With no call under way the counts are those of the history. *)
LEMMA Counted ==
  ASSUME IInv
  PROVE  CountsExact
<1> SUFFICES ASSUME Quiet, ~nomemory, NEW a \in Arc, HashOf[a[1]] \in Buckets
             PROVE  CountOf(a) = IF a \in lost THEN 0 ELSE Kept[a]
  BY DEF CountsExact, Kept
<1>1. Recorded = Linked /\ Kept[a] \in Nat
  BY RecordedIs, KeptType DEF IInv
<1>2. Pending(a) = {} /\ Cardinality(Pending(a)) = 0
  BY FS_EmptySet DEF Pending, Quiet, Searching
<1>3. CASE \E n \in Linked : pool[n].arc = a
  <2>1. PICK n \in Linked : pool[n].arc = a
    BY <1>3
  <2>2. {m \in Linked : pool[m].arc = a} = {n}
    BY <2>1 DEF IInv, ListInv
  <2>3. CountOf(a) = pool[n].count
    BY <1>1, <2>2 DEF CountOf
  <2>4. a \notin lost
    BY <2>1 DEF IInv, LostInv
  <2>5. pool[n].count \in Nat
    BY DEF IInv, TypeInv, Linked
  <2>6. Kept[a] = pool[n].count + Cardinality(Pending(a))
    BY <2>1 DEF IInv, CountInv
  <2> QED
    BY <1>2, <2>3, <2>4, <2>5, <2>6
<1>4. CASE \A n \in Linked : pool[n].arc # a
  <2>1. CountOf(a) = 0
    <3>1. {m \in Linked : pool[m].arc = a} = {}
      BY <1>4
    <3> QED
      BY <1>1, <3>1 DEF CountOf
  <2>2. a \notin lost => Kept[a] = 0
    BY <1>2, <1>4 DEF IInv, CountInv
  <2> QED
    BY <2>1, <2>2
<1> QED
  BY <1>3, <1>4

LEMMA Safe == Spec => []IInv
<1>1. Init => IInv
  BY InitInv
<1>2. IInv /\ [Next]_vars => IInv'
  BY NextInv
<1> QED
  BY <1>1, <1>2, PTL DEF Spec

(* The lists of the hash table, __ghs_indgcount inserting and handlers        *)
(* interrupting it anywhere: each list ends, holds arcs of its own index only *)
(* and no node that has not been handed out, and no two share a node.         *)
THEOREM CallGraphLists == Spec => []ListsWellFormed
<1>1. IInv => ListsWellFormed
  BY WellFormed
<1> QED
  BY <1>1, Safe, PTL

(* Outside the recorder, an arc's count is the number of its calls since the  *)
(* last clear, less those that came while another call was being recorded or  *)
(* after a dump (ind_gprf.c:443), or the arc is one the pool had no node for. *)
THEOREM CallGraphCounts == Spec => []CountsExact
<1>1. IInv => CountsExact
  BY Counted
<1> QED
  BY <1>1, Safe, PTL

(* A dump of a graph that misses an arc for want of a node reports it.        *)
THEOREM CallGraphLoss == Spec => []LossReported
<1>1. IInv => LossReported
  BY DEF IInv, LostInv, LossReported
<1> QED
  BY <1>1, Safe, PTL

(* After __ghs_prof_dump_callgraph no call changes the graph until a clear.   *)
THEOREM CallGraphDumpLast == Spec => DumpIsLast
<1>1. ASSUME IInv, [Next]_vars PROVE [dump.done /\ dump.done' => data' = data]_vars
  <2> SUFFICES ASSUME Next, dump.done, dump'.done PROVE data' = data
    BY <1>1
  <2>1. inGcount /\ \A l \in Level : pc[l] = "out"
    BY <1>1 DEF IInv, GuardInv, Quiet
  <2>7. ASSUME NEW l \in Level PROVE Skip(l) => data' = data
    BY DEF Skip
  <2>2. ASSUME NEW l \in Level PROVE ~Enter(l) /\ ~Claim(l) /\ ~ClaimFirst(l) /\ ~ClaimNoMemory(l)
    BY <2>1 DEF Enter, Claim, ClaimFirst, ClaimNoMemory
  <2>3. ASSUME NEW l \in Level PROVE ~Walk(l) /\ ~Take(l) /\ ~Fill(l)
    BY <2>1 DEF Walk, Take, Fill, At
  <2>4. ASSUME NEW l \in Level PROVE ~Link(l) /\ ~Bump(l) /\ ~Unlock(l)
    BY <2>1 DEF Link, Bump, Unlock, At
  <2>5. ~Clear
    BY DEF Clear, NoDump
  <2>6. Dump => data' = data
    BY DEF Dump
  <2> QED
    BY <2>2, <2>3, <2>4, <2>5, <2>6, <2>7 DEF Next
<1>2. IInv /\ [Next]_vars => [dump.done /\ dump.done' => data' = data]_vars
  BY <1>1
<1> QED
  BY <1>2, Safe, PTL DEF Spec, DumpIsLast
=============================================================================
