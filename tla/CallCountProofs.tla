-------------------------- MODULE CallCountProofs --------------------------
(* The call counter for any number of threads, functions and chunks: its   *)
(* chunks, also where several threads are the first to call one function,  *)
(* and what they list, where one thread calls each function.               *)
EXTENDS CallCount, SequenceTheorems, WellFoundedInduction, TLAPS

SomeFunc == Func # {}

Chunk == {c \in Seq(Func) : Len(c) <= ChunkSize}

(* A chunk has room for what is entered in it, wherever it is. *)
ChunksInv ==
  /\ list \in Seq(Chunk) /\ free \in Seq(Chunk) /\ heap \in Nat
  /\ fn \in [Thread -> Func]

LEMMA InitInv ==
  ASSUME SomeFunc, Init
  PROVE  ChunksInv
<1>1. list \in Seq(Chunk) /\ free \in Seq(Chunk)
  BY EmptySeq DEF Init
<1>2. heap \in Nat
  BY CallCountAssumption DEF Init
<1>3. (CHOOSE f \in Func : TRUE) \in Func
  BY DEF SomeFunc
<1>4. fn \in [Thread -> Func]
  BY <1>3 DEF Init
<1> QED
  BY <1>1, <1>2, <1>4 DEF ChunksInv

(* A chunk with one function, and one that is not full and gets another. *)
LEMMA Started ==
  ASSUME NEW f \in Func
  PROVE  <<f>> \in Chunk
  BY CallCountAssumption DEF Chunk

LEMMA Filled ==
  ASSUME NEW c \in Chunk, NEW f \in Func, Len(c) # ChunkSize
  PROVE  Append(c, f) \in Chunk
  BY CallCountAssumption DEF Chunk

(* A list of chunks whose last one is replaced, and one that is turned. *)
LEMMA LastReplaced ==
  ASSUME NEW S, NEW s \in Seq(S), s # <<>>, NEW e \in S
  PROVE  LET r == [s EXCEPT ![Len(s)] = e] IN r \in Seq(S) /\ Len(r) = Len(s)
<1> DEFINE n == Len(s)
           r == [s EXCEPT ![n] = e]
<1>1. n \in Nat \ {0} /\ s \in [1 .. n -> S]
  BY EmptySeq, LenProperties
<1> HIDE DEF n
<1>2. r \in [1 .. n -> S]
  BY <1>1
<1> HIDE DEF r
<1>3. r \in Seq(S) /\ Len(r) = n
  BY <1>1, <1>2
<1> QED
  BY <1>3 DEF n, r

LEMMA Turned ==
  ASSUME NEW S, NEW s \in Seq(S)
  PROVE  Reverse(s) \in Seq(S) /\ Len(Reverse(s)) = Len(s)
<1> DEFINE n == Len(s)
<1>1. n \in Nat /\ s \in [1 .. n -> S]
  BY LenProperties
<1>2. Reverse(s) = [i \in 1 .. n |-> s[(n - i) + 1]]
  BY DEF Reverse
<1> HIDE DEF n
<1>3. [i \in 1 .. n |-> s[(n - i) + 1]] \in [1 .. n -> S]
  BY <1>1
<1>4. Reverse(s) \in Seq(S) /\ Len(Reverse(s)) = n
  BY <1>1, <1>2, <1>3
<1> QED
  BY <1>4 DEF n

LEMMA AddToTailKeeps ==
  ASSUME ChunksInv, NEW t \in Thread, AddToTail(t)
  PROVE  ChunksInv' /\ Chunks' = Chunks
<1>1. /\ list # <<>> /\ Len(Last(list)) # ChunkSize /\ UNCHANGED <<free, heap, fn>>
      /\ list' = [list EXCEPT ![Len(list)] = Append(Last(list), fn[t])]
  BY DEF AddToTail, TailIsFull, Last
<1>2. list \in Seq(Chunk) /\ fn[t] \in Func /\ Last(list) \in Chunk
  <2>1. list \in Seq(Chunk) /\ fn[t] \in Func
    BY DEF ChunksInv
  <2>2. Len(list) \in 1 .. Len(list)
    BY <1>1, <2>1, EmptySeq
  <2> QED
    BY <2>1, <2>2, ElementOfSeq DEF Last
<1>3. Append(Last(list), fn[t]) \in Chunk
  BY <1>1, <1>2, Filled
<1>4. list' \in Seq(Chunk) /\ Len(list') = Len(list)
  BY <1>1, <1>2, <1>3, LastReplaced
<1> QED
  BY <1>1, <1>4 DEF ChunksInv, Chunks

LEMMA AddReusedKeeps ==
  ASSUME ChunksInv, NEW t \in Thread, AddReused(t)
  PROVE  ChunksInv' /\ Chunks' = Chunks
<1>1. /\ free # <<>> /\ UNCHANGED <<heap, fn>>
      /\ list' = Append(list, <<fn[t]>>) /\ free' = Tail(free)
  BY DEF AddReused
<1>2. <<fn[t]>> \in Chunk
  BY Started DEF ChunksInv
<1>3. list' \in Seq(Chunk) /\ Len(list') = Len(list) + 1 /\ Len(list) \in Nat
  BY <1>1, <1>2, AppendProperties DEF ChunksInv
<1>4. free' \in Seq(Chunk) /\ Len(free') = Len(free) - 1 /\ Len(free) \in Nat
  BY <1>1, HeadTailProperties DEF ChunksInv
<1> QED
  BY <1>1, <1>3, <1>4 DEF ChunksInv, Chunks

LEMMA AddAllocatedKeeps ==
  ASSUME ChunksInv, NEW t \in Thread, AddAllocated(t)
  PROVE  ChunksInv' /\ Chunks' = Chunks
<1>1. /\ heap > 0 /\ heap' = heap - 1 /\ UNCHANGED <<free, fn>>
      /\ list' = Append(list, <<fn[t]>>)
  BY DEF AddAllocated
<1>2. <<fn[t]>> \in Chunk
  BY Started DEF ChunksInv
<1>3. list' \in Seq(Chunk) /\ Len(list') = Len(list) + 1 /\ Len(list) \in Nat
  BY <1>1, <1>2, AppendProperties DEF ChunksInv
<1>4. Len(free) \in Nat /\ heap \in Nat
  BY LenProperties DEF ChunksInv
<1> QED
  BY <1>1, <1>3, <1>4 DEF ChunksInv, Chunks

LEMMA ClearKeeps ==
  ASSUME ChunksInv, Clear
  PROVE  ChunksInv' /\ Chunks' = Chunks
<1> DEFINE back == Reverse(list)
<1>1. list' = <<>> /\ free' = back \o free /\ UNCHANGED <<heap, fn>>
  BY DEF Clear, local
<1>2. back \in Seq(Chunk) /\ Len(back) = Len(list)
  BY Turned DEF ChunksInv
<1> HIDE DEF back
<1>3. free' \in Seq(Chunk) /\ Len(free') = Len(list) + Len(free)
  <2>1. free \in Seq(Chunk)
    BY DEF ChunksInv
  <2>2. back \o free \in Seq(Chunk) /\ Len(back \o free) = Len(back) + Len(free)
    BY <1>2, <2>1, ConcatProperties, Zenon
  <2> QED
    BY <1>1, <1>2, <2>2
<1>4. list' \in Seq(Chunk) /\ Len(list') = 0
  BY <1>1, EmptySeq
<1>5. Len(list) \in Nat /\ Len(free) \in Nat /\ heap \in Nat
  BY LenProperties DEF ChunksInv
<1> QED
  BY <1>1, <1>3, <1>4, <1>5 DEF ChunksInv, Chunks

(* A dump that finds no chunk on the free list leaves one there. *)
LEMMA DumpKeeps ==
  ASSUME ChunksInv, Dump
  PROVE  ChunksInv' /\ Chunks' = Chunks
<1>1. UNCHANGED <<list, fn>>
  BY DEF Dump, local
<1>2. CASE UNCHANGED <<free, heap>>
  BY <1>1, <1>2 DEF ChunksInv, Chunks
<1>3. CASE free = <<>> /\ heap > 0 /\ free' = <<<<>>>> /\ heap' = heap - 1
  <2>1. <<>> \in Chunk
    BY CallCountAssumption DEF Chunk
  <2>2. free' \in Seq(Chunk) /\ Len(free') = 1 /\ Len(free) = 0
    BY <1>3, <2>1
  <2>3. Len(list) \in Nat /\ heap \in Nat
    BY LenProperties DEF ChunksInv
  <2> QED
    BY <1>1, <1>3, <2>2, <2>3 DEF ChunksInv, Chunks
<1> QED
  BY <1>2, <1>3 DEF Dump

LEMMA CallKeeps ==
  ASSUME ChunksInv, NEW t \in Thread, NEW f \in Func, Call(t, f)
  PROVE  ChunksInv' /\ Chunks' = Chunks
  BY DEF Call, lists, ChunksInv, Chunks

LEMMA NextKeeps ==
  ASSUME ChunksInv, [Next]_vars
  PROVE  ChunksInv' /\ Chunks' = Chunks
<1>1. CASE UNCHANGED <<lists, fn>>
  BY <1>1 DEF lists, ChunksInv, Chunks
<1>2. ASSUME NEW t \in Thread,
             TestArea(t) \/ AddNoMemory(t) \/ SetNoMemory(t) \/ Load(t) \/ Store(t)
      PROVE  UNCHANGED <<lists, fn>>
  BY <1>2 DEF TestArea, AddNoMemory, SetNoMemory, Load, Store
<1>3. DumpNothing \/ DumpNoMemory \/ UNCHANGED vars => UNCHANGED <<lists, fn>>
  BY DEF DumpNothing, DumpNoMemory, local, vars
<1>4. CASE \E t \in Thread, f \in Func : Call(t, f)
  BY <1>4, CallKeeps
<1>5. CASE \E t \in Thread : AddToTail(t) \/ AddReused(t) \/ AddAllocated(t)
  BY <1>5, AddToTailKeeps, AddReusedKeeps, AddAllocatedKeeps
<1>6. CASE Clear \/ Dump
  BY <1>6, ClearKeeps, DumpKeeps
<1> QED
  BY <1>1, <1>2, <1>3, <1>4, <1>5, <1>6 DEF Next

(* No chunk ever holds more functions than its array has slots, whatever   *)
(* threads enter functions in it and however often chunks are reused       *)
(* (ind_mprf.c:314 to 352).                                                *)
THEOREM CallCountFits ==
  ASSUME SomeFunc
  PROVE  Spec => [](\A k \in 1 .. Len(list) : Len(list[k]) <= ChunkSize)
<1>1. Init => ChunksInv
  BY InitInv
<1>2. ChunksInv /\ [Next]_vars => ChunksInv'
  BY NextKeeps
<1>3. ChunksInv => \A k \in 1 .. Len(list) : Len(list[k]) <= ChunkSize
  <2> SUFFICES ASSUME ChunksInv, NEW k \in 1 .. Len(list)
      PROVE Len(list[k]) <= ChunkSize
    OBVIOUS
  <2>1. list[k] \in Chunk
    BY ElementOfSeq DEF ChunksInv
  <2> QED
    BY <2>1 DEF Chunk
<1> QED
  BY <1>1, <1>2, <1>3, PTL DEF Spec

(* Chunks are reused, not lost: every chunk is in the list, on the free    *)
(* list or not allocated yet, after each call, clear and dump.             *)
THEOREM CallCountChunks ==
  ASSUME SomeFunc
  PROVE  Spec => ChunksKept
<1>1. Init => ChunksInv
  BY InitInv
<1>2. ChunksInv /\ [Next]_vars => ChunksInv'
  BY NextKeeps
<1>3. ChunksInv /\ [Next]_vars => [Chunks' = Chunks]_vars
  BY NextKeeps
<1> QED
  BY <1>1, <1>2, <1>3, PTL DEF Spec, ChunksKept
-----------------------------------------------------------------------------
(* Induction, from the least element that a set of naturals has: the        *)
(* library states it for an operator, this form is for a set.              *)
LEMMA Least ==
  ASSUME NEW T \in SUBSET Nat, T # {}
  PROVE  \E x \in T : \A y \in T : x <= y
<1> DEFINE R == OpToRel(<, Nat)
<1>1. IsWellFoundedOn(R, Nat)
  BY NatLessThanWellFounded
<1>2. \A x, y \in Nat : <<x, y>> \in R <=> x < y
  BY DEF OpToRel
<1> HIDE DEF R
<1>3. PICK x \in T : \A y \in T : <<y, x>> \notin R
  BY <1>1, WFMin
<1>4. ASSUME NEW y \in T PROVE x <= y
  <2>1. x \in Nat /\ y \in Nat /\ ~(y < x)
    BY <1>2, <1>3
  <2> QED
    BY <2>1
<1> QED
  BY <1>4

LEMMA SetInduction ==
  ASSUME NEW T \in SUBSET Nat, 0 \in T, \A n \in T : n + 1 \in T
  PROVE  T = Nat
<1>1. SUFFICES ASSUME Nat \ T # {} PROVE FALSE
  OBVIOUS
<1>2. PICK x \in Nat \ T : \A y \in Nat \ T : x <= y
  BY <1>1, Least
<1>3. x \in Nat /\ x # 0 /\ x - 1 \in Nat
  BY <1>2
<1>4. x - 1 \in T
  BY <1>2, <1>3
<1> QED
  BY <1>2, <1>3, <1>4

Unfolds(g, s, n) == \A i \in 1 .. n : g[i] = IF i = 1 THEN s[i] ELSE g[i-1] \o s[i]

LEMMA UnfoldsOnce ==
  ASSUME NEW n \in Nat, NEW g, NEW h, NEW s, Unfolds(g, s, n), Unfolds(h, s, n)
  PROVE  \A i \in 1 .. n : g[i] = h[i]
<1> DEFINE T == {k \in Nat : \A i \in 1 .. n : i <= k => g[i] = h[i]}
<1>1. 0 \in T
  OBVIOUS
<1>2. ASSUME NEW k \in T PROVE k + 1 \in T
  <2>1. k \in Nat /\ \A i \in 1 .. n : i <= k => g[i] = h[i]
    OBVIOUS
  <2>2. ASSUME NEW i \in 1 .. n, i = k + 1 PROVE g[i] = h[i]
    <3>1. i # 1 => i - 1 \in 1 .. n /\ i - 1 <= k
      BY <2>1, <2>2
    <3> QED
      BY <2>1, <3>1 DEF Unfolds
  <2> QED
    BY <2>1, <2>2
<1>3. T = Nat
  <2> HIDE DEF T
  <2> QED
    BY <1>1, <1>2, SetInduction DEF T
<1>4. n \in T
  BY <1>3
<1> QED
  BY <1>4

LEMMA UnfoldsExists ==
  ASSUME NEW S, NEW s \in Seq(Seq(S))
  PROVE  \E g \in [1 .. Len(s) -> Seq(S)] : Unfolds(g, s, Len(s))
<1> DEFINE T == {n \in Nat : n <= Len(s) =>
                   \E g \in [1 .. n -> Seq(S)] : Unfolds(g, s, n)}
<1>1. 0 \in T
  <2> DEFINE g == [i \in 1 .. 0 |-> <<>>]
  <2>1. g \in [1 .. 0 -> Seq(S)]
    OBVIOUS
  <2>2. Unfolds(g, s, 0)
    <3> HIDE DEF g
    <3> QED
      BY DEF Unfolds
  <2> HIDE DEF g
  <2> QED
    BY <2>1, <2>2
<1>2. ASSUME NEW n \in T PROVE n + 1 \in T
  <2>1. SUFFICES ASSUME n \in Nat, n + 1 <= Len(s)
                 PROVE  \E g \in [1 .. n + 1 -> Seq(S)] : Unfolds(g, s, n + 1)
    OBVIOUS
  <2>2. PICK g \in [1 .. n -> Seq(S)] : Unfolds(g, s, n)
    BY <2>1
  <2> DEFINE last == IF n = 0 THEN s[1] ELSE g[n] \o s[n + 1]
             h == [i \in 1 .. n + 1 |-> IF i \in 1 .. n THEN g[i] ELSE last]
  <2>3. last \in Seq(S)
    <3>1. s[n + 1] \in Seq(S)
      <4>1. n + 1 \in 1 .. Len(s)
        BY <2>1
      <4> QED
        BY <4>1, ElementOfSeq
    <3>2. CASE n = 0
      BY <3>1, <3>2
    <3>3. CASE n # 0
      <4>1. g[n] \in Seq(S)
        BY <2>1, <2>2, <3>3
      <4>2. g[n] \o s[n + 1] \in Seq(S)
        BY <3>1, <4>1, ConcatProperties, Zenon
      <4> QED
        BY <3>3, <4>2
    <3> QED
      BY <3>2, <3>3
  <2> HIDE DEF last
  <2>4. h \in [1 .. n + 1 -> Seq(S)]
    BY <2>1, <2>2, <2>3
  <2>5. ASSUME NEW i \in 1 .. n + 1
        PROVE  h[i] = IF i = 1 THEN s[i] ELSE h[i - 1] \o s[i]
    <3>1. CASE i \in 1 .. n
      <4>1. h[i] = g[i] /\ (i # 1 => i - 1 \in 1 .. n /\ h[i - 1] = g[i - 1])
        BY <2>1, <3>1
      <4> QED
        BY <2>2, <3>1, <4>1 DEF Unfolds
    <3>2. CASE i = n + 1
      <4>1. h[i] = last
        BY <2>1, <3>2
      <4>2. n # 0 => i - 1 = n /\ i # 1 /\ n \in 1 .. n + 1 /\ h[n] = g[n]
        BY <2>1, <3>2
      <4> QED
        BY <2>1, <3>2, <4>1, <4>2 DEF last
    <3> QED
      BY <2>1, <3>1, <3>2
  <2>6. Unfolds(h, s, n + 1)
    BY <2>5 DEF Unfolds
  <2> QED
    BY <2>4, <2>6
<1>3. T = Nat
  <2> HIDE DEF T
  <2> QED
    BY <1>1, <1>2, SetInduction DEF T
<1>4. Len(s) \in T /\ Len(s) \in Nat
  BY <1>3, LenProperties
<1> QED
  BY <1>4

(* FlattenSeq is what its recursive definition says. *)
LEMMA FlattenUnfolds ==
  ASSUME NEW S, NEW s \in Seq(Seq(S)), s # <<>>
  PROVE  \E g \in [1 .. Len(s) -> Seq(S)] :
           Unfolds(g, s, Len(s)) /\ FlattenSeq(s) = g[Len(s)]
<1> DEFINE Eq(f) == f = [i \in 1 .. Len(s) |-> IF i = 1 THEN s[i] ELSE f[i-1] \o s[i]]
           flat == CHOOSE f : Eq(f)
<1>1. Len(s) \in Nat /\ Len(s) # 0
  BY EmptySeq
<1>2. PICK g \in [1 .. Len(s) -> Seq(S)] : Unfolds(g, s, Len(s))
  BY UnfoldsExists
<1>3. Eq(g)
  BY <1>2 DEF Unfolds
<1>4. Eq(flat)
  <2> HIDE DEF Eq
  <2> QED BY <1>3
<1>5. FlattenSeq(s) = flat[Len(s)]
  BY <1>1 DEF FlattenSeq
<1>6. Unfolds(flat, s, Len(s))
  <2> HIDE DEF flat
  <2> QED
    BY <1>4 DEF Unfolds
<1>7. flat[Len(s)] = g[Len(s)]
  <2> HIDE DEF flat
  <2> QED
    BY <1>1, <1>2, <1>6, UnfoldsOnce
<1> QED
  BY <1>2, <1>5, <1>7

LEMMA FlattenEmpty == FlattenSeq(<<>>) = <<>>
  BY DEF FlattenSeq

LEMMA FlattenAppend ==
  ASSUME NEW S, NEW s \in Seq(Seq(S)), NEW c \in Seq(S)
  PROVE  FlattenSeq(Append(s, c)) = FlattenSeq(s) \o c /\ FlattenSeq(s) \in Seq(S)
<1> DEFINE t == Append(s, c)
           n == Len(s)
<1>1. /\ t \in Seq(Seq(S)) /\ Len(t) = n + 1 /\ n \in Nat /\ t[n + 1] = c /\ t # <<>>
      /\ \A i \in 1 .. n : t[i] = s[i]
  BY AppendProperties, LenProperties
<1> HIDE DEF t, n
<1>2. PICK h \in [1 .. n + 1 -> Seq(S)] : Unfolds(h, t, n + 1) /\ FlattenSeq(t) = h[n + 1]
  BY <1>1, FlattenUnfolds
<1>3. CASE s = <<>>
  <2>1. n = 0
    BY <1>3 DEF n
  <2>2. FlattenSeq(t) = c
    BY <1>1, <1>2, <2>1 DEF Unfolds
  <2>3. <<>> \o c = c /\ <<>> \in Seq(S)
    BY ConcatEmptySeq, EmptySeq
  <2> QED
    BY <1>3, <2>2, <2>3, FlattenEmpty DEF t
<1>4. CASE s # <<>>
  <2>1. n # 0
    BY <1>4, EmptySeq DEF n
  <2>2. PICK g \in [1 .. n -> Seq(S)] : Unfolds(g, s, n) /\ FlattenSeq(s) = g[n]
    BY <1>4, FlattenUnfolds DEF n
  <2>3. \A i \in 1 .. n + 1 : h[i] = IF i = 1 THEN t[i] ELSE h[i - 1] \o t[i]
    BY <1>2 DEF Unfolds
  <2>4. Unfolds(h, s, n)
    <3>1. \A i \in 1 .. n : i \in 1 .. n + 1 /\ t[i] = s[i]
      BY <1>1
    <3> QED
      BY <2>3, <3>1 DEF Unfolds
  <2>5. h[n] = g[n]
    <3>1. n \in 1 .. n
      BY <1>1, <2>1
    <3>2. \A i \in 1 .. n : h[i] = g[i]
      <4>1. n \in Nat
        BY <1>1
      <4>2. Unfolds(g, s, n)
        BY <2>2
      <4> QED
        BY <2>4, <4>1, <4>2, UnfoldsOnce, Zenon
    <3> QED
      BY <3>1, <3>2
  <2>6. h[n + 1] = h[n] \o c
    <3>1. n + 1 \in 1 .. n + 1 /\ n + 1 # 1 /\ (n + 1) - 1 = n
      BY <1>1, <2>1
    <3> QED
      BY <1>1, <2>3, <3>1
  <2> QED
    BY <1>2, <2>1, <2>2, <2>5, <2>6, <1>1 DEF t
<1> QED
  BY <1>3, <1>4
-----------------------------------------------------------------------------
(* An entry in the last chunk is an entry at the end of all of them. *)
LEMMA LastApart ==
  ASSUME NEW S, NEW s \in Seq(S), s # <<>>, NEW e \in S
  PROVE  /\ Front(s) \in Seq(S) /\ Last(s) \in S
         /\ s = Append(Front(s), Last(s))
         /\ [s EXCEPT ![Len(s)] = e] = Append(Front(s), e)
<1>1. PICK r \in Seq(S), l \in S : s = Append(r, l)
  BY SequenceEmptyOrAppend
<1>2. /\ Len(s) = Len(r) + 1 /\ Len(r) \in Nat /\ s[Len(s)] = l
      /\ \A i \in 1 .. Len(r) : s[i] = r[i]
  BY <1>1, AppendProperties, LenProperties
<1>3. Front(s) = r
  <2>1. Front(s) \in Seq(S) /\ Len(Front(s)) = Len(r) /\ \A i \in 1 .. Len(r) : Front(s)[i] = s[i]
    <3>1. Front(s) = SubSeq(s, 1, Len(r))
      BY <1>2 DEF Front
    <3>2. \A i \in 1 .. Len(r) : s[i] \in S
      BY <1>2, ElementOfSeq
    <3>3. Len(r) \in Int /\ 1 \in Int
      BY <1>2
    <3>4. /\ SubSeq(s, 1, Len(r)) \in Seq(S)
          /\ Len(SubSeq(s, 1, Len(r))) = IF 1 <= Len(r) THEN Len(r) - 1 + 1 ELSE 0
          /\ \A i \in 1 .. Len(r) : SubSeq(s, 1, Len(r))[i] = s[1 + i - 1]
      BY <3>2, <3>3, SubSeqProperties
    <3>5. \A i \in 1 .. Len(r) : 1 + i - 1 = i
      BY <1>2
    <3> QED
      BY <1>2, <3>1, <3>4, <3>5
  <2> QED
    BY <1>2, <2>1, SeqEqual
<1>4. Last(s) = l
  BY <1>2 DEF Last
<1>5. [s EXCEPT ![Len(s)] = e] = Append(r, e)
  <2> DEFINE a == [s EXCEPT ![Len(s)] = e]
             b == Append(r, e)
  <2>1. a \in Seq(S) /\ Len(a) = Len(s)
    BY LastReplaced
  <2>2. b \in Seq(S) /\ Len(b) = Len(s) /\ b[Len(s)] = e /\ \A i \in 1 .. Len(r) : b[i] = r[i]
    BY <1>2, AppendProperties
  <2>3. ASSUME NEW i \in 1 .. Len(s) PROVE a[i] = b[i]
    <3>1. CASE i = Len(s)
      BY <2>2, <3>1
    <3>2. CASE i # Len(s)
      BY <1>2, <2>2, <3>2
    <3> QED
      BY <3>1, <3>2
  <2> HIDE DEF a, b
  <2>4. a = b
    BY <2>1, <2>2, <2>3, SeqEqual
  <2> QED
    BY <2>4 DEF a, b
<1> QED
  BY <1>1, <1>3, <1>4, <1>5

LEMMA FlattenLast ==
  ASSUME NEW S, NEW s \in Seq(Seq(S)), s # <<>>, NEW e \in S
  PROVE  FlattenSeq([s EXCEPT ![Len(s)] = Append(@, e)]) = Append(FlattenSeq(s), e)
<1> DEFINE r == Front(s)
           l == Last(s)
<1>1. r \in Seq(Seq(S)) /\ l \in Seq(S) /\ s = Append(r, l)
  BY LastApart, EmptySeq
<1>2. Append(l, e) \in Seq(S)
  BY <1>1, AppendProperties
<1>3. [s EXCEPT ![Len(s)] = Append(@, e)] = Append(r, Append(l, e))
  BY <1>2, LastApart DEF Last
<1> HIDE DEF r, l
<1>4. /\ FlattenSeq(s) = FlattenSeq(r) \o l /\ FlattenSeq(r) \in Seq(S)
      /\ FlattenSeq(Append(r, Append(l, e))) = FlattenSeq(r) \o Append(l, e)
  BY <1>1, <1>2, FlattenAppend
<1>5. FlattenSeq(r) \o Append(l, e) = Append(FlattenSeq(r) \o l, e)
  <2> DEFINE p == FlattenSeq(r)
  <2>1. p \in Seq(S)
    BY <1>4
  <2> HIDE DEF p
  <2>2. Append(l, e) = l \o <<e>> /\ <<e>> \in Seq(S)
    BY <1>1, AppendIsConcat
  <2>3. p \o l \in Seq(S)
    BY <1>1, <2>1, ConcatProperties, Zenon
  <2>4. Append(p \o l, e) = (p \o l) \o <<e>>
    BY <2>3, AppendIsConcat
  <2>5. (p \o l) \o <<e>> = p \o (l \o <<e>>)
    BY <1>1, <2>1, <2>2, ConcatAssociative
  <2> QED
    BY <2>2, <2>4, <2>5 DEF p
<1> QED
  BY <1>3, <1>4, <1>5
-----------------------------------------------------------------------------
(* What is listed is what was entered, and only the last chunk has room. *)
LEMMA ChunkIsSeq ==
  ASSUME ChunksInv
  PROVE  list \in Seq(Seq(Func)) /\ Entries \in Seq(Func)
<1>1. Chunk \subseteq Seq(Func)
  BY DEF Chunk
<1>2. list \in Seq(Seq(Func))
  BY <1>1, SeqMonotonic DEF ChunksInv
<1>3. CASE list = <<>>
  BY <1>3, <1>2, FlattenEmpty, EmptySeq DEF Entries
<1>4. CASE list # <<>>
  BY <1>2, FlattenAppend, EmptySeq DEF Entries
<1> QED
  BY <1>2, <1>3, <1>4

LEMMA AddEnters ==
  ASSUME ChunksInv, NEW t \in Thread, AddToTail(t) \/ AddReused(t) \/ AddAllocated(t)
  PROVE  Entries' = Append(Entries, fn[t])
<1>1. fn[t] \in Func
  BY DEF ChunksInv
<1>2. list \in Seq(Seq(Func)) /\ Entries \in Seq(Func)
  BY ChunkIsSeq
<1>3. CASE AddToTail(t)
  <2>1. list # <<>> /\ list' = [list EXCEPT ![Len(list)] = Append(@, fn[t])]
    BY <1>3 DEF AddToTail, TailIsFull
  <2> QED
    BY <1>1, <1>2, <2>1, FlattenLast DEF Entries
<1>4. CASE AddReused(t) \/ AddAllocated(t)
  <2>1. list' = Append(list, <<fn[t]>>) /\ <<fn[t]>> \in Seq(Func)
    BY <1>1, <1>4 DEF AddReused, AddAllocated
  <2>2. Entries' = Entries \o <<fn[t]>>
    BY <1>2, <2>1, FlattenAppend DEF Entries
  <2> QED
    BY <1>1, <1>2, <2>2, AppendIsConcat
<1> QED
  BY <1>3, <1>4

(* Only the last chunk has room. *)
FullButLast == \A i \in 1 .. Len(list) - 1 : Len(list[i]) = ChunkSize

LEMMA AddFills ==
  ASSUME ChunksInv, FullButLast, NEW t \in Thread,
         AddToTail(t) \/ AddReused(t) \/ AddAllocated(t)
  PROVE  FullButLast'
<1>1. list \in Seq(Chunk) /\ fn[t] \in Func /\ Len(list) \in Nat
      /\ \A i \in 1 .. Len(list) - 1 : Len(list[i]) = ChunkSize
  BY LenProperties DEF ChunksInv, FullButLast
<1>2. CASE AddToTail(t)
  <2>1. list # <<>> /\ list' = [list EXCEPT ![Len(list)] = Append(@, fn[t])]
    BY <1>2 DEF AddToTail, TailIsFull
  <2>2. Len(list') = Len(list) /\ \A i \in 1 .. Len(list) - 1 : list'[i] = list[i]
    <3> DEFINE n == Len(list)
               e == Append(list[n], fn[t])
    <3>1. n \in Nat /\ list \in [1 .. n -> Chunk]
      BY <1>1, LenProperties
    <3>2. list' = [list EXCEPT ![n] = e]
      BY <2>1
    <3> HIDE DEF n, e
    <3>3. DOMAIN list' = 1 .. n /\ \A i \in 1 .. n - 1 : list'[i] = list[i]
      BY <3>1, <3>2
    <3>4. list' \in Seq(Chunk)
      BY <1>2, AddToTailKeeps DEF ChunksInv
    <3>5. Len(list') = n
      BY <3>1, <3>3, <3>4, LenProperties
    <3> QED
      BY <3>3, <3>5 DEF n
  <2> QED
    BY <1>1, <2>2 DEF FullButLast
<1>3. CASE AddReused(t) \/ AddAllocated(t)
  <2>1. TailIsFull /\ list' = Append(list, <<fn[t]>>) /\ <<fn[t]>> \in Chunk
    BY <1>1, <1>3, Started DEF AddReused, AddAllocated
  <2>2. Len(list') = Len(list) + 1 /\ \A i \in 1 .. Len(list) : list'[i] = list[i]
    BY <1>1, <2>1, AppendProperties
  <2>3. Len(list) # 0 => Len(list[Len(list)]) = ChunkSize
    BY <1>1, <2>1, EmptySeq DEF TailIsFull, Last
  <2> QED
    BY <1>1, <2>2, <2>3 DEF FullButLast
<1> QED
  BY <1>2, <1>3

(* Every other step leaves the list alone, or empties it. *)
LEMMA StepsOfList ==
  ASSUME [Next]_vars
  PROVE  \/ list' = list
         \/ Clear /\ list' = <<>>
         \/ \E t \in Thread : AddToTail(t) \/ AddReused(t) \/ AddAllocated(t)
  BY DEF Next, vars, lists, Call, TestArea, AddNoMemory, SetNoMemory, Load, Store, Clear,
         Dump, DumpNothing, DumpNoMemory

LEMMA FullKept ==
  ASSUME ChunksInv, FullButLast, [Next]_vars
  PROVE  FullButLast'
<1>1. CASE list' = list
  BY <1>1 DEF FullButLast
<1>2. CASE list' = <<>>
  BY <1>2 DEF FullButLast
<1>3. CASE \E t \in Thread : AddToTail(t) \/ AddReused(t) \/ AddAllocated(t)
  BY <1>3, AddFills
<1> QED
  BY <1>1, <1>2, <1>3, StepsOfList
-----------------------------------------------------------------------------
(* The counters.  Each function has one thread that calls it, and no       *)
(* counter gets to where an int wraps.                                     *)
OneCaller    == \A f \in Func : \A t, u \in Callers[f] : t = u
CountersHold == MaxCalls < CountMod

Labels == {"idle", "test", "add", "nomemory", "load", "store"}

(* A thread is in a call of f, and it has entered f or found it entered. *)
InCall(f)   == \E t \in Thread : pc[t] # "idle" /\ fn[t] = f
Counting(f) == \E t \in Thread : pc[t] \in {"load", "store"} /\ fn[t] = f
Entered(f)  == \E k \in DOMAIN Entries : Entries[k] = f

CountType ==
  /\ area \in [Func -> Nat] /\ made \in [Func -> Nat] /\ calls \in 0 .. MaxCalls
  /\ pc \in [Thread -> Labels] /\ fn \in [Thread -> Func] /\ reg \in [Thread -> Nat]
  /\ nomemory \in BOOLEAN
  /\ \A f \in Func : made[f] <= calls

(* Where a call is says what the counter of its function is. *)
ThreadInv(t) ==
  /\ pc[t] # "idle" => t \in Callers[fn[t]]
  /\ pc[t] = "add" => area[fn[t]] = 0
  /\ pc[t] = "store" => reg[t] = area[fn[t]]

(* A counter has every call but the one in progress, unless the memory ran *)
(* out, and a function is listed when its counter has been, or is about to *)
(* be, incremented.                                                        *)
FuncInv(f) ==
  /\ area[f] + (IF InCall(f) THEN 1 ELSE 0) <= made[f]
  /\ ~nomemory => made[f] = area[f] + (IF InCall(f) THEN 1 ELSE 0)
  /\ Entered(f) <=> area[f] # 0 \/ Counting(f)

CountInv ==
  /\ CountType
  /\ \A t \in Thread : ThreadInv(t)
  /\ \A f \in Func : FuncInv(f)

(* Two threads are never in calls of one function. *)
LEMMA Alone ==
  ASSUME OneCaller, CountInv, NEW t \in Thread, NEW u \in Thread,
         pc[t] # "idle", pc[u] # "idle", fn[t] = fn[u]
  PROVE  t = u
  BY CallCountAssumption DEF OneCaller, CountInv, CountType, ThreadInv

LEMMA CountInit ==
  ASSUME SomeFunc, Init
  PROVE  CountInv
<1>1. (CHOOSE f \in Func : TRUE) \in Func
  BY DEF SomeFunc
<1>2. Entries = <<>> /\ DOMAIN Entries = {}
  BY EmptySeq, FlattenEmpty DEF Init, Entries
<1>3. CountType
  <2>1. area \in [Func -> Nat] /\ made \in [Func -> Nat] /\ calls \in 0 .. MaxCalls
    BY CallCountAssumption DEF Init
  <2>2. pc \in [Thread -> Labels] /\ fn \in [Thread -> Func] /\ reg \in [Thread -> Nat]
    BY <1>1 DEF Init, Labels
  <2>3. nomemory \in BOOLEAN
    BY DEF Init
  <2>4. \A f \in Func : made[f] <= calls
    <3>1. made = [f \in Func |-> 0] /\ calls = 0
      BY DEF Init
    <3> QED
      BY <3>1
  <2> QED
    BY <2>1, <2>2, <2>3, <2>4 DEF CountType
<1>4. \A t \in Thread : ThreadInv(t)
  BY DEF Init, ThreadInv
<1>5. \A f \in Func : FuncInv(f)
  BY <1>2 DEF Init, FuncInv, InCall, Counting, Entered
<1> QED
  BY <1>3, <1>4, <1>5 DEF CountInv

LEMMA CallCounts ==
  ASSUME OneCaller, CountInv, NEW t \in Thread, NEW f \in Func, Call(t, f)
  PROVE  CountInv'
<1>1. /\ pc[t] = "idle" /\ t \in Callers[f] /\ calls < MaxCalls /\ ~nomemory
      /\ pc' = [pc EXCEPT ![t] = "test"] /\ fn' = [fn EXCEPT ![t] = f]
      /\ made' = [made EXCEPT ![f] = @ + 1] /\ calls' = calls + 1
      /\ UNCHANGED <<area, list, nomemory, reg>>
  BY DEF Call, Goto, lists
<1>2. CountType
  BY DEF CountInv
<1>3. CountType'
  BY <1>1, <1>2, CallCountAssumption DEF CountType, Labels
<1>4. \A u \in Thread : ThreadInv(u)'
  BY <1>1, <1>2 DEF CountInv, CountType, ThreadInv
<1>5. ~InCall(f)
  BY <1>1, <1>2, CallCountAssumption DEF InCall, OneCaller, CountInv, ThreadInv, CountType
<1>6. ASSUME NEW g \in Func PROVE FuncInv(g)'
  <2>1. InCall(g)' <=> g = f \/ InCall(g)
    BY <1>1, <1>2 DEF InCall, CountType
  <2>2. Counting(g)' <=> Counting(g)
    BY <1>1, <1>2 DEF Counting, CountType
  <2>3. Entered(g)' <=> Entered(g)
    BY <1>1 DEF Entered, Entries
  <2>4. made'[g] = made[g] + (IF g = f THEN 1 ELSE 0)
    BY <1>1, <1>2 DEF CountType
  <2>5. FuncInv(g) /\ area[g] \in Nat /\ made[g] \in Nat
    BY <1>2 DEF CountInv, CountType
  <2> HIDE DEF InCall, Counting, Entered
  <2> QED
    BY <1>1, <1>5, <2>1, <2>2, <2>3, <2>4, <2>5 DEF FuncInv
<1> QED
  BY <1>3, <1>4, <1>6 DEF CountInv

(* The steps that neither enter a function nor store a counter. *)
LEMMA Moves ==
  ASSUME OneCaller, CountInv, NEW t \in Thread, TestArea(t) \/ AddNoMemory(t) \/ Load(t)
  PROVE  CountInv'
<1>1. /\ pc[t] \in {"test", "add", "load"} /\ fn[t] \in Func
      /\ UNCHANGED <<area, list, nomemory, fn, made, calls>>
  BY DEF TestArea, AddNoMemory, Load, lists, hist, CountInv, CountType
<1>2. CountType
  BY DEF CountInv
<1>3. \E l \in {"add", "nomemory", "load", "store"} :
        /\ pc' = [pc EXCEPT ![t] = l]
        /\ l = "add" => pc[t] = "test" /\ area[fn[t]] = 0 /\ reg' = reg
        /\ l = "nomemory" => pc[t] = "add" /\ reg' = reg
        /\ l = "load" => pc[t] = "test" /\ area[fn[t]] # 0 /\ reg' = reg
        /\ l = "store" => pc[t] = "load" /\ reg' = [reg EXCEPT ![t] = area[fn[t]]]
  BY DEF TestArea, AddNoMemory, Load, Goto
<1>4. PICK l \in {"add", "nomemory", "load", "store"} :
        /\ pc' = [pc EXCEPT ![t] = l]
        /\ l = "add" => pc[t] = "test" /\ area[fn[t]] = 0 /\ reg' = reg
        /\ l = "nomemory" => pc[t] = "add" /\ reg' = reg
        /\ l = "load" => pc[t] = "test" /\ area[fn[t]] # 0 /\ reg' = reg
        /\ l = "store" => pc[t] = "load" /\ reg' = [reg EXCEPT ![t] = area[fn[t]]]
  BY <1>3
<1>5. CountType'
  BY <1>1, <1>2, <1>4 DEF CountType, Labels
<1>6. \A u \in Thread : ThreadInv(u)'
  BY <1>1, <1>2, <1>4 DEF CountInv, CountType, ThreadInv
<1>7. ASSUME NEW g \in Func PROVE FuncInv(g)'
  <2>1. InCall(g)' <=> InCall(g)
    BY <1>1, <1>2, <1>4 DEF InCall, CountType
  <2>2. (area[g] # 0 \/ Counting(g))' <=> (area[g] # 0 \/ Counting(g))
    BY <1>1, <1>2, <1>4 DEF Counting, CountType
  <2>3. Entered(g)' <=> Entered(g)
    BY <1>1 DEF Entered, Entries
  <2> QED
    BY <1>1, <2>1, <2>2, <2>3 DEF FuncInv, CountInv
<1> QED
  BY <1>5, <1>6, <1>7 DEF CountInv

LEMMA EntryCounts ==
  ASSUME ChunksInv, OneCaller, CountInv, NEW t \in Thread,
         AddToTail(t) \/ AddReused(t) \/ AddAllocated(t)
  PROVE  CountInv'
<1>1. /\ pc[t] = "add" /\ fn[t] \in Func /\ pc' = [pc EXCEPT ![t] = "load"]
      /\ UNCHANGED <<area, nomemory, fn, reg, made, calls>>
  BY DEF AddToTail, AddReused, AddAllocated, Goto, hist, CountInv, CountType
<1>2. CountType
  BY DEF CountInv
<1>3. Entries' = Append(Entries, fn[t]) /\ Entries \in Seq(Func)
  BY AddEnters, ChunkIsSeq
<1>4. \A g \in Func : Entered(g)' <=> Entered(g) \/ g = fn[t]
  <2>1. /\ Entries' \in Seq(Func) /\ Len(Entries') = Len(Entries) + 1 /\ Len(Entries) \in Nat
        /\ \A k \in 1 .. Len(Entries) : Entries'[k] = Entries[k]
        /\ Entries'[Len(Entries) + 1] = fn[t]
    BY <1>1, <1>3, AppendProperties, LenProperties
  <2>2. DOMAIN Entries = 1 .. Len(Entries) /\ DOMAIN Entries' = 1 .. Len(Entries) + 1
    BY <1>3, <2>1, LenProperties
  <2>3. 1 .. Len(Entries) + 1 = (1 .. Len(Entries)) \cup {Len(Entries) + 1}
    BY <2>1
  <2> QED
    BY <2>1, <2>2, <2>3 DEF Entered
<1>5. CountType'
  BY <1>1, <1>2 DEF CountType, Labels
<1>6. \A u \in Thread : ThreadInv(u)'
  BY <1>1, <1>2 DEF CountInv, CountType, ThreadInv
<1>7. ASSUME NEW g \in Func PROVE FuncInv(g)'
  <2>1. InCall(g)' <=> InCall(g)
    BY <1>1, <1>2 DEF InCall, CountType
  <2>2. Counting(g)' <=> Counting(g) \/ g = fn[t]
    BY <1>1, <1>2 DEF Counting, CountType
  <2> QED
    BY <1>1, <1>4, <2>1, <2>2 DEF FuncInv, CountInv
<1> QED
  BY <1>5, <1>6, <1>7 DEF CountInv

LEMMA NoMemoryCounts ==
  ASSUME OneCaller, CountInv, NEW t \in Thread, SetNoMemory(t)
  PROVE  CountInv'
<1>1. /\ pc[t] = "nomemory" /\ fn[t] \in Func /\ pc' = [pc EXCEPT ![t] = "idle"] /\ nomemory' = TRUE
      /\ UNCHANGED <<area, list, fn, reg, made, calls>>
  BY DEF SetNoMemory, lists, hist, Goto, CountInv, CountType
<1>2. CountType
  BY DEF CountInv
<1>3. CountType'
  BY <1>1, <1>2 DEF CountType, Labels
<1>4. \A u \in Thread : ThreadInv(u)'
  BY <1>1, <1>2 DEF CountInv, CountType, ThreadInv
<1>5. ASSUME NEW g \in Func PROVE FuncInv(g)'
  <2>1. InCall(g)' => InCall(g)
    BY <1>1, <1>2 DEF InCall, CountType
  <2>2. Counting(g)' <=> Counting(g)
    BY <1>1, <1>2 DEF Counting, CountType
  <2>3. Entered(g)' <=> Entered(g)
    BY <1>1 DEF Entered, Entries
  <2>4. FuncInv(g) /\ area[g] \in Nat /\ made[g] \in Nat
    BY <1>2 DEF CountInv, CountType
  <2> QED
    BY <1>1, <2>1, <2>2, <2>3, <2>4 DEF FuncInv
<1> QED
  BY <1>3, <1>4, <1>5 DEF CountInv

LEMMA StoreCounts ==
  ASSUME OneCaller, CountersHold, CountInv, NEW t \in Thread, Store(t)
  PROVE  CountInv'
<1> DEFINE f == fn[t]
<1>1. /\ pc[t] = "store" /\ f \in Func /\ pc' = [pc EXCEPT ![t] = "idle"]
      /\ area' = [area EXCEPT ![f] = (reg[t] + 1) % CountMod] /\ reg' = [reg EXCEPT ![t] = 0]
      /\ UNCHANGED <<list, nomemory, fn, made, calls>>
  BY DEF Store, lists, Goto, CountInv, CountType
<1>2. CountType
  BY DEF CountInv
<1>3. InCall(f) /\ Counting(f)
  BY <1>1 DEF InCall, Counting
<1>4. reg[t] = area[f] /\ area[f] + 1 <= made[f] /\ made[f] <= calls /\ FuncInv(f)
  BY <1>1, <1>2, <1>3 DEF CountInv, CountType, ThreadInv, FuncInv
<1>5. (reg[t] + 1) % CountMod = area[f] + 1
  <2>1. area[f] + 1 \in 0 .. CountMod - 1 /\ CountMod \in Nat \ {0}
    BY <1>1, <1>2, <1>4, CallCountAssumption DEF CountType, CountersHold
  <2> QED
    BY <1>4, <2>1
<1>6. area' = [area EXCEPT ![f] = @ + 1]
  BY <1>1, <1>5
<1>7. CountType'
  BY <1>1, <1>2, <1>6 DEF CountType, Labels
<1>8. \A u \in Thread \ {t} : pc[u] # "idle" => fn[u] # f
  BY <1>1, Alone
<1>9. ASSUME NEW u \in Thread PROVE ThreadInv(u)'
  BY <1>1, <1>2, <1>6, <1>8 DEF CountInv, CountType, ThreadInv
<1>10. ASSUME NEW g \in Func PROVE FuncInv(g)'
  <2>1. CASE g = f
    <3>1. ~InCall(g)'
      BY <1>1, <1>2, <1>8, <2>1 DEF InCall, CountType
    <3>2. Entered(g)'
      BY <1>1, <1>3, <1>4, <2>1 DEF Entered, Entries, FuncInv
    <3>3. area'[g] = area[f] + 1 /\ area[f] \in Nat /\ made[f] \in Nat /\ made'[g] = made[f]
      BY <1>1, <1>2, <1>6, <2>1 DEF CountType
    <3> QED
      BY <1>1, <1>3, <1>4, <2>1, <3>1, <3>2, <3>3 DEF FuncInv
  <2>2. CASE g # f
    <3>1. (InCall(g)' <=> InCall(g)) /\ (Counting(g)' <=> Counting(g))
      BY <1>1, <1>2, <2>2 DEF InCall, Counting, CountType
    <3>2. Entered(g)' <=> Entered(g)
      BY <1>1 DEF Entered, Entries
    <3>3. area'[g] = area[g]
      BY <1>2, <1>6, <2>2 DEF CountType
    <3> QED
      BY <1>1, <3>1, <3>2, <3>3 DEF FuncInv, CountInv
  <2> QED
    BY <2>1, <2>2
<1> QED
  BY <1>7, <1>9, <1>10 DEF CountInv

(* A clear zeroes the counters that are listed; the others are zero. *)
LEMMA ClearCounts ==
  ASSUME CountInv, Clear
  PROVE  CountInv'
<1>1. /\ \A t \in Thread : pc[t] = "idle"
      /\ area' = [f \in Func |-> IF f \in ToSet(Entries) THEN 0 ELSE area[f]]
      /\ made' = [f \in Func |-> 0] /\ list' = <<>> /\ UNCHANGED <<nomemory, pc, fn, reg, calls>>
  BY DEF Clear, Stopped, Quiet, local
<1>2. CountType
  BY DEF CountInv
<1>3. \A f \in Func : f \notin ToSet(Entries) => area[f] = 0
  <2>1. \A f \in Func : f \in ToSet(Entries) <=> Entered(f)
    BY DEF ToSet, Entered
  <2>2. \A f \in Func : ~Counting(f)
    BY <1>1 DEF Counting
  <2> QED
    BY <2>1, <2>2 DEF CountInv, FuncInv
<1>4. area' = [f \in Func |-> 0]
  BY <1>1, <1>3
<1>5. DOMAIN Entries' = {}
  BY <1>1, FlattenEmpty, EmptySeq DEF Entries
<1>6. CountType'
  BY <1>1, <1>2, <1>4 DEF CountType
<1>7. \A t \in Thread : ThreadInv(t)'
  BY <1>1 DEF ThreadInv
<1>8. \A f \in Func : FuncInv(f)'
  BY <1>1, <1>4, <1>5 DEF FuncInv, InCall, Counting, Entered
<1> QED
  BY <1>6, <1>7, <1>8 DEF CountInv

LEMMA CountKept ==
  ASSUME OneCaller, CountersHold, ChunksInv, CountInv, [Next]_vars
  PROVE  CountInv'
<1>1. CASE UNCHANGED <<area, list, nomemory, local, made, calls>>
  BY <1>1 DEF local, CountInv, CountType, ThreadInv, FuncInv, InCall, Counting, Entered, Entries
<1>2. ASSUME Dump \/ DumpNothing \/ DumpNoMemory \/ UNCHANGED vars
      PROVE  UNCHANGED <<area, list, nomemory, local, made, calls>>
  BY <1>2 DEF Dump, DumpNothing, DumpNoMemory, vars, lists, hist
<1>3. CASE \E t \in Thread, f \in Func : Call(t, f)
  BY <1>3, CallCounts
<1>4. CASE \E t \in Thread : TestArea(t) \/ AddNoMemory(t) \/ Load(t)
  BY <1>4, Moves
<1>5. CASE \E t \in Thread : AddToTail(t) \/ AddReused(t) \/ AddAllocated(t)
  BY <1>5, EntryCounts
<1>6. CASE \E t \in Thread : SetNoMemory(t)
  BY <1>6, NoMemoryCounts
<1>7. CASE \E t \in Thread : Store(t)
  BY <1>7, StoreCounts
<1>8. CASE Clear
  BY <1>8, ClearCounts
<1> QED
  BY <1>1, <1>2, <1>3, <1>4, <1>5, <1>6, <1>7, <1>8 DEF Next

(* Between calls each counter is the number of calls since the last clear  *)
(* and is listed when it is not zero (ind_mprf.c:311 to 365), although the *)
(* counter is tested before the lock and incremented after it: where one   *)
(* thread calls the function, and as long as the int does not wrap.        *)
THEOREM CallCountExact ==
  ASSUME SomeFunc, OneCaller, CountersHold
  PROVE  Spec => []CountsExact
<1> DEFINE IInv == ChunksInv /\ CountInv
<1>1. Init => IInv
  BY InitInv, CountInit
<1>2. IInv /\ [Next]_vars => IInv'
  BY NextKeeps, CountKept
<1>3. IInv => CountsExact
  <2> SUFFICES ASSUME IInv, Quiet, ~nomemory, NEW f \in Func
               PROVE  area[f] = made[f] /\ (area[f] # 0 <=> f \in ToSet(Entries))
    BY DEF CountsExact
  <2>1. f \in ToSet(Entries) <=> Entered(f)
    BY DEF ToSet, Entered
  <2>2. ~InCall(f) /\ ~Counting(f)
    BY DEF Quiet, InCall, Counting
  <2>3. FuncInv(f) /\ area[f] \in Nat
    BY DEF CountInv, CountType
  <2> QED
    BY <2>1, <2>2, <2>3 DEF FuncInv
<1> QED
  BY <1>1, <1>2, <1>3, PTL DEF Spec
-----------------------------------------------------------------------------
(* The order of mon.out.  No two entries are of one function, for a second *)
(* call finds the counter that the first one stored, or is by the thread   *)
(* that is still in the first.  A function with a call that returned is    *)
(* entered, so what is entered later was not called before that.           *)
ListedOnce == \A i, j \in DOMAIN Entries : Entries[i] = Entries[j] => i = j
CallOrder  == \A i, j \in DOMAIN Entries : Entries[i] \in before[Entries[j]] => i < j

OrderInv ==
  /\ returned \in SUBSET Func /\ before \in [Func -> SUBSET Func]
  /\ \A f \in returned : Entered(f)
  /\ \A g \in Func : \A f \in before[g] : Entered(f)
  /\ ListedOnce /\ CallOrder

LEMMA OrderInit ==
  ASSUME Init
  PROVE  OrderInv
<1>1. DOMAIN Entries = {}
  BY EmptySeq, FlattenEmpty DEF Init, Entries
<1> QED
  BY <1>1 DEF Init, OrderInv, ListedOnce, CallOrder

(* A function that has not been called since the last clear is not entered. *)
LEMMA UncalledNotEntered ==
  ASSUME CountInv, NEW f \in Func, made[f] = 0
  PROVE  ~Entered(f)
<1>1. FuncInv(f) /\ area[f] \in Nat
  BY DEF CountInv, CountType
<1>2. area[f] = 0 /\ ~InCall(f)
  <2> HIDE DEF InCall
  <2> QED
    BY <1>1 DEF FuncInv
<1>3. ~Counting(f)
  BY <1>2 DEF InCall, Counting
<1> QED
  BY <1>1, <1>2, <1>3 DEF FuncInv

LEMMA CallOrders ==
  ASSUME ChunksInv, CountInv, OrderInv, NEW t \in Thread, NEW f \in Func, Call(t, f)
  PROVE  OrderInv'
<1>1. /\ list' = list /\ returned' = returned
      /\ before' = IF made[f] = 0 THEN [before EXCEPT ![f] = returned] ELSE before
  BY DEF Call, lists
<1>2. Entries' = Entries /\ Entries \in Seq(Func) /\ \A g \in Func : Entered(g)' <=> Entered(g)
  BY <1>1, ChunkIsSeq DEF Entries, Entered
<1>3. CASE made[f] # 0
  BY <1>1, <1>2, <1>3 DEF OrderInv, ListedOnce, CallOrder
<1>4. CASE made[f] = 0
  <2>1. before' = [before EXCEPT ![f] = returned]
    BY <1>1, <1>4
  <2>2. \A j \in DOMAIN Entries : Entries[j] \in Func /\ Entries[j] # f
    BY <1>2, <1>4, UncalledNotEntered, ElementOfSeq, LenProperties DEF Entered
  <2>3. CallOrder'
    BY <1>2, <2>1, <2>2 DEF OrderInv, CallOrder
  <2>4. ListedOnce'
    BY <1>2 DEF OrderInv, ListedOnce
  <2>5. returned' \in SUBSET Func /\ before' \in [Func -> SUBSET Func]
    BY <1>1, <2>1 DEF OrderInv
  <2>6. \A g \in returned' : Entered(g)'
    BY <1>1, <1>2 DEF OrderInv
  <2>7. \A g \in Func : \A h \in before'[g] : Entered(h)'
    <3> SUFFICES ASSUME NEW g \in Func, NEW h \in before'[g] PROVE Entered(h)'
      OBVIOUS
    <3>1. h \in before[g] \/ h \in returned
      BY <2>1 DEF OrderInv
    <3>2. h \in Func /\ Entered(h)
      BY <3>1 DEF OrderInv
    <3> QED
      BY <1>2, <3>2
  <2> QED
    BY <2>3, <2>4, <2>5, <2>6, <2>7 DEF OrderInv
<1> QED
  BY <1>3, <1>4

LEMMA EntryOrders ==
  ASSUME ChunksInv, OneCaller, CountInv, OrderInv, NEW t \in Thread,
         AddToTail(t) \/ AddReused(t) \/ AddAllocated(t)
  PROVE  OrderInv'
<1>1. /\ pc[t] = "add" /\ fn[t] \in Func /\ UNCHANGED <<returned, before>>
  BY DEF AddToTail, AddReused, AddAllocated, hist, CountInv, CountType
<1>2. ~Entered(fn[t])
  <2>1. area[fn[t]] = 0
    BY <1>1 DEF CountInv, ThreadInv
  <2>2. ~Counting(fn[t])
    BY <1>1, Alone DEF Counting
  <2>3. FuncInv(fn[t])
    BY <1>1 DEF CountInv
  <2> QED
    BY <2>1, <2>2, <2>3 DEF FuncInv
<1>3. /\ Len(Entries) \in Nat /\ DOMAIN Entries = 1 .. Len(Entries)
      /\ DOMAIN Entries' = 1 .. Len(Entries) + 1
      /\ \A k \in 1 .. Len(Entries) : Entries[k] \in Func /\ Entries'[k] = Entries[k]
      /\ Entries'[Len(Entries) + 1] = fn[t]
  <2>1. Entries' = Append(Entries, fn[t]) /\ Entries \in Seq(Func)
    BY AddEnters, ChunkIsSeq
  <2>2. Entries' \in Seq(Func) /\ Len(Entries') = Len(Entries) + 1
    BY <1>1, <2>1, AppendProperties
  <2> QED
    BY <1>1, <2>1, <2>2, AppendProperties, LenProperties, ElementOfSeq
<1>4. \A g \in Func : Entered(g) => Entered(g)'
  BY <1>3 DEF Entered
<1>5. ListedOnce'
  BY <1>2, <1>3 DEF OrderInv, ListedOnce, Entered
<1>6. CallOrder'
  <2> SUFFICES ASSUME NEW i \in DOMAIN Entries', NEW j \in DOMAIN Entries',
                      Entries'[i] \in before[Entries'[j]]
               PROVE  i < j
    BY <1>1 DEF CallOrder
  <2>1. Entries'[j] \in Func /\ Entered(Entries'[i])
    BY <1>1, <1>3 DEF OrderInv
  <2>2. i \in 1 .. Len(Entries)
    BY <1>2, <1>3, <2>1
  <2>3. CASE j = Len(Entries) + 1
    BY <1>3, <2>2, <2>3
  <2>4. CASE j \in 1 .. Len(Entries)
    BY <1>3, <2>2, <2>4 DEF OrderInv, CallOrder
  <2> QED
    BY <1>3, <2>3, <2>4
<1> QED
  BY <1>1, <1>4, <1>5, <1>6 DEF OrderInv

LEMMA StoreOrders ==
  ASSUME CountInv, OrderInv, NEW t \in Thread, Store(t)
  PROVE  OrderInv'
<1>1. /\ pc[t] = "store" /\ fn[t] \in Func /\ UNCHANGED <<list, before>>
      /\ returned' = returned \cup {fn[t]}
  BY DEF Store, lists, CountInv, CountType
<1>2. Entered(fn[t])
  <2>1. Counting(fn[t]) /\ FuncInv(fn[t])
    BY <1>1 DEF Counting, CountInv
  <2> QED
    BY <2>1 DEF FuncInv
<1>3. Entries' = Entries /\ \A g \in Func : Entered(g)' <=> Entered(g)
  BY <1>1 DEF Entries, Entered
<1> QED
  BY <1>1, <1>2, <1>3 DEF OrderInv, ListedOnce, CallOrder

LEMMA OrderKept ==
  ASSUME ChunksInv, OneCaller, CountInv, OrderInv, [Next]_vars
  PROVE  OrderInv'
<1>1. CASE UNCHANGED <<list, returned, before>>
  BY <1>1 DEF OrderInv, ListedOnce, CallOrder, Entered, Entries
<1>2. ASSUME NEW t \in Thread,
             TestArea(t) \/ AddNoMemory(t) \/ SetNoMemory(t) \/ Load(t)
      PROVE  UNCHANGED <<list, returned, before>>
  BY <1>2 DEF TestArea, AddNoMemory, SetNoMemory, Load, lists, hist
<1>3. Dump \/ DumpNothing \/ DumpNoMemory \/ UNCHANGED vars
        => UNCHANGED <<list, returned, before>>
  BY DEF Dump, DumpNothing, DumpNoMemory, vars, lists, hist
<1>4. CASE \E t \in Thread, f \in Func : Call(t, f)
  BY <1>4, CallOrders
<1>5. CASE \E t \in Thread : AddToTail(t) \/ AddReused(t) \/ AddAllocated(t)
  BY <1>5, EntryOrders
<1>6. CASE \E t \in Thread : Store(t)
  BY <1>6, StoreOrders
<1>7. CASE Clear
  <2>1. list' = <<>> /\ returned' = {} /\ before' = [f \in Func |-> {}]
    BY <1>7 DEF Clear
  <2>2. DOMAIN Entries' = {}
    BY <2>1, FlattenEmpty, EmptySeq DEF Entries
  <2> QED
    BY <2>1, <2>2 DEF OrderInv, ListedOnce, CallOrder
<1> QED
  BY <1>1, <1>2, <1>3, <1>4, <1>5, <1>6, <1>7 DEF Next

(* mon.out has each function once, and functions whose calls did not       *)
(* overlap in the order in which they were first called, through clears,   *)
(* dumps and the reuse of chunks (ind_mprf.c:311 to 365): where one thread *)
(* calls each function, and as long as the int does not wrap.              *)
THEOREM CallCountOrder ==
  ASSUME SomeFunc, OneCaller, CountersHold
  PROVE  Spec => []ListedInOrder
<1> DEFINE IInv == ChunksInv /\ FullButLast /\ CountInv /\ OrderInv
<1>1. Init => IInv
  <2>1. Init => FullButLast
    BY DEF Init, FullButLast
  <2> QED
    BY <2>1, InitInv, CountInit, OrderInit
<1>2. IInv /\ [Next]_vars => IInv'
  BY NextKeeps, FullKept, CountKept, OrderKept
<1>3. IInv => ListedInOrder
  BY DEF ListedInOrder, FullButLast, OrderInv, ListedOnce, CallOrder
<1> QED
  BY <1>1, <1>2, <1>3, PTL DEF Spec

==============================================================================
