-------------------------- MODULE AlgorithmsProofs --------------------------
(* What block memory operations, decompression and checksums do for every  *)
(* size, section and program, and gmtime_r and localtime_r for every date:  *)
(* MemOps, Unzip, Checksum and Calendar.                                    *)
EXTENDS MCAlgorithms, FiniteSetTheorems, SequenceTheorems,
        WellFoundedInduction, TLAPS

(* Remainders, induction over the natural numbers and finite sets. *)
LEMMA DivMod ==
  ASSUME NEW x \in Int, NEW u \in Nat \ {0}
  PROVE  /\ x = u * (x \div u) + (x % u)
         /\ x \div u \in Int /\ x % u \in 0 .. u - 1
  OBVIOUS

LEMMA ModOf ==
  ASSUME NEW q \in Int, NEW u \in Nat \ {0}
  PROVE  (u * q) % u = 0
<1> DEFINE x == u * q
           p == x \div u
           r0 == x % u
<1>1. x \in Int
  OBVIOUS
<1>2. x = u * p + r0 /\ p \in Int /\ r0 \in 0 .. u - 1
  BY <1>1, DivMod
<1>3. r0 = u * (q - p)
  BY <1>2, SMT
<1> HIDE DEF x, p, r0
<1>4. q - p = 0
  <2>1. q - p >= 1 => u * (q - p) >= u
    BY <1>2
  <2>2. q - p <= -1 => u * (q - p) <= -u
    BY <1>2
  <2> QED
    BY <1>2, <1>3, <2>1, <2>2
<1>5. r0 = 0
  BY <1>3, <1>4
<1> QED
  BY <1>5 DEF r0, x

LEMMA ModShift ==
  ASSUME NEW x \in Int, NEW k \in Int, NEW u \in Nat \ {0}, x % u = 0
  PROVE  (x + u * k) % u = 0
<1> DEFINE q == x \div u
<1>1. x = u * q /\ q \in Int
  BY DivMod
<1> HIDE DEF q
<1>2. x + u * k = u * (q + k)
  BY <1>1
<1> QED
  BY <1>1, <1>2, ModOf

LEMMA ModNext ==
  ASSUME NEW x \in Int, NEW u \in Nat \ {0}, x % u = 0
  PROVE  (x + u) % u = 0 /\ (x - u) % u = 0
<1>1. (x + u * 1) % u = 0 /\ (x + u * (-1)) % u = 0
  <2>1. 1 \in Int /\ -1 \in Int
    OBVIOUS
  <2> QED
    BY <2>1, ModShift
<1>2. x + u * 1 = x + u /\ x + u * (-1) = x - u
  OBVIOUS
<1> QED
  BY <1>1, <1>2

LEMMA WholeBlock ==
  ASSUME NEW u \in Nat \ {0}, NEW q \in Int, NEW r0 \in 0 .. u - 1, u <= u * q + r0
  PROVE  q >= 1
<1>1. q <= 0 => u * q <= 0
  OBVIOUS
<1> QED
  BY <1>1

LEMMA ModGap ==
  ASSUME NEW x \in Int, NEW y \in Int, NEW u \in Nat \ {0},
         x % u = 0, y % u = 0, x < y
  PROVE  x + u <= y
<1> DEFINE q == x \div u
           p == y \div u
<1>1. x = u * q /\ q \in Int /\ y = u * p /\ p \in Int
  BY DivMod
<1> HIDE DEF q, p
<1>2. q < p
  <2>1. q >= p => u * q >= u * p
    BY <1>1
  <2> QED
    BY <1>1, <2>1
<1>3. u * (p - q) >= u
  BY <1>1, <1>2
<1> QED
  BY <1>1, <1>3

LEMMA ModFloor ==
  ASSUME NEW x \in Nat, NEW u \in Nat \ {0}
  PROVE  /\ (x - (x % u)) % u = 0
         /\ x - (x % u) \in Nat /\ x - (x % u) <= x /\ x < x - (x % u) + u
<1> DEFINE q == x \div u
           r0 == x % u
<1>1. x = u * q + r0 /\ q \in Int /\ r0 \in 0 .. u - 1
  BY DivMod
<1>2. x - r0 = u * q
  BY <1>1
<1>3. (u * q) % u = 0
  BY <1>1, ModOf
<1>4. r0 <= x
  <2> HIDE DEF q, r0
  <2>1. q < 0 => u * q <= -u
    BY <1>1
  <2>2. q >= 0 => u * q >= 0
    BY <1>1
  <2> QED
    BY <1>1, <2>1, <2>2
<1> QED
  BY <1>1, <1>2, <1>3, <1>4

LEMMA ModUnique ==
  ASSUME NEW q \in Int, NEW u \in Nat \ {0}, NEW r0 \in 0 .. u - 1
  PROVE  (u * q + r0) % u = r0
<1> DEFINE x == u * q + r0
           p == x \div u
           t == x % u
<1>1. x \in Int
  OBVIOUS
<1>2. x = u * p + t /\ p \in Int /\ t \in 0 .. u - 1
  BY <1>1, DivMod
<1>3. t - r0 = u * (q - p)
  BY <1>2, SMT
<1> HIDE DEF x, p, t
<1>4. q - p = 0
  <2>1. q - p >= 1 => u * (q - p) >= u
    BY <1>2
  <2>2. q - p <= -1 => u * (q - p) <= -u
    BY <1>2
  <2> QED
    BY <1>2, <1>3, <2>1, <2>2
<1>5. t = r0
  BY <1>2, <1>3, <1>4
<1> QED
  BY <1>5 DEF t, x

LEMMA ModAdd ==
  ASSUME NEW x \in Int, NEW k \in Int, NEW u \in Nat \ {0}
  PROVE  (x + u * k) % u = x % u
<1> DEFINE q == x \div u
           t == x % u
<1>1. x = u * q + t /\ q \in Int /\ t \in 0 .. u - 1
  BY DivMod
<1> HIDE DEF q, t
<1>2. x + u * k = u * (q + k) + t /\ q + k \in Int
  BY <1>1
<1>3. (u * (q + k) + t) % u = t
  BY <1>1, <1>2, ModUnique
<1> QED
  BY <1>2, <1>3 DEF t

LEMMA ModSum ==
  ASSUME NEW x \in Int, NEW k \in Int, NEW u \in Nat \ {0}
  PROVE  ((x % u) + k) % u = (x + k) % u
<1> DEFINE q == x \div u
           t == x % u
<1>1. x = u * q + t /\ q \in Int /\ t \in 0 .. u - 1
  BY DivMod
<1> HIDE DEF q, t
<1>2. x + k = (t + k) + u * q /\ t + k \in Int
  BY <1>1
<1>3. ((t + k) + u * q) % u = (t + k) % u
  BY <1>1, <1>2, ModAdd
<1> QED
  BY <1>2, <1>3 DEF t

LEMMA ModApart ==
  ASSUME NEW x \in Int, NEW y \in Int, NEW u \in Nat \ {0}, x < y, y - x < u
  PROVE  x % u # y % u
<1> SUFFICES ASSUME x % u = y % u PROVE FALSE
  OBVIOUS
<1> DEFINE q == x \div u
           p == y \div u
           t == x % u
<1>1. x = u * q + t /\ q \in Int /\ t \in 0 .. u - 1 /\ y = u * p + t /\ p \in Int
  BY DivMod
<1> HIDE DEF q, p, t
<1>2. y - x = u * (p - q)
  BY <1>1
<1>3. p - q <= 0 => u * (p - q) <= 0
  BY <1>1
<1>4. p - q >= 1 => u * (p - q) >= u
  BY <1>1
<1> QED
  BY <1>1, <1>2, <1>3, <1>4

LEMMA SetInduction ==
  ASSUME NEW T \in SUBSET Nat, 0 \in T, \A k \in T : k + 1 \in T
  PROVE  T = Nat
<1> DEFINE R == OpToRel(<, Nat)
<1>1. IsWellFoundedOn(R, Nat)
  BY NatLessThanWellFounded
<1>2. \A x, y \in Nat : <<x, y>> \in R <=> x < y
  BY DEF OpToRel
<1> HIDE DEF R
<1>3. SUFFICES ASSUME Nat \ T # {} PROVE FALSE
  OBVIOUS
<1>4. PICK x \in Nat \ T : \A y \in Nat \ T : <<y, x>> \notin R
  BY <1>1, <1>3, WFMin
<1>5. x \in Nat /\ x # 0 /\ x - 1 \in Nat /\ x - 1 < x
  BY <1>4
<1>6. x - 1 \in T
  BY <1>2, <1>4, <1>5
<1> QED
  BY <1>4, <1>5, <1>6

LEMMA FiniteMax ==
  ASSUME NEW S \in SUBSET Nat, IsFiniteSet(S), S # {}
  PROVE  \E m \in S : \A v \in S : v <= m
<1> DEFINE Has(U) == \E m \in U : \A v \in U : v <= m
           T == {k \in Nat : \A U \in SUBSET Nat :
                   IsFiniteSet(U) /\ Cardinality(U) = k /\ U # {} => Has(U)}
<1>1. 0 \in T
  BY FS_EmptySet
<1>2. ASSUME NEW k \in T PROVE k + 1 \in T
  <2>1. ASSUME NEW U \in SUBSET Nat, IsFiniteSet(U), Cardinality(U) = k + 1, U # {}
        PROVE  Has(U)
    <3>1. PICK x \in U : TRUE
      BY <2>1
    <3> DEFINE V == U \ {x}
    <3>2. IsFiniteSet(V) /\ Cardinality(V) = Cardinality(U) - 1
      BY <2>1, <3>1, FS_RemoveElement
    <3>5. Cardinality(V) = k
      BY <2>1, <3>2
    <3>3. CASE V = {}
      <4>1. U = {x} /\ x \in Nat
        BY <3>1, <3>3
      <4> QED
        BY <4>1
    <3>4. CASE V # {}
      <4>1. PICK m \in V : \A v \in V : v <= m
        BY <1>2, <3>2, <3>5, <3>4
      <4>2. m \in Nat /\ x \in Nat /\ m \in U /\ \A v \in U : v \in V \/ v = x
        BY <3>1, <4>1
      <4>3. m <= x \/ x <= m
        BY <4>2
      <4>4. CASE x <= m
        BY <4>1, <4>2, <4>4
      <4>5. CASE m <= x
        <5>1. \A v \in U : v \in Nat /\ v <= x
          BY <4>1, <4>2, <4>5
        <5> QED
          BY <3>1, <5>1
      <4> QED
        BY <4>3, <4>4, <4>5
    <3> QED
      BY <3>3, <3>4
  <2>2. k + 1 \in Nat
    OBVIOUS
  <2> QED
    BY <2>1, <2>2
<1> HIDE DEF T
<1>3. T = Nat
  <2>1. T \in SUBSET Nat
    BY DEF T
  <2> QED
    BY <1>1, <1>2, <2>1, SetInduction
<1>4. Cardinality(S) \in Nat
  BY FS_CardinalityType
<1> QED
  BY <1>3, <1>4 DEF T

LEMMA FunIsSeq ==
  ASSUME NEW len \in Nat, NEW S, NEW f \in [1 .. len -> S]
  PROVE  f \in Seq(S) /\ Len(f) = len /\ DOMAIN f = 1 .. len
  OBVIOUS
-----------------------------------------------------------------------------
(* Block memory operations *)

(* The library picks a unit, and both pointers are multiples of it. *)
LEMMA UnitIs ==
  ASSUME NEW x \in Nat, NEW y \in Nat
  PROVE  UnitFor(x, y) \in Units /\ Aligned(UnitFor(x, y), x, y)
<1> DEFINE Fit == {u \in Units : Aligned(u, x, y)}
<1>1. 1 \in Fit
  BY MemOpsAssumption DEF Aligned
<1>2. IsFiniteSet(Fit) /\ Fit \in SUBSET Nat
  BY MemOpsAssumption, FS_Subset
<1>3. \E u \in Fit : \A v \in Fit : v <= u
  BY <1>1, <1>2, FiniteMax
<1>4. Largest(Fit) \in Fit
  BY <1>3 DEF Largest
<1> QED
  BY <1>4 DEF UnitFor
-----------------------------------------------------------------------------
Right(lo, hi) == \A a \in Addr : lo <= a /\ a < hi => mem[a] = want[a]

ArgsInv ==
  /\ d + n <= Size
  /\ \A a \in Addr : ~(d <= a /\ a < d + n) => mem[a] = want[a]

Moved == IF op = "moving" THEN i - busy ELSE 0

CopyInv ==
  op \in {"copy", "dma", "moving"} =>
    /\ s + n <= Size
    /\ d + n <= s \/ s + n <= d
    /\ \A a \in Addr : d <= a /\ a < d + n => want[a] = want[s + (a - d)]
    /\ left <= n /\ at = d + (n - left) /\ from = s + (n - left)
    /\ Right(d, at + Moved)
    /\ op = "copy" /\ left >= unit => Aligned(unit, at, from)
    /\ op = "dma" => left > 0
    /\ op = "moving" => i \in 1..MaxCount /\ i <= left /\ busy <= i

SetInv ==
  op \in {"head", "blocks", "tail", "odd", "down", "rest"} =>
    \A a \in Addr : d <= a /\ a < d + n => want[a] = ch

UpInv ==
  op \in {"head", "blocks", "tail"} =>
    /\ d <= at
    /\ Right(d, at)
    /\ op = "head" => at + i + left = d + n /\ (at + i) % Loop = 0 /\ left >= Loop
    /\ op = "blocks" => at + i * Loop + left = d + n /\ at % Loop = 0 /\ i >= 1
    /\ op = "tail" => at + left = d + n

DownInv ==
  op \in {"odd", "down", "rest"} =>
    /\ d <= at /\ at <= d + n
    /\ Right(at, d + n)
    /\ op = "odd" => at >= (d + n) - ((d + n) % Loop) /\ n > 2 * Loop
    /\ op = "down" => at % Loop = 0 /\ at >= Stop2 + Loop

EndInv == op \in {"none", "done"} => mem = want

MemInv == TypeOK /\ ArgsInv /\ CopyInv /\ SetInv /\ UpInv /\ DownInv /\ EndInv

LEMMA Sizes ==
  /\ Size \in Nat \ {0} /\ Loop \in Nat \ {0} /\ MaxCount \in Nat \ {0}
  /\ \A u \in Units : u \in Nat \ {0}
  /\ \A a : a \in Addr <=> a \in Int /\ 0 <= a /\ a < Size
  BY MemOpsAssumption DEF Addr

LEMMA FillStep ==
  ASSUME TypeOK, NEW lo \in Int, NEW k \in Int, Fill(lo, k)
  PROVE  /\ mem' \in [Addr -> Values]
         /\ \A a \in Addr : mem'[a] = IF lo <= a /\ a < lo + k THEN ch ELSE mem[a]
  BY DEF Fill, TypeOK

LEMMA MemInitInv == Init => MemInv
<1> SUFFICES ASSUME Init PROVE MemInv
  OBVIOUS
<1> USE Sizes DEF Init
<1>1. TypeOK
  BY MemOpsAssumption DEF TypeOK
<1>2. ArgsInv
  BY DEF ArgsInv
<1>3. CopyInv /\ SetInv /\ UpInv /\ DownInv /\ EndInv
  BY DEF CopyInv, SetInv, UpInv, DownInv, EndInv
<1> QED
  BY <1>1, <1>2, <1>3 DEF MemInv

LEMMA CallCopyKeeps ==
  ASSUME MemInv, NEW to \in Addr, NEW source \in Addr, NEW count \in 0 .. Size,
         NEW dma \in BOOLEAN, CallCopy(to, source, count, dma)
  PROVE  MemInv'
<1> USE Sizes
<1>1. UnitFor(to, source) \in Units /\ Aligned(UnitFor(to, source), to, source)
  BY UnitIs
<1>2. mem \in [Addr -> Values] /\ mem = want /\ busy \in 0 .. MaxCount
  BY DEF MemInv, TypeOK, EndInv, CallCopy
<1>3. /\ to + count <= Size /\ source + count <= Size
      /\ to + count <= source \/ source + count <= to
      /\ d' = to /\ s' = source /\ n' = count /\ at' = to /\ from' = source
      /\ left' = count /\ mem' = mem /\ unit' = UnitFor(to, source)
  BY DEF CallCopy
<1>4. want' = [a \in Addr |-> IF to <= a /\ a < to + count
                              THEN mem[source + (a - to)] ELSE mem[a]]
  BY DEF CallCopy
<1>5. \A a \in Addr : to <= a /\ a < to + count => source + (a - to) \in Addr
  BY <1>3
<1>6. want' \in [Addr -> Values]
  BY <1>2, <1>4, <1>5
<1>7. op' \in {"copy", "dma", "done"}
  BY DEF CallCopy
<1>8. op' = "dma" => count # 0
  BY DEF CallCopy
<1>9. op' = "done" => count = 0
  BY DEF CallCopy
<1>10. TypeOK'
  <2>1. d' \in Nat /\ s' \in Nat /\ n' \in Nat /\ at' \in Nat /\ from' \in Nat /\ left' \in Nat
    BY <1>3
  <2>2. ch' \in Values /\ busy' \in 0 .. MaxCount /\ i' \in Nat
    BY DEF CallCopy, MemInv, TypeOK
  <2>3. unit' \in Units
    BY <1>1, <1>3
  <2> QED
    BY <1>2, <1>3, <1>6, <1>7, <2>1, <2>2, <2>3 DEF TypeOK
<1>11. ArgsInv'
  BY <1>2, <1>3, <1>4 DEF ArgsInv
<1>12. CopyInv'
  <2>1. \A a \in Addr : to <= a /\ a < to + count => want'[a] = want'[source + (a - to)]
    <3> SUFFICES ASSUME NEW a \in Addr, to <= a, a < to + count
                 PROVE  want'[a] = want'[source + (a - to)]
      OBVIOUS
    <3> DEFINE b == source + (a - to)
    <3>1. b \in Addr /\ ~(to <= b /\ b < to + count)
      BY <1>3
    <3>2. want'[a] = mem[b]
      BY <1>4
    <3> HIDE DEF b
    <3>3. want'[b] = mem[b]
      BY <1>4, <3>1
    <3> QED
      BY <3>2, <3>3 DEF b
  <2>2. Right(to, at + Moved)'
    BY <1>3, <1>7 DEF Right, Moved
  <2>3. op' = "copy" => Aligned(unit, at, from)'
    BY <1>1, <1>3 DEF Aligned
  <2> QED
    BY <1>3, <1>7, <1>8, <2>1, <2>2, <2>3 DEF CopyInv
<1>13. EndInv'
  <2>1. count = 0 => want' = mem
    BY <1>2, <1>4
  <2> QED
    BY <1>3, <1>7, <1>9, <2>1 DEF EndInv
<1>14. SetInv' /\ UpInv' /\ DownInv'
  BY <1>7 DEF SetInv, UpInv, DownInv
<1> QED
  BY <1>10, <1>11, <1>12, <1>13, <1>14 DEF MemInv

(* The copy loops: k bytes are moved, k at most what is left.               *)
LEMMA MoveKeeps ==
  ASSUME MemInv, op = "copy", NEW k \in Nat \ {0}, k <= left, Move(k),
         UNCHANGED <<args, op, i, unit, busy>>,
         left - k >= unit => Aligned(unit, at + k, from + k)
  PROVE  MemInv'
<1> USE Sizes
<1>1. TypeOK /\ ArgsInv /\ CopyInv
  BY DEF MemInv
<1>2. /\ d \in Nat /\ s \in Nat /\ n \in Nat /\ left \in Nat
      /\ mem \in [Addr -> Values] /\ want \in [Addr -> Values]
  BY <1>1 DEF TypeOK
<1>3. /\ d + n <= Size /\ s + n <= Size
      /\ d + n <= s \/ s + n <= d
      /\ left <= n /\ at = d + (n - left) /\ from = s + (n - left)
      /\ \A a \in Addr : d <= a /\ a < d + n => want[a] = want[s + (a - d)]
  BY <1>1 DEF ArgsInv, CopyInv
<1>4. /\ at' = at + k /\ from' = from + k /\ left' = left - k
      /\ mem' = [a \in Addr |-> IF at <= a /\ a < at + k THEN mem[from + (a - at)] ELSE mem[a]]
      /\ d' = d /\ s' = s /\ n' = n /\ ch' = ch /\ want' = want
      /\ op' = "copy" /\ i' = i /\ unit' = unit /\ busy' = busy
  BY DEF Move, args
<1>5. /\ at \in Nat /\ from \in Nat /\ at + k <= d + n /\ from + k <= s + n /\ d <= at /\ s <= from
      /\ at' \in Nat /\ from' \in Nat /\ left' \in Nat /\ left' <= n'
      /\ at' = d + (n - left') /\ from' = s + (n - left')
  BY <1>2, <1>3, <1>4
<1>6. ASSUME NEW a \in Addr, at <= a, a < at + k
      PROVE  from + (a - at) \in Addr /\ mem[from + (a - at)] = want[a]
  <2> DEFINE b == from + (a - at)
  <2>1. /\ b \in Addr /\ ~(d <= b /\ b < d + n) /\ b = s + (a - d)
        /\ d <= a /\ a < d + n
    BY <1>2, <1>3, <1>5, <1>6
  <2>2. want[a] = want[s + (a - d)]
    BY <1>3, <2>1
  <2>3. want[a] = want[b]
    BY <2>1, <2>2
  <2>4. mem[b] = want[b]
    BY <1>1, <2>1 DEF ArgsInv
  <2> QED
    BY <2>1, <2>3, <2>4
<1>7. mem' \in [Addr -> Values]
  BY <1>2, <1>4, <1>6
<1>8. \A a \in Addr : mem'[a] = IF at <= a /\ a < at + k THEN want[a] ELSE mem[a]
  BY <1>4, <1>6
<1>9. TypeOK'
  BY <1>1, <1>2, <1>4, <1>5, <1>7 DEF TypeOK
<1>10. ArgsInv'
  BY <1>1, <1>2, <1>3, <1>4, <1>5, <1>8 DEF ArgsInv
<1>11. CopyInv'
  <2>1. Right(d, at)
    BY <1>1, <1>2, <1>3 DEF CopyInv, Moved
  <2>2. \A a \in Addr : d <= a /\ a < at + k => mem'[a] = want[a]
    BY <1>2, <1>5, <1>8, <2>1 DEF Right
  <2>3. Right(d, at + Moved)'
    BY <1>2, <1>4, <1>5, <2>2 DEF Right, Moved
  <2>4. (left >= unit => Aligned(unit, at, from))'
    BY <1>4 DEF Aligned
  <2> QED
    BY <1>3, <1>4, <1>5, <2>3, <2>4 DEF CopyInv
<1>12. SetInv' /\ UpInv' /\ DownInv' /\ EndInv'
  BY <1>4 DEF SetInv, UpInv, DownInv, EndInv
<1> QED
  BY <1>9, <1>10, <1>11, <1>12 DEF MemInv

LEMMA CopyKeeps ==
  ASSUME MemInv, CopyFour \/ CopyOne \/ CopyByte
  PROVE  MemInv'
<1> USE Sizes
<1>1. unit \in Nat \ {0} /\ left \in Nat /\ at \in Nat /\ from \in Nat /\ op = "copy"
  BY DEF MemInv, TypeOK, CopyFour, CopyOne, CopyByte
<1>2. ASSUME NEW j \in {1, 4}, left >= unit * j
      PROVE  Aligned(unit, at + unit * j, from + unit * j)
  <2>1. at % unit = 0 /\ from % unit = 0
    <3>1. left >= unit
      BY <1>1, <1>2
    <3> QED
      BY <1>1, <3>1 DEF MemInv, CopyInv, Aligned
  <2>2. at \in Int /\ from \in Int /\ j \in Int
    BY <1>1
  <2>3. (at + unit * j) % unit = 0 /\ (from + unit * j) % unit = 0
    BY <1>1, <2>1, <2>2, ModShift
  <2> QED
    BY <2>3 DEF Aligned
<1>3. CASE CopyFour
  <2>1. left >= 4 * unit /\ Move(4 * unit) /\ UNCHANGED <<args, op, i, unit, busy>>
    BY <1>3 DEF CopyFour
  <2>2. 4 * unit \in Nat \ {0} /\ unit * 4 = 4 * unit
    BY <1>1
  <2>3. Aligned(unit, at + 4 * unit, from + 4 * unit)
    BY <1>2, <2>1, <2>2
  <2> QED
    BY <1>1, <2>1, <2>2, <2>3, MoveKeeps
<1>4. CASE CopyOne
  <2>1. left >= unit /\ Move(unit) /\ UNCHANGED <<args, op, i, unit, busy>>
    BY <1>1, <1>4 DEF CopyOne
  <2>2. unit * 1 = unit
    BY <1>1
  <2>3. Aligned(unit, at + unit, from + unit)
    BY <1>2, <2>1, <2>2
  <2> QED
    BY <1>1, <2>1, <2>3, MoveKeeps
<1>5. CASE CopyByte
  <2>1. 1 <= left /\ left < unit /\ Move(1) /\ UNCHANGED <<args, op, i, unit, busy>>
    BY <1>1, <1>5 DEF CopyByte
  <2>2. ~(left - 1 >= unit)
    BY <1>1, <2>1
  <2> QED
    BY <1>1, <2>1, <2>2, MoveKeeps
<1> QED
  BY <1>3, <1>4, <1>5

(* At the end of each function the target is all right, and the rest was    *)
(* never wrong.                                                             *)
LEMMA AllRight ==
  ASSUME TypeOK, ArgsInv, NEW x, NEW y, Right(x, y), x = d, y = d + n
  PROVE  mem = want
<1>1. \A a \in Addr : mem[a] = want[a]
  BY Sizes DEF ArgsInv, Right, TypeOK
<1> QED
  BY <1>1 DEF TypeOK

LEMMA EndKeeps ==
  ASSUME MemInv, CopyEnd \/ SetEnd
  PROVE  MemInv'
<1> USE Sizes
<1>1. TypeOK /\ ArgsInv /\ CopyInv /\ UpInv /\ op \in {"copy", "tail"} /\ left = 0
  BY DEF MemInv, CopyEnd, SetEnd
<1>2. op' = "done" /\ UNCHANGED <<mem, args, at, from, left, i, unit, busy>>
  BY DEF CopyEnd, SetEnd
<1>3. at = d + n
  BY <1>1 DEF TypeOK, CopyInv, UpInv
<1>4. Right(d, at)
  BY <1>1 DEF TypeOK, CopyInv, UpInv, Moved
<1>5. mem = want
  BY <1>1, <1>3, <1>4, AllRight
<1>6. TypeOK' /\ ArgsInv'
  BY <1>1, <1>2 DEF TypeOK, ArgsInv, args
<1>7. CopyInv' /\ SetInv' /\ UpInv' /\ DownInv' /\ EndInv'
  BY <1>2, <1>5 DEF CopyInv, SetInv, UpInv, DownInv, EndInv, args
<1> QED
  BY <1>6, <1>7 DEF MemInv
-----------------------------------------------------------------------------
(* The DMA controller: what a transfer has moved is right as well.          *)
LEMMA DmaStartKeeps ==
  ASSUME MemInv, DmaStart
  PROVE  MemInv'
<1> USE Sizes
<1>1. TypeOK /\ ArgsInv /\ CopyInv /\ op = "dma"
  BY DEF MemInv, DmaStart
<1>2. /\ op' = "moving" /\ UNCHANGED <<mem, args, at, from, left, unit>>
      /\ i' = IF left > MaxCount THEN MaxCount ELSE left
      /\ busy' = IF i' = 0 THEN MaxCount + 1 ELSE i'
  BY DEF DmaStart
<1>3. left \in Nat /\ left > 0
  BY <1>1 DEF TypeOK, CopyInv
<1>4. i' \in 1 .. MaxCount /\ i' <= left /\ busy' = i'
  BY <1>2, <1>3
<1>5. TypeOK' /\ ArgsInv'
  BY <1>1, <1>2, <1>4 DEF TypeOK, ArgsInv, args
<1>6. Right(d, at)
  BY <1>1 DEF CopyInv, Moved, TypeOK
<1>7. CopyInv'
  <2>1. at' + Moved' = at
    BY <1>1, <1>2, <1>4 DEF Moved, TypeOK
  <2>2. Right(d, at + Moved)'
    BY <1>2, <1>6, <2>1 DEF Right, args
  <2> QED
    BY <1>1, <1>2, <1>4, <2>2 DEF CopyInv, args, TypeOK
<1>8. SetInv' /\ UpInv' /\ DownInv' /\ EndInv'
  BY <1>2 DEF SetInv, UpInv, DownInv, EndInv
<1> QED
  BY <1>5, <1>7, <1>8 DEF MemInv

LEMMA DmaByteKeeps ==
  ASSUME MemInv, DmaByte
  PROVE  MemInv'
<1> USE Sizes
<1>1. TypeOK /\ ArgsInv /\ CopyInv /\ op = "moving" /\ busy > 0
  BY DEF MemInv, DmaByte
<1>2. /\ d \in Nat /\ s \in Nat /\ n \in Nat /\ left \in Nat
      /\ mem \in [Addr -> Values] /\ want \in [Addr -> Values]
      /\ i \in Nat /\ busy \in 1 .. MaxCount
  BY <1>1 DEF TypeOK
<1>3. /\ d + n <= Size /\ s + n <= Size
      /\ d + n <= s \/ s + n <= d
      /\ left <= n /\ at = d + (n - left) /\ from = s + (n - left)
      /\ \A a \in Addr : d <= a /\ a < d + n => want[a] = want[s + (a - d)]
      /\ i \in 1 .. MaxCount /\ i <= left /\ busy <= i
      /\ Right(d, at + (i - busy))
  BY <1>1 DEF ArgsInv, CopyInv, Moved
<1> DEFINE k == i - busy
           x == at + k
           y == from + k
<1>4. /\ mem' = [a \in Addr |-> IF a = x THEN mem[y] ELSE mem[a]]
      /\ busy' = busy - 1 /\ op' = "moving"
      /\ d' = d /\ s' = s /\ n' = n /\ ch' = ch /\ want' = want
      /\ at' = at /\ from' = from /\ left' = left /\ i' = i /\ unit' = unit
  BY <1>1 DEF DmaByte, args
<1>5. /\ k \in Nat /\ x \in Addr /\ y \in Addr /\ d <= x /\ x < d + n
      /\ y = s + (x - d) /\ ~(d <= y /\ y < d + n)
  BY <1>2, <1>3
<1>6. Right(d, x)
  BY <1>3
<1>7. x' = x + 1 /\ k' = k + 1
  BY <1>2, <1>3, <1>4
<1>8. (at + Moved)' = x + 1
  BY <1>4, <1>7 DEF Moved
<1> HIDE DEF k, x, y
<1>9. mem[y] = want[x]
  <2>1. want[x] = want[s + (x - d)]
    BY <1>3, <1>5
  <2>2. mem[y] = want[y]
    BY <1>1, <1>5 DEF ArgsInv
  <2> QED
    BY <1>5, <2>1, <2>2
<1>10. \A a \in Addr : mem'[a] = IF a = x THEN want[x] ELSE mem[a]
  BY <1>4, <1>9
<1>11. TypeOK'
  <2>1. mem' \in [Addr -> Values]
    BY <1>2, <1>4, <1>5
  <2> QED
    BY <1>1, <1>2, <1>4, <2>1 DEF TypeOK
<1>12. ArgsInv'
  BY <1>1, <1>4, <1>5, <1>10 DEF ArgsInv
<1>13. CopyInv'
  <2>1. \A a \in Addr : d <= a /\ a < x + 1 => mem'[a] = want[a]
    BY <1>2, <1>5, <1>6, <1>10 DEF Right
  <2>2. Right(d, at + Moved)'
    BY <1>4, <1>8, <2>1 DEF Right
  <2>3. busy' <= i'
    BY <1>2, <1>3, <1>4
  <2> QED
    BY <1>3, <1>4, <2>2, <2>3 DEF CopyInv
<1>14. SetInv' /\ UpInv' /\ DownInv' /\ EndInv'
  BY <1>4 DEF SetInv, UpInv, DownInv, EndInv
<1> QED
  BY <1>11, <1>12, <1>13, <1>14 DEF MemInv

LEMMA DmaDoneKeeps ==
  ASSUME MemInv, DmaDone
  PROVE  MemInv'
<1> USE Sizes
<1>1. TypeOK /\ ArgsInv /\ CopyInv /\ op = "moving" /\ busy = 0
  BY DEF MemInv, DmaDone
<1>2. /\ d \in Nat /\ s \in Nat /\ n \in Nat /\ left \in Nat /\ i \in Nat
      /\ left <= n /\ at = d + (n - left) /\ from = s + (n - left)
      /\ i \in 1 .. MaxCount /\ i <= left
  BY <1>1 DEF CopyInv, TypeOK
<1>3. /\ left' = left - i /\ at' = at + i /\ from' = from + i
      /\ op' = IF left - i = 0 THEN "done" ELSE "dma"
      /\ UNCHANGED <<mem, args, i, unit, busy>>
  BY DEF DmaDone
<1>4. /\ left' \in Nat /\ left' <= n /\ at' = d + (n - left') /\ from' = s + (n - left')
      /\ at' \in Nat /\ from' \in Nat
      /\ op' = "dma" => left' > 0
  BY <1>2, <1>3
<1>5. Right(d, at + i)
  BY <1>1, <1>2 DEF CopyInv, Moved
<1>6. TypeOK' /\ ArgsInv'
  BY <1>1, <1>2, <1>3, <1>4 DEF TypeOK, ArgsInv, args
<1>7. CopyInv'
  <2>1. op' = "dma" => Right(d, at + Moved)'
    BY <1>3, <1>4, <1>5 DEF Right, Moved, args
  <2> QED
    BY <1>1, <1>3, <1>4, <2>1 DEF CopyInv, args
<1>8. EndInv'
  <2>1. left - i = 0 => at + i = d + n
    BY <1>2
  <2>2. left - i = 0 => mem = want
    BY <1>1, <1>5, <2>1, AllRight
  <2> QED
    BY <1>3, <2>2 DEF EndInv, args
<1>9. SetInv' /\ UpInv' /\ DownInv'
  BY <1>3 DEF SetInv, UpInv, DownInv
<1> QED
  BY <1>6, <1>7, <1>8, <1>9 DEF MemInv
-----------------------------------------------------------------------------
(* memset from the start. *)
LEMMA BeforeIs ==
  ASSUME NEW x \in Nat
  PROVE  BytesBefore(x) \in 0 .. Loop - 1 /\ (x + BytesBefore(x)) % Loop = 0
<1>1. Loop \in Nat \ {0} /\ x \in Int
  BY Sizes
<1> DEFINE r0 == x % Loop
           q == x \div Loop
<1>2. x = Loop * q + r0 /\ q \in Int /\ r0 \in 0 .. Loop - 1
  BY <1>1, DivMod
<1> HIDE DEF r0, q
<1>3. BytesBefore(x) = IF r0 = 0 THEN 0 ELSE Loop - r0
  BY DEF BytesBefore, r0
<1>4. CASE r0 = 0
  <2>1. x + BytesBefore(x) = Loop * q
    BY <1>1, <1>2, <1>3, <1>4
  <2> QED
    BY <1>1, <1>2, <1>3, <1>4, <2>1, ModOf
<1>5. CASE r0 # 0
  <2>1. x + BytesBefore(x) = Loop * (q + 1)
    BY <1>1, <1>2, <1>3, <1>5
  <2>2. q + 1 \in Int
    BY <1>2
  <2> QED
    BY <1>1, <1>2, <1>3, <1>5, <2>1, <2>2, ModOf
<1> QED
  BY <1>4, <1>5

LEMMA CallSetKeeps ==
  ASSUME MemInv, NEW to \in Addr, NEW count \in 0 .. Size, CallSet(to, count)
  PROVE  MemInv'
<1> USE Sizes
<1>1. TypeOK /\ mem = want
  BY DEF MemInv, EndInv, CallSet
<1>2. /\ to + count <= Size
      /\ d' = to /\ s' = to /\ n' = count /\ at' = to /\ from' = to
      /\ want' = [a \in Addr |-> IF to <= a /\ a < to + count THEN ch ELSE mem[a]]
      /\ mem' = mem /\ ch' = ch /\ unit' = unit /\ busy' = busy
  BY DEF CallSet
<1> DEFINE b == BytesBefore(to)
<1>3. b \in 0 .. Loop - 1 /\ (to + b) % Loop = 0
  BY BeforeIs
<1>4. \/ op' = "head" /\ i' = b /\ left' = count - b /\ count > 2 * Loop
      \/ op' = "tail" /\ i' = 0 /\ left' = count
  BY DEF CallSet, IsLong
<1> HIDE DEF b
<1>5. left' \in Nat /\ i' \in Nat
  BY <1>3, <1>4
<1>6. \A a \in Addr : want'[a] = IF to <= a /\ a < to + count THEN ch ELSE mem[a]
  BY <1>2
<1>7. TypeOK'
  <2>1. want' \in [Addr -> Values]
    BY <1>1, <1>2 DEF TypeOK
  <2> QED
    BY <1>1, <1>2, <1>4, <1>5, <2>1 DEF TypeOK
<1>8. ArgsInv' /\ SetInv'
  BY <1>2, <1>6 DEF ArgsInv, SetInv
<1>9. UpInv'
  <2>1. Right(d, at)'
    BY <1>2 DEF Right
  <2>2. op' = "head" => at' + i' + left' = d' + n' /\ (at' + i') % Loop = 0 /\ left' >= Loop
    BY <1>2, <1>3, <1>4
  <2>3. op' = "tail" => at' + left' = d' + n'
    BY <1>2, <1>4
  <2>4. op' # "blocks" /\ d' <= at'
    BY <1>2, <1>4
  <2> QED
    BY <2>1, <2>2, <2>3, <2>4 DEF UpInv
<1>10. CopyInv' /\ DownInv' /\ EndInv'
  BY <1>4 DEF CopyInv, DownInv, EndInv
<1> QED
  BY <1>7, <1>8, <1>9, <1>10 DEF MemInv

(* k bytes from lo on are stored inside the target. *)
LEMMA FillRight ==
  ASSUME MemInv, op \in {"head", "blocks", "tail", "odd", "down", "rest"},
         NEW lo \in Int, NEW k \in Nat, Fill(lo, k), d <= lo, lo + k <= d + n,
         UNCHANGED args
  PROVE  /\ mem' \in [Addr -> Values]
         /\ ArgsInv'
         /\ \A a \in Addr : lo <= a /\ a < lo + k => mem'[a] = want[a]
         /\ \A a \in Addr : mem[a] = want[a] => mem'[a] = want[a]
<1> USE Sizes
<1>1. TypeOK /\ ArgsInv /\ SetInv
  BY DEF MemInv
<1>2. /\ mem' \in [Addr -> Values]
      /\ \A a \in Addr : mem'[a] = IF lo <= a /\ a < lo + k THEN ch ELSE mem[a]
  BY <1>1, FillStep
<1>3. d \in Nat /\ n \in Nat
  BY <1>1 DEF TypeOK
<1>4. \A a \in Addr : lo <= a /\ a < lo + k => want[a] = ch
  BY <1>1, <1>3 DEF SetInv
<1>5. \A a \in Addr : lo <= a /\ a < lo + k => d <= a /\ a < d + n
  BY <1>3
<1>6. \A a \in Addr : mem'[a] = IF lo <= a /\ a < lo + k THEN want[a] ELSE mem[a]
  BY <1>2, <1>4
<1>7. ArgsInv'
  BY <1>1, <1>5, <1>6 DEF ArgsInv, args
<1> QED
  BY <1>2, <1>6, <1>7

LEMMA SetHeadKeeps ==
  ASSUME MemInv, SetHead
  PROVE  MemInv'
<1> USE Sizes
<1>1. TypeOK /\ SetInv /\ UpInv /\ op = "head" /\ i > 0
  BY DEF MemInv, SetHead
<1>2. /\ at' = at + 1 /\ i' = i - 1 /\ Fill(at, 1)
      /\ UNCHANGED <<args, op, from, left, unit, busy>>
  BY DEF SetHead
<1>3. /\ at \in Nat /\ i \in Nat /\ left \in Nat /\ d \in Nat /\ n \in Nat
      /\ d <= at /\ Right(d, at) /\ at + i + left = d + n
      /\ (at + i) % Loop = 0 /\ left >= Loop
  BY <1>1 DEF TypeOK, UpInv
<1>4. d <= at /\ at + 1 <= d + n /\ at \in Int
  BY <1>1, <1>3
<1>5. /\ mem' \in [Addr -> Values] /\ ArgsInv'
      /\ \A a \in Addr : at <= a /\ a < at + 1 => mem'[a] = want[a]
      /\ \A a \in Addr : mem[a] = want[a] => mem'[a] = want[a]
  BY <1>1, <1>2, <1>4, FillRight
<1>6. TypeOK'
  BY <1>1, <1>2, <1>3, <1>5 DEF TypeOK, args
<1>7. UpInv'
  <2>1. Right(d, at)'
    BY <1>2, <1>3, <1>5 DEF Right, args
  <2>2. at' + i' = at + i
    BY <1>1, <1>2, <1>3
  <2>3. /\ d' <= at' /\ op' = "head" /\ (at' + i') + left' = d' + n'
        /\ (at' + i') % Loop = 0 /\ left' >= Loop
    BY <1>1, <1>2, <1>3, <2>2 DEF args
  <2> QED
    BY <2>1, <2>3 DEF UpInv
<1>8. SetInv' /\ CopyInv' /\ DownInv' /\ EndInv'
  BY <1>1, <1>2 DEF SetInv, CopyInv, DownInv, EndInv, args
<1> QED
  BY <1>5, <1>6, <1>7, <1>8 DEF MemInv

LEMMA CountBlocksKeeps ==
  ASSUME MemInv, CountBlocks
  PROVE  MemInv'
<1> USE Sizes
<1>1. TypeOK /\ ArgsInv /\ SetInv /\ UpInv /\ op = "head" /\ i = 0
  BY DEF MemInv, CountBlocks
<1>2. /\ op' = "blocks" /\ i' = left \div Loop /\ left' = left % Loop
      /\ UNCHANGED <<mem, args, at, from, unit, busy>>
  BY DEF CountBlocks
<1>3. /\ at \in Nat /\ left \in Nat /\ d \in Nat /\ n \in Nat
      /\ d <= at /\ Right(d, at) /\ at + i + left = d + n
      /\ (at + i) % Loop = 0 /\ left >= Loop
  BY <1>1 DEF TypeOK, UpInv
<1>4. left = Loop * (left \div Loop) + (left % Loop)
      /\ left \div Loop \in Int /\ left % Loop \in 0 .. Loop - 1
  BY <1>3, DivMod
<1>5. left = Loop * i' + left' /\ i' \in Int /\ left' \in 0 .. Loop - 1
  BY <1>2, <1>4
<1>6. i' >= 1
  <2>1. Loop <= Loop * i' + left'
    BY <1>3, <1>5
  <2> QED
    BY <1>5, <2>1, WholeBlock
<1>7. TypeOK' /\ ArgsInv'
  BY <1>1, <1>2, <1>5, <1>6 DEF TypeOK, ArgsInv, args
<1>8. UpInv'
  <2>1. at % Loop = 0
    <3>1. at + i = at
      BY <1>1, <1>3
    <3> QED
      BY <1>3, <3>1
  <2>2. at' + i' * Loop + left' = d' + n'
    BY <1>1, <1>2, <1>3, <1>5 DEF args
  <2>3. Right(d, at)'
    BY <1>2, <1>3 DEF Right, args
  <2> QED
    BY <1>2, <1>3, <1>6, <2>1, <2>2, <2>3 DEF UpInv, args
<1>9. SetInv' /\ CopyInv' /\ DownInv' /\ EndInv'
  BY <1>1, <1>2 DEF SetInv, CopyInv, DownInv, EndInv, args
<1> QED
  BY <1>7, <1>8, <1>9 DEF MemInv

LEMMA SetBlockKeeps ==
  ASSUME MemInv, SetBlock
  PROVE  MemInv'
<1> USE Sizes
<1>1. TypeOK /\ SetInv /\ UpInv /\ op = "blocks"
  BY DEF MemInv, SetBlock
<1>2. /\ Fill(at, Loop) /\ at' = at + Loop /\ i' = i - 1
      /\ op' = IF i - 1 = 0 THEN "tail" ELSE "blocks"
      /\ UNCHANGED <<args, from, left, unit, busy>>
  BY DEF SetBlock
<1>3. /\ at \in Nat /\ i \in Nat /\ left \in Nat /\ d \in Nat /\ n \in Nat
      /\ d <= at /\ Right(d, at) /\ at + i * Loop + left = d + n
      /\ at % Loop = 0 /\ i >= 1
  BY <1>1 DEF TypeOK, UpInv
<1>4. i * Loop = (i - 1) * Loop + Loop /\ (i - 1) * Loop >= 0 /\ (i - 1) * Loop \in Int
  BY <1>3
<1>5. at + Loop <= d + n /\ at \in Int /\ Loop \in Nat
  BY <1>3, <1>4
<1>6. /\ mem' \in [Addr -> Values] /\ ArgsInv'
      /\ \A a \in Addr : at <= a /\ a < at + Loop => mem'[a] = want[a]
      /\ \A a \in Addr : mem[a] = want[a] => mem'[a] = want[a]
  BY <1>1, <1>2, <1>3, <1>5, FillRight
<1>7. TypeOK'
  BY <1>1, <1>2, <1>3, <1>6 DEF TypeOK, args
<1>8. UpInv'
  <2>1. Right(d, at)'
    BY <1>2, <1>3, <1>6 DEF Right, args
  <2>2. (at + Loop) % Loop = 0
    BY <1>3, <1>5, ModNext
  <2>3. at' + i' * Loop + left' = d' + n'
    BY <1>2, <1>3, <1>4 DEF args
  <2>4. CASE i - 1 = 0
    <3>1. i' * Loop = 0 /\ op' = "tail" /\ d' <= at'
      BY <1>2, <1>3, <2>4 DEF args
    <3>2. at' + left' = d' + n'
      BY <1>2, <1>3, <2>3, <3>1 DEF args
    <3> QED
      BY <2>1, <3>1, <3>2 DEF UpInv
  <2>5. CASE i - 1 # 0
    <3>1. i' >= 1 /\ op' = "blocks" /\ d' <= at' /\ at' % Loop = 0
      BY <1>2, <1>3, <2>2, <2>5 DEF args
    <3> QED
      BY <2>1, <2>3, <3>1 DEF UpInv
  <2> QED
    BY <2>4, <2>5
<1>9. SetInv' /\ CopyInv' /\ DownInv' /\ EndInv'
  BY <1>1, <1>2 DEF SetInv, CopyInv, DownInv, EndInv, args
<1> QED
  BY <1>6, <1>7, <1>8, <1>9 DEF MemInv

LEMMA SetTailKeeps ==
  ASSUME MemInv, SetTail
  PROVE  MemInv'
<1> USE Sizes
<1>1. TypeOK /\ SetInv /\ UpInv /\ op = "tail" /\ left > 0
  BY DEF MemInv, SetTail
<1>2. /\ at' = at + 1 /\ left' = left - 1 /\ Fill(at, 1)
      /\ UNCHANGED <<args, op, from, i, unit, busy>>
  BY DEF SetTail
<1>3. /\ at \in Nat /\ left \in Nat /\ d \in Nat /\ n \in Nat
      /\ d <= at /\ Right(d, at) /\ at + left = d + n
  BY <1>1 DEF TypeOK, UpInv
<1>4. d <= at /\ at + 1 <= d + n /\ at \in Int
  BY <1>1, <1>3
<1>5. /\ mem' \in [Addr -> Values] /\ ArgsInv'
      /\ \A a \in Addr : at <= a /\ a < at + 1 => mem'[a] = want[a]
      /\ \A a \in Addr : mem[a] = want[a] => mem'[a] = want[a]
  BY <1>1, <1>2, <1>4, FillRight
<1>6. TypeOK'
  BY <1>1, <1>2, <1>3, <1>5 DEF TypeOK, args
<1>7. UpInv'
  <2>1. Right(d, at)'
    BY <1>2, <1>3, <1>5 DEF Right, args
  <2>2. d' <= at' /\ op' = "tail" /\ at' + left' = d' + n'
    BY <1>1, <1>2, <1>3 DEF args
  <2> QED
    BY <2>1, <2>2 DEF UpInv
<1>8. SetInv' /\ CopyInv' /\ DownInv' /\ EndInv'
  BY <1>1, <1>2 DEF SetInv, CopyInv, DownInv, EndInv, args
<1> QED
  BY <1>5, <1>6, <1>7, <1>8 DEF MemInv
-----------------------------------------------------------------------------
(* memset from the end. *)
LEMMA CallSetDownKeeps ==
  ASSUME MemInv, NEW to \in Addr, NEW count \in 0 .. Size, CallSetDown(to, count)
  PROVE  MemInv'
<1> USE Sizes
<1>1. TypeOK /\ mem = want
  BY DEF MemInv, EndInv, CallSetDown
<1>2. /\ to + count <= Size
      /\ d' = to /\ s' = to /\ n' = count /\ at' = to + count /\ from' = to
      /\ want' = [a \in Addr |-> IF to <= a /\ a < to + count THEN ch ELSE mem[a]]
      /\ left' = count /\ op' = IF IsLong(count) THEN "odd" ELSE "rest"
      /\ mem' = mem /\ ch' = ch /\ unit' = unit /\ busy' = busy /\ i' = i
  BY DEF CallSetDown
<1>3. \A a \in Addr : want'[a] = IF to <= a /\ a < to + count THEN ch ELSE mem[a]
  BY <1>2
<1>4. TypeOK'
  <2>1. want' \in [Addr -> Values]
    BY <1>1, <1>2 DEF TypeOK
  <2> QED
    BY <1>1, <1>2, <2>1 DEF TypeOK
<1>5. ArgsInv' /\ SetInv'
  BY <1>2, <1>3 DEF ArgsInv, SetInv
<1>6. DownInv'
  <2>1. Right(at, d + n)'
    BY <1>2 DEF Right
  <2>2. to + count \in Nat
    OBVIOUS
  <2>3. to + count - ((to + count) % Loop) <= to + count
    BY <2>2, ModFloor
  <2>4. op' = "odd" => count > 2 * Loop
    BY <1>2 DEF IsLong
  <2>5. op' # "down"
    BY <1>2
  <2> QED
    BY <1>2, <2>1, <2>3, <2>4, <2>5 DEF DownInv
<1>7. CopyInv' /\ UpInv' /\ EndInv'
  BY <1>2 DEF CopyInv, UpInv, EndInv
<1> QED
  BY <1>4, <1>5, <1>6, <1>7 DEF MemInv

LEMMA SetOddKeeps ==
  ASSUME MemInv, SetOdd
  PROVE  MemInv'
<1> USE Sizes
<1>1. TypeOK /\ ArgsInv /\ SetInv /\ DownInv /\ op = "odd"
  BY DEF MemInv, SetOdd
<1>2. UNCHANGED <<args, from, left, i, unit, busy>>
  BY DEF SetOdd
<1> DEFINE low == (d + n) - ((d + n) % Loop)
<1>3. /\ at \in Nat /\ d \in Nat /\ n \in Nat /\ d <= at /\ at <= d + n
      /\ Right(at, d + n) /\ at >= low /\ n > 2 * Loop
  BY <1>1 DEF TypeOK, DownInv
<1>4. low % Loop = 0 /\ low \in Nat /\ d + n < low + Loop
  <2>1. d + n \in Nat
    BY <1>3
  <2> QED
    BY <2>1, ModFloor
<1>5. low' = low
  BY <1>2 DEF args
<1>6. at > d + Loop
  <2> HIDE DEF low
  <2> QED
    BY <1>3, <1>4
<1>7. CASE at % Loop # 0
  <2>1. Fill(at - 1, 1) /\ at' = at - 1 /\ op' = "odd"
    BY <1>1, <1>7 DEF SetOdd
  <2>2. at # low
    BY <1>4, <1>7
  <2>3. at - 1 >= low /\ d <= at - 1 /\ (at - 1) + 1 <= d + n /\ at - 1 \in Int /\ at - 1 \in Nat
    <3> HIDE DEF low
    <3> QED
      BY <1>3, <1>4, <1>6, <2>2
  <2> HIDE DEF low
  <2>4. /\ mem' \in [Addr -> Values] /\ ArgsInv'
        /\ \A a \in Addr : at - 1 <= a /\ a < (at - 1) + 1 => mem'[a] = want[a]
        /\ \A a \in Addr : mem[a] = want[a] => mem'[a] = want[a]
    BY <1>1, <1>2, <2>1, <2>3, FillRight
  <2>5. TypeOK'
    BY <1>1, <1>2, <2>1, <2>3, <2>4 DEF TypeOK, args
  <2>6. DownInv'
    <3>1. Right(at, d + n)'
      BY <1>2, <1>3, <2>1, <2>4 DEF Right, args
    <3>2. at' >= low' /\ n' > 2 * Loop
      BY <1>2, <1>3, <1>5, <2>1, <2>3 DEF args
    <3>3. d' <= at' /\ at' <= d' + n'
      BY <1>2, <1>3, <2>1, <2>3 DEF args
    <3> QED
      BY <2>1, <3>1, <3>2, <3>3 DEF DownInv, low
  <2>7. SetInv' /\ CopyInv' /\ UpInv' /\ EndInv'
    BY <1>1, <1>2, <2>1 DEF SetInv, CopyInv, UpInv, EndInv, args
  <2> QED
    BY <2>4, <2>5, <2>6, <2>7 DEF MemInv
<1>8. CASE at % Loop = 0
  <2>1. op' = "down" /\ mem' = mem /\ at' = at
    BY <1>1, <1>8 DEF SetOdd
  <2> HIDE DEF low
  <2>2. TypeOK' /\ ArgsInv'
    BY <1>1, <1>2, <2>1 DEF TypeOK, ArgsInv, args
  <2>3. DownInv'
    <3>1. Right(at, d + n)'
      BY <1>2, <1>3, <2>1 DEF Right, args
    <3>2. Stop2 <= d /\ Stop2 \in Nat
      BY <1>3, ModFloor DEF Stop2
    <3>3. at >= Stop2 + Loop
      BY <1>3, <1>6, <3>2
    <3>4. at' % Loop = 0 /\ at' >= Stop2' + Loop
      BY <1>2, <1>8, <2>1, <3>3 DEF Stop2, args
    <3> QED
      BY <1>2, <1>3, <2>1, <3>1, <3>4 DEF DownInv, args
  <2>4. SetInv' /\ CopyInv' /\ UpInv' /\ EndInv'
    BY <1>1, <1>2, <2>1 DEF SetInv, CopyInv, UpInv, EndInv, args
  <2> QED
    BY <2>2, <2>3, <2>4 DEF MemInv
<1> QED
  BY <1>7, <1>8

LEMMA SetDownKeeps ==
  ASSUME MemInv, SetDown
  PROVE  MemInv'
<1> USE Sizes
<1>1. TypeOK /\ ArgsInv /\ SetInv /\ DownInv /\ op = "down"
  BY DEF MemInv, SetDown
<1>2. UNCHANGED <<args, from, left, i, unit, busy>>
  BY DEF SetDown
<1>3. /\ at \in Nat /\ d \in Nat /\ n \in Nat /\ d <= at /\ at <= d + n
      /\ Right(at, d + n) /\ at % Loop = 0 /\ at >= Stop2 + Loop
  BY <1>1 DEF TypeOK, DownInv
<1>4. Stop2 % Loop = 0 /\ Stop2 \in Nat /\ Stop2 <= d /\ d < Stop2 + Loop
  BY <1>3, ModFloor DEF Stop2
<1>5. Stop2' = Stop2
  BY <1>2 DEF Stop2, args
<1>6. CASE at - Loop # Stop2
  <2>1. Fill(at - Loop, Loop) /\ at' = at - Loop /\ op' = "down"
    BY <1>1, <1>6 DEF SetDown
  <2>2. (at - Loop) % Loop = 0 /\ at - Loop \in Int
    <3>1. at \in Int /\ at - Loop \in Int
      BY <1>3
    <3> QED
      BY <1>3, <3>1, ModNext
  <2>3. Stop2 < at - Loop
    BY <1>3, <1>4, <1>6
  <2>4. Stop2 + Loop <= at - Loop
    <3>1. Stop2 \in Int /\ at - Loop \in Int
      BY <1>4, <2>2
    <3> QED
      BY <1>4, <2>2, <2>3, <3>1, ModGap
  <2>5. d <= at - Loop /\ (at - Loop) + Loop <= d + n /\ at - Loop \in Nat /\ Loop \in Nat
    BY <1>3, <1>4, <2>4
  <2>6. /\ mem' \in [Addr -> Values] /\ ArgsInv'
        /\ \A a \in Addr : at - Loop <= a /\ a < (at - Loop) + Loop => mem'[a] = want[a]
        /\ \A a \in Addr : mem[a] = want[a] => mem'[a] = want[a]
    BY <1>1, <1>2, <2>1, <2>2, <2>5, FillRight
  <2>7. TypeOK'
    BY <1>1, <1>2, <2>1, <2>5, <2>6 DEF TypeOK, args
  <2>8. DownInv'
    <3>1. Right(at, d + n)'
      BY <1>2, <1>3, <2>1, <2>6 DEF Right, args
    <3>2. at' % Loop = 0 /\ at' >= Stop2' + Loop
      BY <1>5, <2>1, <2>2, <2>4
    <3>3. d' <= at' /\ at' <= d' + n'
      BY <1>2, <1>3, <2>1, <2>5 DEF args
    <3> QED
      BY <2>1, <3>1, <3>2, <3>3 DEF DownInv
  <2>9. SetInv' /\ CopyInv' /\ UpInv' /\ EndInv'
    BY <1>1, <1>2, <2>1 DEF SetInv, CopyInv, UpInv, EndInv, args
  <2> QED
    BY <2>6, <2>7, <2>8, <2>9 DEF MemInv
<1>7. CASE at - Loop = Stop2
  <2>1. op' = "rest" /\ mem' = mem /\ at' = at
    BY <1>1, <1>7 DEF SetDown
  <2>2. TypeOK' /\ ArgsInv'
    BY <1>1, <1>2, <2>1 DEF TypeOK, ArgsInv, args
  <2>3. DownInv'
    <3>1. Right(at, d + n)'
      BY <1>2, <1>3, <2>1 DEF Right, args
    <3> QED
      BY <1>2, <1>3, <2>1, <3>1 DEF DownInv, args
  <2>4. SetInv' /\ CopyInv' /\ UpInv' /\ EndInv'
    BY <1>1, <1>2, <2>1 DEF SetInv, CopyInv, UpInv, EndInv, args
  <2> QED
    BY <2>2, <2>3, <2>4 DEF MemInv
<1> QED
  BY <1>6, <1>7

LEMMA SetRestKeeps ==
  ASSUME MemInv, SetRest
  PROVE  MemInv'
<1> USE Sizes
<1>1. TypeOK /\ ArgsInv /\ SetInv /\ DownInv /\ op = "rest"
  BY DEF MemInv, SetRest
<1>2. UNCHANGED <<args, from, left, i, unit, busy>>
  BY DEF SetRest
<1>3. /\ at \in Nat /\ d \in Nat /\ n \in Nat /\ d <= at /\ at <= d + n
      /\ Right(at, d + n)
  BY <1>1 DEF TypeOK, DownInv
<1>4. CASE at - 1 # d - 1
  <2>1. Fill(at - 1, 1) /\ at' = at - 1 /\ op' = "rest"
    BY <1>1, <1>4 DEF SetRest
  <2>2. d <= at - 1 /\ (at - 1) + 1 <= d + n /\ at - 1 \in Nat /\ at - 1 \in Int
    BY <1>3, <1>4
  <2>3. /\ mem' \in [Addr -> Values] /\ ArgsInv'
        /\ \A a \in Addr : at - 1 <= a /\ a < (at - 1) + 1 => mem'[a] = want[a]
        /\ \A a \in Addr : mem[a] = want[a] => mem'[a] = want[a]
    BY <1>1, <1>2, <2>1, <2>2, FillRight
  <2>4. TypeOK'
    BY <1>1, <1>2, <2>1, <2>2, <2>3 DEF TypeOK, args
  <2>5. DownInv'
    <3>1. Right(at, d + n)'
      BY <1>2, <1>3, <2>1, <2>3 DEF Right, args
    <3>2. d' <= at' /\ at' <= d' + n'
      BY <1>2, <1>3, <2>1, <2>2 DEF args
    <3> QED
      BY <2>1, <3>1, <3>2 DEF DownInv
  <2>6. SetInv' /\ CopyInv' /\ UpInv' /\ EndInv'
    BY <1>1, <1>2, <2>1 DEF SetInv, CopyInv, UpInv, EndInv, args
  <2> QED
    BY <2>3, <2>4, <2>5, <2>6 DEF MemInv
<1>5. CASE at - 1 = d - 1
  <2>1. op' = "done" /\ mem' = mem /\ at' = at
    BY <1>1, <1>5 DEF SetRest
  <2>2. at = d
    BY <1>3, <1>5
  <2>3. mem = want
    BY <1>1, <1>3, <2>2, AllRight
  <2>4. TypeOK' /\ ArgsInv'
    BY <1>1, <1>2, <2>1 DEF TypeOK, ArgsInv, args
  <2>5. SetInv' /\ CopyInv' /\ UpInv' /\ DownInv' /\ EndInv'
    BY <1>2, <2>1, <2>3 DEF SetInv, CopyInv, UpInv, DownInv, EndInv, args
  <2> QED
    BY <2>4, <2>5 DEF MemInv
<1> QED
  BY <1>4, <1>5
-----------------------------------------------------------------------------
LEMMA NextKeeps == MemInv /\ [Next]_vars => MemInv'
<1> SUFFICES ASSUME MemInv, [Next]_vars PROVE MemInv'
  OBVIOUS
<1>1. ASSUME NEW to \in Addr, NEW source \in Addr, NEW count \in 0 .. Size,
             NEW dma \in BOOLEAN, CallCopy(to, source, count, dma)
      PROVE  MemInv'
  BY <1>1, CallCopyKeeps
<1>2. ASSUME NEW to \in Addr, NEW count \in 0 .. Size,
             CallSet(to, count) \/ CallSetDown(to, count)
      PROVE  MemInv'
  BY <1>2, CallSetKeeps, CallSetDownKeeps
<1>3. CASE Calls
  BY <1>1, <1>2, <1>3 DEF Calls
<1>4. CASE CopyFour \/ CopyOne \/ CopyByte
  BY <1>4, CopyKeeps
<1>5. CASE CopyEnd \/ SetEnd
  BY <1>5, EndKeeps
<1>6. CASE SetHead \/ CountBlocks \/ SetBlock \/ SetTail
  BY <1>6, SetHeadKeeps, CountBlocksKeeps, SetBlockKeeps, SetTailKeeps
<1>7. CASE SetOdd \/ SetDown \/ SetRest
  BY <1>7, SetOddKeeps, SetDownKeeps, SetRestKeeps
<1>8. CASE DmaStart \/ DmaByte \/ DmaDone
  BY <1>8, DmaStartKeeps, DmaByteKeeps, DmaDoneKeeps
<1>9. CASE UNCHANGED vars
  BY <1>9 DEF vars, args, MemInv, TypeOK, ArgsInv, CopyInv, SetInv, UpInv, DownInv,
              EndInv, Right, Moved, Aligned, Stop2
<1> QED
  BY <1>3, <1>4, <1>5, <1>6, <1>7, <1>8, <1>9 DEF Next

LEMMA MemInvariant == Spec => []MemInv
  BY MemInitInv, NextKeeps, PTL DEF Spec

(* No count of the block operations goes below zero, and the DMA controller *)
(* is never given a count of zero, which it takes for 65536 bytes.          *)
THEOREM MemOpsTypes == Spec => []TypeOK
<1>1. MemInv => TypeOK
  BY DEF MemInv
<1> QED
  BY <1>1, MemInvariant, PTL

(* memcpy, memset in both directions and the DMA copy leave exactly the     *)
(* memory they promise, for memories, types, block sizes and transfers of   *)
(* any size.                                                                *)
THEOREM MemOpsExact == Spec => []CallExact
<1>1. MemInv => CallExact
  <2> SUFFICES ASSUME MemInv PROVE CallExact
    OBVIOUS
  <2>1. \A a \in Addr : ~(d <= a /\ a < d + n) => mem[a] = want[a]
    BY DEF MemInv, ArgsInv
  <2>2. op = "done" => mem = want
    BY DEF MemInv, EndInv
  <2>3. op = "copy" /\ left >= unit => Aligned(unit, at, from)
    BY DEF MemInv, CopyInv
  <2>4. op \in {"blocks", "down"} => at % Loop = 0
    BY DEF MemInv, UpInv, DownInv
  <2> QED
    BY <2>1, <2>2, <2>3, <2>4 DEF CallExact
<1> QED
  BY <1>1, MemInvariant, PTL
-----------------------------------------------------------------------------
(* Decompression *)

LEMMA RingSize == DECODE_N \in Nat \ {0} /\ DECODE_F \in 1 .. DECODE_N /\ DECODE_THRESHOLD \in Nat
  BY UnzipAssumption

(* The byte number j of the output, 0 for the ones before its start.        *)
ByteOf(o, j) == IF j < 0 THEN 0 ELSE o[j + 1]
PlaceOf(j) == (DECODE_N - DECODE_F + j) % DECODE_N

(* The ring holds the last DECODE_N bytes of the output. *)
RingIs(g, o) ==
  \A j \in Int : Len(o) - DECODE_N <= j /\ j < Len(o) => RingAt(g, PlaceOf(j)) = ByteOf(o, j)

LEMMA AppendByte ==
  ASSUME NEW o \in Seq(Byte), NEW c \in Byte
  PROVE  /\ Append(o, c) \in Seq(Byte) /\ Len(o) \in Nat
         /\ Len(Append(o, c)) = Len(o) + 1
         /\ \A k \in 1 .. Len(o) : Append(o, c)[k] = o[k]
         /\ Append(o, c)[Len(o) + 1] = c
  BY AppendProperties, LenProperties

LEMMA PutKeeps ==
  ASSUME NEW prev, prev.o \in Seq(Byte), RingIs(prev.g, prev.o), NEW c \in Byte
  PROVE  /\ Put(prev, c).o = Append(prev.o, c)
         /\ RingIs(Put(prev, c).g, Append(prev.o, c))
<1> DEFINE o == prev.o
           g == prev.g
           h == Put(prev, c).g
           oo == Append(o, c)
           p == PlaceOf(Len(o))
<1>1. h = [q \in DOMAIN g \cup {p} |-> IF q = p THEN c ELSE g[q]]
  BY DEF Put, PlaceOf
<1>2. Put(prev, c).o = oo
  BY DEF Put
<1>3. \A q : RingAt(h, q) = IF q = p THEN c ELSE RingAt(g, q)
  <2> HIDE DEF h, g, p
  <2> QED
    BY <1>1 DEF RingAt
<1>4. /\ Len(o) \in Nat /\ Len(oo) = Len(o) + 1
      /\ \A k \in 1 .. Len(o) : oo[k] = o[k]
      /\ oo[Len(o) + 1] = c
  BY AppendByte
<1>5. RingIs(g, o)
  OBVIOUS
<1> HIDE DEF h, g, oo, o
<1>6. ASSUME NEW j \in Int, Len(oo) - DECODE_N <= j, j < Len(oo)
      PROVE  RingAt(h, PlaceOf(j)) = ByteOf(oo, j)
  <2>1. CASE j = Len(o)
    BY <1>3, <1>4, <2>1 DEF ByteOf
  <2>2. CASE j < Len(o)
    <3>1. Len(o) - DECODE_N <= j /\ Len(o) - j < DECODE_N
      BY <1>4, <1>6, RingSize
    <3>2. RingAt(g, PlaceOf(j)) = ByteOf(o, j)
      BY <1>5, <2>2, <3>1 DEF RingIs
    <3>3. PlaceOf(j) # p
      <4> DEFINE x == DECODE_N - DECODE_F + j
                 y == DECODE_N - DECODE_F + Len(o)
      <4>1. x \in Int /\ y \in Int /\ x < y /\ y - x < DECODE_N
        BY <1>4, <2>2, <3>1, RingSize
      <4> HIDE DEF x, y
      <4>2. x % DECODE_N # y % DECODE_N
        BY <4>1, RingSize, ModApart
      <4> QED
        BY <4>2 DEF PlaceOf, x, y
    <3>4. ByteOf(oo, j) = ByteOf(o, j)
      BY <1>4, <2>2 DEF ByteOf
    <3> QED
      BY <1>3, <3>2, <3>3, <3>4
  <2> QED
    BY <1>4, <1>6, <2>1, <2>2
<1>7. RingIs(h, oo)
  BY <1>6 DEF RingIs
<1> QED
  BY <1>2, <1>7 DEF o, oo, h
-----------------------------------------------------------------------------
(* The bytes of a match, as the recursive function defines them. *)
Before(f, start, k) ==
  IF start + k < 0 THEN 0
  ELSE IF start + k < Len(out) THEN out[start + k + 1]
  ELSE f[start + k - Len(out)]

Bytes(f, start, len) == \A k \in 0 .. len - 1 : f[k] = Before(f, start, k)

LEMMA BytesExist ==
  ASSUME out \in Seq(Byte), NEW start \in Int, start < Len(out), NEW len \in Nat
  PROVE  \E f : f = [k \in 0 .. len - 1 |-> Before(f, start, k)]
<1> DEFINE T == {m \in Nat : \E f : f = [k \in 0 .. m - 1 |-> Before(f, start, k)]}
<1>0. Len(out) \in Nat
  BY LenProperties
<1>1. 0 \in T
  <2> DEFINE f == [k \in 0 .. -1 |-> 0]
  <2>1. f = [k \in 0 .. 0 - 1 |-> Before(f, start, k)]
    <3>1. 0 .. -1 = {} /\ 0 - 1 = -1
      OBVIOUS
    <3> QED
      BY <3>1
  <2> HIDE DEF f
  <2> QED
    BY <2>1
<1>2. ASSUME NEW m \in T PROVE m + 1 \in T
  <2>1. m \in Nat
    OBVIOUS
  <2>2. PICK f : f = [k \in 0 .. m - 1 |-> Before(f, start, k)]
    OBVIOUS
  <2> DEFINE prev == Before(f, start, m)
             h == [k \in 0 .. m |-> IF k \in 0 .. m - 1 THEN f[k] ELSE prev]
  <2>3. ASSUME NEW k \in 0 .. m PROVE h[k] = Before(h, start, k)
    <3>1. h[k] = Before(f, start, k)
      <4>1. CASE k \in 0 .. m - 1
        BY <2>2, <4>1
      <4>2. CASE k = m
        BY <2>1, <4>2
      <4> QED
        BY <2>1, <4>1, <4>2
    <3>2. start + k >= Len(out) => start + k - Len(out) \in 0 .. m - 1
      BY <1>0, <2>1
    <3>3. start + k >= Len(out) => h[start + k - Len(out)] = f[start + k - Len(out)]
      BY <2>1, <3>2
    <3> HIDE DEF h
    <3>4. Before(f, start, k) = Before(h, start, k)
      BY <1>0, <2>1, <3>3 DEF Before
    <3> QED
      BY <3>1, <3>4
  <2>4. h = [k \in 0 .. (m + 1) - 1 |-> Before(h, start, k)]
    <3>1. 0 .. (m + 1) - 1 = 0 .. m
      BY <2>1
    <3>2. h = [k \in 0 .. m |-> h[k]]
      OBVIOUS
    <3> HIDE DEF h
    <3> QED
      BY <2>3, <3>1, <3>2
  <2> HIDE DEF h
  <2> QED
    BY <2>1, <2>4
<1>3. T = Nat
  <2>1. T \in SUBSET Nat
    OBVIOUS
  <2> HIDE DEF T
  <2> QED
    BY <1>1, <1>2, <2>1, SetInduction
<1>4. len \in T
  BY <1>3
<1> QED
  BY <1>4

LEMMA MatchIs ==
  ASSUME out \in Seq(Byte), NEW start \in Int, start < Len(out), NEW len \in Nat
  PROVE  \E f : Bytes(f, start, len) /\ Match(start, len) = [k \in 1 .. len |-> f[k - 1]]
<1> DEFINE Eq(f) == f = [k \in 0 .. len - 1 |-> Before(f, start, k)]
           byte == CHOOSE f : Eq(f)
<1>1. \E f : Eq(f)
  BY BytesExist
<1>2. Eq(byte)
  <2> HIDE DEF Eq
  <2> QED
    BY <1>1
<1>3. Match(start, len) = [k \in 1 .. len |-> byte[k - 1]]
  BY Zenon DEF Match, Before
<1>4. Bytes(byte, start, len)
  <2> HIDE DEF byte
  <2> QED
    BY <1>2 DEF Bytes
<1> QED
  BY <1>3, <1>4

LEMMA BytesAre ==
  ASSUME out \in Seq(Byte), NEW start \in Int, start < Len(out), NEW len \in Nat,
         NEW f, Bytes(f, start, len)
  PROVE  \A k \in 0 .. len - 1 : f[k] \in Byte
<1> DEFINE T == {m \in Nat : \A k \in 0 .. len - 1 : k < m => f[k] \in Byte}
<1>0. Len(out) \in Nat /\ \A j \in 1 .. Len(out) : out[j] \in Byte
  BY LenProperties, ElementOfSeq
<1>1. 0 \in T
  OBVIOUS
<1>2. ASSUME NEW m \in T PROVE m + 1 \in T
  <2>1. ASSUME NEW k \in 0 .. len - 1, k = m PROVE f[k] \in Byte
    <3>1. f[k] = Before(f, start, k)
      BY DEF Bytes
    <3>2. CASE start + k < 0
      BY <3>1, <3>2 DEF Before, Byte
    <3>3. CASE start + k >= 0 /\ start + k < Len(out)
      <4>1. start + k + 1 \in 1 .. Len(out)
        BY <1>0, <3>3
      <4> QED
        BY <1>0, <3>1, <3>3, <4>1 DEF Before
    <3>4. CASE start + k >= Len(out)
      <4>1. start + k - Len(out) \in 0 .. len - 1 /\ start + k - Len(out) < m
        BY <1>0, <2>1, <3>4
      <4>2. f[k] = f[start + k - Len(out)]
        BY <1>0, <3>1, <3>4 DEF Before
      <4> QED
        BY <4>1, <4>2
    <3> QED
      BY <1>0, <3>2, <3>3, <3>4
  <2> QED
    BY <2>1
<1>3. T = Nat
  <2>1. T \in SUBSET Nat
    OBVIOUS
  <2> HIDE DEF T
  <2> QED
    BY <1>1, <1>2, <2>1, SetInduction
<1>4. len \in T
  BY <1>3
<1> QED
  BY <1>4
-----------------------------------------------------------------------------
(* The reference copies byte by byte. *)
Copied(f, patoff, k) ==
  IF k = 0 THEN [g |-> ring, o |-> ref]
  ELSE Put(f[k - 1], RingAt(f[k - 1].g, (patoff + k - 1) % DECODE_N))

LEMMA CopiesExist ==
  ASSUME NEW patoff \in Nat, NEW len \in Nat
  PROVE  \E f : f = [k \in 0 .. len |-> Copied(f, patoff, k)]
<1> DEFINE T == {m \in Nat : \E f : f = [k \in 0 .. m |-> Copied(f, patoff, k)]}
<1>1. 0 \in T
  <2> DEFINE f == [k \in 0 .. 0 |-> [g |-> ring, o |-> ref]]
  <2>1. \A k \in 0 .. 0 : f[k] = Copied(f, patoff, k)
    BY DEF Copied
  <2>2. f = [k \in 0 .. 0 |-> f[k]]
    OBVIOUS
  <2> HIDE DEF f
  <2>3. f = [k \in 0 .. 0 |-> Copied(f, patoff, k)]
    BY <2>1, <2>2
  <2> QED
    BY <2>3
<1>2. ASSUME NEW m \in T PROVE m + 1 \in T
  <2>1. m \in Nat
    OBVIOUS
  <2>2. PICK f : f = [k \in 0 .. m |-> Copied(f, patoff, k)]
    OBVIOUS
  <2> DEFINE prev == Copied(f, patoff, m + 1)
             h == [k \in 0 .. m + 1 |-> IF k \in 0 .. m THEN f[k] ELSE prev]
  <2>3. ASSUME NEW k \in 0 .. m + 1 PROVE h[k] = Copied(h, patoff, k)
    <3>1. h[k] = Copied(f, patoff, k)
      <4>1. CASE k \in 0 .. m
        BY <2>2, <4>1
      <4>2. CASE k = m + 1
        BY <2>1, <4>2
      <4> QED
        BY <2>1, <4>1, <4>2
    <3>2. k # 0 => k - 1 \in 0 .. m
      BY <2>1
    <3>3. k # 0 => h[k - 1] = f[k - 1]
      BY <2>1, <3>2
    <3> HIDE DEF h
    <3>4. Copied(f, patoff, k) = Copied(h, patoff, k)
      BY <3>3 DEF Copied
    <3> QED
      BY <3>1, <3>4
  <2>4. h = [k \in 0 .. m + 1 |-> Copied(h, patoff, k)]
    <3>1. h = [k \in 0 .. m + 1 |-> h[k]]
      OBVIOUS
    <3> HIDE DEF h
    <3> QED
      BY <2>3, <3>1
  <2> HIDE DEF h
  <2> QED
    BY <2>1, <2>4
<1>3. T = Nat
  <2>1. T \in SUBSET Nat
    OBVIOUS
  <2> HIDE DEF T
  <2> QED
    BY <1>1, <1>2, <2>1, SetInduction
<1>4. len \in T
  BY <1>3
<1> QED
  BY <1>4

LEMMA CopyIs ==
  ASSUME NEW patoff \in Nat, NEW len \in Nat
  PROVE  \E f : /\ \A k \in 0 .. len : f[k] = Copied(f, patoff, k)
                /\ RingCopy(patoff, len) = f[len]
<1> DEFINE Eq(f) == f = [k \in 0 .. len |-> Copied(f, patoff, k)]
           step == CHOOSE f : Eq(f)
<1>1. \E f : Eq(f)
  BY CopiesExist
<1>2. Eq(step)
  <2> HIDE DEF Eq
  <2> QED
    BY <1>1
<1>3. RingCopy(patoff, len) = step[len]
  BY Zenon DEF RingCopy, Copied
<1>4. \A k \in 0 .. len : step[k] = Copied(step, patoff, k)
  <2> HIDE DEF step
  <2> QED
    BY <1>2
<1> QED
  BY <1>3, <1>4
-----------------------------------------------------------------------------
(* A match of the decoder without the ring is the one of the decoder with   *)
(* it, when the two agreed before.                                          *)
Agree == out \in Seq(Byte) /\ ref = out /\ r = PlaceOf(Len(out)) /\ RingIs(ring, ref)

LEMMA WrapArith ==
  ASSUME NEW N \in Int, NEW F \in Int, NEW L \in Int, NEW r0 \in Int, NEW p \in Int,
         NEW k \in Int, NEW q \in Int, NEW e \in Int, N - F + L = N * q + r0
  PROVE  N - F + ((L - (r0 - p) - N * e) + k) = (p + k) + N * (q - e)
<1>1. N * (q - e) = N * q - N * e /\ N * q \in Int /\ N * e \in Int
  OBVIOUS
<1> QED
  BY <1>1

LEMMA PatternIs ==
  ASSUME out \in Seq(Byte), r = PlaceOf(Len(out)), NEW patoff \in 0 .. DECODE_N - 1
  PROVE  /\ Pattern(patoff) \in Int /\ Pattern(patoff) < Len(out)
         /\ Len(out) - DECODE_N <= Pattern(patoff)
         /\ \A k \in Int : PlaceOf(Pattern(patoff) + k) = (patoff + k) % DECODE_N
<1> USE RingSize
<1>1. Len(out) \in Nat
  BY LenProperties
<1> DEFINE x == DECODE_N - DECODE_F + Len(out)
           q == x \div DECODE_N
           e == IF r <= patoff THEN 1 ELSE 0
           start == Pattern(patoff)
<1>2. x \in Int /\ x = DECODE_N * q + r /\ q \in Int /\ r \in 0 .. DECODE_N - 1
  <2>1. x \in Int
    BY <1>1
  <2> HIDE DEF x
  <2> QED
    BY <2>1, DivMod DEF PlaceOf, x
<1>3. e \in Int /\ start = Len(out) - (r - patoff) - DECODE_N * e
  BY <1>1, <1>2 DEF Pattern
<1>4. start \in Int /\ start < Len(out) /\ Len(out) - DECODE_N <= start
  BY <1>1, <1>2, <1>3, SMTT(30)
<1>5. ASSUME NEW k \in Int PROVE PlaceOf(start + k) = (patoff + k) % DECODE_N
  <2>1. DECODE_N - DECODE_F + (start + k) = (patoff + k) + DECODE_N * (q - e)
    <3>1. DECODE_N - DECODE_F + Len(out) = DECODE_N * q + r /\ r \in Int
      BY <1>2
    <3>2. DECODE_N \in Int /\ DECODE_F \in Int /\ Len(out) \in Int /\ patoff \in Int
      BY <1>1
    <3> HIDE DEF x, q, e, start
    <3>3. PICK q0 \in Int, e0 \in Int : q0 = q /\ e0 = e
      BY <1>2, <1>3
    <3>4. PICK L \in Int, r0 \in Int : L = Len(out) /\ r0 = r
      BY <3>1, <3>2
    <3>5. DECODE_N - DECODE_F + L = DECODE_N * q0 + r0
      BY <3>1, <3>3, <3>4
    <3>6. DECODE_N - DECODE_F + ((L - (r0 - patoff) - DECODE_N * e0) + k)
            = (patoff + k) + DECODE_N * (q0 - e0)
      BY <3>2, <3>5, WrapArith
    <3>7. start = L - (r0 - patoff) - DECODE_N * e0
      BY <1>3, <3>3, <3>4
    <3> QED
      BY <3>3, <3>6, <3>7
  <2>2. patoff + k \in Int /\ q - e \in Int
    BY <1>2, <1>3
  <2> HIDE DEF q, e, start
  <2>3. ((patoff + k) + DECODE_N * (q - e)) % DECODE_N = (patoff + k) % DECODE_N
    BY <2>2, ModAdd
  <2> QED
    BY <2>1, <2>3 DEF PlaceOf
<1> QED
  BY <1>4, <1>5

LEMMA CopiesAgree ==
  ASSUME Agree, NEW patoff \in 0 .. DECODE_N - 1, NEW len \in Nat,
         NEW b, Bytes(b, Pattern(patoff), len),
         NEW f, \A k \in 0 .. len : f[k] = Copied(f, patoff, k),
         NEW m \in 0 .. len
  PROVE  /\ f[m].o \in Seq(Byte) /\ Len(f[m].o) = Len(out) + m
         /\ \A j \in 1 .. Len(out) : f[m].o[j] = out[j]
         /\ \A j \in 1 .. m : f[m].o[Len(out) + j] = b[j - 1]
         /\ RingIs(f[m].g, f[m].o)
<1> USE RingSize
<1> DEFINE L == Len(out)
           start == Pattern(patoff)
           Good(k) == /\ f[k].o \in Seq(Byte) /\ Len(f[k].o) = L + k
                      /\ \A j \in 1 .. L : f[k].o[j] = out[j]
                      /\ \A j \in 1 .. k : f[k].o[L + j] = b[j - 1]
                      /\ RingIs(f[k].g, f[k].o)
           T == {k \in Nat : k <= len => Good(k)}
<1>0. out \in Seq(Byte) /\ ref = out /\ r = PlaceOf(L) /\ RingIs(ring, out) /\ L \in Nat
  BY LenProperties DEF Agree
<1>a. /\ start \in Int /\ start < L /\ L - DECODE_N <= start
      /\ \A k \in Int : PlaceOf(start + k) = (patoff + k) % DECODE_N
  BY <1>0, PatternIs
<1>b. \A k \in 0 .. len - 1 : b[k] \in Byte /\ b[k] = Before(b, start, k)
  BY <1>0, <1>a, BytesAre DEF Bytes
<1> HIDE DEF start
<1>1. 0 \in T
  <2>1. f[0] = [g |-> ring, o |-> ref]
    BY DEF Copied
  <2>2. f[0].o = out /\ f[0].g = ring
    BY <1>0, <2>1
  <2> QED
    BY <1>0, <2>2
<1>2. ASSUME NEW k \in T PROVE k + 1 \in T
  <2>1. SUFFICES ASSUME k + 1 <= len PROVE Good(k + 1)
    OBVIOUS
  <2>2. k \in Nat /\ k \in 0 .. len - 1 /\ k + 1 \in 0 .. len /\ Good(k)
    BY <2>1
  <2> DEFINE o == f[k].o
             g == f[k].g
             c == RingAt(g, (patoff + k) % DECODE_N)
             j0 == start + k
  <2>3. o \in Seq(Byte) /\ Len(o) = L + k /\ RingIs(g, o)
    BY <2>2
  <2>4. c = ByteOf(o, j0)
    <3>1. j0 \in Int /\ Len(o) - DECODE_N <= j0 /\ j0 < Len(o)
      BY <1>0, <1>a, <2>2, <2>3
    <3>2. PlaceOf(j0) = (patoff + k) % DECODE_N
      BY <1>a, <2>2
    <3> HIDE DEF o, g, j0
    <3>3. RingAt(g, PlaceOf(j0)) = ByteOf(o, j0)
      BY <2>3, <3>1 DEF RingIs
    <3> QED
      BY <3>2, <3>3
  <2>5. c = b[k]
    <3>1. b[k] = Before(b, start, k)
      BY <1>b, <2>2
    <3>2. CASE j0 < 0
      BY <2>4, <3>1, <3>2 DEF ByteOf, Before
    <3>3. CASE j0 >= 0 /\ j0 < L
      <4>1. j0 + 1 \in 1 .. L
        BY <1>0, <1>a, <2>2, <3>3
      <4>2. o[j0 + 1] = out[j0 + 1]
        BY <2>2, <4>1
      <4>3. b[k] = out[j0 + 1]
        BY <1>a, <2>2, <3>1, <3>3 DEF Before
      <4>4. c = o[j0 + 1]
        BY <1>a, <2>2, <2>4, <3>3 DEF ByteOf
      <4> QED
        BY <4>2, <4>3, <4>4
    <3>4. CASE j0 >= L
      <4>1. (j0 - L) + 1 \in 1 .. k
        BY <1>0, <1>a, <2>2, <3>4
      <4>2. o[L + ((j0 - L) + 1)] = b[((j0 - L) + 1) - 1]
        BY <2>2, <4>1
      <4>3. L + ((j0 - L) + 1) = j0 + 1 /\ ((j0 - L) + 1) - 1 = j0 - L
        BY <1>0, <1>a, <2>2
      <4>4. b[k] = b[j0 - L]
        BY <1>0, <1>a, <2>2, <3>1, <3>4 DEF Before
      <4>5. c = o[j0 + 1]
        BY <1>0, <1>a, <2>2, <2>4, <3>4 DEF ByteOf
      <4> QED
        BY <4>2, <4>3, <4>4, <4>5
    <3> QED
      BY <1>0, <1>a, <2>2, <3>2, <3>3, <3>4
  <2>6. c \in Byte
    BY <1>b, <2>2, <2>5
  <2>7. f[k + 1] = Put(f[k], c)
    <3>1. k + 1 # 0 /\ (k + 1) - 1 = k /\ (patoff + (k + 1) - 1) = patoff + k
      <4>1. k \in Nat /\ patoff \in Int
        BY <2>2
      <4> HIDE DEF T, Good, o, g, c, j0
      <4> QED
        BY <4>1
    <3>2. f[k + 1] = Copied(f, patoff, k + 1)
      BY <2>2
    <3> QED
      BY <3>1, <3>2 DEF Copied
  <2> HIDE DEF c
  <2>8. f[k + 1].o = Append(o, c) /\ RingIs(f[k + 1].g, Append(o, c))
    <3>1. /\ Put(f[k], c).o = Append(f[k].o, c)
          /\ RingIs(Put(f[k], c).g, Append(f[k].o, c))
      BY <2>3, <2>6, PutKeeps
    <3> QED
      BY <2>7, <3>1
  <2>9. /\ Append(o, c) \in Seq(Byte) /\ Len(Append(o, c)) = Len(o) + 1
        /\ \A j \in 1 .. Len(o) : Append(o, c)[j] = o[j]
        /\ Append(o, c)[Len(o) + 1] = c
    BY <2>3, <2>6, AppendByte
  <2> DEFINE oo == Append(o, c)
  <2>10. \A j \in 1 .. L : o[j] = out[j]
    BY <2>2
  <2>11. \A j \in 1 .. k : o[L + j] = b[j - 1]
    BY <2>2
  <2> HIDE DEF o, g, oo
  <2>12. oo \in Seq(Byte) /\ Len(oo) = L + (k + 1)
    BY <1>0, <2>2, <2>3, <2>9 DEF oo
  <2>13. \A j \in 1 .. L : oo[j] = out[j]
    BY <1>0, <2>2, <2>3, <2>9, <2>10 DEF oo
  <2>14. \A j \in 1 .. k + 1 : oo[L + j] = b[j - 1]
    <3>1. ASSUME NEW j \in 1 .. k PROVE oo[L + j] = b[j - 1]
      <4>1. L + j \in 1 .. Len(o)
        BY <1>0, <2>2, <2>3
      <4> QED
        BY <2>9, <2>11, <4>1 DEF oo
    <3>2. oo[L + (k + 1)] = b[(k + 1) - 1]
      <4>1. L + (k + 1) = Len(o) + 1 /\ (k + 1) - 1 = k
        BY <1>0, <2>2, <2>3
      <4> QED
        BY <2>5, <2>9, <4>1 DEF oo
    <3>3. \A j \in 1 .. k + 1 : j \in 1 .. k \/ j = k + 1
      BY <2>2
    <3> QED
      BY <3>1, <3>2, <3>3
  <2>15. f[k + 1].o = oo /\ RingIs(f[k + 1].g, oo)
    BY <2>8 DEF oo
  <2> QED
    BY <2>12, <2>13, <2>14, <2>15
<1>3. T = Nat
  <2>1. T \in SUBSET Nat
    OBVIOUS
  <2> HIDE DEF T
  <2> QED
    BY <1>1, <1>2, <2>1, SetInduction
<1>4. m \in T /\ m <= len
  <2>1. m \in Nat /\ m <= len
    OBVIOUS
  <2> HIDE DEF T
  <2> QED
    BY <1>3, <2>1
<1> QED
  BY <1>4

LEMMA PlaceNext ==
  ASSUME NEW j \in Int, NEW k \in Int
  PROVE  PlaceOf(j + k) = (PlaceOf(j) + k) % DECODE_N
<1> DEFINE x == DECODE_N - DECODE_F + j
<1>1. x \in Int /\ DECODE_N \in Nat \ {0}
  BY RingSize
<1>2. x + k = DECODE_N - DECODE_F + (j + k)
  BY RingSize
<1> HIDE DEF x
<1>3. ((x % DECODE_N) + k) % DECODE_N = (x + k) % DECODE_N
  BY <1>1, ModSum
<1> QED
  BY <1>2, <1>3 DEF PlaceOf, x

LEMMA ReferenceAgrees ==
  ASSUME Agree, NEW b1 \in Byte, NEW b2 \in Byte, Reference(b1, b2)
  PROVE  Agree'
<1> USE RingSize
<1> DEFINE patoff == Patoff(b1, b2)
           len == Patlen(b2)
           start == Pattern(patoff)
           L == Len(out)
<1>1. patoff \in 0 .. DECODE_N - 1 /\ patoff \in Nat /\ len \in Nat
  <2>1. b2 \div 16 \in 0 .. 15 /\ b2 % 16 \in 0 .. 15 /\ b1 \in 0 .. 255
    BY DEF Byte
  <2>2. patoff \in 0 .. 4095
    BY <2>1 DEF Patoff
  <2>3. len \in Nat
    <3>1. DECODE_THRESHOLD \in Nat
      BY UnzipAssumption
    <3>2. PICK x \in 0 .. 15 : x = b2 % 16
      BY <2>1
    <3>3. len = x + DECODE_THRESHOLD + 1
      BY <3>2 DEF Patlen
    <3> QED
      BY <3>1, <3>3
  <2>4. 4096 <= DECODE_N /\ DECODE_N \in Nat
    BY UnzipAssumption
  <2> HIDE DEF patoff, len
  <2> QED
    BY <2>2, <2>3, <2>4
<1>2. /\ out' = out \o Match(start, len) /\ r' = (r + len) % DECODE_N
      /\ ring' = RingCopy(patoff, len).g /\ ref' = RingCopy(patoff, len).o
  BY DEF Reference
<1>3. out \in Seq(Byte) /\ ref = out /\ r = PlaceOf(L) /\ L \in Nat
  BY LenProperties DEF Agree
<1> HIDE DEF patoff, len
<1>4. start \in Int /\ start < L
  BY <1>1, <1>3, PatternIs
<1>5. PICK b : Bytes(b, start, len) /\ Match(start, len) = [k \in 1 .. len |-> b[k - 1]]
  BY <1>1, <1>3, <1>4, MatchIs
<1>6. PICK f : /\ \A k \in 0 .. len : f[k] = Copied(f, patoff, k)
               /\ RingCopy(patoff, len) = f[len]
  BY <1>1, CopyIs
<1>7. /\ f[len].o \in Seq(Byte) /\ Len(f[len].o) = L + len
      /\ \A j \in 1 .. L : f[len].o[j] = out[j]
      /\ \A j \in 1 .. len : f[len].o[L + j] = b[j - 1]
      /\ RingIs(f[len].g, f[len].o)
  <2>1. len \in 0 .. len
    BY <1>1
  <2> QED
    BY <1>1, <1>5, <1>6, <2>1, CopiesAgree
<1> DEFINE match == Match(start, len)
<1>8. match \in Seq(Byte) /\ Len(match) = len /\ \A k \in 1 .. len : match[k] = b[k - 1]
  <2>1. \A k \in 0 .. len - 1 : b[k] \in Byte
    BY <1>1, <1>3, <1>4, <1>5, BytesAre
  <2>2. \A k \in 1 .. len : k - 1 \in 0 .. len - 1
    BY <1>1
  <2>3. match \in [1 .. len -> Byte]
    BY <1>5, <2>1, <2>2
  <2> HIDE DEF match
  <2> QED
    BY <1>1, <1>5, <2>3 DEF match
<1> HIDE DEF match, start
<1>9. /\ out \o match \in Seq(Byte) /\ Len(out \o match) = L + len
      /\ \A k \in 1 .. L + len :
           (out \o match)[k] = IF k <= L THEN out[k] ELSE match[k - L]
  BY <1>3, <1>8, ConcatProperties
<1> DEFINE new == out \o match
           o == f[len].o
<1>10. new = o
  <2>1. ASSUME NEW k \in 1 .. L + len PROVE new[k] = o[k]
    <3>1. CASE k <= L
      <4>1. k \in 1 .. L /\ k \in 1 .. L + len
        BY <1>1, <1>3, <3>1
      <4>2. o[k] = out[k]
        BY <1>7, <4>1
      <4>3. new[k] = out[k]
        BY <1>9, <3>1, <4>1
      <4> QED
        BY <4>2, <4>3
    <3>2. CASE k > L
      <4>1. k - L \in 1 .. len /\ L + (k - L) = k
        BY <1>1, <1>3, <3>2
      <4>2. new[k] = b[(k - L) - 1]
        <5>1. k \in 1 .. L + len /\ ~(k <= L)
          BY <1>1, <1>3, <3>2
        <5>2. new[k] = match[k - L]
          BY <1>9, <5>1
        <5> QED
          BY <1>8, <4>1, <5>2
      <4>3. o[L + (k - L)] = b[(k - L) - 1]
        BY <1>7, <4>1
      <4> QED
        BY <4>1, <4>2, <4>3
    <3>3. k \in Int /\ L \in Int
      BY <1>1, <1>3
    <3>4. k <= L \/ k > L
      BY <3>3
    <3> QED
      BY <3>1, <3>2, <3>4, Zenon
  <2>2. new \in Seq(Byte) /\ o \in Seq(Byte) /\ Len(new) = L + len /\ Len(o) = L + len
    BY <1>7, <1>9
  <2> HIDE DEF new, o
  <2> QED
    BY <2>1, <2>2, SeqEqual
<1>11. out' = o /\ ref' = o /\ ring' = f[len].g
  BY <1>2, <1>6, <1>10 DEF match, start
<1>12. r' = PlaceOf(L + len)
  <2>1. L \in Int /\ len \in Int
    BY <1>1, <1>2, <1>3
  <2> QED
    BY <1>1, <1>2, <1>3, <2>1, PlaceNext
<1>13. o \in Seq(Byte) /\ Len(o) = L + len /\ RingIs(f[len].g, o)
  BY <1>7
<1>14. out' \in Seq(Byte) /\ ref' = out' /\ r' = PlaceOf(Len(out'))
  BY <1>11, <1>12, <1>13
<1>15. RingIs(ring', ref')
  BY <1>11, <1>13
<1> QED
  BY <1>14, <1>15 DEF Agree, RingIs, PlaceOf

LEMMA LiteralAgrees ==
  ASSUME Agree, NEW c \in Byte, Literal(c)
  PROVE  Agree'
<1> USE RingSize
<1> DEFINE prev == [g |-> ring, o |-> ref]
           L == Len(out)
<1>1. out \in Seq(Byte) /\ ref = out /\ r = PlaceOf(L) /\ L \in Nat /\ RingIs(ring, ref)
  BY LenProperties DEF Agree
<1>2. out' = Append(out, c) /\ r' = (r + 1) % DECODE_N
      /\ ring' = Put(prev, c).g /\ ref' = Put(prev, c).o
  BY DEF Literal
<1>3. prev.o = ref /\ prev.g = ring
  OBVIOUS
<1> HIDE DEF prev
<1>4. prev.o \in Seq(Byte) /\ RingIs(prev.g, prev.o)
  BY <1>1, <1>3
<1>5. Put(prev, c).o = Append(prev.o, c) /\ RingIs(Put(prev, c).g, Append(prev.o, c))
  BY <1>4, PutKeeps
<1>6. Append(out, c) \in Seq(Byte) /\ Len(Append(out, c)) = L + 1
  BY <1>1, AppendByte
<1>7. r' = PlaceOf(L + 1)
  <2>1. L \in Int /\ 1 \in Int
    BY <1>1, <1>2
  <2> QED
    BY <1>1, <1>2, <2>1, PlaceNext
<1>8. out' \in Seq(Byte) /\ ref' = out' /\ r' = PlaceOf(Len(out')) /\ RingIs(ring', ref')
  BY <1>1, <1>2, <1>3, <1>5, <1>6, <1>7
<1> QED
  BY <1>8 DEF Agree, RingIs, PlaceOf

(* What the compressor promises: a section does not end inside a token.     *)
WholeTokens ==
  used < Len(src) => Token + (IF NextFlags % 2 = 1 THEN 1 ELSE 2) <= Len(src)

ZipInv == src \in Seq(Byte) /\ used \in Nat /\ Agree

LEMMA ZipInitInv == ZipInit => ZipInv
<1> SUFFICES ASSUME ZipInit PROVE ZipInv
  OBVIOUS
<1> USE RingSize
<1>1. src \in Seq(Byte) /\ used \in Nat
  BY UnzipAssumption DEF ZipInit
<1>2. out = <<>> /\ ref = <<>> /\ ring = <<>> /\ r = DECODE_N - DECODE_F
  BY DEF ZipInit
<1>3. out \in Seq(Byte) /\ Len(out) = 0
  BY <1>2, EmptySeq
<1>4. r = PlaceOf(0)
  <2>1. DECODE_N - DECODE_F \in 0 .. DECODE_N - 1 /\ DECODE_N - DECODE_F + 0 = DECODE_N * 0 + (DECODE_N - DECODE_F)
    OBVIOUS
  <2>2. (DECODE_N * 0 + (DECODE_N - DECODE_F)) % DECODE_N = DECODE_N - DECODE_F
    BY <2>1, ModUnique
  <2> QED
    BY <1>2, <2>1, <2>2 DEF PlaceOf
<1>5. RingIs(ring, ref)
  <2>1. \A p : RingAt(<<>>, p) = 0
    BY DEF RingAt
  <2> QED
    BY <1>2, <1>3, <2>1 DEF RingIs, ByteOf
<1> QED
  BY <1>1, <1>2, <1>3, <1>4, <1>5 DEF ZipInv, Agree

LEMMA TurnInv == ZipInv /\ WholeTokens /\ [Turn]_zip => ZipInv'
<1> SUFFICES ASSUME ZipInv, WholeTokens, [Turn]_zip PROVE ZipInv'
  OBVIOUS
<1>1. src \in Seq(Byte) /\ used \in Nat /\ Agree
  BY DEF ZipInv
<1>2. CASE Turn
  <2>1. used < Len(src) /\ src' = src /\ Len(src) \in Nat
    BY <1>1, <1>2, LenProperties DEF Turn
  <2>2. Token \in Nat
    BY <1>1 DEF Token
  <2>3. Token + (IF NextFlags % 2 = 1 THEN 1 ELSE 2) <= Len(src)
    BY <2>1 DEF WholeTokens
  <2>4. CASE NextFlags % 2 = 1 /\ Literal(src[Token + 1]) /\ used' = Token + 1
    <3>1. Token + 1 \in 1 .. Len(src)
      BY <2>1, <2>2, <2>3, <2>4
    <3>2. src[Token + 1] \in Byte
      BY <1>1, <3>1, ElementOfSeq
    <3>3. Agree'
      BY <1>1, <2>4, <3>2, LiteralAgrees
    <3> QED
      BY <1>1, <2>1, <2>2, <2>4, <3>3 DEF ZipInv
  <2>5. CASE NextFlags % 2 = 0 /\ Reference(src[Token + 1], src[Token + 2]) /\ used' = Token + 2
    <3>1. Token + 1 \in 1 .. Len(src) /\ Token + 2 \in 1 .. Len(src)
      BY <2>1, <2>2, <2>3, <2>5
    <3>2. src[Token + 1] \in Byte /\ src[Token + 2] \in Byte
      BY <1>1, <3>1, ElementOfSeq
    <3>3. Agree'
      BY <1>1, <2>5, <3>2, ReferenceAgrees
    <3> QED
      BY <1>1, <2>1, <2>2, <2>5, <3>3 DEF ZipInv
  <2> QED
    BY <1>2, <2>4, <2>5 DEF Turn
<1>3. CASE UNCHANGED zip
  BY <1>3 DEF zip, ZipInv, Agree, RingIs, PlaceOf
<1> QED
  BY <1>2, <1>3

(* __ghs_decompress puts out what a decoder with a ring buffer does, for    *)
(* every section of whole tokens, length of match and size of ring that     *)
(* takes offsets of twelve bits.                                            *)
THEOREM UnzipExact == ZipSpec /\ []WholeTokens => []LzssExact
<1>1. ZipInv => LzssExact
  BY DEF ZipInv, Agree, LzssExact
<1> QED
  BY <1>1, ZipInitInv, TurnInv, PTL DEF ZipSpec
-----------------------------------------------------------------------------
(* Checksums *)

(* The community modules fold a sequence over its indices, the last one     *)
(* first: Max takes an index out.                                           *)
LEMMA MaxIn ==
  ASSUME NEW S \in SUBSET Nat, IsFiniteSet(S), S # {}
  PROVE  Max(S) \in S
<1>1. PICK m \in S : \A v \in S : v <= m
  BY FiniteMax
<1>2. \A v \in S : m >= v
  BY <1>1
<1> QED
  BY <1>1, <1>2, Zenon DEF Max

LEMMA SubsetInduction ==
  ASSUME NEW D \in SUBSET Nat, IsFiniteSet(D), NEW T \in SUBSET (SUBSET D), {} \in T,
         \A u \in SUBSET D : u # {} /\ u \ {Max(u)} \in T => u \in T
  PROVE  D \in T
<1> DEFINE N == {k \in Nat : \A u \in SUBSET D : Cardinality(u) = k => u \in T}
<1>0. \A u \in SUBSET D : IsFiniteSet(u) /\ Cardinality(u) \in Nat
  BY FS_Subset, FS_CardinalityType
<1>1. 0 \in N
  <2>1. \A u \in SUBSET D : Cardinality(u) = 0 => u = {}
    BY <1>0, FS_EmptySet
  <2> QED
    BY <2>1
<1>2. ASSUME NEW k \in N PROVE k + 1 \in N
  <2>1. ASSUME NEW u \in SUBSET D, Cardinality(u) = k + 1 PROVE u \in T
    <3>1. u # {}
      <4>1. k \in Nat /\ Cardinality(u) # 0
        BY <2>1
      <4> QED
        BY <4>1, FS_EmptySet
    <3>2. Max(u) \in u /\ u \in SUBSET Nat
      BY <1>0, <3>1, MaxIn
    <3>3. Cardinality(u \ {Max(u)}) = Cardinality(u) - 1
      BY <1>0, <3>2, FS_RemoveElement
    <3>4. Cardinality(u \ {Max(u)}) = k
      BY <2>1, <3>3
    <3>5. u \ {Max(u)} \in T
      BY <3>4
    <3> QED
      BY <3>1, <3>5
  <2>2. k + 1 \in Nat
    OBVIOUS
  <2> QED
    BY <2>1, <2>2
<1>3. N = Nat
  <2>1. N \in SUBSET Nat
    OBVIOUS
  <2> HIDE DEF N
  <2> QED
    BY <1>1, <1>2, <2>1, SetInduction
<1>4. Cardinality(D) \in N
  <2>1. Cardinality(D) \in Nat
    BY FS_CardinalityType
  <2> HIDE DEF N
  <2> QED
    BY <1>3, <2>1
<1> QED
  BY <1>4

(* A function that follows the fold exists, for an operation given as a     *)
(* function of what was folded and the index.                               *)
Follows(f, F, base, u) == f[u] = IF u = {} THEN base ELSE F[<<f[u \ {Max(u)}], Max(u)>>]

LEMMA FoldExists ==
  ASSUME NEW D \in SUBSET Nat, IsFiniteSet(D), NEW F, NEW base
  PROVE  \E f : \A u \in SUBSET D : Follows(f, F, base, u)
<1> DEFINE N == {k \in Nat : \E f : \A u \in SUBSET D : Cardinality(u) <= k => Follows(f, F, base, u)}
<1>0. \A u \in SUBSET D : IsFiniteSet(u) /\ Cardinality(u) \in Nat
  BY FS_Subset, FS_CardinalityType
<1>1. 0 \in N
  <2>1. \A u \in SUBSET D : Cardinality(u) <= 0 => u = {}
    BY <1>0, FS_EmptySet
  <2> DEFINE f == [u \in {{}} |-> base]
  <2>2. f[{}] = base
    OBVIOUS
  <2> HIDE DEF f
  <2>3. \A u \in SUBSET D : Cardinality(u) <= 0 => Follows(f, F, base, u)
    BY <2>1, <2>2 DEF Follows
  <2> QED
    BY <2>3
<1>2. ASSUME NEW k \in N PROVE k + 1 \in N
  <2>1. PICK f : \A u \in SUBSET D : Cardinality(u) <= k => Follows(f, F, base, u)
    OBVIOUS
  <2> DEFINE h == [u \in SUBSET D |->
                     IF Cardinality(u) <= k THEN f[u] ELSE F[<<f[u \ {Max(u)}], Max(u)>>]]
  <2>2. ASSUME NEW u \in SUBSET D, Cardinality(u) <= k + 1 PROVE Follows(h, F, base, u)
    <3>0. h[u] = IF Cardinality(u) <= k THEN f[u] ELSE F[<<f[u \ {Max(u)}], Max(u)>>]
      OBVIOUS
    <3>1. CASE u = {}
      <4>1. Cardinality(u) <= k
        BY <3>1, FS_EmptySet
      <4>2. f[u] = base
        BY <2>1, <3>1, <4>1 DEF Follows
      <4>3. h[u] = base
        BY <3>0, <4>1, <4>2
      <4> HIDE DEF h
      <4> QED
        BY <3>1, <4>3 DEF Follows
    <3>2. CASE u # {}
      <4> DEFINE v == u \ {Max(u)}
      <4>1. Max(u) \in u /\ v \in SUBSET D
        BY <1>0, <3>2, MaxIn
      <4>2. Cardinality(v) = Cardinality(u) - 1
        BY <1>0, <4>1, FS_RemoveElement
      <4>3. Cardinality(v) <= k
        BY <1>0, <2>2, <4>2
      <4>4. h[v] = f[v]
        BY <4>1, <4>3
      <4>5. h[u] = F[<<f[v], Max(u)>>]
        <5>1. CASE Cardinality(u) <= k
          <6>1. Follows(f, F, base, u)
            BY <2>1, <5>1
          <6>2. f[u] = F[<<f[v], Max(u)>>]
            BY <3>2, <6>1 DEF Follows
          <6> QED
            BY <3>0, <5>1, <6>2
        <5>2. CASE ~(Cardinality(u) <= k)
          BY <3>0, <5>2
        <5> QED
          BY <5>1, <5>2
      <4> HIDE DEF h
      <4> QED
        BY <3>2, <4>4, <4>5 DEF Follows
    <3> QED
      BY <3>1, <3>2
  <2>3. k + 1 \in Nat
    OBVIOUS
  <2> HIDE DEF h
  <2> QED
    BY <2>2, <2>3
<1>3. N = Nat
  <2>1. N \in SUBSET Nat
    OBVIOUS
  <2> HIDE DEF N
  <2> QED
    BY <1>1, <1>2, <2>1, SetInduction
<1>4. Cardinality(D) \in N
  <2>1. Cardinality(D) \in Nat
    BY FS_CardinalityType
  <2> HIDE DEF N
  <2> QED
    BY <1>3, <2>1
<1>5. PICK f : \A u \in SUBSET D : Cardinality(u) <= Cardinality(D) => Follows(f, F, base, u)
  BY <1>4
<1>6. \A u \in SUBSET D : Cardinality(u) <= Cardinality(D)
  BY FS_Subset
<1> QED
  BY <1>5, <1>6

(* ... and keeps to the words when the operation does. *)
LEMMA FoldStays ==
  ASSUME NEW D \in SUBSET Nat, IsFiniteSet(D), NEW W, NEW g, g[{}] \in W,
         \A u \in SUBSET D : u # {} /\ g[u \ {Max(u)}] \in W => g[u] \in W
  PROVE  \A u \in SUBSET D : g[u] \in W
<1> SUFFICES ASSUME NEW E \in SUBSET D PROVE g[E] \in W
  OBVIOUS
<1> DEFINE T == {u \in SUBSET E : g[u] \in W}
<1>1. E \in SUBSET Nat /\ IsFiniteSet(E)
  BY FS_Subset
<1>2. {} \in T /\ T \in SUBSET (SUBSET E)
  OBVIOUS
<1>3. ASSUME NEW u \in SUBSET E, u # {}, u \ {Max(u)} \in T PROVE u \in T
  BY <1>3
<1>4. E \in T
  <2> HIDE DEF T
  <2> QED
    BY <1>1, <1>2, <1>3, SubsetInduction
<1> QED
  BY <1>4

LEMMA FoldWords ==
  ASSUME NEW D \in SUBSET Nat, IsFiniteSet(D), NEW W, NEW base \in W,
         NEW F, \A w \in W, x \in D : F[<<w, x>>] \in W
  PROVE  \E f : \A u \in SUBSET D : f[u] \in W /\ Follows(f, F, base, u)
<1>1. PICK f : \A u \in SUBSET D : Follows(f, F, base, u)
  BY FoldExists
<1>2. f[{}] \in W
  BY <1>1 DEF Follows
<1>3. ASSUME NEW u \in SUBSET D, u # {}, f[u \ {Max(u)}] \in W PROVE f[u] \in W
  <2>1. Max(u) \in D
    <3>1. IsFiniteSet(u) /\ u \in SUBSET Nat
      BY FS_Subset
    <3> QED
      BY <1>3, <3>1, MaxIn
  <2> QED
    BY <1>1, <1>3, <2>1 DEF Follows
<1>4. \A u \in SUBSET D : f[u] \in W
  BY <1>2, <1>3, FoldStays
<1> QED
  BY <1>1, <1>4
-----------------------------------------------------------------------------
(* The CRC is a word, whatever is folded into it. *)
LEMMA BitWord ==
  ASSUME NEW csum \in Word, NEW data
  PROVE  CrcBit(csum, data) \in Word
<1>1. ShiftLeft(csum) \in Word
  BY DEF ShiftLeft, Word
<1> QED
  BY <1>1, ChecksumAssumption DEF CrcBit, Xor, Word

Shifts == <<0, 1, 2, 3, 4, 5, 6, 7>>
Shifted(byte, k) == {b + k : b \in {x \in LeftJustified(byte) : x + k <= 31}}

LEMMA ByteWord ==
  ASSUME NEW csum \in Word, NEW byte
  PROVE  CrcByte(csum, byte) \in Word
<1> DEFINE D == DOMAIN Shifts
           Op(w, x) == CrcBit(w, Shifted(byte, Shifts[x]))
           F == [a \in Word \X D |-> Op(a[1], a[2])]
           Eq(g) == g = [u \in SUBSET D |-> IF u = {} THEN csum ELSE Op(g[u \ {Max(u)}], Max(u))]
           iter == CHOOSE g : Eq(g)
<1>1. D \in SUBSET Nat /\ IsFiniteSet(D)
  <2>1. D = 1 .. 8
    BY DEF Shifts
  <2>2. IsFiniteSet(1 .. 8)
    <3>1. 1 \in Int /\ 8 \in Int
      OBVIOUS
    <3> HIDE DEF D
    <3> QED
      BY <3>1, FS_Interval
  <2> HIDE DEF D
  <2> QED
    BY <2>1, <2>2
<1>2. CrcByte(csum, byte) = iter[D]
  BY Zenon DEF CrcByte, FoldLeft, MapThenFoldSet, Shifts, Shifted
<1> HIDE DEF D
<1>3. \A w \in Word, x \in D : Op(w, x) \in Word
  BY BitWord
<1> HIDE DEF Op
<1>4. \A w \in Word, x \in D : F[<<w, x>>] = Op(w, x)
  OBVIOUS
<1> HIDE DEF F
<1>5. \A w \in Word, x \in D : F[<<w, x>>] \in Word
  BY <1>3, <1>4
<1>6. PICK f : \A u \in SUBSET D : f[u] \in Word /\ Follows(f, F, csum, u)
  BY <1>1, <1>5, FoldWords
<1>7. \A u \in SUBSET D : u # {} => Max(u) \in D
  <2>1. \A u \in SUBSET D : IsFiniteSet(u) /\ u \in SUBSET Nat
    BY <1>1, FS_Subset
  <2>2. \A u \in SUBSET D : u # {} => Max(u) \in u
    BY <2>1, MaxIn
  <2> QED
    BY <2>2
<1>8. ASSUME NEW u \in SUBSET D
      PROVE  f[u] = IF u = {} THEN csum ELSE Op(f[u \ {Max(u)}], Max(u))
  <2>1. f[u \ {Max(u)}] \in Word
    BY <1>6
  <2> QED
    BY <1>4, <1>6, <1>7, <2>1 DEF Follows
<1>9. \E g : Eq(g)
  <2> DEFINE g == [u \in SUBSET D |-> f[u]]
  <2>1. \A u \in SUBSET D : g[u] = IF u = {} THEN csum ELSE Op(g[u \ {Max(u)}], Max(u))
    BY <1>8
  <2>2. g = [u \in SUBSET D |-> g[u]]
    OBVIOUS
  <2> HIDE DEF g
  <2>3. Eq(g)
    BY <2>1, <2>2
  <2> QED
    BY <2>3
<1>10. Eq(iter)
  <2> HIDE DEF Eq
  <2> QED
    BY <1>9
<1> HIDE DEF iter
<1>11. iter[{}] \in Word
  BY <1>10
<1>12. ASSUME NEW u \in SUBSET D, u # {}, iter[u \ {Max(u)}] \in Word PROVE iter[u] \in Word
  <2>1. iter[u] = Op(iter[u \ {Max(u)}], Max(u))
    BY <1>10, <1>12
  <2> QED
    BY <1>3, <1>7, <1>12, <2>1 DEF Op
<1>13. iter[D] \in Word
  BY <1>1, <1>11, <1>12, FoldStays
<1> QED
  BY <1>2, <1>13

LEMMA CksumWord ==
  ASSUME NEW S, NEW bytes \in Seq(S)
  PROVE  cksum(bytes) \in Word
<1> DEFINE D == DOMAIN bytes
           Op(w, x) == CrcByte(w, bytes[x])
           F == [a \in Word \X D |-> Op(a[1], a[2])]
           Eq(g) == g = [u \in SUBSET D |-> IF u = {} THEN CRC_INITVAL ELSE Op(g[u \ {Max(u)}], Max(u))]
           iter == CHOOSE g : Eq(g)
<1>1. D \in SUBSET Nat /\ IsFiniteSet(D)
  <2>1. D = 1 .. Len(bytes) /\ Len(bytes) \in Nat
    BY LenProperties
  <2> QED
    BY <2>1, FS_Interval
<1>2. cksum(bytes) = iter[D]
  BY Zenon DEF cksum, FoldLeft, MapThenFoldSet
<1> HIDE DEF D
<1>3. \A w \in Word, x \in D : Op(w, x) \in Word
  BY ByteWord
<1> HIDE DEF Op
<1>4. \A w \in Word, x \in D : F[<<w, x>>] = Op(w, x)
  OBVIOUS
<1> HIDE DEF F
<1>5. \A w \in Word, x \in D : F[<<w, x>>] \in Word
  BY <1>3, <1>4
<1>0. CRC_INITVAL \in Word
  BY ChecksumAssumption
<1>6. PICK f : \A u \in SUBSET D : f[u] \in Word /\ Follows(f, F, CRC_INITVAL, u)
  BY <1>0, <1>1, <1>5, FoldWords
<1>7. \A u \in SUBSET D : u # {} => Max(u) \in D
  <2>1. \A u \in SUBSET D : IsFiniteSet(u) /\ u \in SUBSET Nat
    BY <1>1, FS_Subset
  <2>2. \A u \in SUBSET D : u # {} => Max(u) \in u
    BY <2>1, MaxIn
  <2> QED
    BY <2>2
<1>8. ASSUME NEW u \in SUBSET D
      PROVE  f[u] = IF u = {} THEN CRC_INITVAL ELSE Op(f[u \ {Max(u)}], Max(u))
  <2>1. f[u \ {Max(u)}] \in Word
    BY <1>6
  <2> QED
    BY <1>4, <1>6, <1>7, <2>1 DEF Follows
<1>9. \E g : Eq(g)
  <2> DEFINE g == [u \in SUBSET D |-> f[u]]
  <2>1. \A u \in SUBSET D : g[u] = IF u = {} THEN CRC_INITVAL ELSE Op(g[u \ {Max(u)}], Max(u))
    BY <1>8
  <2>2. g = [u \in SUBSET D |-> g[u]]
    OBVIOUS
  <2> HIDE DEF g
  <2>3. Eq(g)
    BY <2>1, <2>2
  <2> QED
    BY <2>3
<1>10. Eq(iter)
  <2> HIDE DEF Eq
  <2> QED
    BY <1>9
<1> HIDE DEF iter
<1>11. iter[{}] \in Word
  BY <1>0, <1>10
<1>12. ASSUME NEW u \in SUBSET D, u # {}, iter[u \ {Max(u)}] \in Word PROVE iter[u] \in Word
  <2>1. iter[u] = Op(iter[u \ {Max(u)}], Max(u))
    BY <1>10, <1>12
  <2> QED
    BY <1>3, <1>7, <1>12, <2>1 DEF Op
<1>13. iter[D] \in Word
  BY <1>1, <1>11, <1>12, FoldStays
<1> QED
  BY <1>2, <1>13
-----------------------------------------------------------------------------
(* What the linker writes is what the walk compares with. *)
LEMMA LoadStored ==
  ASSUME NEW w \in Word, NEW b, \A k \in 1 .. 4 : b[k] = ByteAt(w, k)
  PROVE  load32_unaligned(b) = w
<1> DEFINE Part(k) == {x + 8 * (4 - k) : x \in b[k]}
<1>1. ASSUME NEW k \in 1 .. 4
      PROVE  Part(k) = w \cap ((8 * (4 - k)) .. (8 * (4 - k) + 7))
  <2>1. PICK z \in {0, 8, 16, 24} : z = 8 * (4 - k)
    OBVIOUS
  <2>2. b[k] = {y - z : y \in w \cap (z .. (z + 7))}
    BY <2>1 DEF ByteAt
  <2>3. Part(k) = {x + z : x \in b[k]}
    BY <2>1
  <2>4. \A y \in w \cap (z .. (z + 7)) : (y - z) + z = y
    BY DEF Word
  <2>5. {x + z : x \in b[k]} = w \cap (z .. (z + 7))
    BY <2>2, <2>4
  <2> QED
    BY <2>1, <2>3, <2>5
<1>2. load32_unaligned(b) = UNION {Part(k) : k \in 1 .. 4}
  BY DEF load32_unaligned
<1> HIDE DEF Part
<1>3. \A x \in w : \E k \in 1 .. 4 : x \in (8 * (4 - k)) .. (8 * (4 - k) + 7)
  <2>1. ASSUME NEW x \in 0 .. 31 PROVE \E k \in 1 .. 4 : x \in (8 * (4 - k)) .. (8 * (4 - k) + 7)
    <3>1. CASE x >= 24
      <4>1. x \in (8 * (4 - 1)) .. (8 * (4 - 1) + 7)
        BY <3>1
      <4> QED
        BY <4>1
    <3>2. CASE x >= 16 /\ x < 24
      <4>1. x \in (8 * (4 - 2)) .. (8 * (4 - 2) + 7)
        BY <3>2
      <4> QED
        BY <4>1
    <3>3. CASE x >= 8 /\ x < 16
      <4>1. x \in (8 * (4 - 3)) .. (8 * (4 - 3) + 7)
        BY <3>3
      <4> QED
        BY <4>1
    <3>4. CASE x < 8
      <4>1. x \in (8 * (4 - 4)) .. (8 * (4 - 4) + 7)
        BY <3>4
      <4> QED
        BY <4>1
    <3> QED
      BY <3>1, <3>2, <3>3, <3>4
  <2> QED
    BY <2>1 DEF Word
<1> QED
  BY <1>1, <1>2, <1>3

LEMMA ByteAtType ==
  ASSUME NEW w \in Word, NEW k \in 1 .. 4
  PROVE  ByteAt(w, k) \in SUBSET (0 .. 7)
<1>1. PICK z \in {0, 8, 16, 24} : z = 8 * (4 - k)
  OBVIOUS
<1>2. ByteAt(w, k) = {y - z : y \in w \cap (z .. (z + 7))}
  BY <1>1 DEF ByteAt
<1>3. \A y \in w \cap (z .. (z + 7)) : y - z \in 0 .. 7
  BY DEF Word
<1> QED
  BY <1>2, <1>3

Octet == SUBSET (0 .. 7)

LEMMA AddFour ==
  ASSUME NEW S, NEW b \in Seq(S), NEW four \in Seq(S), Len(four) = 4
  PROVE  /\ b \o four \in Seq(S) /\ Len(b \o four) = Len(b) + 4
         /\ \A k \in 1 .. Len(b) + 4 :
              (b \o four)[k] = IF k <= Len(b) THEN b[k] ELSE four[k - Len(b)]
<1>1. /\ b \o four \in Seq(S) /\ Len(b \o four) = Len(b) + Len(four)
      /\ \A k \in 1 .. Len(b) + Len(four) :
           (b \o four)[k] = IF k <= Len(b) THEN b[k] ELSE four[k - Len(b)]
  BY ConcatProperties, Zenon
<1> DEFINE c == b \o four
<1> HIDE DEF c
<1> QED
  BY <1>1 DEF c

Loaded(sect) == sect.flags \cap {"TEXT", "DATA"} # {}

LEMMA LinkedIs ==
  ASSUME NEW sect \in Section
  PROVE  /\ Linked(sect) \in Section
         /\ Linked(sect).flags = sect.flags /\ Linked(sect).romcopyof = sect.romcopyof
         /\ Loaded(sect) /\ Len(Linked(sect).bytes) # 0 => Intact(Linked(sect).bytes)
<1>1. sect.bytes \in Seq(SUBSET (0 .. 7)) /\ Len(sect.bytes) \in Nat
  BY LenProperties DEF Section
<1>2. CASE sect.flags \cap {"TEXT", "DATA"} = {} \/ Len(sect.bytes) = 0
  BY <1>2 DEF Linked, Loaded
<1>3. CASE ~(sect.flags \cap {"TEXT", "DATA"} = {} \/ Len(sect.bytes) = 0)
  <2> DEFINE w == cksum(sect.bytes)
             four == [k \in 1 .. 4 |-> ByteAt(w, k)]
             b == sect.bytes \o four
             len == Len(sect.bytes)
  <2>1. w \in Word
    BY <1>1, CksumWord
  <2>2. Linked(sect) = [sect EXCEPT !.bytes = b]
    BY <1>3 DEF Linked
  <2> HIDE DEF w
  <2>3. four \in Seq(SUBSET (0 .. 7)) /\ Len(four) = 4 /\ \A k \in 1 .. 4 : four[k] = ByteAt(w, k)
    <3>1. \A k \in 1 .. 4 : ByteAt(w, k) \in SUBSET (0 .. 7)
      BY <2>1, ByteAtType
    <3>2. four \in [1 .. 4 -> SUBSET (0 .. 7)]
      BY <3>1
    <3>3. \A k \in 1 .. 4 : four[k] = ByteAt(w, k)
      OBVIOUS
    <3>4. 4 \in Nat
      OBVIOUS
    <3> HIDE DEF four
    <3> QED
      BY <3>2, <3>3, <3>4, FunIsSeq, ZenonT(60)
  <2> HIDE DEF four
  <2>4. /\ b \in Seq(SUBSET (0 .. 7)) /\ Len(b) = len + 4
        /\ \A k \in 1 .. len + 4 : b[k] = IF k <= len THEN sect.bytes[k] ELSE four[k - len]
    BY <1>1, <2>3, AddFour
  <2> HIDE DEF b
  <2>5. Linked(sect).bytes = b /\ Linked(sect).flags = sect.flags /\ Linked(sect).romcopyof = sect.romcopyof
    BY <2>2 DEF Section
  <2>6. Linked(sect) \in Section
    BY <2>2, <2>4 DEF Section
  <2>7. Front4(b) = sect.bytes
    <3> DEFINE f == SubSeq(b, 1, len)
    <3>1. Front4(b) = f
      <4>1. Len(b) - 4 = len
        BY <1>1, <2>4
      <4> QED
        BY <4>1 DEF Front4
    <3>2. \A k \in 1 .. len : b[k] \in SUBSET (0 .. 7)
      BY <1>1, <2>4, ElementOfSeq
    <3>3. f \in Seq(SUBSET (0 .. 7)) /\ Len(f) = len /\ \A k \in 1 .. len : f[k] = b[k]
      <4>1. /\ f \in Seq(SUBSET (0 .. 7))
            /\ Len(f) = IF 1 <= len THEN len - 1 + 1 ELSE 0
            /\ \A k \in 1 .. len - 1 + 1 : f[k] = b[1 + k - 1]
        <5>1. 1 \in Int /\ len \in Int
          BY <1>1
        <5> QED
          BY <3>2, <5>1, SubSeqProperties
      <4> HIDE DEF f
      <4>2. len - 1 + 1 = len /\ \A k \in 1 .. len : 1 + k - 1 = k
        BY <1>1
      <4> QED
        BY <1>1, <4>1, <4>2
    <3> HIDE DEF f
    <3>4. \A k \in 1 .. len : f[k] = sect.bytes[k]
      <4>1. \A k \in 1 .. len : k \in 1 .. len + 4 /\ k <= len
        BY <1>1
      <4> QED
        BY <2>4, <3>3, <4>1
    <3> QED
      BY <1>1, <3>1, <3>3, <3>4, SeqEqual
  <2>8. \A k \in 1 .. 4 : Last4(b)[k] = four[k]
    <3> DEFINE f == SubSeq(b, len + 1, len + 4)
    <3>1. Last4(b) = f
      <4>1. Len(b) - 3 = len + 1 /\ Len(b) = len + 4
        BY <1>1, <2>4
      <4> QED
        BY <4>1 DEF Last4
    <3>2. \A k \in len + 1 .. len + 4 : b[k] \in SUBSET (0 .. 7)
      <4>1. \A k \in len + 1 .. len + 4 : k \in 1 .. Len(b)
        BY <1>1, <2>4
      <4> QED
        BY <2>4, <4>1, ElementOfSeq
    <3>3. \A k \in 1 .. (len + 4) - (len + 1) + 1 : f[k] = b[(len + 1) + k - 1]
      <4>1. len + 1 \in Int /\ len + 4 \in Int
        BY <1>1
      <4> QED
        BY <3>2, <4>1, SubSeqProperties
    <3> HIDE DEF f
    <3>4. ASSUME NEW k \in 1 .. 4 PROVE f[k] = four[k]
      <4>1. k \in 1 .. (len + 4) - (len + 1) + 1 /\ (len + 1) + k - 1 = len + k
        BY <1>1
      <4>2. len + k \in 1 .. len + 4 /\ ~(len + k <= len) /\ (len + k) - len = k
        BY <1>1
      <4> QED
        BY <2>4, <3>3, <4>1, <4>2
    <3> QED
      BY <3>1, <3>4
  <2>9. load32_unaligned(Last4(b)) = w
    BY <2>1, <2>3, <2>8, LoadStored
  <2>10. Intact(b)
    BY <2>7, <2>9 DEF Intact, w
  <2> QED
    BY <2>5, <2>6, <2>10
<1> QED
  BY <1>2, <1>3
-----------------------------------------------------------------------------
(* What the memory holds of a section is what the linker wrote, but for the *)
(* bits that changed.                                                       *)
Image(k) == Linked(Sections[k]).bytes
BitsOf(k) == {y \in Nat \X (0 .. 7) : <<k, y[1], y[2]>> \in flipped}

SumTypes ==
  /\ prog \in Seq(Section) /\ Len(prog) = Len(Sections) /\ ps \in Nat \ {0}
  /\ walk \in {"secinfo", "psinfo"}
  /\ \A k \in 1 .. Len(Sections) :
       prog[k].flags = Sections[k].flags /\ prog[k].romcopyof = Sections[k].romcopyof

FlipsInv ==
  /\ IsFiniteSet(flipped) /\ Cardinality(flipped) <= MaxFlips
  /\ \A f \in flipped : \E k \in 1 .. Len(Sections), j \in Nat, x \in 0 .. 7 :
       f = <<k, j, x>> /\ j \in DOMAIN Image(k)
  /\ \A k \in 1 .. Len(Sections) : prog[k].bytes = Flipped(Image(k), BitsOf(k))

WalkInv ==
  /\ \A k \in 1 .. Len(Sections) :
       k < ps /\ Covered(k) /\ Len(prog[k].bytes) # 0 => Matches(k)
  /\ result = "ok" => ps > Len(Sections)
  /\ result = "bad" => \E f \in flipped : Covered(f[1])

SumInv == SumTypes /\ FlipsInv /\ WalkInv

LEMMA FlippedNone ==
  ASSUME NEW b \in Seq(Octet)
  PROVE  Flipped(b, {}) = b
<1>1. b = [j \in DOMAIN b |-> b[j]]
  BY LenProperties
<1>2. \A j \in DOMAIN b : Xor(b[j], {x \in 0 .. 7 : <<j, x>> \in {}}) = b[j]
  BY DEF Xor
<1> QED
  BY <1>1, <1>2 DEF Flipped

Turned(A, j, x) == [A EXCEPT ![j] = Xor(@, {x})]

LEMMA FlippedMore ==
  ASSUME NEW b \in Seq(Octet), NEW F, NEW j \in DOMAIN b, NEW x \in 0 .. 7, <<j, x>> \notin F
  PROVE  Flipped(b, F \cup {<<j, x>>}) = Turned(Flipped(b, F), j, x)
<1> DEFINE G == F \cup {<<j, x>>}
           A == Flipped(b, F)
           B == [A EXCEPT ![j] = Xor(@, {x})]
           C == Flipped(b, G)
<1>1. /\ DOMAIN A = DOMAIN b /\ DOMAIN C = DOMAIN b
      /\ \A q \in DOMAIN b : A[q] = Xor(b[q], {y \in 0 .. 7 : <<q, y>> \in F})
      /\ \A q \in DOMAIN b : C[q] = Xor(b[q], {y \in 0 .. 7 : <<q, y>> \in G})
  BY DEF Flipped
<1>2. /\ DOMAIN B = DOMAIN A
      /\ \A q \in DOMAIN A : B[q] = IF q = j THEN Xor(A[q], {x}) ELSE A[q]
      /\ B = [q \in DOMAIN A |-> B[q]] /\ C = [q \in DOMAIN b |-> C[q]]
  BY DEF Flipped
<1>3. \A q \in DOMAIN b : q # j => {y \in 0 .. 7 : <<q, y>> \in G} = {y \in 0 .. 7 : <<q, y>> \in F}
  OBVIOUS
<1>4. {y \in 0 .. 7 : <<j, y>> \in G} = {y \in 0 .. 7 : <<j, y>> \in F} \cup {x}
  OBVIOUS
<1>5. Xor(b[j], {y \in 0 .. 7 : <<j, y>> \in F} \cup {x})
        = Xor(Xor(b[j], {y \in 0 .. 7 : <<j, y>> \in F}), {x})
  <2> DEFINE Y == {y \in 0 .. 7 : <<j, y>> \in F}
  <2>1. x \notin Y
    OBVIOUS
  <2> HIDE DEF Y
  <2> QED
    BY <2>1 DEF Xor
<1> HIDE DEF A, B, C, G
<1>6. \A q \in DOMAIN b : B[q] = C[q]
  BY <1>1, <1>2, <1>3, <1>4, <1>5
<1>7. B = C
  BY <1>1, <1>2, <1>6
<1> QED
  BY <1>7 DEF A, B, C, G, Turned

LEMMA ImageIs ==
  ASSUME NEW k \in 1 .. Len(Sections)
  PROVE  /\ Sections[k] \in Section /\ Linked(Sections[k]) \in Section
         /\ Linked(Sections[k]).flags = Sections[k].flags
         /\ Linked(Sections[k]).romcopyof = Sections[k].romcopyof
         /\ Image(k) \in Seq(Octet)
         /\ Loaded(Sections[k]) /\ Len(Image(k)) # 0 => Intact(Image(k))
<1>1. Sections[k] \in Section
  BY ChecksumAssumption, ElementOfSeq
<1> QED
  BY <1>1, LinkedIs DEF Image, Section, Octet

LEMMA SectionsAre == Len(Sections) \in Nat /\ DOMAIN Sections = 1 .. Len(Sections)
  BY ChecksumAssumption, LenProperties

LEMMA SumInitInv == SumInit => SumInv
<1> SUFFICES ASSUME SumInit PROVE SumInv
  OBVIOUS
<1> USE SectionsAre
<1>1. /\ prog = [k \in 1 .. Len(Sections) |-> Linked(Sections[k])]
      /\ flipped = {} /\ ps = 1 /\ walk \in {"secinfo", "psinfo"} /\ result = "none"
  BY DEF SumInit
<1>2. prog \in [1 .. Len(Sections) -> Section]
  BY <1>1, ImageIs
<1>3. prog \in Seq(Section) /\ Len(prog) = Len(Sections)
  BY <1>2, FunIsSeq
<1>4. \A k \in 1 .. Len(Sections) : prog[k] = Linked(Sections[k])
  BY <1>1
<1>5. SumTypes
  BY <1>1, <1>3, <1>4, ImageIs DEF SumTypes
<1>6. FlipsInv
  <2>1. IsFiniteSet(flipped) /\ Cardinality(flipped) <= MaxFlips
    BY <1>1, FS_EmptySet, ChecksumAssumption
  <2>2. \A k \in 1 .. Len(Sections) : prog[k].bytes = Flipped(Image(k), BitsOf(k))
    <3>1. \A k \in 1 .. Len(Sections) : BitsOf(k) = {}
      BY <1>1 DEF BitsOf
    <3> QED
      BY <1>4, <3>1, ImageIs, FlippedNone DEF Image
  <2> QED
    BY <1>1, <2>1, <2>2 DEF FlipsInv
<1>7. WalkInv
  BY <1>1 DEF WalkInv
<1> QED
  BY <1>5, <1>6, <1>7 DEF SumInv

LEMMA FlipInv ==
  ASSUME SumInv, NEW k \in DOMAIN prog, NEW byte \in DOMAIN prog[k].bytes, NEW bit \in 0 .. 7,
         Flip(k, byte, bit)
  PROVE  SumInv'
<1> USE SectionsAre
<1> DEFINE sect == prog[k]
           spot == <<k, byte, bit>>
           new == [sect.bytes EXCEPT ![byte] = Xor(@, {bit})]
<1>1. /\ prog \in Seq(Section) /\ Len(prog) = Len(Sections)
      /\ \A q \in 1 .. Len(Sections) :
           prog[q].flags = Sections[q].flags /\ prog[q].romcopyof = Sections[q].romcopyof
  BY DEF SumInv, SumTypes
<1>2. DOMAIN prog = 1 .. Len(Sections) /\ k \in 1 .. Len(Sections)
  BY <1>1, LenProperties
<1>3. sect \in Section
  BY <1>1, <1>2, ElementOfSeq
<1>4. /\ ps = 1 /\ ps' = ps /\ walk' = walk /\ result' = result /\ result = "none"
      /\ spot \notin flipped /\ Cardinality(flipped) < MaxFlips
      /\ flipped' = flipped \cup {spot}
      /\ prog' = [prog EXCEPT ![k].bytes[byte] = Xor(@, {bit})]
  BY DEF Flip
<1>5. sect.bytes \in Seq(Octet) /\ DOMAIN sect.bytes = 1 .. Len(sect.bytes)
      /\ Len(sect.bytes) \in Nat
  <2>1. sect.bytes \in Seq(Octet)
    BY <1>3 DEF Section, Octet
  <2> HIDE DEF sect
  <2> QED
    BY <2>1, LenProperties
<1>6. new \in Seq(Octet)
  <2>1. sect.bytes[byte] \in Octet
    BY <1>5, ElementOfSeq
  <2>2. Xor(sect.bytes[byte], {bit}) \in Octet
    BY <2>1 DEF Xor, Octet
  <2> HIDE DEF sect
  <2>3. byte \in 1 .. Len(sect.bytes)
    BY <1>5 DEF sect
  <2> QED
    BY <1>5, <2>2, <2>3, ExceptSeq
<1> DEFINE newsect == [sect EXCEPT !.bytes = new]
<1>7. /\ newsect \in Section /\ newsect.bytes = new
      /\ newsect.flags = sect.flags /\ newsect.romcopyof = sect.romcopyof
  <2> HIDE DEF new, sect
  <2> QED
    BY <1>3, <1>6 DEF Section, Octet
<1>8. prog' = [prog EXCEPT ![k] = newsect]
  BY <1>4, Zenon
<1> HIDE DEF newsect
<1>9. prog' \in Seq(Section) /\ Len(prog') = Len(Sections)
      /\ \A q \in 1 .. Len(Sections) : prog'[q] = IF q = k THEN newsect ELSE prog[q]
  <2>1. k \in 1 .. Len(prog)
    BY <1>1, <1>2
  <2>2. /\ [prog EXCEPT ![k] = newsect] \in Seq(Section)
        /\ Len([prog EXCEPT ![k] = newsect]) = Len(prog)
        /\ \A q \in 1 .. Len(prog) :
             [prog EXCEPT ![k] = newsect][q] = IF q = k THEN newsect ELSE prog[q]
    <3>1. newsect \in Section /\ prog \in Seq(Section)
      BY <1>1, <1>7
    <3> QED
      BY <2>1, <3>1, ExceptSeq
  <2> QED
    BY <1>1, <1>8, <2>2
<1> HIDE DEF new, sect
<1>10. SumTypes'
  <2>1. \A q \in 1 .. Len(Sections) :
          prog'[q].flags = Sections[q].flags /\ prog'[q].romcopyof = Sections[q].romcopyof
    BY <1>1, <1>7, <1>9 DEF sect
  <2> QED
    BY <1>4, <1>9, <2>1 DEF SumTypes, SumInv
<1>11. FlipsInv'
  <2>1. /\ IsFiniteSet(flipped) /\ Cardinality(flipped) <= MaxFlips
        /\ \A f \in flipped : \E q \in 1 .. Len(Sections), j \in Nat, x \in 0 .. 7 :
             f = <<q, j, x>> /\ j \in DOMAIN Image(q)
        /\ \A q \in 1 .. Len(Sections) : prog[q].bytes = Flipped(Image(q), BitsOf(q))
    BY DEF SumInv, FlipsInv
  <2>2. IsFiniteSet(flipped') /\ Cardinality(flipped') <= MaxFlips
    <3>1. Cardinality(flipped) \in Nat /\ Cardinality(flipped) + 1 <= MaxFlips
      BY <1>4, <2>1, FS_CardinalityType, ChecksumAssumption
    <3>2. IsFiniteSet(flipped \cup {spot})
          /\ Cardinality(flipped \cup {spot}) = Cardinality(flipped) + 1
      BY <1>4, <2>1, FS_AddElement
    <3> HIDE DEF spot
    <3> QED
      BY <1>4, <3>1, <3>2
  <2>3. sect.bytes = Flipped(Image(k), BitsOf(k))
    BY <1>2, <2>1 DEF sect
  <2>4. byte \in DOMAIN Image(k) /\ byte \in Nat
    <3>1. DOMAIN sect.bytes = DOMAIN Image(k)
      BY <2>3 DEF Flipped
    <3>2. byte \in DOMAIN sect.bytes
      BY DEF sect
    <3> QED
      BY <1>5, <3>1, <3>2
  <2>5. \A f \in flipped' : \E q \in 1 .. Len(Sections), j \in Nat, x \in 0 .. 7 :
          f = <<q, j, x>> /\ j \in DOMAIN Image(q)
    BY <1>2, <1>4, <2>1, <2>4
  <2>6. ASSUME NEW q \in 1 .. Len(Sections)
        PROVE  prog'[q].bytes = Flipped(Image(q), BitsOf(q)')
    <3>1. CASE q # k
      <4>1. BitsOf(q)' = BitsOf(q)
        BY <1>4, <3>1 DEF BitsOf
      <4> QED
        BY <1>9, <2>1, <3>1, <4>1
    <3>2. CASE q = k
      <4>1. <<byte, bit>> \notin BitsOf(k)
        BY <1>4 DEF BitsOf
      <4>2. BitsOf(k)' = BitsOf(k) \cup {<<byte, bit>>}
        BY <1>4, <2>4 DEF BitsOf
      <4>3. Flipped(Image(k), BitsOf(k) \cup {<<byte, bit>>})
              = [Flipped(Image(k), BitsOf(k)) EXCEPT ![byte] = Xor(@, {bit})]
        <5>1. PICK b \in Seq(Octet), F \in {BitsOf(k)} : b = Image(k) /\ F = BitsOf(k)
          BY <1>2, ImageIs
        <5>2. byte \in DOMAIN b /\ <<byte, bit>> \notin F
          BY <2>4, <4>1, <5>1
        <5>3. Flipped(b, F \cup {<<byte, bit>>}) = Turned(Flipped(b, F), byte, bit)
          BY <5>2, FlippedMore
        <5> QED
          BY <5>1, <5>3 DEF Turned
      <4>4. new = [Flipped(Image(k), BitsOf(k)) EXCEPT ![byte] = Xor(@, {bit})]
        BY <2>3 DEF new
      <4> QED
        BY <1>7, <1>9, <3>2, <4>2, <4>3, <4>4
    <3> QED
      BY <3>1, <3>2
  <2> QED
    BY <2>2, <2>5, <2>6 DEF FlipsInv, Image
<1>12. WalkInv'
  <2>1. \A q \in 1 .. Len(Sections) : ~(q < ps')
    BY <1>4
  <2> QED
    BY <1>4, <2>1 DEF WalkInv
<1> QED
  BY <1>10, <1>11, <1>12 DEF SumInv

(* A section that is checked and has no bit changed matches. *)
LEMMA IntactMatches ==
  ASSUME SumInv, NEW k \in 1 .. Len(Sections), BitsOf(k) = {}, Checked(k)
  PROVE  Matches(k)
<1>1. /\ prog[k].flags = Sections[k].flags
      /\ prog[k].bytes = Flipped(Image(k), BitsOf(k))
  BY DEF SumInv, SumTypes, FlipsInv
<1>3. prog[k].bytes = Image(k)
  BY <1>1, ImageIs, FlippedNone
<1>4. Loaded(Sections[k]) /\ Len(Image(k)) # 0
  BY <1>1, <1>3 DEF Checked, Loaded
<1> QED
  BY <1>3, <1>4, ImageIs DEF Matches

LEMMA WalkStepInv ==
  ASSUME SumInv, CheckSection \/ Return0
  PROVE  SumInv'
<1> USE SectionsAre
<1>1. /\ prog \in Seq(Section) /\ Len(prog) = Len(Sections) /\ ps \in Nat \ {0}
      /\ SumTypes /\ FlipsInv /\ WalkInv
  BY DEF SumInv, SumTypes
<1>2. prog' = prog /\ flipped' = flipped /\ walk' = walk
  BY DEF CheckSection, Return0
<1>3. FlipsInv'
  BY <1>1, <1>2 DEF FlipsInv, BitsOf
<1>4. \A k \in 1 .. Len(Sections) : (Covered(k)' <=> Covered(k)) /\ (Matches(k)' <=> Matches(k))
  BY <1>2 DEF Covered, Matches
<1>5. CASE CheckSection
  <2>1. result = "none" /\ ps \in 1 .. Len(Sections)
    BY <1>1, <1>5 DEF CheckSection
  <2>2. CASE Checked(ps) /\ ~Matches(ps)
    <3>1. result' = "bad" /\ ps' = ps
      BY <1>5, <2>2 DEF CheckSection
    <3>2. \E f \in flipped : Covered(f[1])'
      <4>1. PICK y \in BitsOf(ps) : <<ps, y[1], y[2]>> \in flipped
        BY <2>1, <2>2, IntactMatches DEF BitsOf
      <4>2. Covered(ps)
        BY <2>2 DEF Checked, Covered, ramcopyof
      <4>3. \E f \in flipped : f[1] = ps
        BY <4>1
      <4> QED
        BY <1>4, <2>1, <4>2, <4>3
    <3>3. WalkInv'
      BY <1>1, <1>2, <1>4, <3>1, <3>2 DEF WalkInv
    <3>4. SumTypes'
      BY <1>1, <1>2, <3>1 DEF SumTypes
    <3> QED
      BY <1>3, <3>3, <3>4 DEF SumInv
  <2>3. CASE ~(Checked(ps) /\ ~Matches(ps))
    <3>1. result' = result /\ ps' = ps + 1
      BY <1>5, <2>3 DEF CheckSection
    <3>2. Covered(ps) /\ Len(prog[ps].bytes) # 0 => Checked(ps)
      BY DEF Covered, Checked, ramcopyof
    <3>3. \A k \in 1 .. Len(Sections) : k < ps' => k < ps \/ k = ps
      BY <1>1, <3>1
    <3>4. WalkInv'
      BY <1>1, <1>2, <1>4, <2>1, <2>3, <3>1, <3>2, <3>3 DEF WalkInv
    <3>5. SumTypes'
      BY <1>1, <1>2, <3>1 DEF SumTypes
    <3> QED
      BY <1>3, <3>4, <3>5 DEF SumInv
  <2> QED
    BY <2>2, <2>3
<1>6. CASE Return0
  <2>1. result' = "ok" /\ ps' = ps /\ ps > Len(Sections)
    BY <1>1, <1>6 DEF Return0
  <2>2. WalkInv'
    BY <1>1, <1>2, <1>4, <2>1 DEF WalkInv
  <2>3. SumTypes'
    BY <1>1, <1>2, <2>1 DEF SumTypes
  <2> QED
    BY <1>3, <2>2, <2>3 DEF SumInv
<1> QED
  BY <1>5, <1>6

LEMMA SumNextInv == SumInv /\ [SumNext]_sums => SumInv'
<1> SUFFICES ASSUME SumInv, [SumNext]_sums PROVE SumInv'
  OBVIOUS
<1>1. ASSUME NEW k \in DOMAIN prog, NEW byte \in DOMAIN prog[k].bytes, NEW bit \in 0 .. 7,
             Flip(k, byte, bit)
      PROVE  SumInv'
  BY <1>1, FlipInv
<1>2. CASE CheckSection \/ Return0
  BY <1>2, WalkStepInv
<1>3. CASE UNCHANGED sums
  BY <1>3 DEF sums, SumInv, SumTypes, FlipsInv, WalkInv, BitsOf, Covered, Matches
<1> QED
  BY <1>1, <1>2, <1>3 DEF SumNext

(* The changed bits of a section are at most MaxFlips: they are the range of *)
(* a function the hypothesis on the CRC speaks of.                           *)
LEMMA BitsRange ==
  ASSUME SumInv, NEW k \in 1 .. Len(Sections), BitsOf(k) # {}
  PROVE  /\ MaxFlips > 0
         /\ \E f \in [1 .. MaxFlips -> (DOMAIN Image(k)) \X (0 .. 7)] :
              {f[x] : x \in 1 .. MaxFlips} = BitsOf(k)
<1>1. /\ IsFiniteSet(flipped) /\ Cardinality(flipped) <= MaxFlips
      /\ \A g \in flipped : \E q \in 1 .. Len(Sections), j \in Nat, x \in 0 .. 7 :
           g = <<q, j, x>> /\ j \in DOMAIN Image(q)
  BY DEF SumInv, FlipsInv
<1> DEFINE c == Cardinality(flipped)
<1>2. c \in Nat /\ ExistsBijection(1 .. c, flipped) /\ MaxFlips \in Nat
  BY <1>1, FS_CardinalityType, ChecksumAssumption
<1>3. PICK h \in [1 .. c -> flipped] : \A g \in flipped : \E x \in 1 .. c : h[x] = g
  BY <1>2 DEF ExistsBijection, Bijection, Surjection
<1>4. PICK one \in BitsOf(k) : TRUE
  OBVIOUS
<1>5. BitsOf(k) \subseteq (DOMAIN Image(k)) \X (0 .. 7)
  BY <1>1 DEF BitsOf
<1> HIDE DEF c
<1> DEFINE f == [x \in 1 .. MaxFlips |->
                   IF x <= c /\ h[x][1] = k THEN <<h[x][2], h[x][3]>> ELSE one]
<1>6. \A x \in 1 .. c : x \in 1 .. MaxFlips
  BY <1>1, <1>2 DEF c
<1>7. ASSUME NEW x \in 1 .. MaxFlips PROVE f[x] \in BitsOf(k)
  <2>1. CASE x <= c /\ h[x][1] = k
    <3>1. h[x] \in flipped
      BY <1>2, <1>3, <2>1
    <3>2. PICK j \in Nat, y \in 0 .. 7 : h[x] = <<k, j, y>>
      BY <1>1, <2>1, <3>1
    <3>3. f[x] = <<j, y>>
      BY <2>1, <3>2
    <3> HIDE DEF f
    <3> QED
      BY <3>1, <3>2, <3>3 DEF BitsOf
  <2>2. CASE ~(x <= c /\ h[x][1] = k)
    BY <1>4, <2>2
  <2> QED
    BY <2>1, <2>2
<1>8. ASSUME NEW y \in BitsOf(k) PROVE \E x \in 1 .. MaxFlips : f[x] = y
  <2>1. <<k, y[1], y[2]>> \in flipped /\ y = <<y[1], y[2]>>
    BY DEF BitsOf
  <2>2. PICK x \in 1 .. c : h[x] = <<k, y[1], y[2]>>
    BY <1>3, <2>1
  <2>3. x \in 1 .. MaxFlips /\ x <= c /\ h[x][1] = k
    BY <1>2, <1>6, <2>2
  <2>4. f[x] = <<y[1], y[2]>>
    BY <2>2, <2>3
  <2> HIDE DEF f
  <2> QED
    BY <2>1, <2>3, <2>4
<1>9. MaxFlips > 0
  BY <1>2, <1>4, <1>8
<1>10. f \in [1 .. MaxFlips -> (DOMAIN Image(k)) \X (0 .. 7)]
  <2>1. \A x \in 1 .. MaxFlips : f[x] \in (DOMAIN Image(k)) \X (0 .. 7)
    BY <1>5, <1>7
  <2>2. f = [x \in 1 .. MaxFlips |-> f[x]]
    OBVIOUS
  <2> HIDE DEF f
  <2> QED
    BY <2>1, <2>2
<1>11. {f[x] : x \in 1 .. MaxFlips} = BitsOf(k)
  <2> HIDE DEF f
  <2> QED
    BY <1>7, <1>8
<1> HIDE DEF f
<1> QED
  BY <1>9, <1>10, <1>11

LEMMA FoundByInv == CrcDetects /\ SumInv => CorruptionFound
<1> SUFFICES ASSUME CrcDetects, SumInv PROVE CorruptionFound
  OBVIOUS
<1> USE SectionsAre
<1>1. /\ prog \in Seq(Section) /\ Len(prog) = Len(Sections) /\ ps \in Nat \ {0}
      /\ \A k \in 1 .. Len(Sections) : prog[k].flags = Sections[k].flags
      /\ FlipsInv /\ WalkInv
  BY DEF SumInv, SumTypes
<1>2. ASSUME result = "ok", NEW g \in flipped, Covered(g[1]) PROVE FALSE
  <2>1. PICK k \in 1 .. Len(Sections), j \in Nat, x \in 0 .. 7 :
          g = <<k, j, x>> /\ j \in DOMAIN Image(k)
    BY <1>1 DEF FlipsInv
  <2>2. k < ps /\ Covered(k)
    BY <1>1, <1>2, <2>1 DEF WalkInv
  <2>3. prog[k].bytes = Flipped(Image(k), BitsOf(k))
    BY <1>1 DEF FlipsInv
  <2>4. <<j, x>> \in BitsOf(k)
    BY <2>1 DEF BitsOf
  <2>5. Len(prog[k].bytes) # 0
    <3>1. DOMAIN prog[k].bytes = DOMAIN Image(k)
      BY <2>3 DEF Flipped
    <3>2. prog[k] \in Section
      BY <1>1, ElementOfSeq
    <3>3. PICK b \in Seq(Octet) : b = prog[k].bytes
      BY <3>2 DEF Section, Octet
    <3>4. DOMAIN b = 1 .. Len(b) /\ j \in DOMAIN b
      BY <2>1, <3>1, <3>3, LenProperties
    <3> QED
      BY <3>3, <3>4
  <2>6. Intact(Flipped(Image(k), BitsOf(k)))
    BY <1>1, <2>2, <2>3, <2>5 DEF WalkInv, Matches
  <2>7. Sections[k].flags \cap {"TEXT", "DATA"} # {}
    BY <1>1, <2>2 DEF Covered
  <2>8. MaxFlips > 0 /\ \E f \in [1 .. MaxFlips -> (DOMAIN Image(k)) \X (0 .. 7)] :
          {f[y] : y \in 1 .. MaxFlips} = BitsOf(k)
    BY <2>4, BitsRange
  <2>9. ASSUME NEW f \in [1 .. MaxFlips -> (DOMAIN Image(k)) \X (0 .. 7)]
        PROVE  ~Intact(Flipped(Image(k), {f[y] : y \in 1 .. MaxFlips}))
    BY <2>7, <2>8, ZenonT(60) DEF CrcDetects, Image
  <2> QED
    BY <2>6, <2>8, <2>9
<1> QED
  BY <1>1, <1>2 DEF CorruptionFound, WalkInv

(* The program the linker wrote is accepted: a walk that ends in -1 found a *)
(* bit that changed in a section it vouches for, for every polynomial, every *)
(* program and every number of changes.  __cksumsects therefore accepts it   *)
(* whatever the RAM copies hold.                                             *)
THEOREM ChecksumAccepts ==
  SumSpec => [](result = "bad" => \E f \in flipped : Covered(f[1]))
<1>1. SumInv => (result = "bad" => \E f \in flipped : Covered(f[1]))
  BY DEF SumInv, WalkInv
<1> QED
  BY <1>1, SumInitInv, SumNextInv, PTL DEF SumSpec

(* ... and where the polynomial tells errors of up to MaxFlips bits in each *)
(* section, a walk that ends in 0 vouches for sections without an error.    *)
THEOREM ChecksumFinds == ASSUME CrcDetects PROVE SumSpec => []CorruptionFound
<1>1. SumInv => CorruptionFound
  BY FoundByInv
<1> QED
  BY <1>1, SumInitInv, SumNextInv, PTL DEF SumSpec
-----------------------------------------------------------------------------
(* Division, by the quotient and the remainder one has. *)
LEMMA QuotRem ==
  ASSUME NEW u \in Nat \ {0}, NEW q \in Int, NEW r0 \in 0 .. u - 1
  PROVE  (u * q + r0) \div u = q /\ (u * q + r0) % u = r0
<1> DEFINE x == u * q + r0
           p == x \div u
           r1 == x % u
<1>1. x \in Int
  OBVIOUS
<1>2. x = u * p + r1 /\ p \in Int /\ r1 \in 0 .. u - 1
  BY <1>1, DivMod
<1>3. u * (q - p) = r1 - r0
  BY <1>2, SMT
<1> HIDE DEF x, p, r1
<1>4. q - p = 0
  <2>1. q - p >= 1 => u * (q - p) >= u
    BY <1>2
  <2>2. q - p <= -1 => u * (q - p) <= -u
    BY <1>2
  <2> QED
    BY <1>2, <1>3, <2>1, <2>2
<1>5. p = q /\ r1 = r0
  BY <1>2, <1>3, <1>4
<1> QED
  BY <1>5 DEF p, r1, x

LEMMA QuotOf ==
  ASSUME NEW u \in Nat \ {0}, NEW q \in Int, NEW r0 \in Nat, r0 < u, NEW x, x = u * q + r0
  PROVE  x \div u = q /\ x % u = r0
  BY QuotRem

(* Seconds of a day, from either side of the Epoch. *)
LEMMA DayAndSecondIs ==
  ASSUME NEW u \in Nat \ {0}, SECS_IN_MIN \in Nat \ {0}, MINS_IN_HOUR \in Nat \ {0},
         u = Cal!SECS_IN_DAY, NEW k \in Int, NEW y \in 0 .. u - 1
  PROVE  Cal!DayAndSecond(k * u + y) = [t |-> k, s |-> y]
<1> DEFINE x == k * u + y
           q == Cal!Quot(x, u)
<1>1. x \in Int /\ x = u * k + y
  OBVIOUS
<1>2. q = IF k >= 0 \/ y = 0 THEN k ELSE k + 1
  <2>1. CASE k >= 0
    <3>1. x >= 0
      BY <2>1
    <3>2. x \div u = k
      BY <1>1, QuotRem
    <3> HIDE DEF x
    <3> QED
      BY <2>1, <3>1, <3>2 DEF Cal!Quot
  <2>2. CASE k < 0
    <3>1. u * k <= -u
      BY <2>2
    <3>2. x < 0
      BY <1>1, <3>1
    <3>3. CASE y = 0
      <4>1. -x = u * (-k) + 0
        BY <1>1, <3>3
      <4>2. -k \in Int /\ 0 \in 0 .. u - 1
        OBVIOUS
      <4>3. (-x) \div u = -k
        <5> HIDE DEF x
        <5> QED
          BY <4>1, <4>2, QuotRem
      <4> HIDE DEF x
      <4> QED
        BY <1>1, <3>2, <3>3, <4>3 DEF Cal!Quot
    <3>4. CASE y > 0
      <4>1. -x = u * (-k - 1) + (u - y)
        BY <1>1
      <4>2. -k - 1 \in Int /\ u - y \in 0 .. u - 1
        BY <3>4
      <4>3. (u * (-k - 1) + (u - y)) \div u = -k - 1
        BY <4>2, QuotRem
      <4>4. (-x) \div u = -k - 1
        <5> HIDE DEF x
        <5> QED
          BY <4>1, <4>3
      <4> HIDE DEF x
      <4> QED
        BY <1>1, <2>2, <3>2, <3>4, <4>4 DEF Cal!Quot
    <3> QED
      BY <3>3, <3>4
  <2> HIDE DEF q
  <2> QED
    BY <2>1, <2>2
<1>3. Cal!Rem(x, u) = x - u * q
  BY DEF Cal!Rem
<1>4. Cal!Rem(x, u) = IF k >= 0 \/ y = 0 THEN y ELSE y - u
  <2>1. u * (k + 1) = u * k + u
    OBVIOUS
  <2> HIDE DEF x, q
  <2> QED
    BY <1>1, <1>2, <1>3, <2>1
<1> HIDE DEF x
<1>5. Cal!DayAndSecond(x) = IF Cal!Rem(x, u) < 0 THEN [t |-> q - 1, s |-> Cal!Rem(x, u) + u]
                                                ELSE [t |-> q, s |-> Cal!Rem(x, u)]
  BY DEF Cal!DayAndSecond
<1> HIDE DEF q
<1>6. Cal!DayAndSecond(x) = [t |-> k, s |-> y]
  BY <1>2, <1>4, <1>5
<1> QED
  BY <1>6 DEF x

LEMMA WeekdayIs ==
  ASSUME NEW k \in Int
  PROVE  Cal!Weekday(k) = (k + 4) % 7
  BY DEF Cal!Weekday, Cal!Rem, Cal!Quot
-----------------------------------------------------------------------------
(* Years: cycles of 400 from 2000 on, centuries, fours and the rest. *)
InCycle(y, q, c, a, b) == y = 100 + 400 * q + 100 * c + 4 * a + b

LEMMA YearParts ==
  ASSUME NEW y \in Int
  PROVE  \E q \in Int, c \in 0 .. 3, a \in 0 .. 24, b \in 0 .. 3 : InCycle(y, q, c, a, b)
<1> DEFINE q == (y - 100) \div 400
           h == (y - 100) % 400
           c == h \div 100
           g == h % 100
           a == g \div 4
           b == g % 4
<1>1. y - 100 = 400 * q + h /\ q \in Int /\ h \in Nat /\ h <= 399
  OBVIOUS
<1>2. h = 100 * c + g /\ c \in 0 .. 3 /\ g \in Nat /\ g <= 99
  <2> HIDE DEF h
  <2> QED
    BY <1>1
<1>3. g = 4 * a + b /\ a \in 0 .. 24 /\ b \in 0 .. 3
  <2> HIDE DEF g
  <2> QED
    BY <1>2
<1> HIDE DEF q, h, c, g, a, b
<1>4. InCycle(y, q, c, a, b)
  BY <1>1, <1>2, <1>3 DEF InCycle
<1> QED
  BY <1>1, <1>2, <1>3, <1>4

(* The first day of such a year within the 400, by the centuries before,   *)
(* and within the century.                                                 *)
CenturyStart(c) == IF c = 0 THEN 0 ELSE 36525 + 36524 * (c - 1)
YearStart(c, a, b) ==
  365 * (4 * a + b) + a + (IF b = 0 THEN 0 ELSE 1)
    - (IF c # 0 /\ (a # 0 \/ b # 0) THEN 1 ELSE 0)

LEMMA NewYearIs ==
  ASSUME NEW q \in Int, NEW c \in 0 .. 3, NEW a \in 0 .. 24, NEW b \in 0 .. 3, NEW y,
         y = 100 + 400 * q + 100 * c + 4 * a + b
  PROVE  /\ Cal!NewYear(y) = 10957 + 146097 * q + CenturyStart(c) + YearStart(c, a, b)
         /\ Cal!Leap(y) <=> b = 0 /\ (a # 0 \/ c = 0)
<1> DEFINE x == y + 1899
<1>1. x \in Int /\ x = 1999 + 400 * q + 100 * c + 4 * a + b
  OBVIOUS
<1>2. x \div 4 = 499 + 100 * q + 25 * c + a + (IF b = 0 THEN 0 ELSE 1)
  <2> HIDE DEF x
  <2> QED
    BY <1>1
<1>3. x \div 100 = 19 + 4 * q + c + (IF a = 0 /\ b = 0 THEN 0 ELSE 1)
  <2> HIDE DEF x
  <2> QED
    BY <1>1
<1>4. x \div 400 = 4 + q + (IF a = 0 /\ b = 0 /\ c = 0 THEN 0 ELSE 1)
  <2> HIDE DEF x
  <2> QED
    BY <1>1
<1>5. (y + 1900) % 4 = b
  BY <1>1
<1>6. (y + 1900) % 100 = 4 * a + b
  BY <1>1
<1>7. (y + 1900) % 400 = 100 * c + 4 * a + b
  BY <1>1
<1>8. Cal!NewYear(y) = 365 * (y - 70) - 477 + x \div 4 - x \div 100 + x \div 400
  BY DEF Cal!NewYear
<1>9. Cal!Leap(y) <=> b = 0 /\ (a # 0 \/ c = 0)
  BY <1>5, <1>6, <1>7 DEF Cal!Leap
<1> HIDE DEF x
<1>10. Cal!NewYear(y) = 365 * (y - 70) - 477
         + (499 + 100 * q + 25 * c + a + (IF b = 0 THEN 0 ELSE 1))
         - (19 + 4 * q + c + (IF a = 0 /\ b = 0 THEN 0 ELSE 1))
         + (4 + q + (IF a = 0 /\ b = 0 /\ c = 0 THEN 0 ELSE 1))
  BY <1>2, <1>3, <1>4, <1>8
<1> QED
  BY <1>9, <1>10 DEF CenturyStart, YearStart

Length(y) == IF Cal!Leap(y) THEN 366 ELSE 365

LEMMA NewYearNext ==
  ASSUME NEW y \in Int
  PROVE  Cal!NewYear(y + 1) = Cal!NewYear(y) + Length(y)
<1> DEFINE x == y + 1899
<1>1. x \in Int /\ y + 1 + 1899 = x + 1 /\ y + 1900 = x + 1
  OBVIOUS
<1> HIDE DEF x
<1>2. (x + 1) \div 4 = x \div 4 + (IF (x + 1) % 4 = 0 THEN 1 ELSE 0)
  BY <1>1
<1>3. (x + 1) \div 100 = x \div 100 + (IF (x + 1) % 100 = 0 THEN 1 ELSE 0)
  BY <1>1
<1>4. (x + 1) \div 400 = x \div 400 + (IF (x + 1) % 400 = 0 THEN 1 ELSE 0)
  BY <1>1
<1>5. /\ (x + 1) % 100 = 0 => (x + 1) % 4 = 0
      /\ (x + 1) % 400 = 0 => (x + 1) % 100 = 0
  BY <1>1
<1>6. Cal!Leap(y) <=> (x + 1) % 4 = 0 /\ ((x + 1) % 100 # 0 \/ (x + 1) % 400 = 0)
  BY <1>1 DEF Cal!Leap
<1>7. /\ Cal!NewYear(y) = 365 * (y - 70) - 477 + x \div 4 - x \div 100 + x \div 400
      /\ Cal!NewYear(y + 1) = 365 * (y + 1 - 70) - 477 + (x + 1) \div 4 - (x + 1) \div 100
                                + (x + 1) \div 400
  BY <1>1 DEF Cal!NewYear, x
<1> QED
  BY <1>1, <1>2, <1>3, <1>4, <1>5, <1>6, <1>7 DEF Length

(* A day of a cycle of four years. *)
LEMMA FourYearsIs ==
  ASSUME NEW a \in Int, NEW b \in 0 .. 3, NEW k \in Nat, k <= 365, b # 0 => k <= 364,
         NEW x,
         x = 1461 * a + (IF b = 0 THEN k ELSE 365 * b + 1 + k)
  PROVE  Cal!FourYears(x) = [y |-> 4 * a + b, d |-> k]
<1> DEFINE e == IF b = 0 THEN k ELSE 365 * b + 1 + k
<1>1. e \in Nat /\ e < 1461 /\ x = 1461 * a + e
  OBVIOUS
<1>2. x \div 1461 = a /\ x % 1461 = e
  <2> HIDE DEF e
  <2> QED
    BY <1>1, QuotOf
<1>3. e >= 366 <=> b # 0
  OBVIOUS
<1>4. b # 0 => (e - 1) \div 365 = b /\ (e - 1) % 365 = k
  OBVIOUS
<1> QED
  BY <1>2, <1>3, <1>4 DEF Cal!FourYears

(* A day of a cycle of 400 years: of its first century, or of a later one, *)
(* whose first year has one day less.                                      *)
LEMMA CenturyIs ==
  ASSUME NEW c \in 0 .. 3, NEW k \in Nat, k <= 36524, c # 0 => k <= 36523
  PROVE  Cal!Century(CenturyStart(c) + k) =
           [c |-> c, d |-> IF c # 0 /\ k >= 365 THEN k + 1 ELSE k]
<1> DEFINE x == CenturyStart(c) + k
<1>1. CASE c = 0
  <2>1. x = k
    BY <1>1 DEF CenturyStart
  <2> HIDE DEF x
  <2>2. Cal!Century(x) = [c |-> c, d |-> IF c # 0 /\ k >= 365 THEN k + 1 ELSE k]
    BY <1>1, <2>1 DEF Cal!Century
  <2> QED
    BY <2>2 DEF x
<1>2. CASE c # 0
  <2>1. x = 36525 + 36524 * (c - 1) + k
    BY <1>2 DEF CenturyStart
  <2> HIDE DEF x
  <2>2. x - 1 = 36524 * c + k /\ x >= 36525 /\ x \in Int
    BY <1>2, <2>1
  <2>3. (x - 1) \div 36524 = c /\ (x - 1) % 36524 = k
    BY <1>2, <2>2, QuotOf
  <2>4. Cal!Century(x) = [c |-> c, d |-> IF c # 0 /\ k >= 365 THEN k + 1 ELSE k]
    BY <1>2, <2>2, <2>3 DEF Cal!Century
  <2> QED
    BY <2>4 DEF x
<1> QED
  BY <1>1, <1>2

(* The day of a year, found from the days since the Epoch. *)
LEMMA WideIs ==
  ASSUME NEW y \in Int, NEW k \in Nat, k < Length(y)
  PROVE  Cal!Wide(Cal!NewYear(y) + k) = [year |-> y, yday |-> k, leap |-> Cal!Leap(y)]
<1>0. PICK q \in Int, c \in 0 .. 3, a \in 0 .. 24, b \in 0 .. 3 : InCycle(y, q, c, a, b)
  BY YearParts
<1>1. y = 100 + 400 * q + 100 * c + 4 * a + b
  BY <1>0 DEF InCycle
<1>2. /\ Cal!NewYear(y) = 10957 + 146097 * q + CenturyStart(c) + YearStart(c, a, b)
      /\ Cal!Leap(y) <=> b = 0 /\ (a # 0 \/ c = 0)
  BY <1>1, NewYearIs, SMTT(30)
<1> DEFINE m == YearStart(c, a, b) + k
           e == CenturyStart(c) + m
           z == Cal!NewYear(y) + k
           u == z - (365 * 30 + 7)
           p == Cal!Rem(u, 146097)
           f == IF c # 0 /\ m >= 365 THEN m + 1 ELSE m
<1>3. k <= 365 /\ (~(b = 0 /\ (a # 0 \/ c = 0)) => k <= 364)
  BY <1>2 DEF Length
<1>4. m \in Nat /\ m <= 36524 /\ (c # 0 => m <= 36523)
  BY <1>3 DEF YearStart
<1>5. e \in Nat /\ e < 146097
  BY <1>4 DEF CenturyStart
<1>6. u = 146097 * q + e
  BY <1>2, <1>3 DEF YearStart, CenturyStart
<1>7. /\ p < 0 => p + 146097 = e /\ Cal!Quot(u, 146097) = q + 1
      /\ p >= 0 => p = e /\ Cal!Quot(u, 146097) = q
      /\ p \in Int
  <2> HIDE DEF e, u
  <2>1. u \in Int
    BY <1>5, <1>6
  <2>2. CASE u >= 0
    BY <1>5, <1>6, <2>1, <2>2 DEF Cal!Rem, Cal!Quot
  <2>3. CASE u < 0
    <3>1. CASE e = 0
      <4>1. (-u) \div 146097 = -q
        BY <1>6, <3>1, QuotOf
      <4> QED
        BY <1>6, <2>1, <2>3, <3>1, <4>1 DEF Cal!Rem, Cal!Quot
    <3>2. CASE e # 0
      <4>1. (-u) \div 146097 = -q - 1
        BY <1>5, <1>6, <3>2, QuotOf
      <4> QED
        BY <1>5, <1>6, <2>1, <2>3, <3>2, <4>1 DEF Cal!Rem, Cal!Quot
    <3> QED
      BY <3>1, <3>2
  <2> QED
    BY <2>1, <2>2, <2>3
<1>8. Cal!Century(e) = [c |-> c, d |-> f]
  <2> HIDE DEF m
  <2> QED
    BY <1>4, CenturyIs
<1>9. f = 1461 * a + (IF b = 0 THEN k ELSE 365 * b + 1 + k)
  BY <1>3 DEF YearStart
<1>10. Cal!FourYears(f) = [y |-> 4 * a + b, d |-> k]
  <2> HIDE DEF f
  <2> QED
    BY <1>3, <1>9, FourYearsIs
<1>12. Cal!Wide(z) = [year |-> (4 * a + b) + (4 * q + c + 1) * 100, yday |-> k,
                      leap |-> /\ (4 * a + b) % 4 = 0
                               /\ 4 * a + b # 0 \/ (4 * q + c) % 4 = 0]
  <2> HIDE DEF z, f, e
  <2> DEFINE rest == IF Cal!Rem(z - (365 * 30 + 7), 146097) < 0
                     THEN Cal!Rem(z - (365 * 30 + 7), 146097) + 146097
                     ELSE Cal!Rem(z - (365 * 30 + 7), 146097)
             cycle == IF Cal!Rem(z - (365 * 30 + 7), 146097) < 0
                      THEN Cal!Quot(z - (365 * 30 + 7), 146097) * 4 - 4
                      ELSE Cal!Quot(z - (365 * 30 + 7), 146097) * 4
             four == Cal!FourYears(Cal!Century(rest).d)
             century == cycle + Cal!Century(rest).c
  <2>1. rest = e /\ cycle = 4 * q
    <3>1. z - (365 * 30 + 7) = u
      OBVIOUS
    <3> HIDE DEF u
    <3> QED
      BY <1>7, <3>1, SMT
  <2>2. Cal!Wide(z) = [year |-> four.y + (century + 1) * 100, yday |-> four.d,
                       leap |-> four.y % 4 = 0 /\ (four.y # 0 \/ century % 4 = 0)]
    BY SMT DEF Cal!Wide
  <2>3. four = [y |-> 4 * a + b, d |-> k]
    <3> HIDE DEF rest
    <3> QED
      BY <1>8, <1>10, <2>1, SMT
  <2>4. century = 4 * q + c
    <3> HIDE DEF rest, cycle
    <3> QED
      BY <1>8, <2>1, SMT
  <2> HIDE DEF four, century
  <2>5. four.y = 4 * a + b /\ four.d = k
    BY <2>3, SMT
  <2> QED
    BY <2>2, <2>4, <2>5, Zenon
<1>13. (4 * a + b) + (4 * q + c + 1) * 100 = y
  BY <1>1
<1>14. ((4 * a + b) % 4 = 0 /\ (4 * a + b # 0 \/ (4 * q + c) % 4 = 0)) <=> Cal!Leap(y)
  <2>1. (4 * a + b) % 4 = b /\ (4 * q + c) % 4 = c
    OBVIOUS
  <2> QED
    BY <1>2, <2>1
<1> HIDE DEF z
<1>15. Cal!Leap(y) \in BOOLEAN
  BY DEF Cal!Leap
<1>16. Cal!Wide(z) = [year |-> y, yday |-> k, leap |-> Cal!Leap(y)]
  BY <1>12, <1>13, <1>14, <1>15
<1> QED
  BY <1>16 DEF z

(* So is it with 32 bits, while every fourth year is a leap year. *)
LEMMA NarrowIs ==
  ASSUME NEW y \in Nat, 1 <= y, y <= 199, NEW k \in Nat, k < Length(y)
  PROVE  Cal!Narrow(Cal!NewYear(y) + k) = [year |-> y, yday |-> k, leap |-> Cal!Leap(y)]
<1> DEFINE a == y \div 4
           b == y % 4
           z == Cal!NewYear(y) + k
<1>1. y = 4 * a + b /\ a \in Nat /\ a <= 49 /\ b \in 0 .. 3
  OBVIOUS
<1>2. Cal!Leap(y) <=> b = 0
  BY DEF Cal!Leap
<1>3. /\ (y + 1899) \div 4 = 474 + a + (IF b = 0 THEN 0 ELSE 1)
      /\ (y + 1899) \div 100 - (y + 1899) \div 400 = 15
  <2>1. (y + 1899) \div 4 = 474 + a + (IF b = 0 THEN 0 ELSE 1)
    <3> HIDE DEF a, b
    <3> QED
      BY <1>1
  <2>2. \/ y <= 100 /\ (y + 1899) \div 100 = 19 /\ (y + 1899) \div 400 = 4
        \/ y > 100 /\ (y + 1899) \div 100 = 20 /\ (y + 1899) \div 400 = 5
    OBVIOUS
  <2> QED
    BY <2>1, <2>2
<1> HIDE DEF a, b
<1>4. k <= 365 /\ (b # 0 => k <= 364)
  BY <1>2 DEF Length
<1>5. z + 365 * 70 + 18 = 1461 * a + (IF b = 0 THEN k ELSE 365 * b + 1 + k)
  BY <1>1, <1>3, <1>4 DEF Cal!NewYear
<1>6. Cal!FourYears(z + 365 * 70 + 18) = [y |-> 4 * a + b, d |-> k]
  <2> HIDE DEF z
  <2> QED
    BY <1>1, <1>4, <1>5, FourYearsIs, SMTT(30)
<1>7. (4 * a + b) % 4 = 0 <=> b = 0
  BY <1>1
<1> HIDE DEF z
<1>8. Cal!Narrow(z) = [year |-> 4 * a + b, yday |-> k, leap |-> (4 * a + b) % 4 = 0]
  BY <1>6 DEF Cal!Narrow
<1>9. Cal!Leap(y) \in BOOLEAN
  BY DEF Cal!Leap
<1>10. Cal!Narrow(z) = [year |-> y, yday |-> k, leap |-> Cal!Leap(y)]
  BY <1>1, <1>2, <1>7, <1>8, <1>9
<1> QED
  BY <1>10 DEF z
-----------------------------------------------------------------------------
(* Months: the days before each, and its length. *)
StartTable == <<0, 31, 59, 90, 120, 151, 181, 212, 243, 273, 304, 334>>
MonthStart(m, leap) == StartTable[m + 1] + (IF m >= 2 /\ leap THEN 1 ELSE 0)
MonthDays(m, leap) ==
  IF m = 1 THEN IF leap THEN 29 ELSE 28 ELSE IF m \in {3, 5, 8, 10} THEN 30 ELSE 31

LEMMA MonthStarts ==
  ASSUME NEW leap \in BOOLEAN
  PROVE  /\ MonthStart(0, leap) = 0
         /\ MonthStart(1, leap) = 31
         /\ MonthStart(2, leap) = IF leap THEN 60 ELSE 59
         /\ MonthStart(3, leap) = IF leap THEN 91 ELSE 90
         /\ MonthStart(4, leap) = IF leap THEN 121 ELSE 120
         /\ MonthStart(5, leap) = IF leap THEN 152 ELSE 151
         /\ MonthStart(6, leap) = IF leap THEN 182 ELSE 181
         /\ MonthStart(7, leap) = IF leap THEN 213 ELSE 212
         /\ MonthStart(8, leap) = IF leap THEN 244 ELSE 243
         /\ MonthStart(9, leap) = IF leap THEN 274 ELSE 273
         /\ MonthStart(10, leap) = IF leap THEN 305 ELSE 304
         /\ MonthStart(11, leap) = IF leap THEN 335 ELSE 334
  BY SMT DEF MonthStart, StartTable

LEMMA MonthTypes ==
  ASSUME NEW leap \in BOOLEAN, NEW m \in 0 .. 11
  PROVE  /\ MonthStart(m, leap) \in Nat /\ MonthDays(m, leap) \in Nat
         /\ 28 <= MonthDays(m, leap) /\ MonthDays(m, leap) <= 31
         /\ MonthStart(m, leap) + MonthDays(m, leap) <= (IF leap THEN 366 ELSE 365)
         /\ m < 11 => MonthStart(m + 1, leap) = MonthStart(m, leap) + MonthDays(m, leap)
         /\ m = 11 => MonthStart(m, leap) + MonthDays(m, leap) = IF leap THEN 366 ELSE 365
  BY MonthStarts, SMT DEF MonthDays

LEMMA MonthOrder ==
  ASSUME NEW leap \in BOOLEAN, NEW m \in 0 .. 11, NEW k \in 0 .. 11, k < m
  PROVE  MonthStart(k + 1, leap) <= MonthStart(m, leap)
  BY MonthStarts, SMT

Summed(f, m, leap) ==
  IF m = 0 THEN 0 ELSE f[m - 1] + Cal!mons[m] + (IF m = 2 /\ leap THEN 1 ELSE 0)

LEMMA DaysBeforeIs ==
  ASSUME NEW leap \in BOOLEAN
  PROVE  \A m \in 0 .. 11 : Cal!DaysBefore(leap)[m] = MonthStart(m, leap)
<1> DEFINE Eq(f) == f = [m \in 0 .. 11 |-> Summed(f, m, leap)]
           sum == CHOOSE f : Eq(f)
           h == [m \in 0 .. 11 |-> MonthStart(m, leap)]
<1>1. \A m \in 0 .. 11 : MonthStart(m, leap) = Summed(h, m, leap)
  <2>1. \A m \in 0 .. 11 : h[m] = MonthStart(m, leap)
    OBVIOUS
  <2> HIDE DEF h
  <2> QED
    BY <2>1, MonthStarts, SMT DEF Summed, Cal!mons
<1>2. Eq(h)
  <2>1. \A m \in 0 .. 11 : h[m] = Summed(h, m, leap)
    BY <1>1
  <2>2. h = [m \in 0 .. 11 |-> h[m]]
    OBVIOUS
  <2> HIDE DEF h
  <2> QED
    BY <2>1, <2>2
<1>3. Eq(sum)
  <2> HIDE DEF Eq
  <2> QED
    BY <1>2
<1>4. Cal!DaysBefore(leap) = sum
  BY Zenon DEF Cal!DaysBefore, Summed
<1>5. \A m \in 0 .. 11 : sum[m] = Summed(sum, m, leap)
  <2> HIDE DEF sum
  <2> QED
    BY <1>3
<1> HIDE DEF sum
<1>6. \A m \in 0 .. 11 : sum[m] = MonthStart(m, leap)
  <2>1. sum[0] = 0
    BY <1>5, SMT DEF Summed
  <2>2. sum[1] = 31
    BY <1>5, <2>1, SMT DEF Summed, Cal!mons
  <2>3. sum[2] = IF leap THEN 60 ELSE 59
    BY <1>5, <2>2, SMT DEF Summed, Cal!mons
  <2>4. sum[3] = IF leap THEN 91 ELSE 90
    BY <1>5, <2>3, SMT DEF Summed, Cal!mons
  <2>5. sum[4] = IF leap THEN 121 ELSE 120
    BY <1>5, <2>4, SMT DEF Summed, Cal!mons
  <2>6. sum[5] = IF leap THEN 152 ELSE 151
    BY <1>5, <2>5, SMT DEF Summed, Cal!mons
  <2>7. sum[6] = IF leap THEN 182 ELSE 181
    BY <1>5, <2>6, SMT DEF Summed, Cal!mons
  <2>8. sum[7] = IF leap THEN 213 ELSE 212
    BY <1>5, <2>7, SMT DEF Summed, Cal!mons
  <2>9. sum[8] = IF leap THEN 244 ELSE 243
    BY <1>5, <2>8, SMT DEF Summed, Cal!mons
  <2>10. sum[9] = IF leap THEN 274 ELSE 273
    BY <1>5, <2>9, SMT DEF Summed, Cal!mons
  <2>11. sum[10] = IF leap THEN 305 ELSE 304
    BY <1>5, <2>10, SMT DEF Summed, Cal!mons
  <2>12. sum[11] = IF leap THEN 335 ELSE 334
    BY <1>5, <2>11, SMT DEF Summed, Cal!mons
  <2> QED
    BY <2>1, <2>2, <2>3, <2>4, <2>5, <2>6, <2>7, <2>8, <2>9, <2>10, <2>11, <2>12,
       MonthStarts, SMT
<1> QED
  BY <1>4, <1>6

LEMMA MonthOfIs ==
  ASSUME NEW leap \in BOOLEAN, NEW m \in 0 .. 11, NEW k \in Nat, 1 <= k, k <= MonthDays(m, leap)
  PROVE  Cal!MonthOf(MonthStart(m, leap) + k, leap) = [mon |-> m, mday |-> k]
<1> DEFINE x == MonthStart(m, leap) + k
           sum == Cal!DaysBefore(leap)
           Has(j) == sum[j] < x /\ (j < 11 => x <= sum[j + 1])
<1>1. \A j \in 0 .. 11 : sum[j] = MonthStart(j, leap) /\ MonthStart(j, leap) \in Nat
  BY DaysBeforeIs, MonthTypes
<1>2. Has(m)
  <2>1. m < 11 => MonthStart(m + 1, leap) = MonthStart(m, leap) + MonthDays(m, leap)
    BY MonthTypes
  <2>2. MonthDays(m, leap) \in Nat
    BY MonthTypes
  <2>3. m < 11 => m + 1 \in 0 .. 11
    OBVIOUS
  <2> HIDE DEF sum
  <2> QED
    BY <1>1, <2>1, <2>2, <2>3
<1>3. ASSUME NEW j \in 0 .. 11, Has(j) PROVE j = m
  <2>1. CASE j < m
    <3>1. MonthStart(j + 1, leap) <= MonthStart(m, leap) /\ j + 1 \in 0 .. 11
      BY <2>1, MonthOrder
    <3> HIDE DEF sum
    <3> QED
      BY <1>1, <1>3, <2>1, <3>1
  <2>2. CASE m < j
    <3>1. MonthStart(m + 1, leap) <= MonthStart(j, leap) /\ m + 1 \in 0 .. 11
      BY <2>2, MonthOrder
    <3>2. x <= MonthStart(m + 1, leap)
      BY <2>2, MonthTypes
    <3> HIDE DEF sum
    <3> QED
      BY <1>1, <1>3, <2>2, <3>1, <3>2
  <2> QED
    BY <2>1, <2>2
<1>4. (CHOOSE j \in 0 .. 11 : Has(j)) = m
  <2> HIDE DEF Has
  <2> QED
    BY <1>2, <1>3
<1>5. Cal!MonthOf(x, leap) = LET j == CHOOSE j \in 0 .. 11 : Has(j)
                             IN [mon |-> j, mday |-> x - sum[j]]
  BY Zenon DEF Cal!MonthOf
<1> HIDE DEF Has, sum
<1>6. Cal!MonthOf(x, leap) = [mon |-> m, mday |-> x - MonthStart(m, leap)]
  BY <1>1, <1>4, <1>5
<1>7. x - MonthStart(m, leap) = k
  BY <1>1
<1> QED
  BY <1>6, <1>7 DEF x
-----------------------------------------------------------------------------
(* A date of the clock, and the days since the Epoch. *)
DateOk(dt, k) ==
  /\ dt \in [year : Int, mon : 0 .. 11, mday : Nat, wday : 0 .. 6, yday : Nat]
  /\ 1 <= dt.mday /\ dt.mday <= MonthDays(dt.mon, Cal!Leap(dt.year))
  /\ dt.yday = MonthStart(dt.mon, Cal!Leap(dt.year)) + dt.mday - 1
  /\ k = Cal!NewYear(dt.year) + dt.yday
  /\ dt.wday = (k + 4) % 7

(* The years a narrow time is right for. *)
YearOk(y) == narrow \in BOOLEAN /\ (narrow => 1 <= y /\ y <= 199)

LEMMA NewYearInt ==
  ASSUME NEW y \in Int
  PROVE  Cal!NewYear(y) \in Int /\ Cal!Leap(y) \in BOOLEAN
  BY SMT DEF Cal!NewYear, Cal!Leap

LEMMA Units60 ==
  /\ SECS_IN_MIN \in Nat \ {0} /\ MINS_IN_HOUR \in Nat \ {0}
  /\ Cal!SECS_IN_HOUR \in Nat \ {0} /\ Cal!SECS_IN_HOUR = MINS_IN_HOUR * SECS_IN_MIN
  /\ Cal!SECS_IN_DAY \in Nat \ {0} /\ Cal!SECS_IN_DAY = 24 * Cal!SECS_IN_HOUR
<1>1. SECS_IN_MIN \in Nat \ {0} /\ MINS_IN_HOUR \in Nat \ {0}
  BY MCClocks DEF Cal!ClockAssumption
<1>2. MINS_IN_HOUR * SECS_IN_MIN \in Nat \ {0}
  BY <1>1
<1> QED
  BY <1>1, <1>2 DEF Cal!SECS_IN_HOUR, Cal!SECS_IN_DAY, Cal!HOURS_IN_DAY

(* The minute of the hour, of the seconds in the hour or of the minutes. *)
LEMMA MinuteIs ==
  ASSUME NEW y \in Nat
  PROVE  (y % Cal!SECS_IN_HOUR) \div SECS_IN_MIN = (y \div SECS_IN_MIN) % MINS_IN_HOUR
<1> DEFINE S == SECS_IN_MIN
           M == MINS_IN_HOUR
           H == Cal!SECS_IN_HOUR
           k == y \div S
           x == y % S
           h == k \div M
           m == k % M
<1>1. S \in Nat \ {0} /\ M \in Nat \ {0} /\ H = M * S /\ H \in Nat \ {0}
  BY Units60
<1>2. y = S * k + x /\ k \in Int /\ x \in Nat /\ x < S
  <2> HIDE DEF S
  <2> QED
    BY <1>1, DivMod
<1>3. k = M * h + m /\ h \in Int /\ m \in Nat /\ m < M
  <2> HIDE DEF M, k
  <2> QED
    BY <1>1, <1>2, DivMod
<1> HIDE DEF S, M, H, k, x, h, m
<1>4. y = H * h + (S * m + x)
  BY <1>1, <1>2, <1>3
<1>5. S * m + x \in Nat /\ S * m + x < H
  <2>1. S * m \in Nat /\ S * m <= S * (M - 1)
    BY <1>1, <1>3
  <2>2. S * (M - 1) = H - S
    BY <1>1
  <2> QED
    BY <1>1, <1>2, <2>1, <2>2
<1>6. y % H = S * m + x
  BY <1>1, <1>3, <1>4, <1>5, QuotOf, ZenonT(60)
<1>7. (S * m + x) \div S = m
  BY <1>1, <1>2, <1>3, QuotOf
<1>8. (y % H) \div S = m
  BY <1>6, <1>7
<1> QED
  BY <1>8 DEF H, S, m, k, M

(* gmtime_r of a second of the day. *)
LEMMA GmtimeIs ==
  ASSUME NEW dt, NEW k \in Int, DateOk(dt, k), YearOk(dt.year), NEW y \in Nat, y < Cal!SECS_IN_DAY
  PROVE  Cal!gmtime_r(k * Cal!SECS_IN_DAY + y) = Cal!Shown(dt, y, 0)
<1> DEFINE u == Cal!SECS_IN_DAY
           time == k * u + y
           leap == Cal!Leap(dt.year)
           year == IF narrow THEN Cal!Narrow(k) ELSE Cal!Wide(k)
<1>1. /\ dt.year \in Int /\ dt.mon \in 0 .. 11 /\ dt.mday \in Nat /\ dt.yday \in Nat
      /\ leap \in BOOLEAN
  BY NewYearInt DEF DateOk
<1>2. /\ 1 <= dt.mday /\ dt.mday <= MonthDays(dt.mon, leap)
      /\ dt.yday = MonthStart(dt.mon, leap) + dt.mday - 1
      /\ k = Cal!NewYear(dt.year) + dt.yday /\ dt.wday = (k + 4) % 7
  BY DEF DateOk
<1>3. dt.yday < Length(dt.year)
  <2>1. /\ MonthStart(dt.mon, leap) \in Nat /\ MonthDays(dt.mon, leap) \in Nat
        /\ MonthStart(dt.mon, leap) + MonthDays(dt.mon, leap) <= (IF leap THEN 366 ELSE 365)
    BY <1>1, MonthTypes
  <2> QED
    BY <1>1, <1>2, <2>1 DEF Length
<1>4. year = [year |-> dt.year, yday |-> dt.yday, leap |-> leap]
  <2>1. CASE narrow
    BY <1>1, <1>2, <1>3, <2>1, NarrowIs DEF YearOk
  <2>2. CASE ~narrow
    BY <1>1, <1>2, <1>3, <2>2, WideIs
  <2> QED
    BY <2>1, <2>2 DEF YearOk
<1>5. Cal!DayAndSecond(time) = [t |-> k, s |-> y]
  <2>1. u \in Nat \ {0} /\ y \in 0 .. u - 1
    BY Units60
  <2> QED
    BY <2>1, Units60, DayAndSecondIs
<1>6. Cal!MonthOf(dt.yday + 1, leap) = [mon |-> dt.mon, mday |-> dt.mday]
  <2>1. dt.yday + 1 = MonthStart(dt.mon, leap) + dt.mday
    BY <1>1, <1>2, MonthTypes
  <2> HIDE DEF leap
  <2> QED
    BY <1>1, <1>2, <2>1, MonthOfIs
<1>7. Cal!Weekday(k) = dt.wday
  BY <1>2, WeekdayIs
<1>8. (y % Cal!SECS_IN_HOUR) \div SECS_IN_MIN = (y \div SECS_IN_MIN) % MINS_IN_HOUR
  BY MinuteIs
<1> HIDE DEF time, u
<1>9. Cal!gmtime_r(time) =
        LET ds == Cal!DayAndSecond(time)
            m == Cal!MonthOf(year.yday + 1, year.leap)
        IN [sec |-> ds.s % SECS_IN_MIN, min |-> (ds.s % Cal!SECS_IN_HOUR) \div SECS_IN_MIN,
            hour |-> ds.s \div Cal!SECS_IN_HOUR, wday |-> Cal!Weekday(k), yday |-> year.yday,
            year |-> year.year, mon |-> m.mon, mday |-> m.mday, isdst |-> 0]
  <2>1. Cal!DayAndSecond(time).t = k
    BY <1>5
  <2> QED
    BY <2>1, SMT DEF Cal!gmtime_r
<1> HIDE DEF year
<1>10. Cal!gmtime_r(time) =
        [sec |-> y % SECS_IN_MIN, min |-> (y % Cal!SECS_IN_HOUR) \div SECS_IN_MIN,
         hour |-> y \div Cal!SECS_IN_HOUR, wday |-> dt.wday, yday |-> dt.yday,
         year |-> dt.year, mon |-> dt.mon, mday |-> dt.mday, isdst |-> 0]
  BY <1>4, <1>5, <1>6, <1>7, <1>9, SMT
<1> QED
  BY <1>8, <1>10 DEF Cal!Shown, time, u

(* The next day of a date. *)
NextTo(dt, nx) ==
  /\ nx.wday = (dt.wday + 1) % 7
  /\ \/ /\ dt.mday < MonthDays(dt.mon, Cal!Leap(dt.year))
        /\ nx.year = dt.year /\ nx.mon = dt.mon /\ nx.mday = dt.mday + 1 /\ nx.yday = dt.yday + 1
     \/ /\ dt.mday = MonthDays(dt.mon, Cal!Leap(dt.year)) /\ dt.mon < 11
        /\ nx.year = dt.year /\ nx.mon = dt.mon + 1 /\ nx.mday = 1 /\ nx.yday = dt.yday + 1
     \/ /\ dt.mday = MonthDays(dt.mon, Cal!Leap(dt.year)) /\ dt.mon = 11
        /\ nx.year = dt.year + 1 /\ nx.mon = 0 /\ nx.mday = 1 /\ nx.yday = 0

DateType == [year : Int, mon : 0 .. 11, mday : Nat, wday : 0 .. 6, yday : Nat]

LEMMA NextDayIs ==
  ASSUME NEW dt, NEW k \in Int, DateOk(dt, k)
  PROVE  Cal!NextDay(dt) \in DateType /\ NextTo(dt, Cal!NextDay(dt))
<1> DEFINE nx == Cal!NextDay(dt)
           len == MonthDays(dt.mon, Cal!Leap(dt.year))
<1>1. dt \in DateType /\ 1 <= dt.mday /\ dt.mday <= len
  BY DEF DateOk, DateType
<1>2. Cal!MonthLength(dt) = len
  BY DEF Cal!MonthLength, MonthDays
<1>3. len \in Nat
  <2>1. dt.mon \in 0 .. 11 /\ Cal!Leap(dt.year) \in BOOLEAN
    BY <1>1, NewYearInt DEF DateType
  <2> QED
    BY <2>1, MonthTypes
<1>0. /\ dt = [year |-> dt.year, mon |-> dt.mon, mday |-> dt.mday, wday |-> dt.wday, yday |-> dt.yday]
      /\ dt.year \in Int /\ dt.mon \in 0 .. 11 /\ dt.mday \in Nat /\ dt.yday \in Nat
  BY <1>1 DEF DateType
<1>4. (dt.wday + 1) % 7 \in 0 .. 6
  BY <1>1 DEF DateType
<1> HIDE DEF len
<1>5. CASE dt.mday < len
  <2>1. nx = [dt EXCEPT !.mday = @ + 1, !.wday = (@ + 1) % 7, !.yday = @ + 1]
    BY <1>2, <1>5 DEF Cal!NextDay
  <2> HIDE DEF nx
  <2>a. nx = [year |-> dt.year, mon |-> dt.mon, mday |-> dt.mday + 1, wday |-> (dt.wday + 1) % 7,
              yday |-> dt.yday + 1]
    BY <1>0, <2>1, Zenon
  <2>2. nx \in DateType /\ nx.year = dt.year /\ nx.mon = dt.mon /\ nx.mday = dt.mday + 1
        /\ nx.yday = dt.yday + 1 /\ nx.wday = (dt.wday + 1) % 7
    BY <1>0, <1>4, <2>a, SMT DEF DateType
  <2>3. nx \in DateType /\ NextTo(dt, nx)
    BY <1>5, <2>2 DEF NextTo, len
  <2> QED
    BY <2>3 DEF nx
<1>6. CASE ~(dt.mday < len) /\ dt.mon < 11
  <2>1. nx = [dt EXCEPT !.mday = 1, !.mon = @ + 1, !.wday = (@ + 1) % 7, !.yday = @ + 1]
    BY <1>2, <1>6 DEF Cal!NextDay
  <2> HIDE DEF nx
  <2>a. nx = [year |-> dt.year, mon |-> dt.mon + 1, mday |-> 1, wday |-> (dt.wday + 1) % 7,
              yday |-> dt.yday + 1]
    BY <1>0, <2>1, Zenon
  <2>2. nx \in DateType /\ nx.year = dt.year /\ nx.mon = dt.mon + 1 /\ nx.mday = 1
        /\ nx.yday = dt.yday + 1 /\ nx.wday = (dt.wday + 1) % 7
    BY <1>0, <1>4, <1>6, <2>a, SMT DEF DateType
  <2>3. dt.mday = len
    BY <1>1, <1>3, <1>6 DEF DateType
  <2>4. nx \in DateType /\ NextTo(dt, nx)
    BY <1>6, <2>2, <2>3 DEF NextTo, len
  <2> QED
    BY <2>4 DEF nx
<1>7. CASE ~(dt.mday < len) /\ ~(dt.mon < 11)
  <2>1. nx = [year |-> dt.year + 1, mon |-> 0, mday |-> 1, wday |-> (dt.wday + 1) % 7, yday |-> 0]
    BY <1>2, <1>7 DEF Cal!NextDay
  <2> HIDE DEF nx
  <2>2. nx \in DateType /\ nx.year = dt.year + 1 /\ nx.mon = 0 /\ nx.mday = 1
        /\ nx.yday = 0 /\ nx.wday = (dt.wday + 1) % 7
    BY <1>1, <1>4, <1>7, <2>1, SMT DEF DateType
  <2>3. dt.mday = len /\ dt.mon = 11
    BY <1>1, <1>3, <1>7 DEF DateType
  <2>4. nx \in DateType /\ NextTo(dt, nx)
    BY <2>2, <2>3 DEF NextTo, len
  <2> QED
    BY <2>4 DEF nx
<1> QED
  BY <1>5, <1>6, <1>7

LEMMA NextDayOk ==
  ASSUME NEW dt, NEW k \in Int, DateOk(dt, k)
  PROVE  DateOk(Cal!NextDay(dt), k + 1)
<1> DEFINE nx == Cal!NextDay(dt)
           leap == Cal!Leap(dt.year)
<1>1. nx \in DateType /\ NextTo(dt, nx)
  BY NextDayIs
<1>2. /\ dt \in DateType /\ 1 <= dt.mday /\ dt.mday <= MonthDays(dt.mon, leap)
      /\ dt.yday = MonthStart(dt.mon, leap) + dt.mday - 1
      /\ k = Cal!NewYear(dt.year) + dt.yday /\ dt.wday = (k + 4) % 7
  BY DEF DateOk, DateType
<1> HIDE DEF nx
<1>3. leap \in BOOLEAN /\ Cal!NewYear(dt.year) \in Int /\ dt.year \in Int /\ dt.mon \in 0 .. 11
  BY <1>2, NewYearInt DEF DateType
<1>4. nx.wday = (k + 1 + 4) % 7
  BY <1>1, <1>2 DEF NextTo
<1>5. /\ MonthStart(dt.mon, leap) \in Nat /\ MonthDays(dt.mon, leap) \in Nat
      /\ dt.mon < 11 => MonthStart(dt.mon + 1, leap) = MonthStart(dt.mon, leap) + MonthDays(dt.mon, leap)
      /\ dt.mon = 11 => MonthStart(dt.mon, leap) + MonthDays(dt.mon, leap) = Length(dt.year)
  BY <1>3, MonthTypes DEF Length
<1> SUFFICES /\ 1 <= nx.mday /\ nx.mday <= MonthDays(nx.mon, Cal!Leap(nx.year))
             /\ nx.yday = MonthStart(nx.mon, Cal!Leap(nx.year)) + nx.mday - 1
             /\ k + 1 = Cal!NewYear(nx.year) + nx.yday
  BY <1>1, <1>4 DEF DateOk, DateType, nx
<1>6. CASE nx.year = dt.year /\ nx.mon = dt.mon /\ nx.mday = dt.mday + 1 /\ nx.yday = dt.yday + 1
           /\ dt.mday < MonthDays(dt.mon, leap)
  <2>1. dt.mday \in Nat /\ dt.yday \in Nat
    BY <1>2 DEF DateType
  <2>2. Cal!Leap(nx.year) = leap /\ Cal!NewYear(nx.year) = Cal!NewYear(dt.year)
    BY <1>6
  <2> HIDE DEF leap
  <2> QED
    BY <1>2, <1>3, <1>5, <1>6, <2>1, <2>2
<1>7. CASE nx.year = dt.year /\ nx.mon = dt.mon + 1 /\ nx.mday = 1 /\ nx.yday = dt.yday + 1
           /\ dt.mday = MonthDays(dt.mon, leap) /\ dt.mon < 11
  <2>1. dt.mday \in Nat /\ dt.yday \in Nat /\ nx.mon \in 0 .. 11
    BY <1>1, <1>2 DEF DateType
  <2>2. Cal!Leap(nx.year) = leap /\ Cal!NewYear(nx.year) = Cal!NewYear(dt.year)
    BY <1>7
  <2> HIDE DEF leap
  <2>3. 1 <= MonthDays(nx.mon, leap) /\ MonthDays(nx.mon, leap) \in Nat
    BY <1>3, <2>1, MonthTypes
  <2> QED
    BY <1>2, <1>3, <1>5, <1>7, <2>1, <2>2, <2>3
<1>8. CASE nx.year = dt.year + 1 /\ nx.mon = 0 /\ nx.mday = 1 /\ nx.yday = 0
           /\ dt.mday = MonthDays(dt.mon, leap) /\ dt.mon = 11
  <2>1. dt.mday \in Nat /\ dt.yday \in Nat
    BY <1>2 DEF DateType
  <2>2. Cal!NewYear(nx.year) = Cal!NewYear(dt.year) + Length(dt.year)
    BY <1>3, <1>8, NewYearNext
  <2>3. Cal!Leap(nx.year) \in BOOLEAN
    BY <1>3, <1>8, NewYearInt
  <2>4. 1 <= MonthDays(0, Cal!Leap(nx.year)) /\ MonthStart(0, Cal!Leap(nx.year)) = 0
    BY <2>3, MonthTypes, MonthStarts
  <2> HIDE DEF leap
  <2> QED
    BY <1>2, <1>3, <1>5, <1>8, <2>1, <2>2, <2>4
<1> QED
  BY <1>1, <1>6, <1>7, <1>8 DEF NextTo
-----------------------------------------------------------------------------
(* Daylight saving: the months in which the law's Sundays are, the highest *)
(* day each may be, and what of such a month is past it.                   *)
StartMonth(y) == IF y >= 107 THEN 2 ELSE 3
StartDay(y)   == IF y >= 107 THEN 14 ELSE IF y >= 87 THEN 7 ELSE 30
EndMonth(y)   == IF y >= 107 THEN 10 ELSE 9
EndDay(y)     == IF y >= 107 THEN 7 ELSE 31

Late(dt, x, highest, limit) ==
  /\ dt.mday - dt.wday > highest - 7
  /\ dt.mday - dt.wday > highest \/ dt.wday # 0 \/ x >= limit

Summer(dt, x) ==
  /\ dt.year >= 66
  /\ \/ StartMonth(dt.year) < dt.mon /\ dt.mon < EndMonth(dt.year)
     \/ dt.mon = StartMonth(dt.year) /\ Late(dt, x, StartDay(dt.year), 2 * Cal!SECS_IN_HOUR)
     \/ dt.mon = EndMonth(dt.year) /\ ~Late(dt, x, EndDay(dt.year), Cal!SECS_IN_HOUR)

LEMMA RuleIs ==
  ASSUME NEW y \in Int, 66 <= y
  PROVE  /\ Cal!Rule(y).start_month = StartMonth(y) /\ Cal!Rule(y).start_day = StartDay(y)
         /\ Cal!Rule(y).end_month = EndMonth(y) /\ Cal!Rule(y).end_day = EndDay(y)
<1> DEFINE In(k) == Cal!chart[k].year <= y /\ \A j \in 1 .. k - 1 : Cal!chart[j].year > y
           w == IF y >= 107 THEN 1 ELSE IF y >= 87 THEN 2 ELSE 3
<1>1. Cal!chart[1].year = 107 /\ Cal!chart[2].year = 87 /\ Cal!chart[3].year = 0
  BY DEF Cal!chart
<1>2. \A k \in 1 .. 3 : In(k) <=> k = w
  <2>1. In(1) <=> w = 1
    BY <1>1
  <2>2. In(2) <=> w = 2
    <3>1. \A j \in 1 .. 2 - 1 : j = 1
      OBVIOUS
    <3> QED
      BY <1>1, <3>1
  <2>3. In(3) <=> w = 3
    <3>1. \A j \in 1 .. 3 - 1 : j = 1 \/ j = 2
      OBVIOUS
    <3> QED
      BY <1>1, <3>1
  <2> HIDE DEF In, w
  <2> QED
    BY <2>1, <2>2, <2>3
<1>3. w \in 1 .. 3
  OBVIOUS
<1>4. (CHOOSE k \in 1 .. 3 : In(k)) = w
  <2> HIDE DEF In, w
  <2> QED
    BY <1>2, <1>3
<1>5. Cal!Rule(y) = Cal!chart[CHOOSE k \in 1 .. 3 : In(k)]
  BY DEF Cal!Rule
<1>6. Cal!Rule(y) = Cal!chart[w]
  <2> HIDE DEF In, w
  <2> QED
    BY <1>4, <1>5
<1> QED
  BY <1>6, SMT DEF Cal!chart, StartMonth, StartDay, EndMonth, EndDay

LEMMA HourIs ==
  ASSUME NEW y \in Nat
  PROVE  /\ y \div Cal!SECS_IN_HOUR \in Nat
         /\ y \div Cal!SECS_IN_HOUR > 0 <=> y >= Cal!SECS_IN_HOUR
         /\ y \div Cal!SECS_IN_HOUR > 1 <=> y >= 2 * Cal!SECS_IN_HOUR
<1> DEFINE H == Cal!SECS_IN_HOUR
           h == y \div H
<1>1. H \in Nat \ {0}
  BY Units60
<1>2. y = H * h + (y % H) /\ h \in Int /\ y % H \in Nat /\ y % H < H
  <2> HIDE DEF H
  <2> QED
    BY <1>1, DivMod
<1> HIDE DEF h, H
<1>3. /\ h <= -1 => H * h <= -H
      /\ h >= 1 => H * h >= H
      /\ h <= 1 => H * h <= H
      /\ h >= 2 => H * h >= 2 * H
      /\ h <= 0 => H * h <= 0
  BY <1>1, <1>2
<1>4. H * h \in Int
  BY <1>1, <1>2
<1>5. h \in Nat /\ (h > 0 <=> y >= H) /\ (h > 1 <=> y >= 2 * H)
  BY <1>1, <1>2, <1>3, <1>4
<1> QED
  BY <1>5 DEF h, H

(* The rule of the code is the one above. *)
LEMMA OffsetIs ==
  ASSUME NEW dt \in DateType, NEW x \in Nat
  PROVE  Cal!local_dst_offset(Cal!Shown(dt, x, 0)) = IF Summer(dt, x) THEN Cal!SECS_IN_HOUR ELSE 0
<1> DEFINE tm == Cal!Shown(dt, x, 0)
           y == dt.year
           H == Cal!SECS_IN_HOUR
           h == x \div H
<1>1. /\ y \in Int /\ dt.mon \in 0 .. 11 /\ dt.mday \in Nat /\ dt.wday \in 0 .. 6
  BY DEF DateType
<1>2. tm.year = y /\ tm.mon = dt.mon /\ tm.mday = dt.mday /\ tm.wday = dt.wday /\ tm.hour = h
  BY SMT DEF Cal!Shown
<1>3. h \in Nat /\ (h > 0 <=> x >= H) /\ (h > 1 <=> x >= 2 * H) /\ H \in Nat \ {0}
  BY HourIs, Units60
<1> HIDE DEF tm, h, H
<1>4. CASE y < 66
  <2>1. Cal!local_dst_offset(tm) = 0
    BY <1>1, <1>2, <1>4 DEF Cal!local_dst_offset
  <2>2. ~Summer(dt, x)
    BY <1>1, <1>4 DEF Summer
  <2> QED
    BY <2>1, <2>2 DEF tm
<1>5. CASE 66 <= y
  <2> DEFINE p == Cal!Rule(y)
             starts == dt.mon = StartMonth(y)
             ends == dt.mon = EndMonth(y)
             after == IF ends THEN 0 ELSE 1
             highest == IF ends THEN EndDay(y) ELSE StartDay(y)
             sunday == dt.mday - dt.wday
             past == ~(sunday <= highest - 7) /\ (sunday > highest \/ dt.wday # 0 \/ h > after)
             isdst == IF past THEN after ELSE IF starts THEN 0 ELSE 1
  <2>1. /\ p.start_month = StartMonth(y) /\ p.start_day = StartDay(y)
        /\ p.end_month = EndMonth(y) /\ p.end_day = EndDay(y)
    BY <1>1, <1>5, RuleIs
  <2> HIDE DEF p
  <2>2. Cal!local_dst_offset(tm) =
          IF \/ y < 66 \/ isdst = 0
             \/ ~starts /\ ~ends /\ (dt.mon < StartMonth(y) \/ dt.mon > EndMonth(y))
          THEN 0 ELSE H
    BY <1>2, <2>1, SMT DEF Cal!local_dst_offset, Cal!BeforeBoundary, p, H
  <2>3. /\ StartMonth(y) \in Nat /\ EndMonth(y) \in Nat /\ StartMonth(y) < EndMonth(y)
        /\ StartDay(y) \in Nat /\ EndDay(y) \in Nat
    BY DEF StartMonth, EndMonth, StartDay, EndDay
  <2>4. CASE starts
    <3>1. past <=> Late(dt, x, StartDay(y), 2 * H)
      BY <1>1, <1>3, <2>3, <2>4 DEF Late
    <3>2. Summer(dt, x) <=> past
      BY <1>1, <1>5, <2>3, <2>4, <3>1 DEF Summer, H
    <3>3. Cal!local_dst_offset(tm) = IF past THEN H ELSE 0
      BY <1>1, <1>5, <2>2, <2>3, <2>4
    <3> QED
      BY <3>2, <3>3 DEF tm, H
  <2>5. CASE ends
    <3>1. past <=> Late(dt, x, EndDay(y), H)
      BY <1>1, <1>3, <2>3, <2>5 DEF Late
    <3>2. Summer(dt, x) <=> ~past
      BY <1>1, <1>5, <2>3, <2>5, <3>1 DEF Summer, H
    <3>3. Cal!local_dst_offset(tm) = IF past THEN 0 ELSE H
      BY <1>1, <1>5, <2>2, <2>3, <2>5
    <3> QED
      BY <3>2, <3>3 DEF tm, H
  <2>6. CASE ~starts /\ ~ends
    <3>1. Summer(dt, x) <=> ~(dt.mon < StartMonth(y) \/ dt.mon > EndMonth(y))
      BY <1>1, <1>5, <2>3, <2>6 DEF Summer
    <3>2. Cal!local_dst_offset(tm) =
            IF dt.mon < StartMonth(y) \/ dt.mon > EndMonth(y) THEN 0 ELSE H
      BY <1>1, <1>5, <2>2, <2>3, <2>6
    <3> QED
      BY <3>1, <3>2 DEF tm, H
  <2> QED
    BY <2>4, <2>5, <2>6
<1> QED
  BY <1>1, <1>4, <1>5

(* The law's Sundays, by those months and days. *)
LEMMA SundaysAre ==
  ASSUME NEW dt, NEW k \in Int, DateOk(dt, k)
  PROVE  /\ Cal!StartsOn(dt) <=> /\ dt.wday = 0 /\ dt.year >= 66 /\ dt.mon = StartMonth(dt.year)
                                 /\ dt.mday > StartDay(dt.year) - 7 /\ dt.mday <= StartDay(dt.year)
         /\ Cal!EndsOn(dt) <=> /\ dt.wday = 0 /\ dt.year >= 66 /\ dt.mon = EndMonth(dt.year)
                               /\ dt.mday > EndDay(dt.year) - 7 /\ dt.mday <= EndDay(dt.year)
<1> DEFINE y == dt.year
           m == dt.mday
<1>1. /\ y \in Int /\ dt.mon \in 0 .. 11 /\ m \in Nat /\ 1 <= m
      /\ m <= MonthDays(dt.mon, Cal!Leap(y))
  BY DEF DateOk
<1>2. (dt.mon = 3 => m <= 30) /\ (dt.mon = 9 => m <= 31)
  BY <1>1 DEF MonthDays
<1> HIDE DEF m
<1>3. /\ Cal!StartsOn(dt) <=>
           /\ dt.wday = 0
           /\ \/ y >= 107 /\ dt.mon = 2 /\ 8 <= m /\ m <= 14
              \/ y >= 87 /\ y <= 106 /\ dt.mon = 3 /\ m <= 7
              \/ y >= 66 /\ y <= 86 /\ dt.mon = 3 /\ m + 7 > 30
      /\ Cal!EndsOn(dt) <=>
           /\ dt.wday = 0
           /\ \/ y >= 107 /\ dt.mon = 10 /\ m <= 7
              \/ y >= 66 /\ y <= 106 /\ dt.mon = 9 /\ m + 7 > 31
  <2>1. /\ y \in 87 .. 106 <=> y >= 87 /\ y <= 106
        /\ y \in 66 .. 86 <=> y >= 66 /\ y <= 86
        /\ y \in 66 .. 106 <=> y >= 66 /\ y <= 106
    BY <1>1
  <2> QED
    BY <2>1 DEF Cal!StartsOn, Cal!EndsOn, m
<1> HIDE DEF y
<1>4. /\ Cal!StartsOn(dt) <=> /\ dt.wday = 0 /\ y >= 66 /\ dt.mon = StartMonth(y)
                              /\ m > StartDay(y) - 7 /\ m <= StartDay(y)
      /\ Cal!EndsOn(dt) <=> /\ dt.wday = 0 /\ y >= 66 /\ dt.mon = EndMonth(y)
                            /\ m > EndDay(y) - 7 /\ m <= EndDay(y)
  <2>1. CASE y >= 107
    BY <1>1, <1>2, <1>3, <2>1 DEF StartMonth, StartDay, EndMonth, EndDay
  <2>2. CASE y < 107 /\ y >= 87
    BY <1>1, <1>2, <1>3, <2>2 DEF StartMonth, StartDay, EndMonth, EndDay
  <2>3. CASE y < 87
    BY <1>1, <1>2, <1>3, <2>3 DEF StartMonth, StartDay, EndMonth, EndDay
  <2> QED
    BY <1>1, <2>1, <2>2, <2>3
<1> QED
  BY <1>4 DEF y, m

(* On a Sunday only the two hours of the law change it: y is the minute    *)
(* after x.                                                                *)
LEMMA SummerMinute ==
  ASSUME NEW dt, NEW k \in Int, DateOk(dt, k), dt.wday = 0, NEW x \in Nat, NEW y \in Nat,
         y >= Cal!SECS_IN_HOUR <=> x >= Cal!SECS_IN_HOUR \/ y = Cal!SECS_IN_HOUR,
         y >= 2 * Cal!SECS_IN_HOUR <=> x >= 2 * Cal!SECS_IN_HOUR \/ y = 2 * Cal!SECS_IN_HOUR
  PROVE  Summer(dt, y) <=>
           IF Cal!StartsOn(dt) /\ y = 2 * Cal!SECS_IN_HOUR THEN TRUE
           ELSE IF Cal!EndsOn(dt) /\ y = Cal!SECS_IN_HOUR THEN FALSE ELSE Summer(dt, x)
<1> DEFINE H == Cal!SECS_IN_HOUR
           z == dt.year
           m == dt.mday
<1>1. z \in Int /\ dt.mon \in 0 .. 11 /\ m \in Nat /\ 1 <= m
  BY DEF DateOk
<1>2. H \in Nat \ {0}
  BY Units60
<1>3. /\ Cal!StartsOn(dt) <=> /\ z >= 66 /\ dt.mon = StartMonth(z)
                              /\ m > StartDay(z) - 7 /\ m <= StartDay(z)
      /\ Cal!EndsOn(dt) <=> /\ z >= 66 /\ dt.mon = EndMonth(z)
                            /\ m > EndDay(z) - 7 /\ m <= EndDay(z)
  BY SundaysAre
<1>4. /\ StartMonth(z) \in Nat /\ EndMonth(z) \in Nat /\ StartMonth(z) < EndMonth(z)
      /\ StartDay(z) \in Nat /\ EndDay(z) \in Nat
  BY DEF StartMonth, EndMonth, StartDay, EndDay
<1>5. \A hi \in Nat, lim \in Nat, w \in Nat :
        Late(dt, w, hi, lim) <=> m > hi - 7 /\ (m > hi \/ w >= lim)
  BY <1>1 DEF Late
<1>6. H \in Nat /\ 2 * H \in Nat
  BY <1>2
<1>7. /\ Late(dt, x, StartDay(z), 2 * H) <=> m > StartDay(z) - 7 /\ (m > StartDay(z) \/ x >= 2 * H)
      /\ Late(dt, y, StartDay(z), 2 * H) <=> m > StartDay(z) - 7 /\ (m > StartDay(z) \/ y >= 2 * H)
      /\ Late(dt, x, EndDay(z), H) <=> m > EndDay(z) - 7 /\ (m > EndDay(z) \/ x >= H)
      /\ Late(dt, y, EndDay(z), H) <=> m > EndDay(z) - 7 /\ (m > EndDay(z) \/ y >= H)
  BY <1>4, <1>5, <1>6
<1>8. \A w : Summer(dt, w) <=>
        /\ z >= 66
        /\ \/ StartMonth(z) < dt.mon /\ dt.mon < EndMonth(z)
           \/ dt.mon = StartMonth(z) /\ Late(dt, w, StartDay(z), 2 * H)
           \/ dt.mon = EndMonth(z) /\ ~Late(dt, w, EndDay(z), H)
  BY DEF Summer
<1>9. /\ y >= H <=> x >= H \/ y = H
      /\ y >= 2 * H <=> x >= 2 * H \/ y = 2 * H
  OBVIOUS
<1> DEFINE after == IF Cal!StartsOn(dt) /\ y = 2 * H THEN TRUE
                    ELSE IF Cal!EndsOn(dt) /\ y = H THEN FALSE ELSE Summer(dt, x)
<1> HIDE DEF z, m, H
<1>10. CASE z >= 66 /\ dt.mon = StartMonth(z)
  <2>1. Summer(dt, y) <=> m > StartDay(z) - 7 /\ (m > StartDay(z) \/ y >= 2 * H)
    BY <1>1, <1>4, <1>7, <1>8, <1>10
  <2>2. Summer(dt, x) <=> m > StartDay(z) - 7 /\ (m > StartDay(z) \/ x >= 2 * H)
    BY <1>1, <1>4, <1>7, <1>8, <1>10
  <2> QED
    BY <1>1, <1>2, <1>3, <1>4, <1>9, <1>10, <2>1, <2>2 DEF H
<1>11. CASE z >= 66 /\ dt.mon = EndMonth(z)
  <2>1. Summer(dt, y) <=> ~(m > EndDay(z) - 7 /\ (m > EndDay(z) \/ y >= H))
    BY <1>1, <1>4, <1>7, <1>8, <1>11
  <2>2. Summer(dt, x) <=> ~(m > EndDay(z) - 7 /\ (m > EndDay(z) \/ x >= H))
    BY <1>1, <1>4, <1>7, <1>8, <1>11
  <2> QED
    BY <1>1, <1>2, <1>3, <1>4, <1>9, <1>11, <2>1, <2>2 DEF H
<1>12. CASE ~(z >= 66 /\ (dt.mon = StartMonth(z) \/ dt.mon = EndMonth(z)))
  <2>1. Summer(dt, y) <=> Summer(dt, x)
    BY <1>8, <1>12
  <2> QED
    BY <1>3, <1>12, <2>1
<1> QED
  BY <1>10, <1>11, <1>12

(* Midnight changes nothing, once the day's hours are over. *)
LEMMA SummerMidnight ==
  ASSUME NEW dt, NEW k \in Int, DateOk(dt, k), NEW x \in Nat,
         dt.wday # 0 \/ x >= 2 * Cal!SECS_IN_HOUR
  PROVE  Summer(Cal!NextDay(dt), 0) <=> Summer(dt, x)
<1> DEFINE H == Cal!SECS_IN_HOUR
           nx == Cal!NextDay(dt)
           z == dt.year
           len == MonthDays(dt.mon, Cal!Leap(z))
<1>1. /\ dt \in DateType /\ z \in Int /\ dt.mon \in 0 .. 11 /\ dt.mday \in Nat /\ dt.wday \in 0 .. 6
      /\ 1 <= dt.mday /\ dt.mday <= len
  BY DEF DateOk, DateType
<1>2. H \in Nat \ {0}
  BY Units60
<1>3. nx \in DateType /\ NextTo(dt, nx)
  BY NextDayIs
<1> HIDE DEF nx
<1>4. /\ nx.wday = (dt.wday + 1) % 7 /\ nx.wday \in 0 .. 6 /\ nx.mday \in Nat /\ nx.mon \in 0 .. 11
      /\ nx.year \in Int
  BY <1>3 DEF NextTo, DateType
<1>5. /\ dt.wday = 6 => nx.wday = 0
      /\ dt.wday < 6 => nx.wday = dt.wday + 1
  BY <1>1, <1>4
<1>6. /\ dt.wday # 0 \/ x >= 2 * H
      /\ dt.wday # 0 \/ x >= H
  BY <1>1, <1>2
<1>7. /\ StartMonth(z) \in Nat /\ EndMonth(z) \in Nat /\ StartMonth(z) + 1 < EndMonth(z)
      /\ StartDay(z) \in Nat /\ EndDay(z) \in Nat
      /\ StartMonth(z) >= 2 /\ EndMonth(z) <= 10
      /\ StartDay(z) >= 7 /\ StartDay(z) <= 30 /\ EndDay(z) >= 7 /\ EndDay(z) <= 31
  BY <1>1 DEF StartMonth, EndMonth, StartDay, EndDay
<1>8. /\ Late(dt, x, StartDay(z), 2 * H) <=> dt.mday - dt.wday > StartDay(z) - 7
      /\ Late(dt, x, EndDay(z), H) <=> dt.mday - dt.wday > EndDay(z) - 7
  BY <1>1, <1>6, <1>7 DEF Late
<1>9. ~(0 >= H) /\ ~(0 >= 2 * H)
  BY <1>2
<1>10. \A hi \in Nat :
         /\ Late(nx, 0, hi, H) <=> /\ nx.mday - nx.wday > hi - 7
                                   /\ nx.mday - nx.wday > hi \/ nx.wday # 0
         /\ Late(nx, 0, hi, 2 * H) <=> /\ nx.mday - nx.wday > hi - 7
                                       /\ nx.mday - nx.wday > hi \/ nx.wday # 0
  BY <1>4, <1>9 DEF Late
<1>11. Summer(dt, x) <=>
         /\ z >= 66
         /\ \/ StartMonth(z) < dt.mon /\ dt.mon < EndMonth(z)
            \/ dt.mon = StartMonth(z) /\ dt.mday - dt.wday > StartDay(z) - 7
            \/ dt.mon = EndMonth(z) /\ ~(dt.mday - dt.wday > EndDay(z) - 7)
  BY <1>8 DEF Summer
<1>12. nx.year = z => (Summer(nx, 0) <=>
         /\ z >= 66
         /\ \/ StartMonth(z) < nx.mon /\ nx.mon < EndMonth(z)
            \/ /\ nx.mon = StartMonth(z) /\ nx.mday - nx.wday > StartDay(z) - 7
               /\ nx.mday - nx.wday > StartDay(z) \/ nx.wday # 0
            \/ /\ nx.mon = EndMonth(z)
               /\ ~(/\ nx.mday - nx.wday > EndDay(z) - 7
                    /\ nx.mday - nx.wday > EndDay(z) \/ nx.wday # 0))
  BY <1>7, <1>10 DEF Summer
<1>13. CASE nx.year = z /\ nx.mon = dt.mon /\ nx.mday = dt.mday + 1
  <2>1. \A hi \in Nat : dt.mday - dt.wday > hi - 7 <=>
           /\ nx.mday - nx.wday > hi - 7
           /\ nx.mday - nx.wday > hi \/ nx.wday # 0
    BY <1>1, <1>5, <1>13
  <2>2. /\ dt.mday - dt.wday > StartDay(z) - 7 <=>
             /\ nx.mday - nx.wday > StartDay(z) - 7
             /\ nx.mday - nx.wday > StartDay(z) \/ nx.wday # 0
        /\ dt.mday - dt.wday > EndDay(z) - 7 <=>
             /\ nx.mday - nx.wday > EndDay(z) - 7
             /\ nx.mday - nx.wday > EndDay(z) \/ nx.wday # 0
    BY <1>7, <2>1
  <2>3. Summer(nx, 0) <=> Summer(dt, x)
    BY <1>11, <1>12, <1>13, <2>2
  <2> QED
    BY <2>3 DEF nx
<1>14. CASE nx.year = z /\ nx.mon = dt.mon + 1 /\ nx.mday = 1 /\ dt.mday = len /\ dt.mon < 11
  <2>1. /\ ~(/\ nx.mday - nx.wday > StartDay(z) - 7
             /\ nx.mday - nx.wday > StartDay(z) \/ nx.wday # 0)
        /\ ~(/\ nx.mday - nx.wday > EndDay(z) - 7
             /\ nx.mday - nx.wday > EndDay(z) \/ nx.wday # 0)
    BY <1>4, <1>7, <1>14
  <2>2. Summer(nx, 0) <=> z >= 66 /\ StartMonth(z) < nx.mon /\ nx.mon <= EndMonth(z)
    BY <1>4, <1>7, <1>12, <1>14, <2>1
  <2>3. z >= 66 /\ dt.mon = StartMonth(z) => dt.mday - dt.wday > StartDay(z) - 7
    BY <1>1, <1>14 DEF StartMonth, StartDay, MonthDays
  <2>4. z >= 66 /\ dt.mon = EndMonth(z) => dt.mday - dt.wday > EndDay(z) - 7
    BY <1>1, <1>14 DEF EndMonth, EndDay, MonthDays
  <2>5. Summer(dt, x) <=> z >= 66 /\ StartMonth(z) <= dt.mon /\ dt.mon < EndMonth(z)
    BY <1>1, <1>7, <1>11, <2>3, <2>4
  <2>6. Summer(nx, 0) <=> Summer(dt, x)
    BY <1>1, <1>7, <1>14, <2>2, <2>5
  <2> QED
    BY <2>6 DEF nx
<1>15. CASE nx.mon = 0 /\ dt.mon = 11
  <2>1. ~Summer(dt, x)
    BY <1>7, <1>11, <1>15
  <2>2. ~Summer(nx, 0)
    BY <1>4, <1>15 DEF Summer, StartMonth, EndMonth
  <2>3. Summer(nx, 0) <=> Summer(dt, x)
    BY <2>1, <2>2
  <2> QED
    BY <2>3 DEF nx
<1> QED
  BY <1>3, <1>13, <1>14, <1>15 DEF NextTo
-----------------------------------------------------------------------------
(* The clock. *)

(* A limit of whole minutes is reached by the minute that ends at it. *)
LEMMA LimitIs ==
  ASSUME NEW u \in Nat \ {0}, NEW j \in Nat, NEW m \in Nat
  PROVE  u * j + u >= u * m <=> u * j >= u * m \/ u * j + u = u * m
<1>0. u * j \in Int /\ u * m \in Int
  OBVIOUS
<1>1. CASE j >= m
  <2>1. u * j = u * m + u * (j - m) /\ u * (j - m) >= 0
    BY <1>1
  <2> QED
    BY <1>0, <2>1
<1>2. CASE j + 1 = m
  <2>1. u * m = u * j + u
    BY <1>2
  <2> QED
    BY <1>0, <2>1
<1>3. CASE j + 1 < m
  <2>1. u * m = u * j + u + u * (m - j - 1) /\ u * (m - j - 1) >= u
    BY <1>3
  <2> QED
    BY <1>0, <2>1
<1> QED
  BY <1>1, <1>2, <1>3

LEMMA DayLimits ==
  ASSUME NEW x \in Nat, NEW j \in Nat, x = SECS_IN_MIN * j
  PROVE  LET H == Cal!SECS_IN_HOUR
             y == x + SECS_IN_MIN
         IN /\ y \in Nat
            /\ y >= H <=> x >= H \/ y = H
            /\ y >= 2 * H <=> x >= 2 * H \/ y = 2 * H
            /\ y >= Cal!SECS_IN_DAY <=> x >= Cal!SECS_IN_DAY \/ y = Cal!SECS_IN_DAY
            /\ y = Cal!SECS_IN_DAY => x >= 2 * H
            /\ y = SECS_IN_MIN * (j + 1)
<1> DEFINE u == SECS_IN_MIN
           m == MINS_IN_HOUR
           H == Cal!SECS_IN_HOUR
           D == Cal!SECS_IN_DAY
<1>1. /\ u \in Nat \ {0} /\ m \in Nat \ {0} /\ H \in Nat \ {0} /\ D \in Nat \ {0}
      /\ H = m * u /\ D = 24 * H
  BY Units60
<1> HIDE DEF u, m, H, D
<1>2. x = u * j
  BY DEF u
<1>3. H = u * m /\ 2 * H = u * (2 * m) /\ D = u * (24 * m)
  BY <1>1
<1>4. 2 * m \in Nat /\ 24 * m \in Nat /\ m \in Nat
  BY <1>1
<1>5. /\ u * j + u >= u * m <=> u * j >= u * m \/ u * j + u = u * m
      /\ u * j + u >= u * (2 * m) <=> u * j >= u * (2 * m) \/ u * j + u = u * (2 * m)
      /\ u * j + u >= u * (24 * m) <=> u * j >= u * (24 * m) \/ u * j + u = u * (24 * m)
  BY <1>1, <1>4, LimitIs
<1>6. /\ x + u >= H <=> x >= H \/ x + u = H
      /\ x + u >= 2 * H <=> x >= 2 * H \/ x + u = 2 * H
      /\ x + u >= D <=> x >= D \/ x + u = D
  BY <1>2, <1>3, <1>5, Zenon
<1>7. H >= u
  <2>1. u * m = u + u * (m - 1) /\ u * (m - 1) >= 0
    BY <1>1
  <2> QED
    BY <1>1, <1>3, <2>1
<1>8. x + u = D => x >= 2 * H
  BY <1>1, <1>7
<1>9. x + u \in Nat /\ x + u = u * (j + 1)
  BY <1>1, <1>2
<1> QED
  BY <1>6, <1>8, <1>9 DEF u, H, D

(* The minutes west that tzset finds. *)
LEMMA ZoneIs ==
  ASSUME tz \in Zones
  PROVE  Cal!__gh_timezone = Cal!MinutesWest /\ Cal!MinutesWest \in Int
<1> DEFINE u == SECS_IN_MIN
           w == tz.hour * MINS_IN_HOUR + tz.minute
           total == tz.hour * Cal!SECS_IN_HOUR + tz.minute * SECS_IN_MIN + tz.second
           named == tz.set /\ tz.letters /\ tz.digits
<1>1. /\ tz.sign \in {1, -1} /\ tz.hour \in Nat /\ tz.minute \in Nat
      /\ tz.second \in 0 .. SECS_IN_MIN - 1
  BY MCClocks DEF Cal!ClockAssumption
<1>2. /\ u \in Nat \ {0} /\ MINS_IN_HOUR \in Nat \ {0}
      /\ Cal!SECS_IN_HOUR = MINS_IN_HOUR * u
  BY Units60
<1>3. w \in Nat
  BY <1>1, <1>2
<1>4. total = u * w + tz.second
  <2>1. tz.hour * (MINS_IN_HOUR * u) = u * (tz.hour * MINS_IN_HOUR)
    BY <1>1, <1>2
  <2>2. u * w = u * (tz.hour * MINS_IN_HOUR) + u * tz.minute
    BY <1>1, <1>2
  <2> QED
    BY <1>1, <1>2, <2>1, <2>2
<1>5. tz.second \in Nat /\ tz.second < u
  BY <1>1, <1>2
<1>6. Cal!tzset(0) = IF named THEN tz.sign * total ELSE 0
  BY DEF Cal!tzset
<1>7. Cal!MinutesWest = IF named THEN tz.sign * w ELSE 0
  BY DEF Cal!MinutesWest
<1> HIDE DEF w, total, named, u
<1>8. total \in Nat /\ total \div u = w
  <2>1. u * w \in Nat
    BY <1>2, <1>3
  <2>2. u * w + tz.second \in Nat
    BY <1>5, <2>1
  <2>3. total \div u = w
    <3>1. \A x : \A q \in Int, r0 \in Nat : r0 < u /\ x = u * q + r0 => x \div u = q
      BY <1>2, QuotOf
    <3>2. w \in Int
      BY <1>3
    <3> QED
      BY <1>4, <1>5, <3>1, <3>2, Zenon
  <2> QED
    BY <1>4, <2>2, <2>3
<1>9. 0 \div u = 0
  <2>1. 0 = u * 0 + 0
    BY <1>2
  <2> QED
    BY <1>2, <2>1, QuotOf
<1>10. total = 0 => w = 0
  BY <1>8, <1>9
<1>11. Cal!Quot(0, u) = 0 /\ Cal!Quot(total, u) = w /\ Cal!Quot(-total, u) = -w
  <2>1. -(-total) = total
    BY <1>8
  <2> QED
    BY <1>3, <1>8, <1>9, <1>10, <2>1 DEF Cal!Quot
<1>12. Cal!Quot(Cal!tzset(0), u) = Cal!MinutesWest
  <2>1. CASE named /\ tz.sign = 1
    BY <1>3, <1>6, <1>7, <1>8, <1>11, <2>1
  <2>2. CASE named /\ tz.sign = -1
    <3>1. tz.sign * total = -total /\ tz.sign * w = -w
      BY <1>3, <1>8, <2>2
    <3> QED
      BY <1>6, <1>7, <1>11, <2>2, <3>1
  <2>3. CASE ~named
    BY <1>6, <1>7, <1>11, <2>3
  <2> QED
    BY <1>1, <2>1, <2>2, <2>3
<1>13. Cal!MinutesWest \in Int
  BY <1>1, <1>3, <1>7
<1> QED
  BY <1>12, <1>13 DEF Cal!__gh_timezone, u

(* The date is one, the seconds are whole minutes of Sundays, and the      *)
(* clock shows an hour more in summer.                                     *)
ClockInv ==
  /\ day \in Int /\ DateOk(date, day)
  /\ sec \in Nat /\ sec < Cal!SECS_IN_DAY /\ \E j \in Nat : sec = SECS_IN_MIN * j
  /\ date.wday # 0 => sec = 0
  /\ dst \in BOOLEAN /\ (dst <=> Summer(date, sec))
  /\ narrow \in BOOLEAN /\ last \in Int
  /\ narrow => 1 <= date.year /\ date.year <= 139 /\ last <= 138
  /\ tz \in Zones /\ hook \in {-1, 0}

LEMMA ClockStarts ==
  ASSUME Cal!Init
  PROVE  ClockInv
<1>1. PICK st \in Starts :
        /\ date = [year |-> st.year, mon |-> 0, mday |-> 1, wday |-> st.wday, yday |-> 0]
        /\ day = st.day /\ narrow = st.narrow /\ last = st.last
  BY DEF Cal!Init
<1>2. sec = 0 /\ dst = FALSE /\ tz \in Zones /\ hook \in {-1, 0}
  BY DEF Cal!Init
<1>3. /\ st.year \in Int /\ st.last \in Int /\ st.narrow \in BOOLEAN
      /\ st.day = Cal!NewYear(st.year) /\ st.wday = (st.day + 4) % 7
      /\ st.narrow => 1 <= st.year /\ st.year <= 138 /\ st.last <= 138
  BY MCClocks DEF Cal!ClockAssumption
<1>4. /\ date.year = st.year /\ date.mon = 0 /\ date.mday = 1 /\ date.wday = st.wday
      /\ date.yday = 0
  BY <1>1
<1>5. Cal!NewYear(st.year) \in Int /\ Cal!Leap(st.year) \in BOOLEAN
  BY <1>3, NewYearInt
<1>6. day \in Int /\ st.wday \in 0 .. 6
  BY <1>1, <1>3, <1>5
<1>7. DateOk(date, day)
  <2>1. date \in [year : Int, mon : 0 .. 11, mday : Nat, wday : 0 .. 6, yday : Nat]
    BY <1>1, <1>3, <1>6
  <2>2. 1 <= MonthDays(0, Cal!Leap(st.year)) /\ MonthStart(0, Cal!Leap(st.year)) = 0
    BY <1>5, MonthTypes, MonthStarts
  <2> QED
    BY <1>1, <1>3, <1>4, <1>5, <2>1, <2>2 DEF DateOk
<1>8. ~Summer(date, 0)
  BY <1>3, <1>4 DEF Summer, StartMonth, EndMonth
<1>9. \E j \in Nat : sec = SECS_IN_MIN * j
  BY <1>2, Units60
<1>10. sec \in Nat /\ sec < Cal!SECS_IN_DAY
  BY <1>2, Units60
<1>11. narrow => 1 <= date.year /\ date.year <= 139 /\ last <= 138
  BY <1>1, <1>3, <1>4
<1> QED
  BY <1>1, <1>2, <1>3, <1>6, <1>7, <1>8, <1>9, <1>10, <1>11 DEF ClockInv

LEMMA ClockTicks ==
  ASSUME ClockInv, Cal!Tick
  PROVE  ClockInv'
<1> DEFINE H == Cal!SECS_IN_HOUR
           D == Cal!SECS_IN_DAY
           midnight == date.wday # 0 \/ sec + SECS_IN_MIN = D
           now == IF midnight THEN 0 ELSE sec + SECS_IN_MIN
           dt == IF midnight THEN Cal!NextDay(date) ELSE date
<1>1. /\ date.year <= last
      /\ sec' = now /\ date' = dt /\ day' = IF midnight THEN day + 1 ELSE day
      /\ dst' = IF Cal!StartsOn(dt) /\ now = 2 * H THEN TRUE
                ELSE IF Cal!EndsOn(dt) /\ now = H THEN FALSE ELSE dst
      /\ narrow' = narrow /\ last' = last /\ tz' = tz /\ hook' = hook
  BY DEF Cal!Tick
<1>2. /\ day \in Int /\ DateOk(date, day) /\ sec \in Nat /\ sec < D /\ (date.wday # 0 => sec = 0)
      /\ dst \in BOOLEAN /\ (dst <=> Summer(date, sec))
      /\ narrow \in BOOLEAN /\ last \in Int
      /\ narrow => 1 <= date.year /\ date.year <= 139 /\ last <= 138
      /\ tz \in Zones /\ hook \in {-1, 0}
  BY DEF ClockInv
<1>3. PICK j \in Nat : sec = SECS_IN_MIN * j
  BY DEF ClockInv
<1>4. H \in Nat \ {0} /\ D \in Nat \ {0} /\ SECS_IN_MIN \in Nat \ {0}
  BY Units60
<1> DEFINE next == sec + SECS_IN_MIN
<1>5. /\ next \in Nat
      /\ next >= H <=> sec >= H \/ next = H
      /\ next >= 2 * H <=> sec >= 2 * H \/ next = 2 * H
      /\ next >= D <=> sec >= D \/ next = D
      /\ next = D => sec >= 2 * H
      /\ next = SECS_IN_MIN * (j + 1)
  BY <1>2, <1>3, DayLimits
<1>6. date.year \in Int
  BY <1>2 DEF DateOk
<1>7. CASE midnight
  <2>1. sec' = 0 /\ date' = Cal!NextDay(date) /\ day' = day + 1
    BY <1>1, <1>7
  <2>2. dst' = dst
    <3>1. now = 0 /\ ~(0 = H) /\ ~(0 = 2 * H)
      BY <1>4, <1>7
    <3> HIDE DEF now, dt, H
    <3> QED
      BY <1>1, <3>1
  <2>3. date.wday # 0 \/ sec >= 2 * H
    BY <1>5, <1>7
  <2>4. Summer(Cal!NextDay(date), 0) <=> Summer(date, sec)
    BY <1>2, <2>3, SummerMidnight
  <2>5. DateOk(Cal!NextDay(date), day + 1) /\ day + 1 \in Int
    BY <1>2, NextDayOk
  <2>6. Cal!NextDay(date).year \in {date.year, date.year + 1}
    BY <1>2, NextDayIs DEF NextTo
  <2>7. narrow => 1 <= Cal!NextDay(date).year /\ Cal!NextDay(date).year <= 139
    BY <1>1, <1>2, <1>6, <2>6
  <2>8. \E x \in Nat : 0 = SECS_IN_MIN * x
    BY <1>4
  <2>9. 0 \in Nat /\ 0 < D
    BY <1>4
  <2>10. narrow' = narrow /\ last' = last /\ tz' = tz /\ hook' = hook
    BY <1>1
  <2> DEFINE nx == Cal!NextDay(date)
  <2> HIDE DEF midnight, now, dt, next, D, H, nx
  <2>11. day' \in Int /\ DateOk(date', day')
    BY <2>1, <2>5 DEF nx
  <2>12. dst' \in BOOLEAN /\ (dst' <=> Summer(date', sec'))
    BY <1>2, <2>1, <2>2, <2>4
  <2>13. sec' \in Nat /\ sec' < D /\ (date'.wday # 0 => sec' = 0)
    BY <2>1, <2>9
  <2>14. narrow' => 1 <= date'.year /\ date'.year <= 139 /\ last' <= 138
    BY <1>2, <2>1, <2>7, <2>10
  <2> QED
    BY <1>2, <2>1, <2>8, <2>10, <2>11, <2>12, <2>13, <2>14 DEF ClockInv, D
<1>8. CASE ~midnight
  <2>1. sec' = next /\ date' = date /\ day' = day /\ date.wday = 0 /\ next # D
    BY <1>1, <1>8
  <2>2. dst' = IF Cal!StartsOn(date) /\ next = 2 * H THEN TRUE
               ELSE IF Cal!EndsOn(date) /\ next = H THEN FALSE ELSE dst
    <3>1. now = next /\ dt = date
      BY <1>8
    <3> HIDE DEF now, dt, H, next
    <3> QED
      BY <1>1, <3>1
  <2>3. next < D
    <3> HIDE DEF next, D
    <3> QED
      BY <1>2, <1>4, <1>5, <2>1
  <2>4. Summer(date, next) <=>
          IF Cal!StartsOn(date) /\ next = 2 * H THEN TRUE
          ELSE IF Cal!EndsOn(date) /\ next = H THEN FALSE ELSE Summer(date, sec)
    <3> HIDE DEF next
    <3> QED
      BY <1>2, <1>5, <2>1, SummerMinute
  <2>5. dst' \in BOOLEAN /\ (dst' <=> Summer(date, next))
    <3> HIDE DEF next, H
    <3> QED
      BY <1>2, <2>2, <2>4
  <2>6. \E x \in Nat : next = SECS_IN_MIN * x
    BY <1>5
  <2> HIDE DEF midnight, now, dt, next, D, H
  <2> QED
    BY <1>1, <1>2, <1>5, <2>1, <2>3, <2>5, <2>6 DEF ClockInv, D
<1> QED
  BY <1>7, <1>8

LEMMA ClockStays ==
  ASSUME ClockInv, UNCHANGED cal
  PROVE  ClockInv'
<1>1. /\ date' = date /\ sec' = sec /\ dst' = dst /\ day' = day /\ narrow' = narrow
      /\ last' = last /\ tz' = tz /\ hook' = hook
  BY DEF cal
<1> QED
  BY <1>1 DEF ClockInv, Summer, Late, DateOk

(* In summer the hour ahead is of the same year. *)
LEMMA ClockAgrees ==
  ASSUME ClockInv
  PROVE  Cal!CalendarExact
<1> DEFINE H == Cal!SECS_IN_HOUR
           D == Cal!SECS_IN_DAY
           S == SECS_IN_MIN
           time == day * D + sec
<1>1. /\ day \in Int /\ DateOk(date, day) /\ sec \in Nat /\ sec < D
      /\ dst \in BOOLEAN /\ (dst <=> Summer(date, sec))
      /\ narrow \in BOOLEAN
      /\ narrow => 1 <= date.year /\ date.year <= 139
      /\ tz \in Zones /\ hook \in {-1, 0}
  BY DEF ClockInv
<1>2. H \in Nat \ {0} /\ D \in Nat \ {0} /\ D = 24 * H /\ S \in Nat \ {0}
  BY Units60
<1>3. date.year \in Int /\ date \in DateType
  BY <1>1 DEF DateOk, DateType
<1>4. YearOk(date.year)
  BY <1>1, <1>3 DEF YearOk
<1>5. Cal!gmtime_r(time) = Cal!Shown(date, sec, 0)
  BY <1>1, <1>4, GmtimeIs
<1>6. Cal!Now = time
  BY DEF Cal!Now
<1>7. (Cal!Now + S * Cal!MinutesWest) - S * Cal!__gh_timezone = time
  <2>1. Cal!__gh_timezone = Cal!MinutesWest /\ Cal!MinutesWest \in Int
    BY <1>1, ZoneIs
  <2>2. time \in Int
    BY <1>1, <1>2
  <2>3. S * Cal!MinutesWest \in Int
    BY <1>2, <2>1
  <2> HIDE DEF time, S
  <2> QED
    BY <1>6, <2>1, <2>2, <2>3
<1> DEFINE offset == IF hook # -1 THEN hook ELSE Cal!local_dst_offset(Cal!gmtime_r(time))
<1>8. Cal!localtime_r(Cal!Now + S * Cal!MinutesWest) =
        IF offset # 0 THEN [Cal!gmtime_r(time + offset) EXCEPT !.isdst = 1] ELSE Cal!gmtime_r(time)
  <2> HIDE DEF time
  <2> QED
    BY <1>7, Zenon DEF Cal!localtime_r
<1>9. offset = IF hook = -1 /\ dst THEN H ELSE 0
  <2>1. Cal!local_dst_offset(Cal!gmtime_r(time)) = IF Summer(date, sec) THEN H ELSE 0
    BY <1>1, <1>3, <1>5, OffsetIs
  <2> HIDE DEF time, H
  <2> QED
    BY <1>1, <2>1
<1>10. CASE ~(hook = -1 /\ dst)
  <2>1. offset = 0
    BY <1>9, <1>10
  <2>2. Cal!Wall = Cal!Shown(date, sec, 0)
    BY <1>10 DEF Cal!Wall
  <2>3. Cal!localtime_r(Cal!Now + S * Cal!MinutesWest) = Cal!Wall
    <3> HIDE DEF offset, time, S
    <3> QED
      BY <1>5, <1>8, <2>1, <2>2
  <2> QED
    BY <1>5, <1>6, <2>3 DEF Cal!CalendarExact
<1>11. CASE hook = -1 /\ dst
  <2>1. offset = H /\ H # 0
    BY <1>2, <1>9, <1>11
  <2>2. \A dt, x : [Cal!Shown(dt, x, 0) EXCEPT !.isdst = 1] = Cal!Shown(dt, x, 1)
    BY SMT DEF Cal!Shown
  <2>3. Cal!localtime_r(Cal!Now + S * Cal!MinutesWest) =
          [Cal!gmtime_r(time + H) EXCEPT !.isdst = 1]
    <3> HIDE DEF offset, time, S, H
    <3> QED
      BY <1>8, <2>1
  <2>4. CASE sec + H < D
    <3>1. sec + H \in Nat /\ time + H = day * D + (sec + H)
      BY <1>1, <1>2
    <3>2. Cal!gmtime_r(time + H) = Cal!Shown(date, sec + H, 0)
      BY <1>1, <1>4, <2>4, <3>1, GmtimeIs
    <3>3. Cal!Wall = Cal!Shown(date, sec + H, 1)
      BY <1>11, <2>4 DEF Cal!Wall
    <3>4. Cal!localtime_r(Cal!Now + S * Cal!MinutesWest) = Cal!Wall
      <4> HIDE DEF time, S, H
      <4> QED
        BY <2>2, <2>3, <3>2, <3>3
    <3> QED
      BY <1>5, <1>6, <3>4 DEF Cal!CalendarExact
  <2>5. CASE ~(sec + H < D)
    <3> DEFINE nx == Cal!NextDay(date)
               x == sec + H - D
    <3>1. x \in Nat /\ x < D /\ time + H = (day + 1) * D + x
      BY <1>1, <1>2, <2>5
    <3>2. DateOk(nx, day + 1) /\ day + 1 \in Int
      BY <1>1, NextDayOk
    <3>3. YearOk(nx.year)
      <4>1. nx.year \in {date.year, date.year + 1}
        BY <1>1, NextDayIs DEF NextTo
      <4> HIDE DEF nx
      <4> QED
        BY <1>1, <1>3, <4>1 DEF YearOk
    <3>4. Cal!gmtime_r((day + 1) * D + x) = Cal!Shown(nx, x, 0)
      <4> HIDE DEF nx, x
      <4> QED
        BY <3>1, <3>2, <3>3, GmtimeIs
    <3>5. Cal!Wall = Cal!Shown(nx, x, 1)
      BY <1>11, <2>5 DEF Cal!Wall
    <3>6. Cal!localtime_r(Cal!Now + S * Cal!MinutesWest) = Cal!Wall
      <4> HIDE DEF time, S, H, D, nx, x
      <4> QED
        BY <2>2, <2>3, <3>1, <3>4, <3>5
    <3> QED
      BY <1>5, <1>6, <3>6 DEF Cal!CalendarExact
  <2> QED
    BY <2>4, <2>5
<1> QED
  BY <1>10, <1>11

(* For every day that the clocks reach, before the Epoch and after it, and *)
(* every minute of the Sundays, gmtime_r (ind_gmtm.c) shows the date and   *)
(* the time of a clock on the wall at Greenwich, and localtime_r           *)
(* (ind_loctm.c) those of a local one, an hour more in summer, whatever    *)
(* zone TZ names and whether or not the target supplies the offset.        *)
THEOREM CalendarAgrees == AllSpec => []CalendarExact
<1> DEFINE Inv == which = "calendar" => ClockInv
<1>1. AllInit => Inv
  <2>1. AllInit /\ which = "calendar" => Cal!Init
    BY DEF AllInit
  <2> QED
    BY <2>1, ClockStarts
<1>2. Inv /\ [AllNext]_<<which, vars, zip, sums, cal>> => Inv'
  <2> SUFFICES ASSUME Inv, [AllNext]_<<which, vars, zip, sums, cal>>, which' = "calendar"
               PROVE  ClockInv'
    OBVIOUS
  <2>1. which = "calendar" /\ ClockInv
    BY DEF AllNext
  <2>2. Cal!Tick \/ UNCHANGED cal
    BY <2>1 DEF AllNext
  <2> QED
    BY <2>1, <2>2, ClockTicks, ClockStays
<1>3. Inv => CalendarExact
  BY ClockAgrees DEF CalendarExact
<1> QED
  BY <1>1, <1>2, <1>3, PTL DEF AllSpec
=============================================================================
