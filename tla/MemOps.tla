------------------------------ MODULE MemOps ------------------------------
(* memcpy, memset in both directions and the DMA copy __ghs_initmem of the *)
(* start-up library, one action per turn of a loop.  One call runs at a    *)
(* time: the start-up code is the only program there is.                   *)
EXTENDS Integers, FiniteSets

CONSTANTS Size,      \* addresses 0..Size-1
          Values,    \* what an address may hold
          Units,     \* sizes of the C types that are copied whole
          Loop,      \* bytes of a block of memset
          MaxCount,  \* most the DMA controller moves at once (65535)
          Contents,  \* memories the calls start from
          Chars      \* bytes memset is asked to store

Addr == 0..Size-1

ASSUME MemOpsAssumption ==
  /\ Size \in Nat \ {0} /\ Units \subseteq Nat \ {0} /\ 1 \in Units
  /\ IsFiniteSet(Units)
  /\ Loop \in Nat \ {0} /\ MaxCount \in Nat \ {0}
  /\ Contents \subseteq [Addr -> Values] /\ Chars \subseteq Values

VARIABLES mem,
          op,        \* the function that runs, "none" before and "done" after
          d, s, n,   \* its arguments: target, source, bytes
          ch,        \* the byte memset stores
          at,        \* the target pointer
          from,      \* the source pointer
          left,      \* the code's n, counted down
          i,         \* memset's i: bytes or blocks; the DMA transfer's count
          unit,      \* bytes copied whole
          busy,      \* bytes the DMA controller still has to move
          want       \* history: the memory the call must leave

vars == <<mem, op, d, s, n, ch, at, from, left, i, unit, busy, want>>
args == <<d, s, n, ch, want>>

Init ==
  /\ mem \in Contents /\ want = mem
  /\ op = "none" /\ d = 0 /\ s = 0 /\ n = 0 /\ ch \in Chars
  /\ at = 0 /\ from = 0 /\ left = 0 /\ i = 0 /\ unit = 1 /\ busy = 0

\* The loops of the largest type both pointers are aligned to are used.
Aligned(u, x, y) == x % u = 0 /\ y % u = 0
Largest(us) == CHOOSE u \in us : \A v \in us : v <= u

UnitFor(x, y) == Largest({u \in Units : Aligned(u, x, y)})

\* k bytes from the source pointer to the target pointer, and both moved.
Move(k) ==
  /\ mem' = [a \in Addr |-> IF at <= a /\ a < at + k THEN mem[from + (a - at)] ELSE mem[a]]
  /\ at' = at + k /\ from' = from + k /\ left' = left - k

\* k bytes of ch from lo on.
Fill(lo, k) == mem' = [a \in Addr |-> IF lo <= a /\ a < lo + k THEN ch ELSE mem[a]]

\* A call of memcpy or __ghs_initmem: C's regions do not overlap.
CallCopy(to, source, count, dma) ==
  /\ op = "none"
  /\ to + count <= Size /\ source + count <= Size
  /\ to + count <= source \/ source + count <= to
  /\ d' = to /\ s' = source /\ n' = count /\ at' = to /\ from' = source /\ left' = count
  /\ want' = [a \in Addr |-> IF to <= a /\ a < to + count THEN mem[source + (a - to)] ELSE mem[a]]
  /\ unit' = UnitFor(to, source)
  /\ op' = IF ~dma THEN "copy" ELSE IF count = 0 THEN "done" ELSE "dma"
  /\ UNCHANGED <<mem, ch, i, busy>>

\* Four at once while four are left, then one at once, then bytes.
CopyFour == op = "copy" /\ left >= 4 * unit /\ Move(4 * unit) /\ UNCHANGED <<args, op, i, unit, busy>>
CopyOne == /\ op = "copy" /\ unit <= left /\ left < 4 * unit
           /\ Move(unit) /\ UNCHANGED <<args, op, i, unit, busy>>
CopyByte == /\ op = "copy" /\ 0 < left /\ left < unit
            /\ Move(1) /\ UNCHANGED <<args, op, i, unit, busy>>
CopyEnd == op = "copy" /\ left = 0 /\ op' = "done" /\ UNCHANGED <<mem, args, at, from, left, i, unit, busy>>

---------------------------------------------------------------------------
\* memset from the start: the bytes before the first block are counted.
BytesBefore(x) == IF x % Loop = 0 THEN 0 ELSE Loop - (x % Loop)

\* Faulty: one block's worth of bytes need not hold an aligned block.
IsLongForOne(count) == count >= Loop

\* Short calls go byte by byte; the others have a whole block.
IsLong(count) == count > 2 * Loop

CallSet(to, count) ==
  /\ op = "none" /\ to + count <= Size
  /\ d' = to /\ s' = to /\ n' = count /\ at' = to /\ from' = to
  /\ want' = [a \in Addr |-> IF to <= a /\ a < to + count THEN ch ELSE mem[a]]
  /\ IF IsLong(count)
     THEN op' = "head" /\ i' = BytesBefore(to) /\ left' = count - BytesBefore(to)
     ELSE op' = "tail" /\ i' = 0 /\ left' = count
  /\ UNCHANGED <<mem, ch, unit, busy>>

SetHead ==
  /\ op = "head" /\ i > 0
  /\ Fill(at, 1) /\ at' = at + 1 /\ i' = i - 1
  /\ UNCHANGED <<args, op, from, left, unit, busy>>

CountBlocks ==
  /\ op = "head" /\ i = 0
  /\ op' = "blocks" /\ i' = left \div Loop /\ left' = left % Loop
  /\ UNCHANGED <<mem, args, at, from, unit, busy>>

\* do ... while (--i): a first turn is made whatever i is.
SetBlock ==
  /\ op = "blocks"
  /\ Fill(at, Loop) /\ at' = at + Loop /\ i' = i - 1
  /\ op' = IF i - 1 = 0 THEN "tail" ELSE "blocks"
  /\ UNCHANGED <<args, from, left, unit, busy>>

SetTail ==
  /\ op = "tail" /\ left > 0
  /\ Fill(at, 1) /\ at' = at + 1 /\ left' = left - 1
  /\ UNCHANGED <<args, op, from, i, unit, busy>>

SetEnd == op = "tail" /\ left = 0 /\ op' = "done" /\ UNCHANGED <<mem, args, at, from, left, i, unit, busy>>

---------------------------------------------------------------------------
\* memset from the end (V800): odd bytes, blocks down to stop2, the rest.
CallSetDown(to, count) ==
  /\ op = "none" /\ to + count <= Size
  /\ d' = to /\ s' = to /\ n' = count /\ at' = to + count /\ from' = to
  /\ want' = [a \in Addr |-> IF to <= a /\ a < to + count THEN ch ELSE mem[a]]
  /\ left' = count /\ op' = IF IsLong(count) THEN "odd" ELSE "rest"
  /\ UNCHANGED <<mem, ch, i, unit, busy>>

SetOdd ==
  /\ op = "odd"
  /\ IF at % Loop # 0
     THEN Fill(at - 1, 1) /\ at' = at - 1 /\ UNCHANGED op
     ELSE op' = "down" /\ UNCHANGED <<mem, at>>
  /\ UNCHANGED <<args, from, left, i, unit, busy>>

Stop2 == d - (d % Loop)

\* The test moves the pointer; at the end the overshoot is taken back.
SetDown ==
  /\ op = "down"
  /\ IF at - Loop # Stop2
     THEN Fill(at - Loop, Loop) /\ at' = at - Loop /\ UNCHANGED op
     ELSE op' = "rest" /\ UNCHANGED <<mem, at>>
  /\ UNCHANGED <<args, from, left, i, unit, busy>>

SetRest ==
  /\ op = "rest"
  /\ IF at - 1 # d - 1
     THEN Fill(at - 1, 1) /\ at' = at - 1 /\ UNCHANGED op
     ELSE op' = "done" /\ UNCHANGED <<mem, at>>
  /\ UNCHANGED <<args, from, left, i, unit, busy>>

---------------------------------------------------------------------------
\* The registers of one transfer are written and the channel enabled; the
\* controller takes a count of 0 for MaxCount + 1.
DmaStart ==
  /\ op = "dma"
  /\ i' = IF left > MaxCount THEN MaxCount ELSE left
  /\ busy' = IF i' = 0 THEN MaxCount + 1 ELSE i'
  /\ op' = "moving"
  /\ UNCHANGED <<mem, args, at, from, left, unit>>

\* The controller moves a byte while the program polls.
DmaByte ==
  /\ op = "moving" /\ busy > 0
  /\ mem' = [a \in Addr |-> IF a = at + (i - busy) THEN mem[from + (i - busy)] ELSE mem[a]]
  /\ busy' = busy - 1
  /\ UNCHANGED <<args, op, at, from, left, i, unit>>

\* The poll sees the done bit; the pointers move on if something is left.
DmaDone ==
  /\ op = "moving" /\ busy = 0
  /\ left' = left - i /\ at' = at + i /\ from' = from + i
  /\ op' = IF left - i = 0 THEN "done" ELSE "dma"
  /\ UNCHANGED <<mem, args, i, unit, busy>>

Calls ==
  \E to, source \in Addr, count \in 0..Size :
    \/ \E dma \in BOOLEAN : CallCopy(to, source, count, dma)
    \/ source = to /\ (CallSet(to, count) \/ CallSetDown(to, count))

Next ==
  \/ Calls
  \/ CopyFour \/ CopyOne \/ CopyByte \/ CopyEnd
  \/ SetHead \/ CountBlocks \/ SetBlock \/ SetTail \/ SetEnd
  \/ SetOdd \/ SetDown \/ SetRest
  \/ DmaStart \/ DmaByte \/ DmaDone

Spec == Init /\ [][Next]_vars
---------------------------------------------------------------------------
(* Properties *)

\* The variables keep their types; no count goes below zero.
TypeOK ==
  /\ mem \in [Addr -> Values] /\ want \in [Addr -> Values] /\ ch \in Values
  /\ op \in {"none", "copy", "head", "blocks", "tail", "odd", "down", "rest",
             "dma", "moving", "done"}
  /\ d \in Nat /\ s \in Nat /\ n \in Nat /\ at \in Nat /\ from \in Nat
  /\ left \in Nat /\ i \in Nat /\ unit \in Units /\ busy \in 0..MaxCount

\* A call ends with its target filled or copied, and never writes outside it,
\* however its bytes are split into words, blocks, transfers and single bytes;
\* words and blocks are accessed at addresses that are multiples of their size.
CallExact ==
  /\ \A a \in Addr : ~(d <= a /\ a < d + n) => mem[a] = want[a]
  /\ op = "done" => mem = want
  /\ op = "copy" /\ left >= unit => Aligned(unit, at, from)
  /\ op \in {"blocks", "down"} => at % Loop = 0
===========================================================================
