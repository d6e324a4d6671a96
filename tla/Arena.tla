------------------------------- MODULE Arena --------------------------------
(***************************************************************************)
(* What the low-level heap promises its callers, with no cursor, lock or   *)
(* system call in sight: every block handed out lies in the arena and      *)
(* shares no byte with a block handed out before.  Blocks are never taken  *)
(* back.                                                                   *)
(***************************************************************************)
EXTENDS Integers

CONSTANTS
  Begin, End   (* the arena is the addresses Begin .. End-1 *)

VARIABLE blocks   (* the blocks handed out, records with lo and size *)

(* The addresses of a block.  *)
Bytes(b) == b.lo .. b.lo + b.size - 1

Fits(b) == Begin <= b.lo /\ b.lo + b.size <= End

Apart(b, c) == Bytes(b) \cap Bytes(c) = {}

Init == blocks = {}

Grant ==
  \E b \in blocks' :
    /\ blocks' = blocks \cup {b}
    /\ Fits(b)
    /\ \A c \in blocks \ {b} : Apart(b, c)

Spec == Init /\ [][Grant]_blocks
=============================================================================
