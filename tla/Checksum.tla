----------------------------- MODULE Checksum -----------------------------
(* __cksumsects and __cksumsects_psinfo: the walk over the sections of the *)
(* program that compares each with the CRC the linker put at its end.      *)
(* A 32-bit word is the set of its bits that are 1.                        *)
EXTENDS Integers, Sequences, FiniteSets, SequencesExt

CONSTANTS CRC_POLYNOMIAL, CRC_INITVAL,  \* words
          Sections,  \* the program as the linker gets it
          MaxFlips   \* bound: bits that change

Word == SUBSET (0..31)
Section == [bytes : Seq(SUBSET (0..7)), flags : SUBSET {"TEXT", "DATA", "BSS"}, romcopyof : Nat]

ASSUME ChecksumAssumption ==
  /\ CRC_POLYNOMIAL \in Word /\ CRC_INITVAL \in Word
  /\ Sections \in Seq(Section) /\ MaxFlips \in Nat

VARIABLES prog,   \* the sections, with what the memory holds of them now
          flipped,  \* the bits that differ from what the linker wrote
          ps,     \* the section the walk is at
          walk,   \* "secinfo" or "psinfo": which of the two walks it is
          result  \* "none" yet, "ok" for 0 or "bad" for -1

sums == <<prog, flipped, ps, walk, result>>

Xor(x, y) == (x \ y) \cup (y \ x)
ShiftLeft(x) == {b + 1 : b \in x \ {31}}

\* A byte is the set of its bits; data holds it left-justified.
LeftJustified(byte) == {b + 24 : b \in byte}

\* One bit: shift the CRC, feed back the high bit.
CrcBit(csum, data) ==
  IF 31 \in Xor(data, csum) THEN Xor(ShiftLeft(csum), CRC_POLYNOMIAL) ELSE ShiftLeft(csum)

\* The eight bits of a byte, the highest first.
CrcByte(csum, byte) ==
  FoldLeft(LAMBDA c, k : CrcBit(c, {b + k : b \in {x \in LeftJustified(byte) : x + k <= 31}}),
           csum, <<0, 1, 2, 3, 4, 5, 6, 7>>)

cksum(bytes) == FoldLeft(CrcByte, CRC_INITVAL, bytes)

\* Four bytes, the most significant first.
load32_unaligned(b) ==
  UNION {{x + 8 * (4 - k) : x \in b[k]} : k \in 1..4}

Front4(b) == SubSeq(b, 1, Len(b) - 4)
Last4(b) == SubSeq(b, Len(b) - 3, Len(b))

\* Faulty: no section is found to be a RAM copy.
ramcopyofNone(k) == k \notin DOMAIN prog

\* The section is the RAM copy of a ROM section.
ramcopyof(k) == \E p \in DOMAIN prog : prog[p].romcopyof = k

\* Sections that are empty or neither text nor data are passed over, and by
\* __cksumsects those that are a RAM copy.
Checked(k) ==
  /\ Len(prog[k].bytes) # 0 /\ prog[k].flags \cap {"TEXT", "DATA"} # {}
  /\ walk = "secinfo" => ~ramcopyof(k)

\* The linker puts its CRC at the end of text and data.
ByteAt(word, k) == {b - 8 * (4 - k) : b \in word \cap ((8 * (4 - k))..(8 * (4 - k) + 7))}
Linked(section) ==
  IF section.flags \cap {"TEXT", "DATA"} = {} \/ Len(section.bytes) = 0 THEN section
  ELSE [section EXCEPT !.bytes = @ \o [k \in 1..4 |-> ByteAt(cksum(@), k)]]

SumInit == /\ prog = [k \in DOMAIN Sections |-> Linked(Sections[k])]
           /\ flipped = {} /\ ps = 1 /\ walk \in {"secinfo", "psinfo"} /\ result = "none"

\* A bit of a section changes before the walk: a worn flash cell, or what the
\* program has written to its RAM by then.
Flip(k, byte, bit) ==
  /\ ps = 1 /\ result = "none"
  /\ <<k, byte, bit>> \notin flipped /\ Cardinality(flipped) < MaxFlips
  /\ prog' = [prog EXCEPT ![k].bytes[byte] = Xor(@, {bit})]
  /\ flipped' = flipped \cup {<<k, byte, bit>>}
  /\ UNCHANGED <<ps, walk, result>>

\* The CRC over the bytes is the one at their end.
Intact(b) == cksum(Front4(b)) = load32_unaligned(Last4(b))
Matches(k) == Intact(prog[k].bytes)

\* The walk goes on to the next section or returns -1 at once.
CheckSection ==
  /\ result = "none" /\ ps <= Len(prog)
  /\ IF Checked(ps) /\ ~Matches(ps)
     THEN result' = "bad" /\ UNCHANGED ps
     ELSE ps' = ps + 1 /\ UNCHANGED result
  /\ UNCHANGED <<prog, flipped, walk>>

Return0 ==
  /\ result = "none" /\ ps > Len(prog)
  /\ result' = "ok"
  /\ UNCHANGED <<prog, flipped, ps, walk>>

SumNext ==
  \/ \E k \in DOMAIN prog : \E byte \in DOMAIN prog[k].bytes, bit \in 0..7 : Flip(k, byte, bit)
  \/ CheckSection \/ Return0

SumSpec == SumInit /\ [][SumNext]_sums

\* What a walk has to vouch for: text and data, for __cksumsects without what
\* start-up copies to RAM and the program may then change.
Covered(k) ==
  /\ prog[k].flags \cap {"TEXT", "DATA"} # {}
  /\ walk = "secinfo" => \A p \in DOMAIN prog : prog[p].romcopyof # k

\* What the polynomial is chosen for: in sections of these lengths it tells
\* every error of one bit up to MaxFlips bits.
Flipped(b, F) == [j \in DOMAIN b |-> Xor(b[j], {x \in 0..7 : <<j, x>> \in F})]
CrcDetects ==
  \A k \in DOMAIN Sections :
    LET b == Linked(Sections[k]).bytes IN
    Sections[k].flags \cap {"TEXT", "DATA"} # {} =>
      \A f \in [1..MaxFlips -> (DOMAIN b) \X (0..7)] :
        MaxFlips > 0 => ~Intact(Flipped(b, {f[x] : x \in 1..MaxFlips}))

\* The answer is -1 exactly when a bit of a covered section has changed, if not
\* more than MaxFlips have: of an error of one or two bits in a short section
\* a CRC of this length misses none.  __cksumsects accepts an intact program
\* whatever its RAM copies hold; __cksumsects_psinfo, which cannot tell them
\* from other data, does so only before they change.
CorruptionFound ==
  LET bad == {f \in flipped : Covered(f[1])} IN
  /\ result = "ok" => bad = {}
  /\ result = "bad" => bad # {}
===========================================================================
