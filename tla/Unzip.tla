------------------------------ MODULE Unzip ------------------------------
(* __ghs_decompress: the dictionary decoder of compressed ROM, "modified   *)
(* by GHS to not require a temporary ring buffer", beside the decoder with *)
(* a ring buffer that it stands for.                                       *)
EXTENDS Integers, Sequences

CONSTANTS DECODE_N,          \* size of the ring buffer (4096)
          DECODE_F,          \* longest match (18)
          DECODE_THRESHOLD,  \* matches are longer than this (2)
          Sources            \* compressed sections, as sequences of bytes

Byte == 0..255

\* The ring has room for every offset of twelve bits.
ASSUME UnzipAssumption ==
  /\ DECODE_N \in Nat /\ 4096 <= DECODE_N
  /\ DECODE_F \in 1..DECODE_N /\ DECODE_THRESHOLD \in Nat
  /\ Sources \subseteq Seq(Byte)

VARIABLES src,    \* the section that is decompressed
          used,   \* bytes of it that were read: s - src
          flags,  \* the flag bits left, and the bits that count them
          r,      \* where the ring buffer would be written next
          out,    \* the bytes from t_start to t
          ring,   \* reference: the positions of the ring written so far
          ref     \* reference: what the decoder with a ring has put out

zip == <<src, used, flags, r, out, ring, ref>>

ZipInit ==
  /\ src \in Sources /\ used = 0 /\ flags = 0 /\ r = DECODE_N - DECODE_F
  /\ out = <<>> /\ ring = <<>> /\ ref = <<>>

\* The shift uncovers the end of the eight flags: then a flag byte is read.
Shift == flags \div 2
NeedsFlags == (Shift \div 256) % 2 = 0
NextFlags == IF NeedsFlags THEN src[used + 1] + 65280 ELSE Shift
Token == IF NeedsFlags THEN used + 1 ELSE used

\* Twelve bits of offset and four of length in two bytes.
Patoff(b1, b2) == b1 + (b2 \div 16) * 256
Patlen(b2) == (b2 % 16) + DECODE_THRESHOLD + 1

\* Where the match starts in out, which may be before its start.
Pattern(patoff) ==
  Len(out) - (r - patoff) - (IF r <= patoff THEN DECODE_N ELSE 0)

\* Faulty: where the match starts is looked at once, not for every byte.
MatchZeroOnce(start, len) ==
  [k \in 1..len |-> IF start < 0 THEN 0 ELSE out[start + ((k - 1) % (Len(out) - start)) + 1]]

\* Byte k of a match: zero before t_start, else copied, be it a byte of the
\* match itself.
Match(start, len) ==
  LET byte[k \in 0..len - 1] ==
        IF start + k < 0 THEN 0
        ELSE IF start + k < Len(out) THEN out[start + k + 1]
        ELSE byte[start + k - Len(out)]
  IN [k \in 1..len |-> byte[k - 1]]

---------------------------------------------------------------------------
(* The reference: a ring of zeroes, every byte put out is also put there   *)

RingAt(g, p) == IF p \in DOMAIN g THEN g[p] ELSE 0

\* One more byte after those that were put out.
Put(last, c) ==
  LET p == (DECODE_N - DECODE_F + Len(last.o)) % DECODE_N
  IN [g |-> [q \in DOMAIN last.g \cup {p} |-> IF q = p THEN c ELSE last.g[q]],
      o |-> Append(last.o, c)]

\* The ring and the output after the bytes that come from the given positions.
RingCopy(patoff, len) ==
  LET step[k \in 0..len] ==
        IF k = 0 THEN [g |-> ring, o |-> ref]
        ELSE LET last == step[k - 1]
             IN Put(last, RingAt(last.g, (patoff + k - 1) % DECODE_N))
  IN step[len]

---------------------------------------------------------------------------
Literal(c) ==
  /\ out' = Append(out, c)
  /\ r' = (r + 1) % DECODE_N
  /\ LET copied == Put([g |-> ring, o |-> ref], c)
     IN ring' = copied.g /\ ref' = copied.o

Reference(b1, b2) ==
  LET patoff == Patoff(b1, b2)
      patlen == Patlen(b2)
      copied == RingCopy(patoff, patlen)
  IN /\ out' = out \o Match(Pattern(patoff), patlen)
     /\ r' = (r + patlen) % DECODE_N
     /\ ring' = copied.g /\ ref' = copied.o

\* One turn of the loop: perhaps a flag byte, then a byte or a match.
Turn ==
  /\ used < Len(src)
  /\ flags' = NextFlags
  /\ \/ NextFlags % 2 = 1 /\ Literal(src[Token + 1]) /\ used' = Token + 1
     \/ NextFlags % 2 = 0 /\ Reference(src[Token + 1], src[Token + 2]) /\ used' = Token + 2
  /\ UNCHANGED src

ZipSpec == ZipInit /\ [][Turn]_zip

\* Without the ring buffer the same bytes are put out as with it: matches that
\* reach before the start, overlap their own output or go once round the ring.
LzssExact == out = ref
===========================================================================
