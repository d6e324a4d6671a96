--------------------------- MODULE MCAlgorithms ---------------------------
(* The pure parts of the library, one of them at a time: block memory      *)
(* operations, decompression, checksums and dates.                         *)
EXTENDS MemOps, Unzip, Checksum

\* Compression: sections of three tokens and a longer one.
Tokens == {<<65>>, <<66>>}
  \cup {<<off % 256, (off \div 256) * 16 + len>> :
          off \in {4077, 4078, 4079, 4095, 0, 2}, len \in {0, 15}}
Flag(token, k) == IF Len(token) = 1 THEN 2^k ELSE 0
MCSources ==
  {<<Flag(x, 0) + Flag(y, 1) + Flag(z, 2)>> \o x \o y \o z : x, y, z \in Tokens}
  \cup {<<127, 1, 2, 3, 4, 5, 6, 7, 239, 255, 2, 8, 238, 240>>}

\* Checksums: a program of four sections, the last one the RAM copy of the
\* third, and the real polynomial.
MCPolynomial == {0, 5, 12, 16, 21, 28}
MCInitval == {}
MCSection(bytes, fl, copy) == [bytes |-> bytes, flags |-> fl, romcopyof |-> copy]
MCSections == << MCSection(<<{0, 3}>>, {"TEXT"}, 0), MCSection(<<{}>>, {"BSS"}, 0),
                 MCSection(<<{7}>>, {"DATA"}, 4), MCSection(<<{7}>>, {"DATA"}, 0) >>

\* The polynomial tells every error of that many bits in these sections.
ASSUME MCDetects == CrcDetects

CONSTANTS SECS_IN_MIN, MINS_IN_HOUR, Starts, Zones
VARIABLES which, date, sec, dst, day, narrow, last, tz, hook

\* Dates: years in which a century, a leap day or the law makes a difference.
MCStarts ==
  { [year |-> 4, wday |-> 5, day |-> -24107, narrow |-> TRUE, last |-> 4],
    [year |-> 65, wday |-> 5, day |-> -1826, narrow |-> TRUE, last |-> 66],
    [year |-> 87, wday |-> 4, day |-> 6209, narrow |-> TRUE, last |-> 87],
    [year |-> 107, wday |-> 1, day |-> 13514, narrow |-> TRUE, last |-> 108],
    [year |-> -301, wday |-> 5, day |-> -135505, narrow |-> FALSE, last |-> -300],
    [year |-> -200, wday |-> 5, day |-> -98615, narrow |-> FALSE, last |-> -200],
    [year |-> 0, wday |-> 1, day |-> -25567, narrow |-> FALSE, last |-> 0],
    [year |-> 69, wday |-> 3, day |-> -365, narrow |-> FALSE, last |-> 72],
    [year |-> 100, wday |-> 6, day |-> 10957, narrow |-> FALSE, last |-> 100],
    [year |-> 107, wday |-> 1, day |-> 13514, narrow |-> FALSE, last |-> 107],
    [year |-> 200, wday |-> 5, day |-> 47482, narrow |-> FALSE, last |-> 200],
    [year |-> 499, wday |-> 5, day |-> 156689, narrow |-> FALSE, last |-> 500] }
Zone(sign, hour, minute, second, ok) ==
  [set |-> TRUE, letters |-> TRUE, digits |-> ok, sign |-> sign, hour |-> hour,
   minute |-> minute, second |-> second]
MCZones == {Zone(1, 8, 0, 0, TRUE), Zone(-1, 5, 1, 1, TRUE), Zone(1, 8, 0, 0, FALSE)}

Cal == INSTANCE Calendar
ASSUME MCClocks == Cal!ClockAssumption

cal == <<date, sec, dst, day, narrow, last, tz, hook>>

MemIdle == /\ mem = [a \in Addr |-> a] /\ want = mem /\ op = "none"
           /\ d = 0 /\ s = 0 /\ n = 0 /\ ch = 0
           /\ at = 0 /\ from = 0 /\ left = 0 /\ i = 0 /\ unit = 1 /\ busy = 0
ZipIdle == src = <<>> /\ used = 0 /\ flags = 0 /\ r = 0 /\ out = <<>> /\ ring = <<>> /\ ref = <<>>
SumIdle == prog = <<>> /\ flipped = {} /\ ps = 1 /\ walk = "idle" /\ result = "idle"
CalIdle == /\ date = <<>> /\ sec = 0 /\ dst = FALSE /\ day = 0 /\ narrow = FALSE
           /\ last = 0 /\ tz = <<>> /\ hook = 0

AllInit ==
  \/ which = "memory"   /\ Init     /\ ZipIdle  /\ SumIdle  /\ CalIdle
  \/ which = "unzip"    /\ ZipInit  /\ MemIdle  /\ SumIdle  /\ CalIdle
  \/ which = "checksum" /\ SumInit  /\ MemIdle  /\ ZipIdle  /\ CalIdle
  \/ which = "calendar" /\ Cal!Init /\ MemIdle  /\ ZipIdle  /\ SumIdle

AllNext ==
  /\ UNCHANGED which
  /\ \/ which = "memory"   /\ Next     /\ UNCHANGED <<zip, sums, cal>>
     \/ which = "unzip"    /\ Turn     /\ UNCHANGED <<vars, sums, cal>>
     \/ which = "checksum" /\ SumNext  /\ UNCHANGED <<vars, zip, cal>>
     \/ which = "calendar" /\ Cal!Tick /\ UNCHANGED <<vars, zip, sums>>

AllSpec == AllInit /\ [][AllNext]_<<which, vars, zip, sums, cal>>

\* Dates and local times agree with a clock that is advanced minute by minute.
CalendarExact == which = "calendar" => Cal!CalendarExact

MCValues == 0..Size-1
MCContents == {[a \in Addr |-> a]}
===========================================================================
