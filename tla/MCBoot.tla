------------------------------ MODULE MCBoot ------------------------------
(* Six images for TLC: RAM is 0..11, ROM is 24..39.                       *)
EXTENDS BootImages, TLC

MCAddr == 0..39

Absolute == [b \in Bases |-> 0]

\* Boot code linked in RAM and copied there, compressed data and text, caches.
CopiedOut ==
  [romStart |-> 24, romEnd |-> 28, ramStart |-> 0, ramEnd |-> 3,
   start |-> 0, lib |-> 1, crt1 |-> 2, secinfo |-> 27, base |-> Absolute, rodata |-> "PIC",
   loaded |-> 24 :> Start @@ 25 :> Lib @@ 26 :> Crt1 @@ 27 :> Secinfo
              @@ 30 :> 51 @@ 31 :> 52 @@ 32 :> 80,
   clear |-> << [t |-> 3, v |-> 0, n |-> 1], [t |-> 8, v |-> 0, n |-> 2] >>, aclear |-> 3,
   copy |-> << [t |-> 4, s |-> 30, n |-> 2], [t |-> 0, s |-> 24, n |-> 3] >>, tcopy |-> 2,
   com |-> << [t |-> 6, n |-> 1, plain |-> <<7, 7>>], [t |-> 10, n |-> 1, plain |-> <<8, 8>>] >>,
   tcom |-> 2, fixups |-> <<>>,
   boardInit |-> TRUE, sram |-> 0, ramBytes |-> 45, caches |-> TRUE, cacheSync |-> TRUE,
   minimal |-> FALSE, parts |-> {"devices", "lock", "iob"}, beenHere |-> 3, ctors |-> <<1, 2>>, argc |-> 2,
   text |-> {0, 1, 2, 10, 11},
   want |-> 0 :> Start @@ 1 :> Lib @@ 2 :> Crt1 @@ 3 :> 0 @@ 4 :> 51 @@ 5 :> 52
            @@ 6 :> 7 @@ 7 :> 7 @@ 8 :> 0 @@ 9 :> 0 @@ 10 :> 8 @@ 11 :> 8]

\* The same program linked at its ROM addresses; the linker made a RAM copy.
LinkedInRom == [CopiedOut EXCEPT !.start = 24, !.lib = 25, !.crt1 = 26, !.ramBytes = 64]

\* Everything runs in ROM: only data is copied, and nothing fills the SRAM.
RunInRom ==
  [CopiedOut EXCEPT
     !.ramEnd = 0, !.start = 24, !.lib = 25, !.crt1 = 26, !.com = <<>>, !.tcom = 1,
     !.copy = << [t |-> 4, s |-> 30, n |-> 2] >>, !.boardInit = FALSE, !.text = {},
     !.want = 3 :> 0 @@ 4 :> 51 @@ 5 :> 52 @@ 8 :> 0 @@ 9 :> 0]

\* Downloaded to the addresses it was linked at.
Downloaded ==
  [CopiedOut EXCEPT
     !.romStart = 0, !.romEnd = 0, !.ramEnd = 0, !.secinfo = 3,
     !.loaded = 0 :> Start @@ 1 :> Lib @@ 2 :> Crt1 @@ 3 :> Secinfo @@ 5 :> 12,
     !.clear = << [t |-> 4, v |-> 0, n |-> 1], [t |-> 8, v |-> 0, n |-> 2] >>,
     !.copy = <<>>, !.tcopy = 1, !.com = <<>>, !.tcom = 1, !.beenHere = 4, !.caches = FALSE,
     !.text = {0, 1, 2}, !.want = 4 :> 0 @@ 5 :> 12 @@ 8 :> 0 @@ 9 :> 0]

\* Downloaded 12 words up, its data 15 words up, its read-only data 13; a word
\* is copied that lies with the code.  A byte pointer to code, a word pointer
\* to data, a weak null, an absolute pointer.
Moved12 ==
  [Downloaded EXCEPT
     !.base = [ABS |-> 0, PIC |-> 12, PIR |-> 13, PID |-> 15],
     !.loaded = 12 :> Start @@ 13 :> Lib @@ 14 :> Crt1 @@ 15 :> Secinfo
                @@ 20 :> 8 @@ 21 :> 5 @@ 22 :> 0 @@ 23 :> 16 @@ 30 :> 51,
     !.copy = << [t |-> 9, s |-> 18, n |-> 1] >>, !.tcopy = 2,
     !.clear = << [t |-> 4, v |-> 0, n |-> 1], [t |-> 2, v |-> 0, n |-> 2] >>, !.aclear = 2,
     !.fixups = << [at |-> 5, ptr |-> "PID", obj |-> "PIC", weak |-> FALSE, word |-> FALSE],
                   [at |-> 6, ptr |-> "PID", obj |-> "PID", weak |-> FALSE, word |-> TRUE],
                   [at |-> 7, ptr |-> "PID", obj |-> "PIC", weak |-> TRUE,  word |-> FALSE],
                   [at |-> 8, ptr |-> "PID", obj |-> "ABS", weak |-> FALSE, word |-> FALSE] >>,
     !.text = {12, 13, 14},
     !.want = 19 :> 0 @@ 2 :> 0 @@ 3 :> 0 @@ 20 :> 56 @@ 21 :> 20 @@ 22 :> 0 @@ 23 :> 16 @@ 24 :> 51]

\* The minimal start-up, with nothing to copy.
Minimal ==
  [Downloaded EXCEPT !.minimal = TRUE, !.parts = {"iob", "signals"}, !.boardInit = FALSE]

MCImages == {CopiedOut, LinkedInRom, RunInRom, Downloaded, Moved12, Minimal}

\* The six are what the theorems about the start-up suppose of an image.
ASSUME MCLinked == \A img \in MCImages : Linked(img) /\ OpcodeIsUnused(img)

\* The tables linked with the boot code that is copied to RAM.
TablesInRam == {[CopiedOut EXCEPT !.secinfo = 3, !.ramEnd = 4, !.beenHere = 4,
                   !.copy[2].n = 4, !.copy[1].t = 8, !.clear[1].t = 4,
                   !.clear[2].t = 10]}
===========================================================================
