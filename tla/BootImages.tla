----------------------------- MODULE BootImages -----------------------------
(* The images the start-up is right for: what the linker and the            *)
(* integrator see to, in terms of the addresses they know and not of how    *)
(* the start-up works them out.  Boot has the images as a constant; the     *)
(* theorems about it suppose Linked of each.                                *)
EXTENDS Boot

\* How far the loader moved what is linked relative to a base.
Shift(img, b) == IF img.minimal \/ FromRom(img) \/ b = "ABS" THEN 0 ELSE img.base[b]

InRam(img, a) == img.ramStart <= a /\ a < img.ramEnd

\* Where boot code is before it is copied to RAM, and after.
RomCopy(img, sym) == IF InRam(img, sym) THEN sym - img.ramStart + img.romStart ELSE sym
RamCopy(img, sym) ==
  IF InRom(img, sym) /\ img.ramStart # img.ramEnd THEN sym - img.romStart + img.ramStart ELSE sym

StartAt(img) == IF FromRom(img) THEN RomCopy(img, img.start) ELSE img.start + img.base["PIC"]
TablesAt(img) == img.secinfo + Shift(img, "PIC")
LibAt(img)  == IF FromRom(img) /\ ~img.minimal THEN RomCopy(img, img.lib)
                                               ELSE img.lib + Shift(img, "PIC")
Crt1At(img) == IF FromRom(img) THEN RamCopy(img, img.crt1) ELSE img.crt1 + Shift(img, "PIC")
Been(img) == img.beenHere + Shift(img, "PID")

\* The stages that build sections of RAM, their tables and what entry k of
\* one puts where.
Builders == {"clear", "copy", "decompress"}
Table(img, stage) ==
  IF stage = "clear" THEN img.clear ELSE IF stage = "copy" THEN img.copy ELSE img.com
FirstText(img, stage) ==
  IF stage = "clear" THEN img.aclear ELSE IF stage = "copy" THEN img.tcopy ELSE img.tcom
Target(img, stage, k) ==
  Table(img, stage)[k].t
    + Shift(img, IF k < FirstText(img, stage) THEN "PID" ELSE IF stage = "clear" THEN "ABS" ELSE "PIC")
Size(img, stage, k) ==
  IF stage = "decompress" THEN Len(img.com[k].plain) ELSE Table(img, stage)[k].n
Section(img, stage, k) == Cells(Target(img, stage, k), Size(img, stage, k))
Source(img, k, a) == a - Target(img, "copy", k) + img.copy[k].s + Shift(img, img.rodata)
Word(img, stage, k, a) ==
  IF stage = "clear" THEN img.clear[k].v
  ELSE IF stage = "copy" THEN img.loaded[Source(img, k, a)]
  ELSE img.com[k].plain[a - Target(img, stage, k) + 1]

\* Address a is in the section an entry of the table of some of these stages builds.
BuiltBy(img, stages, a) ==
  \E stage \in stages : \E k \in DOMAIN Table(img, stage) : a \in Section(img, stage, k)

\* What was loaded and is not built over, and the pointers among all that.
Rest(img) == {a \in DOMAIN img.loaded : ~BuiltBy(img, Builders, a)}
PointerAt(img, j) == img.fixups[j].at + Shift(img, img.fixups[j].ptr)
IsPointer(img, a) == \E j \in DOMAIN img.fixups : PointerAt(img, j) = a
Shifted(img, f, v) ==
  IF f.weak /\ v = 0 THEN 0 ELSE v + Shift(img, f.obj) * (IF f.word THEN 1 ELSE 4)

\* w is what v, put at a, is in the end.
Becomes(img, a, v, w) ==
  /\ ~IsPointer(img, a) => w = v
  /\ \A j \in DOMAIN img.fixups : PointerAt(img, j) = a => w = Shifted(img, img.fixups[j], v)

\* The SRAM the board's code is to fill, which it does when it runs in ROM.
FillCells(img) ==
  {a \in Addr : /\ img.boardInit /\ InRom(img, StartAt(img))
                /\ img.sram <= a /\ (a - img.sram) * 4 < img.ramBytes}

\* The fields of an image have their types.
Typed(img) ==
  /\ {img.romStart, img.romEnd, img.ramStart, img.ramEnd, img.start, img.lib, img.crt1,
      img.secinfo, img.sram, img.ramBytes, img.beenHere, img.argc, img.aclear, img.tcopy,
      img.tcom} \subseteq Int
  /\ img.base \in [Bases -> Int] /\ img.rodata \in {"ABS", "PIC"}
  /\ img.loaded \in [DOMAIN img.loaded -> Int] /\ DOMAIN img.loaded \subseteq Addr
  /\ img.clear \in Seq([t : Int, v : Int, n : Nat])
  /\ img.copy \in Seq([t : Int, s : Int, n : Nat])
  /\ img.com \in Seq([t : Int, n : Nat, plain : Seq(Int)])
  /\ img.fixups \in Seq([at : Int, ptr : Bases, obj : Bases, weak : BOOLEAN, word : BOOLEAN])
  /\ {img.boardInit, img.caches, img.cacheSync, img.minimal} \subseteq BOOLEAN
  /\ img.ctors \in Seq(Int) /\ img.text \subseteq Addr
  /\ img.want \in [DOMAIN img.want -> Int] /\ DOMAIN img.want \subseteq Addr

\* RAM is below ROM, and the symbols are in one or the other; the tables are
\* in ROM when the image is started from there.
Placed(img) ==
  /\ FromRom(img) => /\ img.ramEnd <= img.romStart
                     /\ InRom(img, img.start) \/ InRam(img, img.start)
  /\ FromRom(img) /\ ~img.minimal =>
       /\ InRom(img, img.secinfo)
       /\ InRom(img, img.lib) \/ InRam(img, img.lib)
       /\ InRom(img, img.crt1) \/ InRam(img, img.crt1)

\* No two entries meet, what is copied was loaded and stays, the fill meets
\* nothing loaded, and a pointer has one fix-up.
Separate(img) ==
  /\ \A st1, st2 \in Builders :
       \A k1 \in DOMAIN Table(img, st1), k2 \in DOMAIN Table(img, st2) :
         Section(img, st1, k1) \cap Section(img, st2, k2) # {} => st1 = st2 /\ k1 = k2
  /\ \A k \in DOMAIN img.copy : \A a \in Section(img, "copy", k) : Source(img, k, a) \in Rest(img)
  /\ FillCells(img) \cap DOMAIN img.loaded = {}
  /\ \A j, m \in DOMAIN img.fixups : PointerAt(img, j) = PointerAt(img, m) => j = m
  /\ img.minimal => img.copy = <<>> /\ img.com = <<>> /\ img.fixups = <<>>

\* Every word of the program is one that was loaded or one an entry puts there.
Complete(img) ==
  \A a \in DOMAIN img.want :
    \/ a \in Rest(img) /\ Becomes(img, a, img.loaded[a], img.want[a])
    \/ \E stage \in Builders : \E k \in DOMAIN Table(img, stage) :
         a \in Section(img, stage, k) /\ Becomes(img, a, Word(img, stage, k, a), img.want[a])

\* The code and the tables are among what was loaded, or for crt1 built.
CodeLoaded(img) ==
  /\ StartAt(img) \in DOMAIN img.loaded /\ img.loaded[StartAt(img)] = Start
  /\ TablesAt(img) \in Rest(img) /\ ~IsPointer(img, TablesAt(img))
  /\ img.loaded[TablesAt(img)] = Secinfo
  /\ LibAt(img) \in Rest(img) /\ ~IsPointer(img, LibAt(img)) /\ img.loaded[LibAt(img)] = Lib
  /\ ~img.minimal =>
       \/ /\ Crt1At(img) \in Rest(img) /\ ~IsPointer(img, Crt1At(img))
          /\ img.loaded[Crt1At(img)] = Crt1
       \/ Crt1At(img) \in DOMAIN img.want /\ img.want[Crt1At(img)] = Crt1
  /\ Been(img) \in DOMAIN img.want \ img.text /\ img.want[Been(img)] = 0

\* With caches, what is stored where text goes is stored by an entry that
\* synchronises them: there are no pointers and nothing cleared in text.
Flushed(img) ==
  img.caches =>
    \A a \in img.text :
      /\ ~IsPointer(img, a) /\ ~BuiltBy(img, {"clear"}, a)
      /\ a \in FillCells(img) => BuiltBy(img, {"copy", "decompress"}, a)
      /\ \A stage \in {"copy", "decompress"} : \A k \in DOMAIN Table(img, stage) :
           a \in Section(img, stage, k) => img.cacheSync /\ k + 1 >= FirstText(img, stage)

Linked(img) ==
  /\ Typed(img) /\ Placed(img) /\ Separate(img) /\ Complete(img)
  /\ CodeLoaded(img) /\ Flushed(img)

\* No word of the program is the one the SRAM fill stores.
OpcodeIsUnused(img) ==
  /\ Opcode \notin {Bad, Used, 1}
  /\ \A a \in DOMAIN img.loaded : img.loaded[a] # Opcode
  /\ \A k \in DOMAIN img.clear : img.clear[k].v # Opcode
  /\ \A k \in DOMAIN img.com : \A m \in DOMAIN img.com[k].plain : img.com[k].plain[m] # Opcode
=============================================================================
