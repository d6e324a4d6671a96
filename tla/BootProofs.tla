----------------------------- MODULE BootProofs -----------------------------
(* Proofs about the start-up, for every machine and every image that is      *)
(* Linked: memory is built as the tables say whatever it held, the code and  *)
(* the tables are used where they are, the SRAM fill is exact and main()     *)
(* gets what it is to get.  BootInv is the inductive invariant; its part     *)
(* MemInv says of each word what it holds at each stage.                     *)
EXTENDS BootImages, TLAPS

\* What __ghs_ind_crt0 works out for an image.
Fix(img) == IF img.minimal THEN MinimalFix(img) ELSE FullFix(img)
\* Where the reset handler goes.
RunsAt(img) == IF FromRom(img) THEN RomAddr(img, img.start)
                               ELSE img.start + img.base["PIC"]

\* The numbers and the flags of an image.
LEMMA ImageInts ==
  ASSUME NEW img, Typed(img)
  PROVE  /\ img.romStart \in Int /\ img.romEnd \in Int /\ img.ramStart \in Int
         /\ img.ramEnd \in Int /\ img.start \in Int /\ img.lib \in Int /\ img.crt1 \in Int
         /\ img.secinfo \in Int /\ img.sram \in Int /\ img.ramBytes \in Int
         /\ img.beenHere \in Int /\ img.argc \in Int /\ img.aclear \in Int
         /\ img.tcopy \in Int /\ img.tcom \in Int
         /\ img.boardInit \in BOOLEAN /\ img.caches \in BOOLEAN
         /\ img.cacheSync \in BOOLEAN /\ img.minimal \in BOOLEAN
         /\ \A b \in Bases : img.base[b] \in Int
  <1>1. {img.romStart, img.romEnd, img.ramStart, img.ramEnd, img.start, img.lib, img.crt1,
         img.secinfo, img.sram, img.ramBytes, img.beenHere, img.argc, img.aclear, img.tcopy,
         img.tcom} \subseteq Int
    BY DEF Typed
  <1>2. {img.boardInit, img.caches, img.cacheSync, img.minimal} \subseteq BOOLEAN
    BY DEF Typed
  <1>3. img.base \in [Bases -> Int]
    BY DEF Typed
  <1> QED
    BY <1>1, <1>2, <1>3, Zenon

\* An entry of a table of an image has the fields of the table's entries.
LEMMA EntryOf ==
  ASSUME NEW S, NEW table \in Seq(S), NEW k \in DOMAIN table
  PROVE  table[k] \in S
  OBVIOUS

\* A fix-up has the fields of a fix-up.
LEMMA FixupTypes ==
  ASSUME NEW img, Typed(img), NEW j \in DOMAIN img.fixups
  PROVE  img.fixups[j] \in [at : Int, ptr : Bases, obj : Bases, weak : BOOLEAN, word : BOOLEAN]
  <1> DEFINE S == [at : Int, ptr : Bases, obj : Bases, weak : BOOLEAN, word : BOOLEAN]
  <1>1. img.fixups \in Seq(S)
    BY DEF Typed
  <1> HIDE DEF S
  <1>2. img.fixups[j] \in S
    BY <1>1, EntryOf
  <1> QED
    BY <1>2 DEF S

\* What the loader shifts by is a number.
LEMMA ShiftIsInt ==
  ASSUME NEW img, Typed(img), NEW b \in Bases
  PROVE  Shift(img, b) \in Int
  BY ImageInts DEF Shift

\* The bases __ghs_ind_crt0 works out are what the loader shifted by: none from
\* ROM, none for the minimal start-up, and none for what is absolute.
LEMMA FixBase ==
  ASSUME NEW img, Typed(img), NEW b \in Bases
  PROVE  Fix(img).base[b] = Shift(img, b)
  <1>1. CASE img.minimal
    BY <1>1 DEF Fix, MinimalFix, NoFix, Shift
  <1>2. CASE ~img.minimal /\ FromRom(img)
    BY <1>2 DEF Fix, FullFix, Shift
  <1>3. CASE ~img.minimal /\ ~FromRom(img)
    <2>1. Fix(img).base = [img.base EXCEPT !["ABS"] = 0]
      BY <1>3 DEF Fix, FullFix
    <2>2. img.base \in [Bases -> Int]
      BY DEF Typed
    <2> QED
      BY <2>1, <2>2, <1>3 DEF Shift
  <1> QED
    BY <1>1, <1>2, <1>3

\* LibAddr is the address the library functions were loaded at: they are linked
\* in ROM, or in RAM and their copy is in ROM.
LEMMA FixLib ==
  ASSUME NEW img, Typed(img), Placed(img)
  PROVE  Fix(img).lib = LibAt(img)
  <1>1. CASE img.minimal
    BY <1>1, ImageInts DEF Fix, MinimalFix, NoFix, LibAt, Shift
  <1>2. CASE ~img.minimal /\ FromRom(img)
    <2>1. Fix(img).lib = LibAddr(img) /\ LibAt(img) = RomCopy(img, img.lib)
      BY <1>2 DEF Fix, FullFix, LibAt
    <2>2. /\ img.ramEnd <= img.romStart
          /\ InRom(img, img.lib) \/ InRam(img, img.lib)
      BY <1>2 DEF Placed
    <2> QED
      BY <2>1, <2>2, ImageInts DEF LibAddr, RomCopy, InRom, InRam, RamToRom
  <1>3. CASE ~img.minimal /\ ~FromRom(img)
    BY <1>3 DEF Fix, FullFix, LibAt, Shift, Bases
  <1> QED
    BY <1>1, <1>2, <1>3

\* Crt1Addr is the address crt1 is at once RAM is built.
LEMMA FixCrt1 ==
  ASSUME NEW img, Typed(img), Placed(img), ~img.minimal
  PROVE  Fix(img).crt1 = Crt1At(img)
  <1>2. CASE FromRom(img)
    <2>1. Fix(img).crt1 = Crt1Addr(img) /\ Crt1At(img) = RamCopy(img, img.crt1)
      BY <1>2 DEF Fix, FullFix, Crt1At
    <2>2. /\ img.ramEnd <= img.romStart
          /\ InRom(img, img.crt1) \/ InRam(img, img.crt1)
      BY <1>2 DEF Placed
    <2> QED
      BY <2>1, <2>2, ImageInts DEF Crt1Addr, RamCopy, InRom, InRam, RamToRom
  <1>3. CASE ~FromRom(img)
    BY <1>3 DEF Fix, FullFix, Crt1At, Shift, Bases
  <1> QED
    BY <1>2, <1>3

\* With the tables in ROM, Scifix leaves their address as it is.
LEMMA FixTables ==
  ASSUME NEW img, Typed(img), Placed(img)
  PROVE  img.secinfo + Fix(img).sci = TablesAt(img)
  <1>1. CASE img.minimal
    BY <1>1, ImageInts DEF Fix, MinimalFix, NoFix, TablesAt, Shift
  <1>2. CASE ~img.minimal /\ FromRom(img)
    <2>1. Fix(img).sci = Scifix(img) /\ TablesAt(img) = img.secinfo + 0
      BY <1>2 DEF Fix, FullFix, TablesAt, Shift
    <2>2. InRom(img, img.secinfo)
      BY <1>2 DEF Placed
    <2> QED
      BY <2>1, <2>2, ImageInts DEF Scifix
  <1>3. CASE ~img.minimal /\ ~FromRom(img)
    BY <1>3 DEF Fix, FullFix, TablesAt, Shift, Bases
  <1> QED
    BY <1>1, <1>2, <1>3

\* The reset handler's lromaddr finds _start, as ROM is above RAM.
LEMMA StartsAt ==
  ASSUME NEW img, Typed(img), Placed(img)
  PROVE  RunsAt(img) = StartAt(img)
  <1>1. CASE FromRom(img)
    <2>2. /\ img.ramEnd <= img.romStart
          /\ InRom(img, img.start) \/ InRam(img, img.start)
      BY <1>1 DEF Placed
    <2> QED
      BY <2>2, <1>1, ImageInts DEF RunsAt, RomAddr, StartAt, RomCopy, InRom, InRam
  <1> QED
    BY <1>1 DEF RunsAt, StartAt

\* What __ghs_ind_crt0 works out is numbers.
LEMMA FixTypes ==
  ASSUME NEW img, Typed(img)
  PROVE  Fix(img) \in [sci : Int, lib : Int, crt1 : Int, base : [Bases -> Int]]
  <1>1. CASE img.minimal
    <2>1. Fix(img) = [sci |-> 0, lib |-> img.lib, crt1 |-> img.crt1, base |-> [b \in Bases |-> 0]]
      BY <1>1 DEF Fix, MinimalFix, NoFix
    <2> QED
      BY <2>1, ImageInts
  <1>2. CASE ~img.minimal /\ FromRom(img)
    <2>1. Scifix(img) \in Int /\ LibAddr(img) \in Int /\ Crt1Addr(img) \in Int
      BY ImageInts DEF Scifix, LibAddr, Crt1Addr, RamToRom
    <2> QED
      BY <2>1, <1>2 DEF Fix, FullFix
  <1>3. CASE ~img.minimal /\ ~FromRom(img)
    <2>2. img.base \in [Bases -> Int]
      BY DEF Typed
    <2> QED
      BY <1>3, <2>2, ImageInts DEF Fix, FullFix, Bases
  <1> QED
    BY <1>1, <1>2, <1>3

\* One fix-up gives the pointer its shifted value, by bytes or by words: scaling a
\* word pointer there and back loses nothing, and a weak null stays null.
LEMMA RelocatedRight ==
  ASSUME Typed(image), fix = Fix(image), NEW j \in DOMAIN image.fixups, NEW v \in Int
  PROVE  /\ Relocated(image.fixups[j], v) = Shifted(image, image.fixups[j], v)
         /\ Shifted(image, image.fixups[j], v) \in Int
  <1> DEFINE f == image.fixups[j]
  <1>1. f \in [at : Int, ptr : Bases, obj : Bases, weak : BOOLEAN, word : BOOLEAN]
    BY FixupTypes
  <1>2. PICK base : base = Shift(image, f.obj)
    OBVIOUS
  <1>3. base \in Int /\ fix.base[f.obj] = base
    BY <1>1, <1>2, ShiftIsInt, FixBase
  <1>4. (v * 4 + base * 4) \div 4 = v + base
    BY <1>3, SMT
  <1>5. f.weak \in BOOLEAN /\ f.word \in BOOLEAN
    BY <1>1
  <1> HIDE DEF f
  <1>6. Moved(v, base, f.word) = v + base * (IF f.word THEN 1 ELSE 4)
    BY <1>3, <1>4, <1>5 DEF Moved
  <1>7. Relocated(f, v) = IF (f.weak /\ v = 0) \/ base = 0 THEN v ELSE Moved(v, base, f.word)
    BY <1>3, Zenon DEF Relocated
  <1>8. Shifted(image, f, v) = IF f.weak /\ v = 0 THEN 0 ELSE v + base * (IF f.word THEN 1 ELSE 4)
    BY <1>2, Zenon DEF Shifted
  <1>9. Relocated(f, v) = Shifted(image, f, v) /\ Shifted(image, f, v) \in Int
    BY <1>3, <1>5, <1>6, <1>7, <1>8
  <1> QED
    BY <1>9 DEF f

\* The stages of the tables and those before them.
TableStages == {"clear", "copy", "decompress", "relocate", "crt1", "init"}
Early == {"start", "fill8", "fill", "hello", "adjust"}

\* The stages after one that goes through a table.
After(stage) ==
  IF stage = "clear" THEN {"copy", "decompress", "relocate", "crt1", "init"}
  ELSE IF stage = "copy" THEN {"decompress", "relocate", "crt1", "init"}
  ELSE IF stage = "decompress" THEN {"relocate", "crt1", "init"}
  ELSE {"crt1", "init"}

\* The stage is through with entry k of its table.
Done(stage, k) == pc \in After(stage) \/ (pc = stage /\ k < i)

\* Address a holds v, relocated once if a fix-up of it is done.
HoldsNow(a, v) ==
  /\ (\A j \in DOMAIN image.fixups : PointerAt(image, j) = a => ~Done("relocate", j)) => mem[a] = v
  /\ \A j \in DOMAIN image.fixups :
       PointerAt(image, j) = a /\ Done("relocate", j) => mem[a] = Shifted(image, image.fixups[j], v)

\* The loaded words nothing is built over.
RestHolds == \A a \in Rest(image) : HoldsNow(a, image.loaded[a])

\* The words of the entries that are done.
SectionsHold ==
  \A stage \in Builders : \A k \in DOMAIN Table(image, stage) :
    Done(stage, k) =>
      \A a \in Section(image, stage, k) : HoldsNow(a, Word(image, stage, k, a))

\* What memory holds from the reset until what was built is used.
MemInv ==
  /\ pc \in Early => \A a \in DOMAIN image.loaded : mem[a] = image.loaded[a]
  /\ pc \in TableStages => RestHolds /\ SectionsHold

\* The addresses the start-up works with, and the stages it has no business in.
WhereInv ==
  /\ pc # "off" => lr = StartAt(image)
  /\ pc \in TableStages => fix = Fix(image) /\ i >= 1
  /\ pc \in {"copy", "decompress", "relocate", "crt1"} => ~image.minimal

\* An entry that synchronises the caches has yet to store address a.
ToCome(a) ==
  \E stage \in {"copy", "decompress"} : \E k \in DOMAIN Table(image, stage) :
    a \in Section(image, stage, k) /\ ~Done(stage, k)

\* Text the instruction fetch may not see is text that will be built.
SyncInv ==
  /\ pc \in Early => \A a \in image.text : a \in synced \/ (image.caches /\ a \in FillCells(image))
  /\ pc \in TableStages => \A a \in image.text : a \in synced \/ (image.caches /\ ToCome(a))
  /\ pc \in {"ctors", "main"} => image.text \subseteq synced

\* The turns of the SRAM fill.
TurnsInv ==
  /\ pc \in {"fill8", "fill"} => image.boardInit /\ InRom(image, StartAt(image))
  /\ pc = "fill8" => i % 8 = 0 /\ i + 8 <= FillWords(image)
  /\ pc = "fill" => i * 4 < image.ramBytes

\* What main() is handed.
HandedInv ==
  /\ pc \notin {"off", "ctors", "main"} => ran = <<>>
  /\ pc = "ctors" => /\ Len(ran) = i - 1 /\ i - 1 <= Len(image.ctors)
                     /\ \A k \in 1..(i - 1) : ran[k] = image.ctors[k]
  /\ pc = "main" => ran = image.ctors
  /\ ~debugger /\ (pc = "adjust" \/ pc \in TableStages) => args = [argc |-> 0, argv |-> "null"]
  /\ ~debugger /\ pc \in {"ctors", "main"} => args = [argc |-> 1, argv |-> "own"]

\* The inductive invariant of the start-up.
BootInv == TypeOK /\ WhereInv /\ MemInv /\ SyncInv /\ TurnsInv /\ HandedInv

\* Only the SRAM fill leaves its word in memory, and where it has been it did.
FillInv ==
  OpcodeIsUnused(image) =>
    /\ image.boardInit /\ InRom(image, StartAt(image)) =>
         \A a \in Addr : mem[a] = Opcode => a \in FillCells(image)
    /\ pc \in {"fill8", "fill"} => \A a \in FillCells(image) : a < image.sram + i => mem[a] = Opcode
    /\ pc = "hello" => \A a \in FillCells(image) : mem[a] = Opcode
---------------------------------------------------------------------------
\* An entry of the first table has the fields of its entries.
LEMMA ClearTypes ==
  ASSUME NEW img, Typed(img), NEW k \in DOMAIN img.clear
  PROVE  img.clear[k] \in [t : Int, v : Int, n : Nat]
  <1> DEFINE S == [t : Int, v : Int, n : Nat]
  <1>1. img.clear \in Seq(S)
    BY DEF Typed
  <1> HIDE DEF S
  <1>2. img.clear[k] \in S
    BY <1>1, EntryOf
  <1> QED
    BY <1>2 DEF S

\* So has one of the second.
LEMMA CopyTypes ==
  ASSUME NEW img, Typed(img), NEW k \in DOMAIN img.copy
  PROVE  img.copy[k] \in [t : Int, s : Int, n : Nat]
  <1> DEFINE S == [t : Int, s : Int, n : Nat]
  <1>1. img.copy \in Seq(S)
    BY DEF Typed
  <1> HIDE DEF S
  <1>2. img.copy[k] \in S
    BY <1>1, EntryOf
  <1> QED
    BY <1>2 DEF S

\* And one of the third.
LEMMA ComTypes ==
  ASSUME NEW img, Typed(img), NEW k \in DOMAIN img.com
  PROVE  /\ img.com[k].t \in Int
         /\ img.com[k].plain \in Seq(Int)
  <1> DEFINE S == [t : Int, n : Nat, plain : Seq(Int)]
  <1>1. img.com \in Seq(S)
    BY DEF Typed
  <1> HIDE DEF S
  <1>2. img.com[k] \in S
    BY <1>1, EntryOf
  <1> QED
    BY <1>2 DEF S

\* The entries of the tables are counted from 1.
LEMMA TablesAreSequences ==
  ASSUME NEW img, Typed(img), NEW stage \in Builders
  PROVE  /\ Len(Table(img, stage)) \in Nat
         /\ DOMAIN Table(img, stage) = 1..Len(Table(img, stage))
         /\ Len(img.fixups) \in Nat /\ DOMAIN img.fixups = 1..Len(img.fixups)
         /\ Len(img.ctors) \in Nat /\ DOMAIN img.ctors = 1..Len(img.ctors)
  <1>1. Table(img, stage) = img.clear \/ Table(img, stage) = img.copy \/ Table(img, stage) = img.com
    BY DEF Table
  <1>2. \A S : \A s \in Seq(S) : Len(s) \in Nat /\ DOMAIN s = 1..Len(s)
    OBVIOUS
  <1>3. /\ Len(img.clear) \in Nat /\ DOMAIN img.clear = 1..Len(img.clear)
        /\ Len(img.copy) \in Nat /\ DOMAIN img.copy = 1..Len(img.copy)
        /\ Len(img.com) \in Nat /\ DOMAIN img.com = 1..Len(img.com)
        /\ Len(img.fixups) \in Nat /\ DOMAIN img.fixups = 1..Len(img.fixups)
        /\ Len(img.ctors) \in Nat /\ DOMAIN img.ctors = 1..Len(img.ctors)
    BY <1>2, Zenon DEF Typed
  <1> QED
    BY <1>1, <1>3, Zenon

\* An entry builds at an address that is a number.
LEMMA TargetIsInt ==
  ASSUME NEW img, Typed(img), NEW stage \in Builders, NEW k \in DOMAIN Table(img, stage)
  PROVE  Target(img, stage, k) \in Int
  <1>1. Table(img, stage)[k].t \in Int
    BY ClearTypes, CopyTypes, ComTypes DEF Table, Builders
  <1>2. \A b \in Bases : Shift(img, b) \in Int
    BY ShiftIsInt
  <1>3. "ABS" \in Bases /\ "PID" \in Bases /\ "PIC" \in Bases
    BY DEF Bases
  <1>4. \A a, b \in Int : a + b \in Int
    OBVIOUS
  <1> QED
    BY <1>1, <1>2, <1>3, <1>4, Zenon DEF Target

\* What the code adds to a target is what the image's loader shifted it by.
LEMMA TargetsRight ==
  ASSUME Typed(image), fix = Fix(image)
  PROVE  /\ \A k \in DOMAIN image.clear : ClearTarget(k) = Target(image, "clear", k)
         /\ \A k \in DOMAIN image.copy :
              CopyTarget(image.copy, image.tcopy, k) = Target(image, "copy", k)
         /\ \A k \in DOMAIN image.com :
              CopyTarget(image.com, image.tcom, k) = Target(image, "decompress", k)
         /\ fix.base[image.rodata] = Shift(image, image.rodata)
         /\ fix.base["PID"] = Shift(image, "PID")
         /\ \A j \in DOMAIN image.fixups :
              image.fixups[j].at + fix.base[image.fixups[j].ptr] = PointerAt(image, j)
  <1>1. \A b \in Bases : fix.base[b] = Shift(image, b)
    BY FixBase
  <1>2. "ABS" \in Bases /\ "PID" \in Bases /\ "PIC" \in Bases /\ "PIR" \in Bases
    BY DEF Bases
  <1>3. Shift(image, "ABS") = 0
    BY DEF Shift
  <1>4. ASSUME NEW k \in DOMAIN image.clear
        PROVE  ClearTarget(k) = Target(image, "clear", k)
    BY <1>1, <1>2, <1>3 DEF ClearTarget, Target, Table, FirstText
  <1>5. ASSUME NEW k \in DOMAIN image.copy
        PROVE  CopyTarget(image.copy, image.tcopy, k) = Target(image, "copy", k)
    BY <1>1, <1>2 DEF CopyTarget, Target, Table, FirstText
  <1>6. ASSUME NEW k \in DOMAIN image.com
        PROVE  CopyTarget(image.com, image.tcom, k) = Target(image, "decompress", k)
    BY <1>1, <1>2 DEF CopyTarget, Target, Table, FirstText
  <1>7. ASSUME NEW j \in DOMAIN image.fixups
        PROVE  image.fixups[j].at + fix.base[image.fixups[j].ptr] = PointerAt(image, j)
    BY <1>1, FixupTypes DEF PointerAt
  <1>8. image.rodata \in Bases
    BY <1>2 DEF Typed
  <1> QED
    BY <1>1, <1>2, <1>4, <1>5, <1>6, <1>7, <1>8

\* The cells of a stretch of memory lie in it.
LEMMA InCells ==
  ASSUME NEW t, NEW n, NEW a \in Cells(t, n)
  PROVE  a \in Int /\ t <= a /\ a < t + n
  BY BootAssumption DEF Cells

\* What storing the words of entry i of the stage's table does.
BuildStep(stage) ==
  /\ pc = stage /\ i \in DOMAIN Table(image, stage)
  /\ mem' \in [Addr -> Int]
  /\ \A a \in Section(image, stage, i) : mem'[a] = Word(image, stage, i, a)
  /\ \A a \in Addr : a \notin Section(image, stage, i) => mem'[a] = mem[a]
  /\ synced' \subseteq Addr
  /\ \A a \in synced : a \notin Section(image, stage, i) \/ ~image.caches => a \in synced'
  /\ stage # "clear" /\ image.cacheSync /\ i + 1 >= FirstText(image, stage) /\ image.caches =>
       Section(image, stage, i) \subseteq synced'
  /\ i' = i + 1
  /\ pc' = pc /\ image' = image /\ fix' = fix

\* Both kinds of store, without the tables.
LEMMA StoreDoes ==
  ASSUME mem \in [Addr -> Int], synced \subseteq Addr, NEW cells \in SUBSET Addr,
         NEW W \in [cells -> Int],
         mem' = [a \in Addr |-> IF a \in cells THEN W[a] ELSE mem[a]],
         NEW sync \in BOOLEAN,
         synced' = IF ~image.caches THEN synced
                   ELSE IF sync THEN synced \cup cells ELSE synced \ cells
  PROVE  /\ mem' \in [Addr -> Int]
         /\ \A a \in cells : mem'[a] = W[a]
         /\ \A a \in Addr : a \notin cells => mem'[a] = mem[a]
         /\ synced' \subseteq Addr
         /\ \A a \in synced : a \notin cells \/ ~image.caches => a \in synced'
         /\ sync /\ image.caches => cells \subseteq synced'
  <1>1. mem' \in [Addr -> Int]
    OBVIOUS
  <1>2. \A a \in cells : mem'[a] = W[a]
    OBVIOUS
  <1>3. \A a \in Addr : a \notin cells => mem'[a] = mem[a]
    OBVIOUS
  <1>4. synced' \subseteq Addr
    OBVIOUS
  <1>5. \A a \in synced : a \notin cells \/ ~image.caches => a \in synced'
    OBVIOUS
  <1>6. sync /\ image.caches => cells \subseteq synced'
    OBVIOUS
  <1> QED
    BY <1>1, <1>2, <1>3, <1>4, <1>5, <1>6

\* The step of the clear loop stores the words of its entry.
LEMMA ClearBuilds ==
  ASSUME Typed(image), fix = Fix(image), i >= 1, TypeOK, ClearEntry
  PROVE  BuildStep("clear")
  <1> DEFINE cells == Section(image, "clear", i)
             W == [a \in cells |-> image.clear[i].v]
  <1>1. pc = "clear" /\ i <= Len(image.clear) /\ i' = i + 1 /\ pc' = pc /\ image' = image /\ fix' = fix
    BY DEF ClearEntry
  <1>2. Len(image.clear) \in Nat /\ DOMAIN image.clear = 1..Len(image.clear) /\ Table(image, "clear") = image.clear
    BY TablesAreSequences DEF Table, Builders
  <1>3. i \in Nat /\ mem \in [Addr -> Int] /\ synced \subseteq Addr
    BY DEF TypeOK
  <1>4. i \in DOMAIN image.clear
    BY <1>1, <1>2, <1>3
  <1>5. ClearTarget(i) = Target(image, "clear", i)
    BY <1>4, TargetsRight
  <1>6. cells = Cells(ClearTarget(i), image.clear[i].n)
    BY <1>2, <1>5 DEF Section, Size
  <1>7. cells \subseteq Addr
    BY DEF Section, Cells
  <1>8. image.clear[i].v \in Int
    BY <1>4, ClearTypes
  <1>9. /\ mem' = [a \in Addr |-> IF a \in cells THEN image.clear[i].v ELSE mem[a]]
        /\ synced' = IF image.caches THEN synced \ cells ELSE synced
    BY <1>6 DEF ClearEntry, Store
  <1> HIDE DEF cells
  <1>10. W \in [cells -> Int] /\ mem' = [a \in Addr |-> IF a \in cells THEN W[a] ELSE mem[a]]
    BY <1>8, <1>9
  <1>11. synced' = IF ~image.caches THEN synced
                   ELSE IF FALSE THEN synced \cup cells ELSE synced \ cells
    BY <1>9
  <1>12. \A a \in cells : W[a] = Word(image, "clear", i, a)
    BY DEF Word
  <1> HIDE DEF W
  <1>13. /\ mem' \in [Addr -> Int]
         /\ \A a \in cells : mem'[a] = W[a]
         /\ \A a \in Addr : a \notin cells => mem'[a] = mem[a]
         /\ synced' \subseteq Addr
         /\ \A a \in synced : a \notin cells \/ ~image.caches => a \in synced'
    BY <1>3, <1>7, <1>10, <1>11, StoreDoes
  <1> QED
    BY <1>1, <1>2, <1>4, <1>12, <1>13 DEF BuildStep, cells

\* The words a copy takes from ROM are those that were loaded.
LEMMA CopyBuilds ==
  ASSUME Typed(image), Separate(image), fix = Fix(image), i >= 1, TypeOK, RestHolds, CopyEntry
  PROVE  BuildStep("copy")
  <1> DEFINE cells == Section(image, "copy", i)
             t == Target(image, "copy", i)
             W == [a \in cells |-> Word(image, "copy", i, a)]
  <1>1. pc = "copy" /\ i <= Len(image.copy) /\ i' = i + 1 /\ pc' = pc /\ image' = image /\ fix' = fix
    BY DEF CopyEntry
  <1>2. Len(image.copy) \in Nat /\ DOMAIN image.copy = 1..Len(image.copy) /\ Table(image, "copy") = image.copy
    BY TablesAreSequences DEF Table, Builders
  <1>3. i \in Nat /\ mem \in [Addr -> Int] /\ synced \subseteq Addr
    BY DEF TypeOK
  <1>4. i \in DOMAIN image.copy
    BY <1>1, <1>2, <1>3
  <1>5. /\ CopyTarget(image.copy, image.tcopy, i) = Target(image, "copy", i)
        /\ fix.base[image.rodata] = Shift(image, image.rodata)
    BY <1>4, TargetsRight
  <1>6. PICK e : e = image.copy[i]
    OBVIOUS
  <1>7. e.t \in Int /\ e.s \in Int /\ e.n \in Nat
    BY <1>4, <1>6, CopyTypes
  <1>8. PICK base : base = Shift(image, image.rodata) /\ base \in Int
    BY ShiftIsInt DEF Bases, Typed
  <1>9. PICK words : words = [k \in 1..e.n |-> mem[e.s + base + k - 1]]
    OBVIOUS
  <1>10. StoreAndSync(t, words, i + 1 >= image.tcopy)
    BY <1>5, <1>6, <1>8, <1>9, Zenon DEF CopyEntry
  <1>11. Len(words) = e.n
    BY <1>7, <1>9
  <1>12. cells = Cells(t, Len(words))
    BY <1>2, <1>6, <1>11 DEF Section, Size
  <1>13. cells \subseteq Addr
    BY DEF Section, Cells
  <1>14. t \in Int
    BY <1>2, <1>4, TargetIsInt DEF Builders
  <1>15. ASSUME NEW a \in cells
         PROVE  words[a - t + 1] = Word(image, "copy", i, a) /\ Word(image, "copy", i, a) \in Int
    <2>1. a \in Int /\ t <= a /\ a < t + e.n
      BY <1>11, <1>12, InCells, Zenon
    <2>2. words[a - t + 1] = mem[e.s + base + (a - t + 1) - 1]
      <3>1. a - t + 1 \in 1..e.n
        BY <1>7, <1>14, <2>1
      <3> QED
        BY <1>9, <3>1
    <2>3. PICK s : s = Source(image, i, a)
      OBVIOUS
    <2>4. s = a - t + e.s + base
      BY <1>6, <1>8, <2>3 DEF Source
    <2>5. e.s + base + (a - t + 1) - 1 = s
      BY <1>7, <1>8, <1>14, <2>1, <2>4
    <2>6. s \in Rest(image)
      BY <1>4, <2>3, Zenon DEF Separate
    <2>7. \A j \in DOMAIN image.fixups : ~Done("relocate", j)
      BY <1>1 DEF Done, After
    <2>8. mem[s] = image.loaded[s]
      BY <2>6, <2>7, Zenon DEF RestHolds, HoldsNow
    <2>9. image.loaded[s] \in Int
      BY <2>6 DEF Typed, Rest
    <2>10. Word(image, "copy", i, a) = image.loaded[s]
      BY <2>3 DEF Word
    <2> QED
      BY <2>2, <2>5, <2>8, <2>9, <2>10
  <1>16. PICK sync \in BOOLEAN : sync = (image.cacheSync /\ i + 1 >= image.tcopy)
    BY ImageInts, <1>3
  <1>17. /\ mem' = [a \in Addr |-> IF a \in cells THEN words[a - t + 1] ELSE mem[a]]
         /\ synced' = IF ~image.caches THEN synced
                      ELSE IF sync THEN synced \cup cells ELSE synced \ cells
    BY <1>10, <1>12, <1>16 DEF StoreAndSync
  <1> HIDE DEF cells, t
  <1>18. W \in [cells -> Int] /\ mem' = [a \in Addr |-> IF a \in cells THEN W[a] ELSE mem[a]]
    BY <1>15, <1>17
  <1>19. \A a \in cells : W[a] = Word(image, "copy", i, a)
    OBVIOUS
  <1> HIDE DEF W
  <1>20. /\ mem' \in [Addr -> Int]
         /\ \A a \in cells : mem'[a] = W[a]
         /\ \A a \in Addr : a \notin cells => mem'[a] = mem[a]
         /\ synced' \subseteq Addr
         /\ \A a \in synced : a \notin cells \/ ~image.caches => a \in synced'
         /\ sync /\ image.caches => cells \subseteq synced'
    BY <1>3, <1>13, <1>17, <1>18, StoreDoes
  <1>21. FirstText(image, "copy") = image.tcopy
    BY DEF FirstText
  <1> QED
    BY <1>1, <1>2, <1>4, <1>16, <1>19, <1>20, <1>21 DEF BuildStep, cells

\* The step of the decompress loop stores the words that were compressed.
LEMMA DecompressBuilds ==
  ASSUME Typed(image), fix = Fix(image), i >= 1, TypeOK, DecompressEntry
  PROVE  BuildStep("decompress")
  <1> DEFINE cells == Section(image, "decompress", i)
             t == Target(image, "decompress", i)
             W == [a \in cells |-> Word(image, "decompress", i, a)]
  <1>1. pc = "decompress" /\ i <= Len(image.com) /\ i' = i + 1 /\ pc' = pc /\ image' = image /\ fix' = fix
    BY DEF DecompressEntry
  <1>2. Len(image.com) \in Nat /\ DOMAIN image.com = 1..Len(image.com) /\ Table(image, "decompress") = image.com
    BY TablesAreSequences DEF Table, Builders
  <1>3. i \in Nat /\ mem \in [Addr -> Int] /\ synced \subseteq Addr
    BY DEF TypeOK
  <1>4. i \in DOMAIN image.com
    BY <1>1, <1>2, <1>3
  <1>5. CopyTarget(image.com, image.tcom, i) = t
    BY <1>4, TargetsRight
  <1>6. PICK words : words = image.com[i].plain
    OBVIOUS
  <1>7. words \in Seq(Int)
    BY <1>4, <1>6, ComTypes
  <1>10. StoreAndSync(t, words, i + 1 >= image.tcom)
    BY <1>5, <1>6, Zenon DEF DecompressEntry
  <1>12. cells = Cells(t, Len(words))
    BY <1>6 DEF Section, Size
  <1>13. cells \subseteq Addr
    BY DEF Section, Cells
  <1>14. t \in Int
    BY <1>2, <1>4, TargetIsInt DEF Builders
  <1>15. ASSUME NEW a \in cells
         PROVE  words[a - t + 1] = Word(image, "decompress", i, a) /\ Word(image, "decompress", i, a) \in Int
    <2>1. a \in Int /\ t <= a /\ a < t + Len(words)
      BY <1>12, InCells, Zenon
    <2>2. a - t + 1 \in 1..Len(words)
      BY <1>7, <1>14, <2>1
    <2>3. words[a - t + 1] \in Int
      BY <1>7, <2>2
    <2> QED
      BY <1>6, <2>3 DEF Word
  <1>16. PICK sync \in BOOLEAN : sync = (image.cacheSync /\ i + 1 >= image.tcom)
    BY ImageInts, <1>3
  <1>17. /\ mem' = [a \in Addr |-> IF a \in cells THEN words[a - t + 1] ELSE mem[a]]
         /\ synced' = IF ~image.caches THEN synced
                      ELSE IF sync THEN synced \cup cells ELSE synced \ cells
    BY <1>10, <1>12, <1>16 DEF StoreAndSync
  <1> HIDE DEF cells, t
  <1>18. W \in [cells -> Int] /\ mem' = [a \in Addr |-> IF a \in cells THEN W[a] ELSE mem[a]]
    BY <1>15, <1>17
  <1>19. \A a \in cells : W[a] = Word(image, "decompress", i, a)
    OBVIOUS
  <1> HIDE DEF W
  <1>20. /\ mem' \in [Addr -> Int]
         /\ \A a \in cells : mem'[a] = W[a]
         /\ \A a \in Addr : a \notin cells => mem'[a] = mem[a]
         /\ synced' \subseteq Addr
         /\ \A a \in synced : a \notin cells \/ ~image.caches => a \in synced'
         /\ sync /\ image.caches => cells \subseteq synced'
    BY <1>3, <1>13, <1>17, <1>18, StoreDoes
  <1>21. FirstText(image, "decompress") = image.tcom
    BY DEF FirstText
  <1> QED
    BY <1>1, <1>2, <1>4, <1>16, <1>19, <1>20, <1>21 DEF BuildStep, cells

\* What fix-up i does, to the one word it is about.
LEMMA RelocateDoes ==
  ASSUME Typed(image), fix = Fix(image), i >= 1, TypeOK, RelocateEntry
  PROVE  /\ pc = "relocate" /\ i \in DOMAIN image.fixups
         /\ mem' \in [Addr -> Int]
         /\ \A a \in Addr : a # PointerAt(image, i) => mem'[a] = mem[a]
         /\ \A a \in Addr : a = PointerAt(image, i) => mem'[a] = Shifted(image, image.fixups[i], mem[a])
         /\ synced' \subseteq Addr
         /\ \A a \in synced : a # PointerAt(image, i) \/ ~image.caches => a \in synced'
         /\ i' = i + 1 /\ pc' = pc /\ image' = image /\ fix' = fix
  <1>1. pc = "relocate" /\ i <= Len(image.fixups) /\ i' = i + 1 /\ pc' = pc /\ image' = image /\ fix' = fix
    BY DEF RelocateEntry
  <1>2. Len(image.fixups) \in Nat /\ DOMAIN image.fixups = 1..Len(image.fixups)
    BY TablesAreSequences DEF Builders
  <1>3. i \in Nat /\ mem \in [Addr -> Int] /\ synced \subseteq Addr
    BY DEF TypeOK
  <1>4. i \in DOMAIN image.fixups
    BY <1>1, <1>2, <1>3
  <1>5. PICK f : f = image.fixups[i]
    OBVIOUS
  <1>6. PICK p : p = PointerAt(image, i)
    OBVIOUS
  <1>7. p \in Int
    BY <1>4, <1>6, FixupTypes, ShiftIsInt DEF PointerAt
  <1>8. f.at + fix.base[f.ptr] = p
    BY <1>4, <1>5, <1>6, TargetsRight
  <1>9. /\ mem' = [a \in Addr |-> IF a \in Cells(p, 1) THEN Relocated(f, mem[a]) ELSE mem[a]]
        /\ synced' = IF image.caches THEN synced \ Cells(p, 1) ELSE synced
    BY <1>5, <1>8 DEF RelocateEntry, Store
  <1>10. \A a \in Addr : a \in Cells(p, 1) <=> a = p
    BY <1>7, BootAssumption DEF Cells
  <1>11. \A v \in Int : Relocated(f, v) = Shifted(image, f, v) /\ Shifted(image, f, v) \in Int
    BY <1>4, <1>5, RelocatedRight
  <1>12. mem' \in [Addr -> Int]
    BY <1>3, <1>9, <1>11
  <1>13. \A a \in Addr : a # p => mem'[a] = mem[a]
    BY <1>9, <1>10
  <1>14. \A a \in Addr : a = p => mem'[a] = Shifted(image, f, mem[a])
    BY <1>3, <1>9, <1>10, <1>11
  <1>15. synced' \subseteq Addr
    BY <1>3, <1>9
  <1>16. \A a \in synced : a # p \/ ~image.caches => a \in synced'
    BY <1>3, <1>9, <1>10
  <1> QED
    BY <1>1, <1>4, <1>5, <1>6, <1>12, <1>13, <1>14, <1>15, <1>16

\* What an entry builds is there from then on, and what was there stays.
LEMMA BuildKeepsMem ==
  ASSUME NEW stage \in Builders, BuildStep(stage), TypeOK, Typed(image), Separate(image),
         RestHolds, SectionsHold
  PROVE  RestHolds' /\ SectionsHold'
  <1>1. /\ pc = stage /\ i \in DOMAIN Table(image, stage)
        /\ i' = i + 1 /\ pc' = pc /\ image' = image
    BY DEF BuildStep
  <1>2. /\ \A a \in Section(image, stage, i) : mem'[a] = Word(image, stage, i, a)
        /\ \A a \in Addr : a \notin Section(image, stage, i) => mem'[a] = mem[a]
    BY DEF BuildStep
  <1>3. i \in Nat
    BY DEF TypeOK
  <1>4. \A j : ~Done("relocate", j) /\ ~Done("relocate", j)'
    BY <1>1 DEF Done, After, Builders
  <1>5. \A a, v : HoldsNow(a, v) <=> mem[a] = v
    BY <1>4 DEF HoldsNow
  <1>6. \A a, v : HoldsNow(a, v)' <=> mem'[a] = v
    BY <1>1, <1>4 DEF HoldsNow
  <1>7. ASSUME NEW a \in Rest(image)
        PROVE  HoldsNow(a, image.loaded[a])'
    <2>1. a \notin Section(image, stage, i) /\ a \in DOMAIN image.loaded
      BY <1>1 DEF Rest, BuiltBy
    <2>2. a \in Addr
      BY <2>1 DEF Typed
    <2>3. mem[a] = image.loaded[a]
      BY <1>5 DEF RestHolds
    <2> QED
      BY <1>1, <1>2, <1>6, <2>1, <2>2, <2>3
  <1>8. ASSUME NEW st \in Builders, NEW k \in DOMAIN Table(image, st), Done(st, k)',
               NEW a \in Section(image, st, k)
        PROVE  HoldsNow(a, Word(image, st, k, a))'
    <2>1. CASE st = stage /\ k = i
      BY <1>1, <1>2, <1>6, <2>1
    <2>2. CASE ~(st = stage /\ k = i)
      <3>1. k \in Nat
        BY TablesAreSequences
      <3>2. Done(st, k)
        <4>1. CASE pc \in After(st)
          BY <4>1 DEF Done
        <4>2. CASE pc = st /\ k < i + 1
          BY <1>1, <1>3, <2>2, <3>1, <4>2 DEF Done
        <4> QED
          BY <1>1, <1>8, <4>1, <4>2 DEF Done
      <3>3. mem[a] = Word(image, st, k, a)
        BY <1>5, <3>2 DEF SectionsHold
      <3>4. a \notin Section(image, stage, i)
        <4>1. Section(image, st, k) \cap Section(image, stage, i) # {} => st = stage /\ k = i
          BY <1>1, Zenon DEF Separate
        <4> QED
          BY <2>2, <4>1
      <3>5. a \in Addr
        BY DEF Section, Cells
      <3> QED
        BY <1>1, <1>2, <1>6, <3>3, <3>4, <3>5
    <2> QED
      BY <2>1, <2>2
  <1>9. RestHolds'
    BY <1>1, <1>7 DEF RestHolds
  <1>10. SectionsHold'
    BY <1>1, <1>8 DEF SectionsHold
  <1> QED
    BY <1>9, <1>10

\* A fix-up relocates the one pointer it is about, the first time.
LEMMA RelocateKeepsMem ==
  ASSUME TypeOK, Typed(image), Separate(image), fix = Fix(image), i >= 1, RelocateEntry,
         RestHolds, SectionsHold
  PROVE  RestHolds' /\ SectionsHold'
  <1>1. /\ pc = "relocate" /\ i \in DOMAIN image.fixups
        /\ i' = i + 1 /\ pc' = pc /\ image' = image
    BY RelocateDoes
  <1>2. /\ \A a \in Addr : a # PointerAt(image, i) => mem'[a] = mem[a]
        /\ \A a \in Addr : a = PointerAt(image, i) => mem'[a] = Shifted(image, image.fixups[i], mem[a])
    BY RelocateDoes
  <1>3. i \in Nat /\ DOMAIN image.fixups \subseteq Nat
    BY TablesAreSequences DEF TypeOK, Builders
  <1>4. \A j \in DOMAIN image.fixups : Done("relocate", j)' <=> (Done("relocate", j) \/ j = i)
    BY <1>1, <1>3 DEF Done, After
  <1>5. ~Done("relocate", i)
    BY <1>1, <1>3 DEF Done, After
  <1>6. ASSUME NEW a \in Addr, NEW v, HoldsNow(a, v)
        PROVE  HoldsNow(a, v)'
    <2>1. CASE a = PointerAt(image, i)
      <3>1. \A j \in DOMAIN image.fixups : PointerAt(image, j) = a => j = i
        BY <1>1, <2>1, Zenon DEF Separate
      <3>2. mem[a] = v
        BY <1>5, <1>6, <3>1, Zenon DEF HoldsNow
      <3>3. mem'[a] = Shifted(image, image.fixups[i], v)
        BY <1>2, <2>1, <3>2
      <3>4. ~(\A j \in DOMAIN image.fixups : PointerAt(image, j) = a => ~Done("relocate", j)')
        BY <1>1, <1>4, <2>1
      <3>5. \A j \in DOMAIN image.fixups :
              PointerAt(image, j) = a => mem'[a] = Shifted(image, image.fixups[j], v)
        BY <3>1, <3>3
      <3>6. /\ (\A j \in DOMAIN image.fixups : PointerAt(image, j) = a => ~Done("relocate", j)') => mem'[a] = v
            /\ \A j \in DOMAIN image.fixups :
                 PointerAt(image, j) = a /\ Done("relocate", j)' => mem'[a] = Shifted(image, image.fixups[j], v)
        BY <3>4, <3>5
      <3> QED
        BY <1>1, <3>6 DEF HoldsNow
    <2>2. CASE a # PointerAt(image, i)
      <3>1. mem'[a] = mem[a]
        BY <1>2, <2>2
      <3>2. \A j \in DOMAIN image.fixups :
              PointerAt(image, j) = a => (Done("relocate", j)' <=> Done("relocate", j))
        BY <1>4, <2>2
      <3>3. /\ (\A j \in DOMAIN image.fixups : PointerAt(image, j) = a => ~Done("relocate", j)') => mem'[a] = v
            /\ \A j \in DOMAIN image.fixups :
                 PointerAt(image, j) = a /\ Done("relocate", j)' => mem'[a] = Shifted(image, image.fixups[j], v)
        BY <1>6, <3>1, <3>2 DEF HoldsNow
      <3> QED
        BY <1>1, <3>3 DEF HoldsNow
    <2> QED
      BY <2>1, <2>2
  <1>7. \A k : \A st \in Builders : Done(st, k)' => Done(st, k)
    BY <1>1 DEF Done, After, Builders
  <1>8. Rest(image) \subseteq Addr
    BY DEF Rest, Typed
  <1>9. \A k : \A st \in Builders : Section(image, st, k) \subseteq Addr
    BY DEF Section, Cells
  <1>10. RestHolds'
    BY <1>1, <1>6, <1>8 DEF RestHolds
  <1>11. SectionsHold'
    BY <1>1, <1>6, <1>7, <1>9 DEF SectionsHold
  <1> QED
    BY <1>10, <1>11

\* A step that stores nothing and counts no entry changes nothing.
LEMMA SameKeepsMem ==
  ASSUME image' = image, mem' = mem, RestHolds, SectionsHold,
         \A j \in DOMAIN image.fixups : Done("relocate", j)' <=> Done("relocate", j),
         \A st \in Builders : \A k \in DOMAIN Table(image, st) : Done(st, k)' => Done(st, k)
  PROVE  RestHolds' /\ SectionsHold'
  <1>1. \A a, v : HoldsNow(a, v) => HoldsNow(a, v)'
    BY DEF HoldsNow
  <1>2. RestHolds'
    BY <1>1 DEF RestHolds
  <1>3. SectionsHold'
    BY <1>1 DEF SectionsHold
  <1> QED
    BY <1>2, <1>3

\* The end of a table counts no entry: those of a stage left out are none.
LEMMA EndCountsNone ==
  ASSUME TypeOK, Typed(image), Separate(image), NEW stage, NEW table, NEW next,
         TableEnd(stage, table, next),
         \/ stage \in Builders /\ table = Table(image, stage)
         \/ stage = "relocate" /\ table = image.fixups,
         \/ stage = "clear" /\ image.minimal /\ next = "init"
         \/ stage = "clear" /\ ~image.minimal /\ next = "copy"
         \/ stage = "copy" /\ next = "decompress"
         \/ stage = "copy" /\ Len(image.com) = 0 /\ next = "relocate"
         \/ stage = "decompress" /\ next = "relocate"
         \/ stage = "relocate" /\ next = "crt1"
  PROVE  /\ \A j \in DOMAIN image.fixups : Done("relocate", j)' <=> Done("relocate", j)
         /\ \A st \in Builders : \A k \in DOMAIN Table(image, st) : Done(st, k)' <=> Done(st, k)
  <1>1. pc = stage /\ i > Len(table) /\ pc' = next /\ i' = 1
    BY DEF TableEnd
  <1>2. i \in Nat
    BY DEF TypeOK
  <1>3. DOMAIN image.fixups = 1..Len(image.fixups) /\ Len(image.fixups) \in Nat
    BY TablesAreSequences DEF Builders
  <1>4. \A st \in Builders : DOMAIN Table(image, st) = 1..Len(Table(image, st)) /\ Len(Table(image, st)) \in Nat
    BY TablesAreSequences
  <1>5. image.minimal => /\ \A k : k \notin DOMAIN Table(image, "copy")
                         /\ \A k : k \notin DOMAIN Table(image, "decompress")
                         /\ \A j : j \notin DOMAIN image.fixups
    BY DEF Separate, Table
  <1>6. Len(image.com) = 0 => \A k : k \notin DOMAIN Table(image, "decompress")
    BY <1>4 DEF Table, Builders
  <1>7. ASSUME NEW j \in DOMAIN image.fixups
        PROVE  Done("relocate", j)' <=> Done("relocate", j)
    <2>1. j \in Nat /\ j >= 1 /\ j <= Len(image.fixups)
      BY <1>3
    <2>2. stage = "relocate" => j < i
      BY <1>1, <1>2, <1>3, <2>1 DEF Builders
    <2>3. ~(j < 1)
      BY <2>1
    <2> QED
      BY <1>1, <1>5, <2>2, <2>3 DEF Done, After
  <1>8. ASSUME NEW st \in Builders, NEW k \in DOMAIN Table(image, st)
        PROVE  Done(st, k)' <=> Done(st, k)
    <2>1. k \in Nat /\ k >= 1 /\ k <= Len(Table(image, st))
      BY <1>4
    <2>2. stage = st => k < i
      BY <1>1, <1>2, <1>4, <2>1 DEF Builders
    <2>3. ~(k < 1)
      BY <2>1
    <2>4. st = "clear" \/ st = "copy" \/ st = "decompress"
      BY DEF Builders
    <2> QED
      BY <1>1, <1>5, <1>6, <2>2, <2>3, <2>4 DEF Done, After
  <1> QED
    BY <1>7, <1>8

\* When the first table is begun, memory holds what was loaded.
LEMMA BeginHolds ==
  ASSUME Typed(image), image' = image, mem' = mem, pc' = "clear", i' = 1,
         \A a \in DOMAIN image.loaded : mem[a] = image.loaded[a]
  PROVE  RestHolds' /\ SectionsHold'
  <1>1. \A st \in Builders : DOMAIN Table(image, st) = 1..Len(Table(image, st)) /\ Len(Table(image, st)) \in Nat
    BY TablesAreSequences
  <1>2. ASSUME NEW st \in Builders, NEW k \in DOMAIN Table(image, st)
        PROVE  ~Done(st, k)'
    <2>1. ~(k < 1)
      BY <1>1
    <2> QED
      BY <2>1 DEF Done, After, Builders
  <1>3. \A j : ~Done("relocate", j)'
    BY DEF Done, After
  <1>4. RestHolds'
    BY <1>3 DEF RestHolds, HoldsNow, Rest
  <1>5. SectionsHold'
    BY <1>2 DEF SectionsHold
  <1> QED
    BY <1>4, <1>5

\* Text is in sight of the instruction fetch or will be built.
SomeToCome == \A a \in image.text : a \in synced \/ (image.caches /\ ToCome(a))

\* An entry that stores text lets the instruction fetch see it.
LEMMA BuildKeepsSync ==
  ASSUME NEW stage \in Builders, BuildStep(stage), TypeOK, Typed(image), Flushed(image), SomeToCome
  PROVE  SomeToCome'
  <1>1. /\ pc = stage /\ i \in DOMAIN Table(image, stage)
        /\ i' = i + 1 /\ pc' = pc /\ image' = image
    BY DEF BuildStep
  <1>2. /\ \A a \in synced : a \notin Section(image, stage, i) \/ ~image.caches => a \in synced'
        /\ stage # "clear" /\ image.cacheSync /\ i + 1 >= FirstText(image, stage) /\ image.caches =>
             Section(image, stage, i) \subseteq synced'
    BY DEF BuildStep
  <1>3. i \in Nat
    BY DEF TypeOK
  <1>4. ASSUME NEW a \in image.text
        PROVE  a \in synced' \/ (image.caches /\ ToCome(a)')
    <2>1. CASE ~image.caches
      BY <1>2, <2>1 DEF SomeToCome
    <2>2. CASE image.caches /\ a \in Section(image, stage, i)
      <3>1. stage # "clear"
        BY <1>1, <2>2 DEF Flushed, BuiltBy
      <3>2. image.cacheSync /\ i + 1 >= FirstText(image, stage)
        <4>1. stage \in {"copy", "decompress"}
          BY <3>1 DEF Builders
        <4> QED
          BY <1>1, <2>2, <4>1, Zenon DEF Flushed
      <3> QED
        BY <1>2, <2>2, <3>1, <3>2
    <2>3. CASE image.caches /\ a \notin Section(image, stage, i)
      <3>1. CASE a \in synced
        BY <1>2, <2>3, <3>1
      <3>2. CASE ToCome(a)
        <4>1. PICK st \in {"copy", "decompress"} : \E k \in DOMAIN Table(image, st) :
                     a \in Section(image, st, k) /\ ~Done(st, k)
          BY <3>2 DEF ToCome
        <4>2. PICK k \in DOMAIN Table(image, st) : a \in Section(image, st, k) /\ ~Done(st, k)
          BY <4>1
        <4>3. k \in Nat
          BY <4>1, TablesAreSequences DEF Builders
        <4>4. ~(st = stage /\ k = i)
          BY <2>3, <4>2
        <4>5. ~Done(st, k)'
          BY <1>1, <1>3, <4>2, <4>3, <4>4 DEF Done
        <4> QED
          BY <1>1, <2>3, <4>1, <4>2, <4>5 DEF ToCome
      <3> QED
        BY <3>1, <3>2 DEF SomeToCome
    <2> QED
      BY <2>1, <2>2, <2>3
  <1> QED
    BY <1>1, <1>4 DEF SomeToCome

\* No fix-up is in text, so none spoils what the instruction fetch sees.
LEMMA RelocateKeepsSync ==
  ASSUME TypeOK, Typed(image), Flushed(image), fix = Fix(image), i >= 1, RelocateEntry, SomeToCome
  PROVE  SomeToCome'
  <1>1. /\ pc = "relocate" /\ i \in DOMAIN image.fixups /\ pc' = pc /\ image' = image
        /\ \A a \in synced : a # PointerAt(image, i) \/ ~image.caches => a \in synced'
    BY RelocateDoes
  <1>2. \A k : \A st \in Builders : Done(st, k)
    BY <1>1 DEF Done, After, Builders
  <1>3. \A a : ~ToCome(a)
    BY <1>2 DEF ToCome, Builders
  <1>4. image.caches => \A a \in image.text : a # PointerAt(image, i)
    BY <1>1 DEF Flushed, IsPointer
  <1> QED
    BY <1>1, <1>3, <1>4 DEF SomeToCome

\* Nor does a step that stores nothing.
LEMMA SameKeepsSync ==
  ASSUME image' = image, synced' = synced, SomeToCome,
         \A st \in Builders : \A k \in DOMAIN Table(image, st) : Done(st, k)' => Done(st, k)
  PROVE  SomeToCome'
  <1>1. \A a : ToCome(a) => ToCome(a)'
    BY DEF ToCome, Builders
  <1> QED
    BY <1>1 DEF SomeToCome

\* What the SRAM fill stored over text is still to be built.
LEMMA BeginSync ==
  ASSUME Typed(image), Flushed(image), image' = image, synced' = synced, pc' = "clear", i' = 1,
         \A a \in image.text : a \in synced \/ (image.caches /\ a \in FillCells(image))
  PROVE  SomeToCome'
  <1>1. \A st \in Builders : DOMAIN Table(image, st) = 1..Len(Table(image, st)) /\ Len(Table(image, st)) \in Nat
    BY TablesAreSequences
  <1>2. ASSUME NEW st \in Builders, NEW k \in DOMAIN Table(image, st)
        PROVE  ~Done(st, k)'
    <2>1. ~(k < 1)
      BY <1>1
    <2> QED
      BY <2>1 DEF Done, After, Builders
  <1>3. ASSUME NEW a \in image.text, image.caches, a \in FillCells(image)
        PROVE  ToCome(a)'
    <2>1. BuiltBy(image, {"copy", "decompress"}, a)
      BY <1>3 DEF Flushed
    <2> QED
      BY <1>2, <2>1 DEF BuiltBy, ToCome, Builders
  <1> QED
    BY <1>3 DEF SomeToCome

\* After the last table the instruction fetch sees all text.
LEMMA AllSynced ==
  ASSUME pc \in {"crt1", "init"}, SomeToCome
  PROVE  image.text \subseteq synced
  <1>1. \A k : \A st \in Builders : Done(st, k)
    BY DEF Done, After, Builders
  <1> QED
    BY <1>1 DEF SomeToCome, ToCome, Builders

\* The tables and the library functions are used where they were loaded.
LEMMA CodeUsable ==
  ASSUME Typed(image), Placed(image), CodeLoaded(image), fix = Fix(image), RestHolds
  PROVE  Usable
  <1>1. image.secinfo + fix.sci = TablesAt(image) /\ fix.lib = LibAt(image)
    BY FixTables, FixLib
  <1>2. /\ TablesAt(image) \in Rest(image) /\ ~IsPointer(image, TablesAt(image))
        /\ image.loaded[TablesAt(image)] = Secinfo
        /\ LibAt(image) \in Rest(image) /\ ~IsPointer(image, LibAt(image))
        /\ image.loaded[LibAt(image)] = Lib
    BY DEF CodeLoaded
  <1>3. \A a \in Rest(image) : ~IsPointer(image, a) => a \in Addr /\ mem[a] = image.loaded[a]
    BY DEF RestHolds, HoldsNow, IsPointer, Rest, Typed
  <1> QED
    BY <1>1, <1>2, <1>3 DEF Usable, Holds

\* What the tables and the loader were to put in memory is there in the end.
LEMMA AllBuilt ==
  ASSUME Typed(image), Complete(image), pc \in {"crt1", "init"}, RestHolds, SectionsHold
  PROVE  \A a \in DOMAIN image.want : mem[a] = image.want[a]
  <1>1. \A k : Done("relocate", k) /\ \A st \in Builders : Done(st, k)
    BY DEF Done, After, Builders
  <1>2. ASSUME NEW a, NEW v, HoldsNow(a, v), Becomes(image, a, v, image.want[a])
        PROVE  mem[a] = image.want[a]
    <2>1. CASE IsPointer(image, a)
      BY <1>1, <1>2, <2>1 DEF HoldsNow, Becomes, IsPointer
    <2>2. CASE ~IsPointer(image, a)
      BY <1>2, <2>2 DEF HoldsNow, Becomes, IsPointer
    <2> QED
      BY <2>1, <2>2
  <1>3. ASSUME NEW a \in DOMAIN image.want
        PROVE  mem[a] = image.want[a]
    <2>1. CASE a \in Rest(image) /\ Becomes(image, a, image.loaded[a], image.want[a])
      BY <1>2, <2>1 DEF RestHolds
    <2>2. CASE \E stage \in Builders : \E k \in DOMAIN Table(image, stage) :
                 a \in Section(image, stage, k) /\ Becomes(image, a, Word(image, stage, k, a), image.want[a])
      BY <1>1, <1>2, <2>2 DEF SectionsHold
    <2> QED
      BY <2>1, <2>2 DEF Complete
  <1> QED
    BY <1>3

\* crt1 is where it is called.
LEMMA Crt1Loaded ==
  ASSUME Typed(image), Placed(image), Complete(image), CodeLoaded(image), ~image.minimal,
         fix = Fix(image), pc = "crt1", RestHolds, SectionsHold
  PROVE  Holds(fix.crt1, Crt1)
  <1>1. fix.crt1 = Crt1At(image)
    BY FixCrt1
  <1>2. \A a \in DOMAIN image.want : a \in Addr /\ mem[a] = image.want[a]
    BY AllBuilt DEF Typed
  <1>3. \A a \in Rest(image) : ~IsPointer(image, a) => a \in Addr /\ mem[a] = image.loaded[a]
    BY DEF RestHolds, HoldsNow, IsPointer, Rest, Typed
  <1>4. \/ /\ Crt1At(image) \in Rest(image) /\ ~IsPointer(image, Crt1At(image))
           /\ image.loaded[Crt1At(image)] = Crt1
        \/ Crt1At(image) \in DOMAIN image.want /\ image.want[Crt1At(image)] = Crt1
    BY DEF CodeLoaded
  <1> QED
    BY <1>1, <1>2, <1>3, <1>4 DEF Holds
---------------------------------------------------------------------------
(* The SRAM fill *)

\* A byte count rounded up to words: word n is in it when its first byte is.
LEMMA WordsOfBytes ==
  ASSUME NEW bytes \in Int, NEW words, words = ((bytes - 1) \div 4) + 1
  PROVE  /\ words \in Int
         /\ \A n \in Int : n < words <=> n * 4 < bytes
  OBVIOUS

\* A turn of the fill that ends within its words stays in the SRAM.
LEMMA FillWordsInFill ==
  ASSUME Typed(image), image.boardInit, InRom(image, StartAt(image)), NEW n \in Int, NEW s \in Int,
         n >= 0, n + s <= FillWords(image)
  PROVE  Cells(image.sram + n, s) \subseteq FillCells(image)
  <1>1. PICK sram, bytes, words : sram = image.sram /\ bytes = image.ramBytes /\ words = FillWords(image)
    OBVIOUS
  <1>2. sram \in Int /\ bytes \in Int
    BY <1>1, ImageInts
  <1>3. words \in Int /\ \A m \in Int : m < words <=> m * 4 < bytes
    BY <1>1, <1>2, WordsOfBytes DEF FillWords
  <1>4. ASSUME NEW a \in Cells(sram + n, s)
        PROVE  a \in Addr /\ sram <= a /\ (a - sram) * 4 < bytes
    <2>1. a \in Int /\ sram + n <= a /\ a < sram + n + s
      BY InCells
    <2>2. a - sram < words /\ sram <= a /\ a - sram \in Int
      BY <1>1, <1>2, <1>3, <2>1
    <2>3. a \in Addr
      BY DEF Cells
    <2> QED
      BY <1>3, <2>2, <2>3
  <1> QED
    BY <1>1, <1>4 DEF FillCells

\* After a turn of eight, one more is taken only when eight words are left.
LEMMA EightsNext ==
  ASSUME NEW n \in Nat, NEW words \in Int, n % 8 = 0, n + 8 <= words
  PROVE  /\ (n + 8) % 8 = 0
         /\ (n + 8) \div 8 < words \div 8 => n + 16 <= words
  OBVIOUS

\* _start is at an address that is a number.
LEMMA StartInt ==
  ASSUME NEW img, Typed(img)
  PROVE  StartAt(img) \in Int
  BY ImageInts DEF StartAt, RomCopy, Bases

\* The machine before the first reset.
LEMMA InitTypes ==
  ASSUME Linked(image), Init
  PROVE  BootInv
  <1>1. Typed(image)
    BY DEF Linked
  <1>2. TypeOK
    <2>1. mem \in [Addr -> Int]
      BY <1>1, BootAssumption DEF Init, Typed
    <2>2. fix \in [sci : Int, lib : Int, crt1 : Int, base : [Bases -> Int]]
      BY DEF Init, NoFix
    <2>3. ran \in Seq(Int)
      BY DEF Init
    <2>4. args \in [argc : Int, argv : {"null", "given", "code", "own"}]
      BY DEF Init
    <2>5. resets \in 0..MaxResets
      BY BootAssumption DEF Init
    <2> QED
      BY <2>1, <2>2, <2>3, <2>4, <2>5 DEF Init, TypeOK, Stages
  <1> QED
    BY <1>2 DEF BootInv, Init, WhereInv, MemInv, SyncInv, TurnsInv, HandedInv, TableStages, Early

\* A reset, cold or warm, restores what was loaded and forgets the rest.
LEMMA ResetKeeps ==
  ASSUME Linked(image), BootInv, NEW warm \in BOOLEAN, NEW attached \in BOOLEAN,
         Reset(warm, attached)
  PROVE  BootInv'
  <1>1. Typed(image) /\ Placed(image)
    BY DEF Linked
  <1>2. TypeOK
    BY DEF BootInv
  <1>3. /\ image' = image /\ pc' = "start" /\ i' = 0 /\ synced' = Addr /\ debugger' = attached
        /\ inits' = {} /\ ran' = <<>> /\ fix' = NoFix /\ resets' = resets + 1 /\ resets < MaxResets
    BY DEF Reset
  <1>4. lr' = StartAt(image)
    BY <1>1, StartsAt DEF Reset, RunsAt
  <1>5. \A a \in DOMAIN image.loaded : mem'[a] = image.loaded[a]
    BY <1>1 DEF Reset, Typed
  <1>6. mem' \in [Addr -> Int]
    BY <1>1, <1>2, BootAssumption DEF Reset, TypeOK, Typed
  <1>7. args' \in [argc : Int, argv : {"null", "given", "code", "own"}]
    BY <1>1, ImageInts DEF Reset
  <1>8. fix' \in [sci : Int, lib : Int, crt1 : Int, base : [Bases -> Int]]
    BY <1>3 DEF NoFix
  <1>9. TypeOK'
    <2>1. resets' \in 0..MaxResets
      BY <1>2, <1>3, BootAssumption DEF TypeOK
    <2>2. lr' \in Int
      BY <1>1, <1>4, StartInt
    <2>3. ran' \in Seq(Int) /\ i' \in Nat
      BY <1>3
    <2> QED
      BY <1>2, <1>3, <1>6, <1>7, <1>8, <2>1, <2>2, <2>3 DEF TypeOK, Stages
  <1>10. WhereInv' /\ MemInv' /\ TurnsInv' /\ HandedInv'
    BY <1>3, <1>4, <1>5 DEF WhereInv, MemInv, TurnsInv, HandedInv, TableStages, Early
  <1>11. SyncInv'
    BY <1>1, <1>3 DEF SyncInv, TableStages, Early, Typed
  <1> QED
    BY <1>9, <1>10, <1>11 DEF BootInv

\* _start goes on to the SRAM fill or past it.
LEMMA StartCodeKeeps ==
  ASSUME Linked(image), BootInv, StartCode
  PROVE  BootInv'
  <1>1. Typed(image) /\ Placed(image)
    BY DEF Linked
  <1>2. TypeOK /\ WhereInv /\ MemInv /\ SyncInv /\ HandedInv
    BY DEF BootInv
  <1>3. /\ pc = "start" /\ image' = image /\ mem' = mem /\ synced' = synced /\ lr' = lr
        /\ debugger' = debugger /\ fix' = fix /\ inits' = inits /\ ran' = ran /\ resets' = resets
    BY DEF StartCode
  <1>4. lr = StartAt(image)
    BY <1>2, <1>3 DEF WhereInv
  <1>5. PICK words, bytes : words = FillWords(image) /\ bytes = image.ramBytes
    OBVIOUS
  <1>6. \/ pc' = "hello" /\ i' \in Nat
        \/ /\ image.boardInit /\ InRom(image, StartAt(image)) /\ bytes > 0 /\ i' = 0
           /\ \/ pc' = "fill8" /\ words \div 8 # 0
              \/ pc' = "fill"
    <2>1. bytes \in Int /\ i \in Nat
      BY <1>1, <1>2, <1>5, ImageInts DEF TypeOK
    <2>2. CASE ~image.boardInit
      BY <2>1, <2>2 DEF StartCode
    <2>3. CASE image.boardInit /\ (~InRom(image, lr) \/ bytes <= 0)
      BY <1>5, <2>3 DEF StartCode
    <2>4. CASE image.boardInit /\ InRom(image, lr) /\ ~(bytes <= 0)
      <3>1. bytes > 0
        BY <2>1, <2>4
      <3> QED
        BY <1>4, <1>5, <2>4, <3>1 DEF StartCode
    <2> QED
      BY <2>2, <2>3, <2>4
  <1>7. bytes > 0 => words \in Int /\ (words \div 8 # 0 => 8 <= words) /\ 0 * 4 < bytes
    <2>1. bytes \in Int /\ words = ((bytes - 1) \div 4) + 1
      BY <1>1, <1>5, ImageInts DEF FillWords
    <2>2. words \in Int /\ (bytes > 0 => words > 0)
      BY <2>1
    <2> QED
      BY <2>1, <2>2
  <1>8. args' \in [argc : Int, argv : {"null", "given", "code", "own"}]
    <2>1. ClobberedArgc(image, lr) \in Int
      BY <1>1, ImageInts DEF ClobberedArgc
    <2> QED
      BY <1>2, <2>1 DEF StartCode, TypeOK
  <1>9. pc' \in {"hello", "fill8", "fill"} /\ i' \in Nat
    BY <1>6
  <1>10. TypeOK'
    BY <1>2, <1>3, <1>8, <1>9 DEF TypeOK, Stages
  <1>11. WhereInv' /\ MemInv' /\ SyncInv'
    BY <1>2, <1>3, <1>4, <1>9 DEF WhereInv, MemInv, SyncInv, TableStages, Early
  <1>12. HandedInv'
    BY <1>2, <1>3, <1>9 DEF HandedInv, TableStages
  <1>13. TurnsInv'
    <2>1. pc' \in {"fill8", "fill"} => image.boardInit /\ InRom(image, StartAt(image)) /\ bytes > 0 /\ i' = 0
      BY <1>6
    <2>2. pc' = "fill8" => words \div 8 # 0
      BY <1>6
    <2>3. pc' = "fill8" => i' % 8 = 0 /\ i' + 8 <= words
      BY <1>7, <2>1, <2>2
    <2>4. pc' = "fill" => i' * 4 < bytes
      BY <1>7, <2>1
    <2>5. FillWords(image)' = FillWords(image)
      BY <1>3 DEF FillWords
    <2> QED
      BY <1>3, <1>5, <2>1, <2>3, <2>4, <2>5 DEF TurnsInv
  <1> QED
    BY <1>10, <1>11, <1>12, <1>13 DEF BootInv

\* A turn of the SRAM fill stores in no word that was loaded, nor outside the SRAM.
LEMMA FillStores ==
  ASSUME Linked(image), BootInv, NEW n \in Nat,
         Cells(image.sram + i, n) \subseteq FillCells(image),
         mem' = [a \in Addr |-> IF a \in Cells(image.sram + i, n) THEN Opcode ELSE mem[a]],
         synced' = IF image.caches THEN synced \ Cells(image.sram + i, n) ELSE synced,
         image' = image, pc \in {"fill8", "fill"}, pc' \in {"fill8", "fill", "hello"}
  PROVE  /\ mem' \in [Addr -> Int] /\ synced' \subseteq Addr
         /\ MemInv' /\ SyncInv'
  <1> DEFINE cells == Cells(image.sram + i, n)
  <1>1. /\ mem \in [Addr -> Int] /\ synced \subseteq Addr
    BY DEF BootInv, TypeOK
  <1>2. cells \subseteq FillCells(image) /\ FillCells(image) \cap DOMAIN image.loaded = {}
    BY DEF Linked, Separate
  <1> HIDE DEF cells
  <1>3. /\ mem' = [a \in Addr |-> IF a \in cells THEN Opcode ELSE mem[a]]
        /\ synced' = IF image.caches THEN synced \ cells ELSE synced
    BY DEF cells
  <1>4. mem' \in [Addr -> Int] /\ synced' \subseteq Addr
    BY <1>1, <1>3, BootAssumption
  <1>5. \A a \in DOMAIN image.loaded : mem[a] = image.loaded[a] /\ a \in Addr
    BY DEF BootInv, MemInv, Early, Linked, Typed
  <1>6. \A a \in DOMAIN image.loaded : mem'[a] = image.loaded[a]
    BY <1>2, <1>3, <1>5
  <1>7. \A a \in image.text : a \in synced \/ (image.caches /\ a \in FillCells(image))
    BY DEF BootInv, SyncInv, Early
  <1>8. \A a \in image.text : a \in synced' \/ (image.caches /\ a \in FillCells(image))
    BY <1>2, <1>3, <1>7
  <1> QED
    BY <1>4, <1>6, <1>8 DEF MemInv, SyncInv, TableStages, Early

\* A turn of eight words.
LEMMA Fill8Keeps ==
  ASSUME Linked(image), BootInv, Fill8
  PROVE  BootInv'
  <1>1. Typed(image)
    BY DEF Linked
  <1>2. TypeOK /\ WhereInv /\ HandedInv /\ TurnsInv
    BY DEF BootInv
  <1>3. /\ pc = "fill8" /\ image' = image /\ lr' = lr /\ i' = i + 8 /\ args' = args
        /\ debugger' = debugger /\ fix' = fix /\ inits' = inits /\ ran' = ran /\ resets' = resets
    BY DEF Fill8
  <1>4. PICK words, bytes, n : words = FillWords(image) /\ bytes = image.ramBytes /\ n = i
    OBVIOUS
  <1>5. n \in Nat /\ bytes \in Int /\ words = ((bytes - 1) \div 4) + 1 /\ words \in Int
    <2>1. n \in Nat /\ bytes \in Int /\ words = ((bytes - 1) \div 4) + 1
      BY <1>1, <1>2, <1>4, ImageInts DEF TypeOK, FillWords
    <2> QED
      BY <2>1
  <1>6. n % 8 = 0 /\ n + 8 <= words /\ image.boardInit /\ InRom(image, StartAt(image))
    BY <1>2, <1>3, <1>4 DEF TurnsInv
  <1>7. pc' = IF (n + 8) \div 8 < words \div 8 THEN "fill8"
              ELSE IF (n + 8) * 4 >= bytes THEN "hello" ELSE "fill"
    BY <1>4 DEF Fill8
  <1>8. pc' \in {"fill8", "fill", "hello"}
    BY <1>7
  <1>9. Cells(image.sram + i, 8) \subseteq FillCells(image)
    BY <1>1, <1>4, <1>5, <1>6, FillWordsInFill
  <1>10. /\ mem' = [a \in Addr |-> IF a \in Cells(image.sram + i, 8) THEN Opcode ELSE mem[a]]
         /\ synced' = IF image.caches THEN synced \ Cells(image.sram + i, 8) ELSE synced
    BY DEF Fill8, Store
  <1>11. /\ mem' \in [Addr -> Int] /\ synced' \subseteq Addr
         /\ MemInv' /\ SyncInv'
    BY <1>3, <1>8, <1>9, <1>10, FillStores
  <1>12. i' \in Nat
    BY <1>3, <1>4, <1>5
  <1>13. TypeOK'
    BY <1>2, <1>3, <1>8, <1>11, <1>12 DEF TypeOK, Stages
  <1>14. WhereInv' /\ HandedInv'
    BY <1>2, <1>3, <1>8 DEF WhereInv, HandedInv, TableStages
  <1>15. TurnsInv'
    <2>1. i' = n + 8
      BY <1>3, <1>4
    <2>2. pc' = "fill8" => (n + 8) \div 8 < words \div 8
      BY <1>7
    <2>3. pc' = "fill" => ~((n + 8) * 4 >= bytes)
      BY <1>7
    <2>4. (n + 8) % 8 = 0 /\ ((n + 8) \div 8 < words \div 8 => n + 16 <= words)
      BY <1>5, <1>6, EightsNext
    <2>5. pc' = "fill8" => i' % 8 = 0 /\ i' + 8 <= words
      <3>1. n + 8 + 8 = n + 16
        BY <1>5
      <3> QED
        BY <2>1, <2>2, <2>4, <3>1
    <2>6. pc' = "fill" => i' * 4 < bytes
      BY <1>5, <2>1, <2>3
    <2>7. FillWords(image)' = words
      BY <1>3, <1>4 DEF FillWords
    <2> QED
      BY <1>3, <1>4, <1>6, <2>5, <2>6, <2>7 DEF TurnsInv
  <1> QED
    BY <1>11, <1>13, <1>14, <1>15 DEF BootInv

\* A turn of one word.
LEMMA FillKeeps ==
  ASSUME Linked(image), BootInv, Fill
  PROVE  BootInv'
  <1>1. Typed(image)
    BY DEF Linked
  <1>2. TypeOK /\ WhereInv /\ HandedInv /\ TurnsInv
    BY DEF BootInv
  <1>3. /\ pc = "fill" /\ image' = image /\ lr' = lr /\ i' = i + 1 /\ args' = args
        /\ debugger' = debugger /\ fix' = fix /\ inits' = inits /\ ran' = ran /\ resets' = resets
    BY DEF Fill
  <1>4. PICK bytes, n : bytes = image.ramBytes /\ n = i
    OBVIOUS
  <1>5. n \in Nat /\ bytes \in Int
    BY <1>1, <1>2, <1>4, ImageInts DEF TypeOK
  <1>6. n * 4 < bytes /\ image.boardInit /\ InRom(image, StartAt(image))
    BY <1>2, <1>3, <1>4 DEF TurnsInv
  <1>7. pc' = IF (n + 1) * 4 < bytes THEN "fill" ELSE "hello"
    BY <1>4 DEF Fill
  <1>8. pc' \in {"fill8", "fill", "hello"} /\ pc' # "fill8"
    BY <1>7
  <1>9. Cells(image.sram + i, 1) \subseteq FillCells(image)
    <2>1. n + 1 <= FillWords(image)
      <3>1. PICK words : words = FillWords(image)
        OBVIOUS
      <3>2. words \in Int /\ (n < words <=> n * 4 < bytes)
        BY <1>4, <1>5, <3>1, WordsOfBytes DEF FillWords
      <3> QED
        BY <1>5, <1>6, <3>1, <3>2
    <2> QED
      BY <1>1, <1>4, <1>5, <1>6, <2>1, FillWordsInFill
  <1>10. /\ mem' = [a \in Addr |-> IF a \in Cells(image.sram + i, 1) THEN Opcode ELSE mem[a]]
         /\ synced' = IF image.caches THEN synced \ Cells(image.sram + i, 1) ELSE synced
    BY DEF Fill, Store
  <1>11. /\ mem' \in [Addr -> Int] /\ synced' \subseteq Addr
         /\ MemInv' /\ SyncInv'
    BY <1>3, <1>8, <1>9, <1>10, FillStores
  <1>12. i' \in Nat
    BY <1>3, <1>4, <1>5
  <1>13. TypeOK'
    BY <1>2, <1>3, <1>8, <1>11, <1>12 DEF TypeOK, Stages
  <1>14. WhereInv' /\ HandedInv'
    BY <1>2, <1>3, <1>8 DEF WhereInv, HandedInv, TableStages
  <1>15. TurnsInv'
    <2>1. i' = n + 1
      BY <1>3, <1>4
    <2>2. pc' = "fill" => i' * 4 < bytes
      BY <1>7, <2>1
    <2> QED
      BY <1>3, <1>4, <1>6, <1>8, <2>2 DEF TurnsInv
  <1> QED
    BY <1>11, <1>13, <1>14, <1>15 DEF BootInv

\* Without a debugger the argument registers are cleared.
LEMMA HelloKeeps ==
  ASSUME Linked(image), BootInv, Hello
  PROVE  BootInv'
  <1>1. TypeOK /\ WhereInv /\ HandedInv /\ MemInv /\ SyncInv
    BY DEF BootInv
  <1>2. /\ pc = "hello" /\ pc' = "adjust" /\ image' = image /\ mem' = mem /\ synced' = synced
        /\ lr' = lr /\ i' = i /\ debugger' = debugger /\ fix' = fix /\ inits' = inits /\ ran' = ran
        /\ resets' = resets /\ args' = IF debugger THEN args ELSE [argc |-> 0, argv |-> "null"]
    BY DEF Hello
  <1>3. TypeOK'
    <2>1. args' \in [argc : Int, argv : {"null", "given", "code", "own"}]
      BY <1>1, <1>2 DEF TypeOK
    <2> QED
      BY <1>1, <1>2, <2>1 DEF TypeOK, Stages
  <1>4. WhereInv' /\ MemInv' /\ SyncInv' /\ TurnsInv' /\ HandedInv'
    BY <1>1, <1>2 DEF WhereInv, MemInv, SyncInv, TurnsInv, HandedInv, TableStages, Early
  <1> QED
    BY <1>3, <1>4 DEF BootInv

\* The stages of the tables, when nothing but memory, the stage and the count change.
LEMMA TableStageKeeps ==
  ASSUME BootInv, image' = image, lr' = lr, debugger' = debugger, args' = args,
         inits' = inits, ran' = ran, resets' = resets,
         mem' \in [Addr -> Int], synced' \subseteq Addr,
         pc \in TableStages \cup {"adjust"}, pc' \in TableStages, i' \in Nat, i' >= 1, fix' = Fix(image),
         fix' \in [sci : Int, lib : Int, crt1 : Int, base : [Bases -> Int]],
         pc' \in {"copy", "decompress", "relocate", "crt1"} => ~image.minimal,
         RestHolds', SectionsHold', SomeToCome'
  PROVE  BootInv'
  <1>1. TypeOK /\ WhereInv /\ HandedInv
    BY DEF BootInv
  <1>2. TypeOK'
    <2>1. pc' \in Stages
      BY DEF TableStages, Stages
    <2> QED
      BY <1>1, <2>1 DEF TypeOK
  <1>3. WhereInv'
    BY <1>1 DEF WhereInv, Fix, TableStages, MinimalFix, FullFix
  <1>4. MemInv' /\ TurnsInv'
    BY DEF MemInv, TurnsInv, TableStages, Early
  <1>5. SyncInv'
    BY DEF SyncInv, SomeToCome, TableStages, Early
  <1>6. HandedInv'
    BY <1>1 DEF HandedInv, TableStages
  <1> QED
    BY <1>2, <1>3, <1>4, <1>5, <1>6 DEF BootInv

\* The addresses are adjusted and the first table begun.
LEMMA BeginKeeps ==
  ASSUME Linked(image), BootInv, MinimalStart \/ Adjust
  PROVE  BootInv'
  <1>1. Typed(image) /\ Flushed(image)
    BY DEF Linked
  <1>2. /\ pc = "adjust" /\ pc' = "clear" /\ i' = 1 /\ fix' = Fix(image)
        /\ image' = image /\ mem' = mem /\ synced' = synced /\ lr' = lr /\ debugger' = debugger
        /\ args' = args /\ inits' = inits /\ ran' = ran /\ resets' = resets
    BY DEF MinimalStart, Adjust, Fix
  <1>3. fix' \in [sci : Int, lib : Int, crt1 : Int, base : [Bases -> Int]]
    BY <1>1, <1>2, FixTypes
  <1>4. \A a \in DOMAIN image.loaded : mem[a] = image.loaded[a]
    BY <1>2 DEF BootInv, MemInv, Early
  <1>5. RestHolds' /\ SectionsHold'
    BY <1>1, <1>2, <1>4, BeginHolds
  <1>6. \A a \in image.text : a \in synced \/ (image.caches /\ a \in FillCells(image))
    BY <1>2 DEF BootInv, SyncInv, Early
  <1>7. SomeToCome'
    BY <1>1, <1>2, <1>6, BeginSync
  <1>8. mem' \in [Addr -> Int] /\ synced' \subseteq Addr
    BY <1>2 DEF BootInv, TypeOK
  <1>9. pc \in TableStages \cup {"adjust"} /\ pc' \in TableStages /\ i' \in Nat /\ i' >= 1
    BY <1>2 DEF TableStages
  <1> QED
    BY <1>2, <1>3, <1>5, <1>7, <1>8, <1>9, TableStageKeeps

\* An entry of the three tables that build RAM.
LEMMA EntryKeeps ==
  ASSUME Linked(image), BootInv, ClearEntry \/ CopyEntry \/ DecompressEntry
  PROVE  BootInv'
  <1>1. Typed(image) /\ Separate(image) /\ Flushed(image)
    BY DEF Linked
  <1>2. TypeOK /\ WhereInv
    BY DEF BootInv
  <1>3. /\ pc \in Builders
        /\ lr' = lr /\ debugger' = debugger /\ args' = args /\ inits' = inits /\ ran' = ran
        /\ resets' = resets
    BY DEF ClearEntry, CopyEntry, DecompressEntry, Builders
  <1>4. pc \in TableStages
    BY <1>3 DEF TableStages, Builders
  <1>5. fix = Fix(image) /\ i >= 1
    BY <1>2, <1>4 DEF WhereInv
  <1>6. RestHolds /\ SectionsHold /\ SomeToCome
    BY <1>4 DEF BootInv, MemInv, SyncInv, SomeToCome
  <1>7. PICK stage \in Builders : BuildStep(stage)
    BY <1>1, <1>2, <1>5, <1>6, ClearBuilds, CopyBuilds, DecompressBuilds DEF Builders
  <1>8. RestHolds' /\ SectionsHold'
    BY <1>1, <1>2, <1>6, <1>7, BuildKeepsMem
  <1>9. SomeToCome'
    BY <1>1, <1>2, <1>6, <1>7, BuildKeepsSync
  <1>10. /\ mem' \in [Addr -> Int] /\ synced' \subseteq Addr /\ i' = i + 1
         /\ pc' = pc /\ image' = image /\ fix' = fix
    BY <1>7 DEF BuildStep
  <1>11. i' \in Nat /\ i' >= 1
    BY <1>2, <1>10 DEF TypeOK
  <1>12. fix' \in [sci : Int, lib : Int, crt1 : Int, base : [Bases -> Int]]
    BY <1>2, <1>10 DEF TypeOK
  <1>13. /\ pc \in TableStages \cup {"adjust"} /\ pc' \in TableStages
         /\ pc' \in {"copy", "decompress", "relocate", "crt1"} => ~image.minimal
    BY <1>2, <1>4, <1>10 DEF WhereInv
  <1> QED
    BY <1>3, <1>5, <1>8, <1>9, <1>10, <1>11, <1>12, <1>13, TableStageKeeps

\* A fix-up.
LEMMA RelocateKeeps ==
  ASSUME Linked(image), BootInv, RelocateEntry
  PROVE  BootInv'
  <1>1. Typed(image) /\ Separate(image) /\ Flushed(image)
    BY DEF Linked
  <1>2. TypeOK /\ WhereInv
    BY DEF BootInv
  <1>3. /\ pc = "relocate" /\ lr' = lr /\ debugger' = debugger /\ args' = args /\ inits' = inits
        /\ ran' = ran /\ resets' = resets
    BY DEF RelocateEntry
  <1>4. pc \in TableStages
    BY <1>3 DEF TableStages
  <1>5. fix = Fix(image) /\ i >= 1
    BY <1>2, <1>4 DEF WhereInv
  <1>6. RestHolds /\ SectionsHold /\ SomeToCome
    BY <1>4 DEF BootInv, MemInv, SyncInv, SomeToCome
  <1>8. RestHolds' /\ SectionsHold'
    BY <1>1, <1>2, <1>5, <1>6, RelocateKeepsMem
  <1>9. SomeToCome'
    BY <1>1, <1>2, <1>5, <1>6, RelocateKeepsSync
  <1>10. /\ mem' \in [Addr -> Int] /\ synced' \subseteq Addr /\ i' = i + 1
         /\ pc' = pc /\ image' = image /\ fix' = fix
    BY <1>1, <1>2, <1>5, RelocateDoes
  <1>11. i' \in Nat /\ i' >= 1
    BY <1>2, <1>10 DEF TypeOK
  <1>12. fix' \in [sci : Int, lib : Int, crt1 : Int, base : [Bases -> Int]]
    BY <1>2, <1>10 DEF TypeOK
  <1>13. /\ pc \in TableStages \cup {"adjust"} /\ pc' \in TableStages
         /\ pc' \in {"copy", "decompress", "relocate", "crt1"} => ~image.minimal
    BY <1>2, <1>4, <1>10 DEF WhereInv
  <1> QED
    BY <1>3, <1>5, <1>8, <1>9, <1>10, <1>11, <1>12, <1>13, TableStageKeeps

\* A step of the tables' stages that stores nothing and counts no entry.
LEMMA QuietKeeps ==
  ASSUME Linked(image), BootInv, pc \in TableStages, pc' \in TableStages, i' \in Nat, i' >= 1,
         image' = image, mem' = mem, synced' = synced, lr' = lr, debugger' = debugger, args' = args,
         fix' = fix, inits' = inits, ran' = ran, resets' = resets,
         pc' \in {"copy", "decompress", "relocate", "crt1"} => ~image.minimal,
         \A j \in DOMAIN image.fixups : Done("relocate", j)' <=> Done("relocate", j),
         \A st \in Builders : \A k \in DOMAIN Table(image, st) : Done(st, k)' <=> Done(st, k)
  PROVE  BootInv'
  <1>2. TypeOK /\ WhereInv
    BY DEF BootInv
  <1>5. fix' = Fix(image)
    BY <1>2 DEF WhereInv
  <1>6. RestHolds /\ SectionsHold /\ SomeToCome
    BY DEF BootInv, MemInv, SyncInv, SomeToCome
  <1>8. RestHolds' /\ SectionsHold'
    BY <1>6, SameKeepsMem
  <1>9. SomeToCome'
    BY <1>6, SameKeepsSync
  <1>12. /\ fix' \in [sci : Int, lib : Int, crt1 : Int, base : [Bases -> Int]]
         /\ mem' \in [Addr -> Int] /\ synced' \subseteq Addr
    BY <1>2 DEF TypeOK
  <1>13. pc \in TableStages \cup {"adjust"}
    OBVIOUS
  <1> QED
    BY <1>5, <1>8, <1>9, <1>12, <1>13, TableStageKeeps

\* The end of a table.
LEMMA EndKeeps ==
  ASSUME Linked(image), BootInv,
         \/ TableEnd("clear", image.clear, IF image.minimal THEN "init" ELSE "copy")
         \/ TableEnd("copy", image.copy, IF Len(image.com) > 0 THEN "decompress" ELSE "relocate")
         \/ TableEnd("decompress", image.com, "relocate")
         \/ TableEnd("relocate", image.fixups, "crt1")
  PROVE  BootInv'
  <1>1. Typed(image) /\ Separate(image)
    BY DEF Linked
  <1>2. TypeOK /\ WhereInv
    BY DEF BootInv
  <1>3. /\ Table(image, "clear") = image.clear /\ Table(image, "copy") = image.copy
        /\ Table(image, "decompress") = image.com
    BY DEF Table
  <1>4. Len(image.com) \in Nat
    BY <1>1, <1>3, TablesAreSequences DEF Builders
  <1>5. PICK stage, table, next :
          /\ TableEnd(stage, table, next)
          /\ \/ stage \in Builders /\ table = Table(image, stage)
             \/ stage = "relocate" /\ table = image.fixups
          /\ \/ stage = "clear" /\ image.minimal /\ next = "init"
             \/ stage = "clear" /\ ~image.minimal /\ next = "copy"
             \/ stage = "copy" /\ next = "decompress"
             \/ stage = "copy" /\ Len(image.com) = 0 /\ next = "relocate"
             \/ stage = "decompress" /\ next = "relocate"
             \/ stage = "relocate" /\ next = "crt1"
    <2>1. CASE TableEnd("clear", image.clear, IF image.minimal THEN "init" ELSE "copy")
      <3>1. CASE image.minimal
        <4>1. TableEnd("clear", image.clear, "init")
          BY <2>1, <3>1
        <4> QED
          BY <4>1, <3>1, <1>3 DEF Builders
      <3>2. CASE ~image.minimal
        <4>1. TableEnd("clear", image.clear, "copy")
          BY <2>1, <3>2
        <4> QED
          BY <4>1, <3>2, <1>3 DEF Builders
      <3> QED
        BY <3>1, <3>2
    <2>2. CASE TableEnd("copy", image.copy, IF Len(image.com) > 0 THEN "decompress" ELSE "relocate")
      <3>1. CASE Len(image.com) > 0
        <4>1. TableEnd("copy", image.copy, "decompress")
          BY <2>2, <3>1
        <4> QED
          BY <4>1, <1>3 DEF Builders
      <3>2. CASE ~(Len(image.com) > 0)
        <4>1. TableEnd("copy", image.copy, "relocate") /\ Len(image.com) = 0
          BY <2>2, <3>2, <1>4
        <4> QED
          BY <4>1, <1>3 DEF Builders
      <3> QED
        BY <3>1, <3>2
    <2>3. CASE TableEnd("decompress", image.com, "relocate")
      BY <2>3, <1>3 DEF Builders
    <2>4. CASE TableEnd("relocate", image.fixups, "crt1")
      BY <2>4
    <2> QED
      BY <2>1, <2>2, <2>3, <2>4
  <1>6. /\ \A j \in DOMAIN image.fixups : Done("relocate", j)' <=> Done("relocate", j)
        /\ \A st \in Builders : \A k \in DOMAIN Table(image, st) : Done(st, k)' <=> Done(st, k)
    BY <1>1, <1>2, <1>5, EndCountsNone
  <1>7. /\ pc = stage /\ pc' = next /\ i' = 1 /\ image' = image /\ mem' = mem /\ synced' = synced
        /\ lr' = lr /\ debugger' = debugger /\ args' = args /\ fix' = fix /\ inits' = inits
        /\ ran' = ran /\ resets' = resets
    BY <1>5 DEF TableEnd
  <1>8. pc \in TableStages /\ pc' \in TableStages /\ i' \in Nat /\ i' >= 1
    BY <1>5, <1>7 DEF TableStages
  <1>9. pc' \in {"copy", "decompress", "relocate", "crt1"} => ~image.minimal
    BY <1>2, <1>5, <1>7 DEF WhereInv
  <1> QED
    BY <1>6, <1>7, <1>8, <1>9, QuietKeeps

\* The call of crt1.
LEMMA CallCrt1Keeps ==
  ASSUME Linked(image), BootInv, CallCrt1
  PROVE  BootInv'
  <1>1. /\ pc = "crt1" /\ pc' = "init" /\ i' = 1 /\ image' = image /\ mem' = mem /\ synced' = synced
        /\ lr' = lr /\ debugger' = debugger /\ args' = args /\ fix' = fix /\ inits' = inits
        /\ ran' = ran /\ resets' = resets
    BY DEF CallCrt1
  <1>2. /\ \A j \in DOMAIN image.fixups : Done("relocate", j)' <=> Done("relocate", j)
        /\ \A st \in Builders : \A k \in DOMAIN Table(image, st) : Done(st, k)' <=> Done(st, k)
    BY <1>1 DEF Done, After, Builders
  <1>3. pc \in TableStages /\ pc' \in TableStages /\ i' \in Nat /\ i' >= 1
    BY <1>1 DEF TableStages
  <1> QED
    BY <1>1, <1>2, <1>3, QuietKeeps

\* The library's parts.
LEMMA CallsAre ==
  /\ DOMAIN FullCalls = 1..Len(FullCalls) /\ Len(FullCalls) \in Nat
  /\ DOMAIN MinimalCalls = 1..Len(MinimalCalls) /\ Len(MinimalCalls) \in Nat
  BY DEF FullCalls, MinimalCalls

\* One of the library's parts.
LEMMA InitPartKeeps ==
  ASSUME Linked(image), BootInv, InitPart
  PROVE  BootInv'
  <1>1. /\ pc = "init" /\ pc' = pc /\ i' = i + 1 /\ image' = image /\ mem' = mem /\ synced' = synced
        /\ lr' = lr /\ debugger' = debugger /\ args' = args /\ fix' = fix /\ ran' = ran /\ resets' = resets
        /\ i <= Len(InitCalls) /\ inits' = inits \cup ({InitCalls[i]} \cap image.parts)
    BY DEF InitPart
  <1>2. TypeOK /\ WhereInv /\ MemInv /\ SyncInv /\ HandedInv
    BY DEF BootInv
  <1>3. i \in Nat /\ i >= 1
    BY <1>1, <1>2 DEF TypeOK, WhereInv, TableStages
  <1>4. InitCalls = FullCalls \/ InitCalls = MinimalCalls
    BY DEF InitCalls
  <1>5. i \in DOMAIN InitCalls
    BY <1>1, <1>3, <1>4, CallsAre
  <1>6. inits' \subseteq {FullCalls[k] : k \in DOMAIN FullCalls}
                         \cup {MinimalCalls[k] : k \in DOMAIN MinimalCalls}
    BY <1>1, <1>2, <1>4, <1>5 DEF TypeOK
  <1>7. i' \in Nat /\ i' >= 1
    BY <1>1, <1>3
  <1>8. TypeOK'
    BY <1>1, <1>2, <1>6, <1>7 DEF TypeOK
  <1>9. /\ \A j : Done("relocate", j)' <=> Done("relocate", j)
        /\ \A k : \A st \in Builders : Done(st, k)' <=> Done(st, k)
    BY <1>1 DEF Done, After, Builders
  <1>10. RestHolds' /\ SectionsHold'
    BY <1>1, <1>2, <1>9, SameKeepsMem DEF MemInv, TableStages
  <1>11. SomeToCome'
    BY <1>1, <1>2, <1>9, SameKeepsSync DEF SyncInv, SomeToCome, TableStages
  <1>12. WhereInv'
    BY <1>1, <1>2, <1>7 DEF WhereInv, TableStages
  <1>13. MemInv' /\ TurnsInv' /\ HandedInv'
    BY <1>1, <1>2, <1>10 DEF MemInv, TurnsInv, HandedInv, TableStages, Early
  <1>14. SyncInv'
    BY <1>1, <1>11 DEF SyncInv, SomeToCome, TableStages, Early
  <1> QED
    BY <1>8, <1>12, <1>13, <1>14 DEF BootInv

\* The flag of the constructors is clear when main() is called: it was zeroed.
LEMMA CallMainKeeps ==
  ASSUME Linked(image), BootInv, CallMain
  PROVE  BootInv' /\ pc' = "ctors" /\ mem' = [a \in Addr |-> IF a \in Cells(Been(image), 1) THEN 1 ELSE mem[a]]
  <1>1. /\ pc = "init" /\ image' = image /\ lr' = lr /\ debugger' = debugger /\ fix' = fix
        /\ inits' = inits /\ ran' = ran /\ resets' = resets /\ args' = DefaultArgs
    BY DEF CallMain
  <1>2. TypeOK /\ WhereInv /\ MemInv /\ SyncInv /\ HandedInv
    BY DEF BootInv
  <1>3. Typed(image) /\ Complete(image) /\ CodeLoaded(image)
    BY DEF Linked
  <1>4. RestHolds /\ SectionsHold /\ SomeToCome /\ fix = Fix(image)
    BY <1>1, <1>2 DEF MemInv, SyncInv, SomeToCome, WhereInv, TableStages
  <1>5. PICK been : been = Been(image)
    OBVIOUS
  <1>6. image.beenHere + fix.base["PID"] = been
    BY <1>3, <1>4, <1>5, TargetsRight DEF Been
  <1>7. been \in DOMAIN image.want /\ image.want[been] = 0 /\ been \notin image.text
    BY <1>3, <1>5 DEF CodeLoaded
  <1>8. mem[been] = 0
    BY <1>1, <1>3, <1>4, <1>7, AllBuilt
  <1>9. /\ mem' = [a \in Addr |-> IF a \in Cells(been, 1) THEN 1 ELSE mem[a]]
        /\ synced' = IF image.caches THEN synced \ Cells(been, 1) ELSE synced
        /\ pc' = "ctors" /\ i' = 1
    BY <1>6, <1>8 DEF CallMain, Store
  <1>10. been \in Int /\ \A a \in Cells(been, 1) : a = been
    <2>1. been \in Addr
      BY <1>3, <1>7, Zenon DEF Typed
    <2>2. ASSUME NEW a \in Cells(been, 1)
          PROVE  a = been
      <3>1. been \in Int
        BY <2>1, BootAssumption
      <3> QED
        BY <3>1, InCells
    <2> QED
      BY <2>1, <2>2, BootAssumption
  <1>11. image.text \subseteq synced
    BY <1>1, <1>4, AllSynced
  <1>12. image.text \subseteq synced'
    BY <1>7, <1>9, <1>10, <1>11
  <1>13. args' \in [argc : Int, argv : {"null", "given", "code", "own"}]
    <2>1. args \in [argc : Int, argv : {"null", "given", "code", "own"}]
      BY <1>2 DEF TypeOK
    <2> QED
      BY <1>1, <2>1 DEF DefaultArgs
  <1>14. TypeOK'
    <2>1. mem' \in [Addr -> Int] /\ synced' \subseteq Addr
      BY <1>2, <1>9 DEF TypeOK
    <2> QED
      BY <1>1, <1>2, <1>9, <1>13, <2>1 DEF TypeOK, Stages
  <1>15. WhereInv' /\ MemInv' /\ TurnsInv'
    BY <1>1, <1>2, <1>9 DEF WhereInv, MemInv, TurnsInv, TableStages, Early
  <1>16. SyncInv'
    BY <1>1, <1>9, <1>12 DEF SyncInv, TableStages, Early
  <1>17. HandedInv'
    <2>1. ran' = <<>> /\ Len(ran') = 0
      BY <1>1, <1>2 DEF HandedInv
    <2>2. Len(image.ctors) \in Nat
      BY <1>3, TablesAreSequences DEF Builders
    <2>3. ~debugger => args = [argc |-> 0, argv |-> "null"]
      BY <1>1, <1>2 DEF HandedInv, TableStages
    <2>4. ~debugger => args' = [argc |-> 1, argv |-> "own"]
      BY <1>1, <2>3 DEF DefaultArgs
    <2>5. i' - 1 = 0 /\ 1..(i' - 1) = {}
      BY <1>9
    <2> QED
      BY <1>1, <1>9, <2>1, <2>2, <2>4, <2>5 DEF HandedInv, TableStages
  <1> QED
    BY <1>5, <1>9, <1>14, <1>15, <1>16, <1>17 DEF BootInv

\* One constructor.
LEMMA ConstructKeeps ==
  ASSUME Linked(image), BootInv, Construct
  PROVE  BootInv'
  <1>1. /\ pc = "ctors" /\ pc' = pc /\ i' = i + 1 /\ image' = image /\ mem' = mem /\ synced' = synced
        /\ lr' = lr /\ debugger' = debugger /\ args' = args /\ fix' = fix /\ inits' = inits
        /\ resets' = resets /\ i <= Len(image.ctors) /\ ran' = Append(ran, image.ctors[i])
    BY DEF Construct
  <1>2. TypeOK /\ WhereInv /\ MemInv /\ SyncInv /\ HandedInv
    BY DEF BootInv
  <1>3. PICK n, ctors, r : n = i /\ ctors = image.ctors /\ r = ran
    OBVIOUS
  <1>4. n \in Nat /\ r \in Seq(Int) /\ Len(r) = n - 1 /\ \A k \in 1..(n - 1) : r[k] = ctors[k]
    BY <1>1, <1>2, <1>3 DEF TypeOK, HandedInv
  <1>5. ctors \in Seq(Int) /\ Len(ctors) \in Nat /\ n <= Len(ctors)
    BY <1>1, <1>3 DEF Linked, Typed
  <1>6. n >= 1
    BY <1>4
  <1>7. ctors[n] \in Int
    BY <1>4, <1>5, <1>6
  <1>8. ran' = Append(r, ctors[n]) /\ i' = n + 1
    BY <1>1, <1>3
  <1>9. ran' \in Seq(Int) /\ Len(ran') = n /\ \A k \in 1..n : ran'[k] = ctors[k]
    BY <1>4, <1>6, <1>7, <1>8
  <1>10. i' \in Nat /\ i' - 1 = n
    BY <1>4, <1>8
  <1>11. TypeOK'
    BY <1>1, <1>2, <1>9, <1>10 DEF TypeOK
  <1>12. WhereInv' /\ MemInv' /\ SyncInv' /\ TurnsInv'
    BY <1>1, <1>2 DEF WhereInv, MemInv, SyncInv, TurnsInv, TableStages, Early
  <1>13. HandedInv'
    BY <1>1, <1>2, <1>3, <1>5, <1>9, <1>10 DEF HandedInv, TableStages
  <1> QED
    BY <1>11, <1>12, <1>13 DEF BootInv

\* After the last constructor, main() goes on.
LEMMA EnterMainKeeps ==
  ASSUME Linked(image), BootInv, EnterMain
  PROVE  BootInv'
  <1>1. /\ pc = "ctors" /\ pc' = "main" /\ i' = i /\ image' = image /\ mem' = mem /\ synced' = synced
        /\ lr' = lr /\ debugger' = debugger /\ args' = args /\ fix' = fix /\ inits' = inits
        /\ resets' = resets /\ i > Len(image.ctors) /\ ran' = ran
    BY DEF EnterMain
  <1>2. TypeOK /\ WhereInv /\ MemInv /\ SyncInv /\ HandedInv
    BY DEF BootInv
  <1>3. PICK n, ctors, r : n = i /\ ctors = image.ctors /\ r = ran
    OBVIOUS
  <1>4. n \in Nat /\ r \in Seq(Int) /\ Len(r) = n - 1 /\ n - 1 <= Len(ctors) /\ \A k \in 1..(n - 1) : r[k] = ctors[k]
    BY <1>1, <1>2, <1>3 DEF TypeOK, HandedInv
  <1>5. ctors \in Seq(Int) /\ Len(ctors) \in Nat /\ n > Len(ctors)
    BY <1>1, <1>3 DEF Linked, Typed
  <1>6. Len(r) = Len(ctors) /\ \A k \in 1..Len(r) : r[k] = ctors[k]
    BY <1>4, <1>5
  <1>7. r = ctors
    BY <1>4, <1>5, <1>6
  <1>8. TypeOK'
    BY <1>1, <1>2 DEF TypeOK, Stages
  <1>9. WhereInv' /\ MemInv' /\ SyncInv' /\ TurnsInv'
    BY <1>1, <1>2 DEF WhereInv, MemInv, SyncInv, TurnsInv, TableStages, Early
  <1>10. HandedInv'
    BY <1>1, <1>2, <1>3, <1>7 DEF HandedInv, TableStages
  <1> QED
    BY <1>8, <1>9, <1>10 DEF BootInv

\* main() leaves its text alone.
LEMMA RunKeeps ==
  ASSUME Linked(image), BootInv, Run
  PROVE  BootInv'
  <1>1. /\ pc = "main" /\ pc' = pc /\ i' = i /\ image' = image
        /\ lr' = lr /\ debugger' = debugger /\ args' = args /\ fix' = fix /\ inits' = inits
        /\ resets' = resets /\ ran' = ran
    BY DEF Run
  <1>2. TypeOK /\ WhereInv /\ HandedInv /\ SyncInv
    BY DEF BootInv
  <1>3. PICK cells : cells = DOMAIN image.want \ image.text
    OBVIOUS
  <1>4. /\ mem' = [a \in Addr |-> IF a \in cells THEN Used ELSE mem[a]]
        /\ synced' = IF image.caches THEN synced \ cells ELSE synced
    BY <1>3 DEF Run, Store
  <1>5. mem \in [Addr -> Int] /\ synced \subseteq Addr /\ image.text \subseteq synced
    BY <1>1, <1>2 DEF TypeOK, SyncInv
  <1>6. mem' \in [Addr -> Int] /\ synced' \subseteq Addr /\ image.text \subseteq synced'
    BY <1>3, <1>4, <1>5, BootAssumption
  <1>7. TypeOK'
    BY <1>1, <1>2, <1>6 DEF TypeOK
  <1>8. WhereInv' /\ MemInv' /\ TurnsInv'
    BY <1>1, <1>2 DEF WhereInv, MemInv, TurnsInv, TableStages, Early
  <1>9. SyncInv' /\ HandedInv'
    BY <1>1, <1>2, <1>6 DEF SyncInv, HandedInv, TableStages, Early
  <1> QED
    BY <1>7, <1>8, <1>9 DEF BootInv

\* The board's code fills the SRAM.
Filled == image.boardInit /\ InRom(image, StartAt(image))

\* No word outside the SRAM is the fill's.
NoOther == Filled => \A a \in Addr : mem[a] = Opcode => a \in FillCells(image)

\* The board is filled only when started from ROM, and then nothing is shifted.
LEMMA FilledFromRom ==
  ASSUME Typed(image), Filled
  PROVE  FromRom(image) /\ \A b : Shift(image, b) = 0
  <1>1. FromRom(image)
    BY ImageInts, StartInt DEF Filled, InRom, FromRom
  <1> QED
    BY <1>1 DEF Shift

\* A step that leaves the fill's stages to memory that was not stored by it.
LEMMA ElsewhereFill ==
  ASSUME image' = image, NoOther', pc' \notin {"fill8", "fill", "hello"}
  PROVE  FillInv'
  BY DEF FillInv, NoOther, Filled

\* A step that stores the fill's word only where the fill does.
LEMMA StoredFill ==
  ASSUME image' = image, NoOther,
         \A a \in Addr : mem'[a] = mem[a] \/ mem'[a] # Opcode \/ a \in FillCells(image)
  PROVE  NoOther'
  BY DEF NoOther, Filled, FillCells, StartAt, FromRom, RomCopy, InRam, InRom

\* No entry of a table builds the fill's word: it copies loaded words only.
LEMMA EntryFill ==
  ASSUME Linked(image), BootInv, OpcodeIsUnused(image), NoOther,
         ClearEntry \/ CopyEntry \/ DecompressEntry
  PROVE  NoOther'
  <1>1. Typed(image) /\ Separate(image)
    BY DEF Linked
  <1>2. TypeOK /\ WhereInv
    BY DEF BootInv
  <1>3. pc \in Builders /\ pc \in TableStages
    BY DEF ClearEntry, CopyEntry, DecompressEntry, Builders, TableStages
  <1>4. fix = Fix(image) /\ i >= 1 /\ RestHolds
    BY <1>2, <1>3 DEF WhereInv, BootInv, MemInv
  <1>5. PICK stage \in Builders : BuildStep(stage)
    BY <1>1, <1>2, <1>4, ClearBuilds, CopyBuilds, DecompressBuilds DEF Builders
  <1>6. /\ image' = image /\ i \in DOMAIN Table(image, stage)
        /\ \A a \in Section(image, stage, i) : mem'[a] = Word(image, stage, i, a)
        /\ \A a \in Addr : a \notin Section(image, stage, i) => mem'[a] = mem[a]
    BY <1>5 DEF BuildStep
  <1>7. ASSUME NEW a \in Section(image, stage, i)
        PROVE  Word(image, stage, i, a) # Opcode
    <2>1. CASE stage = "clear"
      BY <1>6, <2>1 DEF Word, Table, OpcodeIsUnused
    <2>2. CASE stage = "copy"
      <3>1. i \in DOMAIN image.copy
        BY <1>6, <2>2 DEF Table
      <3>2. Source(image, i, a) \in Rest(image)
        BY <1>1, <2>2, <3>1, Zenon DEF Separate
      <3> QED
        BY <2>2, <3>2 DEF Word, Rest, OpcodeIsUnused
    <2>3. CASE stage = "decompress"
      <3>1. i \in DOMAIN image.com
        BY <1>6, <2>3 DEF Table
      <3>2. PICK t, words : t = Target(image, stage, i) /\ words = image.com[i].plain
        OBVIOUS
      <3>3. t \in Int /\ words \in Seq(Int)
        BY <1>1, <1>6, <3>1, <3>2, TargetIsInt, ComTypes
      <3>4. a \in Cells(t, Len(words))
        BY <2>3, <3>2 DEF Section, Size
      <3>5. a \in Int /\ t <= a /\ a < t + Len(words)
        BY <3>4, InCells
      <3>6. a - t + 1 \in DOMAIN words
        BY <3>3, <3>5
      <3> QED
        BY <2>3, <3>1, <3>2, <3>6 DEF Word, OpcodeIsUnused
    <2> QED
      BY <2>1, <2>2, <2>3 DEF Builders
  <1>8. \A a \in Addr : mem'[a] = mem[a] \/ mem'[a] # Opcode \/ a \in FillCells(image)
    BY <1>6, <1>7
  <1> QED
    BY <1>6, <1>8, StoredFill

\* No fix-up makes one: from ROM they change nothing.
LEMMA RelocateFill ==
  ASSUME Linked(image), BootInv, NoOther, RelocateEntry
  PROVE  NoOther'
  <1>1. Typed(image)
    BY DEF Linked
  <1>2. TypeOK /\ WhereInv /\ pc \in TableStages
    BY DEF BootInv, RelocateEntry, TableStages
  <1>3. fix = Fix(image) /\ i >= 1
    BY <1>2 DEF WhereInv
  <1>4. /\ i \in DOMAIN image.fixups /\ image' = image
        /\ \A a \in Addr : a # PointerAt(image, i) => mem'[a] = mem[a]
        /\ \A a \in Addr : a = PointerAt(image, i) => mem'[a] = Shifted(image, image.fixups[i], mem[a])
    BY <1>1, <1>2, <1>3, RelocateDoes
  <1>5. CASE Filled
    <2>1. \A f : Shift(image, f.obj) = 0
      BY <1>1, <1>5, FilledFromRom
    <2>2. \A f : \A v \in Int : Shifted(image, f, v) = v
      BY <2>1 DEF Shifted
    <2>3. \A a \in Addr : mem[a] \in Int
      BY <1>2 DEF TypeOK
    <2>4. \A a \in Addr : mem'[a] = mem[a]
      BY <1>4, <2>2, <2>3
    <2> QED
      BY <1>4, <2>4, StoredFill
  <1>6. CASE ~Filled
    BY <1>4, <1>6 DEF NoOther, Filled, StartAt, FromRom, RomCopy, InRam, InRom
  <1> QED
    BY <1>5, <1>6

\* A turn of the fill extends the part that is filled; the last one completes it.
LEMMA FillTurnFill ==
  ASSUME Linked(image), BootInv, OpcodeIsUnused(image), NoOther, NEW n \in Nat,
         \A a \in FillCells(image) : a < image.sram + i => mem[a] = Opcode,
         Cells(image.sram + i, n) \subseteq FillCells(image),
         mem' = [a \in Addr |-> IF a \in Cells(image.sram + i, n) THEN Opcode ELSE mem[a]],
         image' = image, i' = i + n, pc' \in {"fill8", "fill", "hello"},
         pc' = "hello" => i' * 4 >= image.ramBytes
  PROVE  FillInv'
  <1>1. Typed(image)
    BY DEF Linked
  <1>2. PICK sram, bytes, m : sram = image.sram /\ bytes = image.ramBytes /\ m = i
    OBVIOUS
  <1>3. sram \in Int /\ bytes \in Int /\ m \in Nat
    BY <1>1, <1>2, ImageInts DEF BootInv, TypeOK
  <1>4. \A a \in FillCells(image) : a \in Addr /\ a \in Int /\ sram <= a /\ (a - sram) * 4 < bytes
    BY <1>2, BootAssumption DEF FillCells
  <1>5. ASSUME NEW a \in FillCells(image), a < sram + (m + n)
        PROVE  mem'[a] = Opcode
    <2>1. CASE a < sram + m
      BY <1>2, <1>4, <2>1
    <2>2. CASE ~(a < sram + m)
      <3>1. sram + m <= a /\ a < sram + m + n
        BY <1>3, <1>4, <1>5, <2>2
      <3>2. a \in Cells(sram + m, n)
        BY <1>4, <3>1 DEF Cells
      <3> QED
        BY <1>2, <1>4, <3>2
    <2> QED
      BY <2>1, <2>2
  <1>6. ASSUME NEW a \in FillCells(image), pc' = "hello"
        PROVE  a < sram + (m + n)
    BY <1>2, <1>3, <1>4, <1>6
  <1>7. NoOther'
    <2>1. \A a \in Addr : mem'[a] = mem[a] \/ mem'[a] # Opcode \/ a \in FillCells(image)
      OBVIOUS
    <2> QED
      BY <2>1, StoredFill
  <1>8. FillCells(image)' = FillCells(image)
    BY DEF FillCells, StartAt, FromRom, RomCopy, InRam, InRom
  <1>9. image'.sram + i' = sram + (m + n)
    BY <1>2
  <1>10. /\ pc' \in {"fill8", "fill"} => \A a \in FillCells(image) : a < sram + (m + n) => mem'[a] = Opcode
         /\ pc' = "hello" => \A a \in FillCells(image) : mem'[a] = Opcode
    BY <1>5, <1>6
  <1> QED
    BY <1>7, <1>8, <1>9, <1>10 DEF FillInv, NoOther, Filled

\* Where _start passes the fill by there is nothing to fill.
LEMMA StartFill ==
  ASSUME Linked(image), BootInv, FillInv, OpcodeIsUnused(image), StartCode
  PROVE  FillInv'
  <1>1. Typed(image)
    BY DEF Linked
  <1>2. /\ pc = "start" /\ image' = image /\ mem' = mem /\ pc' \in {"hello", "fill8", "fill"}
        /\ pc' \in {"fill8", "fill"} => i' = 0
        /\ pc' = "hello" => ~image.boardInit \/ ~InRom(image, lr) \/ image.ramBytes <= 0
    BY DEF StartCode
  <1>3. lr = StartAt(image)
    BY <1>2 DEF BootInv, WhereInv
  <1>4. PICK sram, bytes : sram = image.sram /\ bytes = image.ramBytes
    OBVIOUS
  <1>5. sram \in Int /\ bytes \in Int
    BY <1>1, <1>4, ImageInts
  <1>6. \A a \in FillCells(image) : a \in Int /\ sram <= a /\ (a - sram) * 4 < bytes
    BY <1>4, BootAssumption DEF FillCells
  <1>7. pc' = "hello" => FillCells(image) = {}
    <2>1. bytes <= 0 => FillCells(image) = {}
      BY <1>5, <1>6
    <2> QED
      BY <1>2, <1>3, <1>4, <2>1 DEF FillCells
  <1>8. pc' \in {"fill8", "fill"} => \A a \in FillCells(image) : ~(a < sram + i')
    BY <1>2, <1>5, <1>6
  <1>9. FillCells(image)' = FillCells(image)
    BY <1>2 DEF FillCells, StartAt, FromRom, RomCopy, InRam, InRom
  <1>10. NoOther'
    BY <1>2, StoredFill DEF FillInv, NoOther, Filled
  <1> QED
    BY <1>2, <1>4, <1>7, <1>8, <1>9, <1>10 DEF FillInv, NoOther, Filled

\* Every step keeps FillInv.
LEMMA FillKept ==
  ASSUME Linked(image), BootInv, BootInv', FillInv, [Next]_vars
  PROVE  FillInv'
  <1>1. Typed(image) /\ TypeOK
    BY DEF Linked, BootInv
  <1>2. image' = image
    BY DEF Next, Reset, Step, StartCode, Fill8, Fill, Hello, MinimalStart, Adjust, Tables, ClearEntry,
           CopyEntry, DecompressEntry, RelocateEntry, TableEnd, CallCrt1, InitPart, CallMain, Construct,
           EnterMain, Run, vars
  <1>3. SUFFICES ASSUME OpcodeIsUnused(image) PROVE FillInv'
    BY <1>2 DEF FillInv
  <1>4. NoOther
    BY <1>3 DEF FillInv, NoOther, Filled
  <1>5. ASSUME mem' = mem, pc' \notin {"fill8", "fill", "hello"}
        PROVE  FillInv'
    BY <1>2, <1>4, <1>5, StoredFill, ElsewhereFill
  <1>6. CASE UNCHANGED vars
    BY <1>6 DEF vars, FillInv
  <1>7. ASSUME NEW warm \in BOOLEAN, NEW attached \in BOOLEAN, Reset(warm, attached)
        PROVE  FillInv'
    <2>1. \A a \in Addr : mem'[a] = mem[a] \/ mem'[a] # Opcode \/ a \in FillCells(image)
      BY <1>3, <1>7 DEF Reset, OpcodeIsUnused
    <2>2. pc' \notin {"fill8", "fill", "hello"}
      BY <1>7 DEF Reset
    <2> QED
      BY <1>2, <1>4, <2>1, <2>2, StoredFill, ElsewhereFill
  <1>8. CASE StartCode
    BY <1>3, <1>8, StartFill
  <1>9. CASE Fill8
    <2>1. pc = "fill8" /\ i' = i + 8 /\ pc' \in {"fill8", "fill", "hello"}
      BY <1>9 DEF Fill8
    <2>2. mem' = [a \in Addr |-> IF a \in Cells(image.sram + i, 8) THEN Opcode ELSE mem[a]]
      BY <1>9 DEF Fill8, Store
    <2>3. image.boardInit /\ InRom(image, StartAt(image)) /\ i + 8 <= FillWords(image)
      BY <2>1 DEF BootInv, TurnsInv
    <2>4. Cells(image.sram + i, 8) \subseteq FillCells(image)
      <3>1. PICK n : n = i
        OBVIOUS
      <3>2. n \in Int /\ n >= 0
        BY <1>1, <3>1 DEF TypeOK
      <3> QED
        BY <1>1, <2>3, <3>1, <3>2, FillWordsInFill
    <2>5. pc' = "hello" => i' * 4 >= image.ramBytes
      BY <1>9 DEF Fill8
    <2>6. \A a \in FillCells(image) : a < image.sram + i => mem[a] = Opcode
      BY <1>3, <2>1 DEF FillInv
    <2> QED
      BY <1>2, <1>3, <1>4, <2>1, <2>2, <2>4, <2>5, <2>6, FillTurnFill
  <1>10. CASE Fill
    <2>1. pc = "fill" /\ i' = i + 1 /\ pc' \in {"fill8", "fill", "hello"}
      BY <1>10 DEF Fill
    <2>2. mem' = [a \in Addr |-> IF a \in Cells(image.sram + i, 1) THEN Opcode ELSE mem[a]]
      BY <1>10 DEF Fill, Store
    <2>3. image.boardInit /\ InRom(image, StartAt(image)) /\ i * 4 < image.ramBytes
      BY <2>1 DEF BootInv, TurnsInv
    <2>4. Cells(image.sram + i, 1) \subseteq FillCells(image)
      <3>1. PICK n, words, bytes : n = i /\ words = FillWords(image) /\ bytes = image.ramBytes
        OBVIOUS
      <3>2. n \in Nat /\ bytes \in Int
        BY <1>1, <3>1, ImageInts DEF TypeOK
      <3>3. words \in Int /\ (n < words <=> n * 4 < bytes)
        BY <3>1, <3>2, WordsOfBytes DEF FillWords
      <3>4. n + 1 <= words /\ n \in Int /\ n >= 0
        BY <2>3, <3>1, <3>2, <3>3
      <3> QED
        BY <1>1, <2>3, <3>1, <3>4, FillWordsInFill
    <2>5. pc' = "hello" => i' * 4 >= image.ramBytes
      <3>1. PICK n, bytes : n = i /\ bytes = image.ramBytes
        OBVIOUS
      <3>2. n \in Nat /\ bytes \in Int
        BY <1>1, <3>1, ImageInts DEF TypeOK
      <3>3. pc' = "hello" => ~((n + 1) * 4 < bytes)
        BY <1>10, <3>1 DEF Fill
      <3> QED
        BY <2>1, <3>1, <3>2, <3>3
    <2>6. \A a \in FillCells(image) : a < image.sram + i => mem[a] = Opcode
      BY <1>3, <2>1 DEF FillInv
    <2> QED
      BY <1>2, <1>3, <1>4, <2>1, <2>2, <2>4, <2>5, <2>6, FillTurnFill
  <1>11. CASE Hello \/ MinimalStart \/ Adjust \/ CallCrt1 \/ InitPart \/ Construct \/ EnterMain
    <2>1. mem' = mem /\ pc' \notin {"fill8", "fill", "hello"}
      BY <1>11 DEF Hello, MinimalStart, Adjust, CallCrt1, InitPart, Construct, EnterMain
    <2> QED
      BY <1>5, <2>1
  <1>12. CASE ClearEntry \/ CopyEntry \/ DecompressEntry
    <2>1. pc' \notin {"fill8", "fill", "hello"}
      BY <1>12 DEF ClearEntry, CopyEntry, DecompressEntry
    <2> QED
      BY <1>2, <1>3, <1>4, <1>12, <2>1, EntryFill, ElsewhereFill
  <1>13. CASE RelocateEntry
    <2>1. pc' \notin {"fill8", "fill", "hello"}
      BY <1>13 DEF RelocateEntry
    <2> QED
      BY <1>2, <1>4, <1>13, <2>1, RelocateFill, ElsewhereFill
  <1>14. CASE \/ TableEnd("clear", image.clear, IF image.minimal THEN "init" ELSE "copy")
              \/ TableEnd("copy", image.copy, IF Len(image.com) > 0 THEN "decompress" ELSE "relocate")
              \/ TableEnd("decompress", image.com, "relocate")
              \/ TableEnd("relocate", image.fixups, "crt1")
    <2>1. mem' = mem /\ pc' \notin {"fill8", "fill", "hello"}
      BY <1>14 DEF TableEnd
    <2> QED
      BY <1>5, <2>1
  <1>15. CASE CallMain
    <2>1. pc' = "ctors" /\ mem' = [a \in Addr |-> IF a \in Cells(Been(image), 1) THEN 1 ELSE mem[a]]
      BY <1>15, CallMainKeeps
    <2>2. \A a \in Addr : mem'[a] = mem[a] \/ mem'[a] # Opcode \/ a \in FillCells(image)
      BY <1>3, <2>1 DEF OpcodeIsUnused
    <2> QED
      BY <1>2, <1>4, <2>1, <2>2, StoredFill, ElsewhereFill
  <1>16. CASE Run
    <2>1. pc' \notin {"fill8", "fill", "hello"}
      BY <1>16 DEF Run
    <2>2. \A a \in Addr : mem'[a] = mem[a] \/ mem'[a] # Opcode \/ a \in FillCells(image)
      BY <1>3, <1>16 DEF Run, Store, OpcodeIsUnused
    <2> QED
      BY <1>2, <1>4, <2>1, <2>2, StoredFill, ElsewhereFill
  <1> QED
    BY <1>6, <1>7, <1>8, <1>9, <1>10, <1>11, <1>12, <1>13, <1>14, <1>15, <1>16 DEF Next, Step, Tables
---------------------------------------------------------------------------
\* Every step keeps BootInv.
LEMMA BootKept ==
  ASSUME Linked(image), BootInv, [Next]_vars
  PROVE  BootInv'
  <1>1. CASE UNCHANGED vars
    <2>1. TypeOK'
      BY <1>1 DEF BootInv, vars, TypeOK
    <2>2. WhereInv' /\ TurnsInv'
      BY <1>1 DEF BootInv, vars, WhereInv, TurnsInv
    <2>3. HandedInv'
      BY <1>1 DEF BootInv, vars, HandedInv
    <2>4. MemInv'
      BY <1>1 DEF BootInv, vars, MemInv, RestHolds, SectionsHold, HoldsNow, Done
    <2>5. SyncInv'
      BY <1>1 DEF BootInv, vars, SyncInv, ToCome, Done
    <2> QED
      BY <2>1, <2>2, <2>3, <2>4, <2>5 DEF BootInv
  <1>2. ASSUME NEW warm \in BOOLEAN, NEW attached \in BOOLEAN, Reset(warm, attached)
        PROVE  BootInv'
    BY <1>2, ResetKeeps
  <1>3. CASE StartCode \/ Fill8 \/ Fill \/ Hello \/ MinimalStart \/ Adjust
    BY <1>3, StartCodeKeeps, Fill8Keeps, FillKeeps, HelloKeeps, BeginKeeps
  <1>4. CASE Tables
    BY <1>4, EntryKeeps, RelocateKeeps, EndKeeps DEF Tables
  <1>5. CASE CallCrt1 \/ InitPart \/ CallMain \/ Construct \/ EnterMain \/ Run
    BY <1>5, CallCrt1Keeps, InitPartKeeps, CallMainKeeps, ConstructKeeps, EnterMainKeeps, RunKeeps
  <1> QED
    BY <1>1, <1>2, <1>3, <1>4, <1>5 DEF Next, Step

\* What the theorems suppose of the images.
ImagesLinked == \A img \in Images : Linked(img)

\* The invariant holds of every behaviour, whatever the images, when each is Linked.
LEMMA BootInvariant ==
  ASSUME ImagesLinked
  PROVE  Spec => [](Linked(image) /\ BootInv /\ FillInv)
  <1> DEFINE Inv == Linked(image) /\ BootInv /\ FillInv
  <1>1. Init => Inv
    <2>1. SUFFICES ASSUME Init PROVE Inv
      OBVIOUS
    <2>2. Linked(image)
      BY <2>1 DEF Init, ImagesLinked
    <2>3. BootInv
      BY <2>1, <2>2, InitTypes
    <2>4. FillInv
      BY <2>1 DEF Init, FillInv, OpcodeIsUnused
    <2> QED
      BY <2>2, <2>3, <2>4
  <1>2. Inv /\ [Next]_vars => Inv'
    <2>1. SUFFICES ASSUME Inv, [Next]_vars PROVE Inv'
      OBVIOUS
    <2>2. BootInv'
      BY <2>1, BootKept
    <2>3. FillInv'
      BY <2>1, <2>2, FillKept
    <2>4. Linked(image)'
      BY <2>2 DEF BootInv, TypeOK, ImagesLinked
    <2> QED
      BY <2>2, <2>3, <2>4
  <1> QED
    BY <1>1, <1>2, PTL DEF Spec

\* The variables of the start-up keep their types: no step of crt0 computes an
\* address or a word that is none.
THEOREM BootTypes ==
  ASSUME ImagesLinked
  PROVE  Spec => []TypeOK
  <1>1. BootInv => TypeOK
    BY DEF BootInv
  <1> QED
    BY <1>1, BootInvariant, PTL

\* ind_crt0.c:781, the call of crt1: every word of the program is what was loaded,
\* cleared, copied or decompressed there, with each pointer relocated once,
\* whatever RAM held at the reset and at whatever step the boot before was cut off.
THEOREM BootInitialised ==
  ASSUME ImagesLinked
  PROVE  Spec => []Initialised
  <1>1. Linked(image) /\ BootInv => Initialised
    BY AllBuilt DEF Linked, BootInv, MemInv, TableStages, Initialised
  <1> QED
    BY <1>1, BootInvariant, PTL

\* ind_crt0.c:408-453: _start, the tables, the library functions and crt1 are at the
\* addresses the code works out for them whenever they are used, and with caches
\* the instruction fetch sees all text from the call of crt1 on.
THEOREM BootCodeInPlace ==
  ASSUME ImagesLinked
  PROVE  Spec => []CodeInPlace
  <1>1. Linked(image) /\ BootInv => CodeInPlace
    <2>1. SUFFICES ASSUME Linked(image), BootInv PROVE CodeInPlace
      OBVIOUS
    <2>2. /\ Typed(image) /\ Placed(image) /\ Complete(image) /\ CodeLoaded(image)
          /\ WhereInv /\ MemInv /\ SyncInv
      BY <2>1 DEF Linked, BootInv
    <2>3. pc = "start" => Holds(lr, Start)
      BY <2>2 DEF WhereInv, MemInv, Early, CodeLoaded, Typed, Holds
    <2>4. pc \in {"clear", "copy", "decompress", "relocate"} => Usable
      BY <2>2, CodeUsable DEF WhereInv, MemInv, TableStages
    <2>5. pc = "crt1" => Holds(fix.crt1, Crt1)
      BY <2>2, Crt1Loaded DEF WhereInv, MemInv, TableStages
    <2>6. pc \in {"crt1", "init", "ctors", "main"} => image.text \subseteq synced
      BY <2>2, AllSynced DEF SyncInv, SomeToCome, TableStages
    <2> QED
      BY <2>3, <2>4, <2>5, <2>6 DEF CodeInPlace
  <1> QED
    BY <1>1, BootInvariant, PTL

\* ind_main.cc:59-93 and ind_crt0.c:866-880: each boot runs every constructor once
\* and in order before main() goes on, also after a warm reset that left the flag
\* set, and without a debugger main() gets the default arguments.
THEOREM BootMainIsReady ==
  ASSUME ImagesLinked
  PROVE  Spec => []MainIsReady
  <1>1. BootInv => MainIsReady
    BY DEF BootInv, HandedInv, MainIsReady
  <1> QED
    BY <1>1, BootInvariant, PTL

\* mpc563x.ppc:81-116: the loops of eight words and of one word fill each word of
\* the board's SRAM and no other, for any number of bytes.
THEOREM BootFillIsExact ==
  ASSUME ImagesLinked, \A img \in Images : OpcodeIsUnused(img)
  PROVE  Spec => []FillIsExact
  <1>1. Linked(image) /\ BootInv /\ FillInv => FillIsExact
    <2>1. SUFFICES ASSUME Linked(image), BootInv, FillInv, pc = "hello", image.boardInit, InRom(image, lr)
                   PROVE  {a \in Addr : mem[a] = Opcode} =
                            {a \in Addr : image.sram <= a /\ (a - image.sram) * 4 < image.ramBytes}
      BY DEF FillIsExact
    <2>2. OpcodeIsUnused(image) /\ lr = StartAt(image)
      BY <2>1 DEF BootInv, TypeOK, WhereInv
    <2>3. FillCells(image) = {a \in Addr : image.sram <= a /\ (a - image.sram) * 4 < image.ramBytes}
      BY <2>1, <2>2 DEF FillCells
    <2>4. \A a \in Addr : mem[a] = Opcode <=> a \in FillCells(image)
      BY <2>1, <2>2 DEF FillInv
    <2> QED
      BY <2>3, <2>4
  <1> QED
    BY <1>1, BootInvariant, PTL
=============================================================================
