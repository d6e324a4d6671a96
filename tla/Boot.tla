------------------------------- MODULE Boot -------------------------------
(* From reset to main(): the reset handler, crt0, the board's SRAM fill,   *)
(* the C start-up that builds RAM from the linker's tables, the start of   *)
(* the C library and the C++ constructors, with a reset at any moment.     *)
(* An address stands for one word, a value for what the word holds.  An    *)
(* image is what the linker and the integrator hand over: the tables, the  *)
(* link addresses of a few symbols and which weak functions are linked.    *)
EXTENDS Integers, Sequences, FiniteSets

CONSTANTS Addr,         \* the addresses of the machine
          Images,       \* the images a board may hold
          Bad,          \* SRAM never written since power-on: its ECC is wrong
          Opcode,       \* what the SRAM fill stores
          Used,         \* what the running program leaves in its data
          Start, Secinfo, Lib, Crt1,  \* the words of _start, the tables, memset & co, crt1
          MaxResets     \* bound: resets in one behaviour

Codes == {Start, Secinfo, Lib, Crt1}

ASSUME BootAssumption ==
  /\ Addr \subseteq Nat /\ MaxResets \in Nat
  /\ {Bad, Opcode, Used} \subseteq Int /\ Codes \subseteq Int
  /\ Bad # 0 /\ Cardinality(Codes) = 4 /\ Codes \cap {0, Bad, Opcode} = {}

VARIABLES image,     \* the image on the board
          mem,       \* Addr -> Int
          synced,    \* addresses whose instruction fetch sees the last store
          pc,        \* the stage of the start-up
          i,         \* the entry of the table, or the word, the stage is at
          lr,        \* the address _start runs at
          debugger,  \* a debugger's host answers system calls
          args,      \* argc (r4) and where argv (r5) comes from
          fix,       \* what __ghs_ind_crt0 works out before it touches memory
          inits,     \* the library parts __ghs_ind_crt1 has initialised
          ran,       \* the constructors run since the reset
          resets

vars == <<image, mem, synced, pc, i, lr, debugger, args, fix, inits, ran, resets>>

Stages == {"off", "start", "fill8", "fill", "hello", "adjust", "clear", "copy",
           "decompress", "relocate", "crt1", "init", "ctors", "main"}

Bases == {"ABS", "PIC", "PIR", "PID"}

InRom(img, a) == img.romStart <= a /\ a < img.romEnd

\* The image is started from ROM rather than downloaded.
FromRom(img) == img.romStart # img.romEnd

\* lromaddr of the reset handler: the ROM copy of a symbol.
RomAddr(img, sym) ==
  IF img.romStart <= sym THEN sym ELSE sym + img.romStart - img.ramStart

\* Where the words a table entry or a fix-up names are at run time.
Cells(t, n) == {a \in Addr : t <= a /\ a < t + n}

---------------------------------------------------------------------------
NoFix == [sci |-> 0, lib |-> 0, crt1 |-> 0, base |-> [b \in Bases |-> 0]]

Init ==
  /\ image \in Images
  /\ mem = [a \in Addr |-> IF a \in DOMAIN image.loaded THEN image.loaded[a] ELSE Bad]
  /\ synced = Addr
  /\ pc = "off" /\ i = 0 /\ lr = 0 /\ debugger = FALSE
  /\ args = [argc |-> 0, argv |-> "null"]
  /\ fix = NoFix /\ inits = {} /\ ran = <<>> /\ resets = 0

\* A reset, at any moment.  Flash keeps its words, or the debugger downloads
\* the image again; the rest of RAM keeps what it held, or its power failed.
Reset(warm, attached) ==
  /\ resets < MaxResets
  /\ resets' = resets + 1
  /\ mem' = [a \in Addr |-> IF a \in DOMAIN image.loaded THEN image.loaded[a]
                            ELSE IF warm THEN mem[a] ELSE Bad]
  /\ synced' = Addr
  /\ debugger' = attached
  /\ args' = IF attached THEN [argc |-> image.argc, argv |-> "given"]
                         ELSE [argc |-> 0, argv |-> "null"]
  /\ lr' = IF FromRom(image) THEN RomAddr(image, image.start)
                             ELSE image.start + image.base["PIC"]
  /\ pc' = "start" /\ i' = 0
  /\ fix' = NoFix /\ inits' = {} /\ ran' = <<>>
  /\ UNCHANGED image

\* Faulty: rounded up to whole turns.
FillWordsInEights(img) == 8 * (((img.ramBytes - 1) \div 32) + 1)

\* The words of SRAM the fill is asked for, rounded up.
FillWords(img) == ((img.ramBytes - 1) \div 4) + 1

\* What r4 holds when __ghs_board_memory_init returns: it compares LR with
\* the two ends of the ROM code in r4 and r5, which crt0 uses for argc, argv.
ClobberedArgc(img, at) == IF at >= img.romEnd THEN img.romEnd ELSE img.romStart

\* What is looked for at an address is there; the code goes nowhere otherwise.
Holds(a, word) == a \in Addr /\ mem[a] = word

StartCode ==
  /\ pc = "start" /\ Holds(lr, Start)
  /\ IF ~image.boardInit
     THEN pc' = "hello" /\ UNCHANGED <<i, args>>
     ELSE /\ args' = [argc |-> ClobberedArgc(image, lr), argv |-> "code"]
          /\ i' = 0
          /\ pc' = IF ~InRom(image, lr) \/ image.ramBytes <= 0 THEN "hello"
                   ELSE IF FillWords(image) \div 8 = 0 THEN "fill" ELSE "fill8"
  /\ UNCHANGED <<image, mem, synced, lr, debugger, fix, inits, ran, resets>>

Store(cells, val(_)) ==
  /\ mem' = [a \in Addr |-> IF a \in cells THEN val(a) ELSE mem[a]]
  /\ synced' = IF image.caches THEN synced \ cells ELSE synced

\* Eight words a turn; the counter register holds FillWords \div 8 turns.
Fill8 ==
  /\ pc = "fill8"
  /\ Store(Cells(image.sram + i, 8), LAMBDA a : Opcode)
  /\ i' = i + 8
  /\ pc' = IF (i + 8) \div 8 < FillWords(image) \div 8 THEN "fill8"
           ELSE IF (i + 8) * 4 >= image.ramBytes THEN "hello" ELSE "fill"
  /\ UNCHANGED <<image, lr, debugger, args, fix, inits, ran, resets>>

Fill ==
  /\ pc = "fill"
  /\ Store(Cells(image.sram + i, 1), LAMBDA a : Opcode)
  /\ i' = i + 1
  /\ pc' = IF (i + 1) * 4 < image.ramBytes THEN "fill" ELSE "hello"
  /\ UNCHANGED <<image, lr, debugger, args, fix, inits, ran, resets>>

\* Faulty: the answer of the system call is not looked at.
HelloAlways ==
  /\ pc = "hello"
  /\ pc' = "adjust"
  /\ UNCHANGED <<image, mem, synced, i, lr, debugger, args, fix, inits, ran, resets>>

\* The system call that tells a debugger is there; without one the argument
\* registers are cleared.
Hello ==
  /\ pc = "hello"
  /\ args' = IF debugger THEN args ELSE [argc |-> 0, argv |-> "null"]
  /\ pc' = "adjust"
  /\ UNCHANGED <<image, mem, synced, i, lr, debugger, fix, inits, ran, resets>>

---------------------------------------------------------------------------
(* __ghs_ind_crt0 *)

\* The offset of the ROM copy of the boot code from its RAM copy.
RamToRom(img) == img.romStart - img.ramStart

\* The adjustment of references to the tables.
Scifix(img) == IF InRom(img, img.secinfo) THEN 0 ELSE -RamToRom(img)

\* Faulty: the link address, whose RAM copy is not there yet.
LibAddrLinked(img) == img.lib

\* The address memset, memcpy, the decompressor and the cache
\* synchronisation are called at: one test, of memset's, serves the four.
LibAddr(img) == IF InRom(img, img.lib) THEN img.lib ELSE img.lib + RamToRom(img)

\* Faulty: moved to RAM although it was linked there.
Crt1AddrMoved(img) ==
  IF img.ramStart # img.ramEnd THEN img.crt1 - RamToRom(img) ELSE img.crt1

\* The address crt1 is called at: its RAM copy, unless nothing runs in RAM.
Crt1Addr(img) ==
  IF ~(img.ramStart <= img.crt1 /\ img.crt1 < img.ramEnd) /\ img.ramStart # img.ramEnd
  THEN img.crt1 - RamToRom(img)
  ELSE img.crt1

\* The minimal start-up takes every address as it was linked.
MinimalFix(img) == [NoFix EXCEPT !.lib = img.lib, !.crt1 = img.crt1]

\* The full one looks at where the image was started from.
FullFix(img) ==
  IF FromRom(img)
  THEN [sci |-> Scifix(img), lib |-> LibAddr(img), crt1 |-> Crt1Addr(img),
        base |-> [b \in Bases |-> 0]]
  ELSE [sci  |-> img.base["PIC"],
        lib  |-> img.lib + img.base["PIC"],
        crt1 |-> img.crt1 + img.base["PIC"],
        base |-> [img.base EXCEPT !["ABS"] = 0]]

MinimalStart ==
  /\ pc = "adjust" /\ image.minimal
  /\ fix' = MinimalFix(image)
  /\ pc' = "clear" /\ i' = 1
  /\ UNCHANGED <<image, mem, synced, lr, debugger, args, inits, ran, resets>>

Adjust ==
  /\ pc = "adjust" /\ ~image.minimal
  /\ fix' = FullFix(image)
  /\ pc' = "clear" /\ i' = 1
  /\ UNCHANGED <<image, mem, synced, lr, debugger, args, inits, ran, resets>>

\* The tables and the library functions are where the adjusted addresses say.
Usable == Holds(image.secinfo + fix.sci, Secinfo) /\ Holds(fix.lib, Lib)

\* Entries before __ghsbinfo_aclear move with the data, the rest are absolute.
ClearTarget(k) == image.clear[k].t + (IF k < image.aclear THEN fix.base["PID"] ELSE 0)

ClearEntry ==
  /\ pc = "clear" /\ i <= Len(image.clear) /\ Usable
  /\ Store(Cells(ClearTarget(i), image.clear[i].n), LAMBDA a : image.clear[i].v)
  /\ i' = i + 1
  /\ UNCHANGED <<image, pc, lr, debugger, args, fix, inits, ran, resets>>

\* Entries before __ghsbinfo_tcopy are data, the rest are text.
CopyTarget(table, text, k) ==
  table[k].t + (IF k < text THEN fix.base["PID"] ELSE fix.base["PIC"])

\* What a store followed by the optional synchronisation of the caches does
\* to memory: the condition b >= m is evaluated after b moved to the next entry.
StoreAndSync(t, words, syncs) ==
  LET cells == Cells(t, Len(words)) IN
  /\ mem' = [a \in Addr |-> IF a \in cells THEN words[a - t + 1] ELSE mem[a]]
  /\ synced' = IF ~image.caches THEN synced
               ELSE IF image.cacheSync /\ syncs THEN synced \cup cells
               ELSE synced \ cells

\* What is copied lies with the read-only data, which is absolute or moves with
\* the code: the macro PIRBASE is 0 or the PIC base, never that of PIR_SEC.
CopyEntry ==
  /\ pc = "copy" /\ i <= Len(image.copy) /\ Usable
  /\ LET e == image.copy[i]
         s == e.s + fix.base[image.rodata]
     IN StoreAndSync(CopyTarget(image.copy, image.tcopy, i),
                     [k \in 1..e.n |-> mem[s + k - 1]], i + 1 >= image.tcopy)
  /\ i' = i + 1
  /\ UNCHANGED <<image, pc, lr, debugger, args, fix, inits, ran, resets>>

\* The decompressor is a component of its own: here it yields the words
\* that were compressed, whose number is not that of the compressed ones.
DecompressEntry ==
  /\ pc = "decompress" /\ i <= Len(image.com) /\ Usable
  /\ StoreAndSync(CopyTarget(image.com, image.tcom, i), image.com[i].plain,
                  i + 1 >= image.tcom)
  /\ i' = i + 1
  /\ UNCHANGED <<image, pc, lr, debugger, args, fix, inits, ran, resets>>

\* An initialised pointer and its base, which counts words: a byte pointer
\* is moved by four times as much, a word pointer is scaled, moved and scaled back.
Moved(v, base, word) == IF word THEN (v * 4 + base * 4) \div 4 ELSE v + base * 4

\* Faulty: an undefined weak symbol becomes the address of the first byte.
RelocatedWeak(f, v) ==
  IF fix.base[f.obj] = 0 THEN v ELSE Moved(v, fix.base[f.obj], f.word)

\* A weak symbol that is undefined stays a null pointer.
Relocated(f, v) ==
  IF (f.weak /\ v = 0) \/ fix.base[f.obj] = 0 THEN v ELSE Moved(v, fix.base[f.obj], f.word)

RelocateEntry ==
  /\ pc = "relocate" /\ i <= Len(image.fixups) /\ Usable
  /\ LET f == image.fixups[i]
         p == f.at + fix.base[f.ptr]
     IN Store(Cells(p, 1), LAMBDA a : Relocated(f, mem[a]))
  /\ i' = i + 1
  /\ UNCHANGED <<image, pc, lr, debugger, args, fix, inits, ran, resets>>

\* A loop's test finds the end of its table.
TableEnd(stage, table, next) ==
  /\ pc = stage /\ i > Len(table)
  /\ pc' = next /\ i' = 1
  /\ UNCHANGED <<image, mem, synced, lr, debugger, args, fix, inits, ran, resets>>

\* Without compressed sections __ghs_decompress is not linked; the minimal
\* start-up has the first table only.
Tables ==
  \/ ClearEntry \/ CopyEntry \/ DecompressEntry \/ RelocateEntry
  \/ TableEnd("clear", image.clear, IF image.minimal THEN "init" ELSE "copy")
  \/ TableEnd("copy", image.copy, IF Len(image.com) > 0 THEN "decompress" ELSE "relocate")
  \/ TableEnd("decompress", image.com, "relocate")
  \/ TableEnd("relocate", image.fixups, "crt1")

CallCrt1 ==
  /\ pc = "crt1" /\ Holds(fix.crt1, Crt1) /\ fix.crt1 \in synced
  /\ pc' = "init" /\ i' = 1
  /\ UNCHANGED <<image, mem, synced, lr, debugger, args, fix, inits, ran, resets>>

---------------------------------------------------------------------------
(* __ghs_ind_crt1 and _main *)

\* The weak functions of the library's parts, in the order they are called.
FullCalls == <<"devices", "lock", "iob", "exceptions", "manprf", "coverage", "stack_guard">>
\* The minimal start-up sets up the signal table, which otherwise is set up at
\* its first use, and calls main itself.
MinimalCalls == <<"iob", "signals">>
InitCalls == IF image.minimal THEN MinimalCalls ELSE FullCalls

InitPart ==
  /\ pc = "init" /\ i <= Len(InitCalls)
  /\ inits' = inits \cup ({InitCalls[i]} \cap image.parts)
  /\ i' = i + 1
  /\ UNCHANGED <<image, mem, synced, pc, lr, debugger, args, fix, ran, resets>>

DefaultArgs == IF args.argc = 0 THEN [argc |-> 1, argv |-> "own"] ELSE args

\* Default arguments, then main(), whose first act in C++ is to call _main.
CallMain ==
  /\ pc = "init" /\ i > Len(InitCalls)
  /\ args' = DefaultArgs
  /\ LET been == image.beenHere + fix.base["PID"] IN
     IF mem[been] # 0
     THEN pc' = "main" /\ UNCHANGED <<mem, synced, i>>
     ELSE /\ Store(Cells(been, 1), LAMBDA a : 1)
          /\ pc' = "ctors" /\ i' = 1
  /\ UNCHANGED <<image, lr, debugger, fix, inits, ran, resets>>

Construct ==
  /\ pc = "ctors" /\ i <= Len(image.ctors)
  /\ ran' = Append(ran, image.ctors[i])
  /\ i' = i + 1
  /\ UNCHANGED <<image, mem, synced, pc, lr, debugger, args, fix, inits, resets>>

EnterMain ==
  /\ pc = "ctors" /\ i > Len(image.ctors)
  /\ pc' = "main"
  /\ UNCHANGED <<image, mem, synced, i, lr, debugger, args, fix, inits, ran, resets>>

\* main() never returns here; it changes its data, not its text.
Run ==
  /\ pc = "main"
  /\ Store(DOMAIN image.want \ image.text, LAMBDA a : Used)
  /\ UNCHANGED <<image, pc, i, lr, debugger, args, fix, inits, ran, resets>>

Step == \/ StartCode \/ Fill8 \/ Fill \/ Hello \/ MinimalStart \/ Adjust \/ Tables
        \/ CallCrt1 \/ InitPart \/ CallMain \/ Construct \/ EnterMain \/ Run

Next == Step \/ \E warm, attached \in BOOLEAN : Reset(warm, attached)

Spec == Init /\ [][Next]_vars /\ WF_vars(Step)
---------------------------------------------------------------------------
(* Properties *)

\* The variables keep their types, and every boot keeps the bound on resets.
TypeOK ==
  /\ image \in Images
  /\ mem \in [Addr -> Int] /\ synced \subseteq Addr
  /\ pc \in Stages /\ i \in Nat /\ lr \in Int /\ debugger \in BOOLEAN
  /\ args \in [argc : Int, argv : {"null", "given", "code", "own"}]
  /\ fix \in [sci : Int, lib : Int, crt1 : Int, base : [Bases -> Int]]
  /\ inits \subseteq {FullCalls[k] : k \in DOMAIN FullCalls}
                     \cup {MinimalCalls[k] : k \in DOMAIN MinimalCalls}
  /\ ran \in Seq(Int) /\ resets \in 0..MaxResets

\* Whatever RAM held, at the call of crt1 ("RAM SECTIONS ARE NOW FULLY
\* INITIALIZED") every word of the program is what its source says: zeroed,
\* copied or decompressed, and every initialised pointer relocated once.
Initialised ==
  pc \in {"crt1", "init"} => \A a \in DOMAIN image.want : mem[a] = image.want[a]

\* Each call and each table read of the start-up finds what is meant at the
\* address it uses: the ROM copies until RAM is filled, then crt1's RAM copy,
\* from when on the instruction fetch sees all text that was put in RAM.
CodeInPlace ==
  /\ pc = "start" => Holds(lr, Start)
  /\ pc \in {"clear", "copy", "decompress", "relocate"} => Usable
  /\ pc = "crt1" => Holds(fix.crt1, Crt1)
  /\ pc \in {"crt1", "init", "ctors", "main"} => image.text \subseteq synced

\* The SRAM fill gives every word of the board's RAM an ECC and touches no
\* other: it turns in eights and ends in ones.
FillIsExact ==
  pc = "hello" /\ image.boardInit /\ InRom(image, lr) =>
    {a \in Addr : mem[a] = Opcode} =
      {a \in Addr : image.sram <= a /\ (a - image.sram) * 4 < image.ramBytes}

\* Each boot runs each constructor once and in order before main() goes on,
\* although the flag that guards them survives a warm reset in RAM; and
\* without a debugger main() gets the default arguments, not what the
\* registers held at the reset or after the SRAM fill.
MainIsReady ==
  pc = "main" => /\ ran = image.ctors
                 /\ ~debugger => args = [argc |-> 1, argv |-> "own"]

\* ind_crt0.c:414: "ensure that we reference the ROM version of .secinfo".
TablesInRom ==
  pc = "clear" /\ FromRom(image) => InRom(image, image.secinfo + fix.sci)

\* The last reset allowed is followed by main().
LastBootEnds == (resets = MaxResets) ~> (pc = "main")
===========================================================================
