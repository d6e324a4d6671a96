# The run-time library of the MPC563M eMIOS project, in TLA+

The repository is an embedded application for the Freescale MPC563M (a PLL set-up and two eMIOS
channels, `src/src/main.c`) together with the sources of the Green Hills run-time library it is
linked with: `src/tgt/libstartup` (what runs before `main`), `src/tgt/libsys` (heap, locks, exit,
profilers, signals, times, system calls) and `src/tgt/libboardinit`. The library is where the
program's logic is: it is called by any number of threads and interrupt handlers, shares static data
between them, and calls itself.

This directory holds specifications of that logic, the TLC configurations that check them on small
instances, and proofs that TLAPS checks for all instances. Each definition is a translation of the C
code; PROJECT.json's `map` says of which lines.

To check one model: `tlc -config MCHeap.cfg MCHeap.tla`. To check one module of proofs: `tlapm
HeapProofs.tla`.

## 1. The system: an inventory

| Component | Source (`src/tgt/...`) | State | Operations | What is hard | What makes it correct | Modelled by |
|---|---|---|---|---|---|---|
| Low-level heap | libsys/ind_heap.c, ind_alloc.c | sbrk's static cursor `pt`; `errno` | `sbrk`, `__ghs_alloc`, `__ghs_calloc` | three calls that have to be contiguous; a lock taken twice; failure of the second or third call; a memset after the unlock; pointer arithmetic | blocks disjoint and in the heap; calloc's are zero; every call returns | `Heap`, `Arena` |
| Global lock | libsys/ind_lock.c, ind_thrd.h | the integrator's | `__ghsLock`, `__ghsUnlock` | declared by the library, written by the integrator; the default is empty | one owner; the owner can nest it | `GlobalLock` (its contract) |
| C++ library locks | libsys/ind_lockcpp.c | per lock: owner, count, system mutex; on Windows a control word | `__ghsLockCpp`, `__ghsUnlockCpp` | `owner` is read without the mutex; statement order; once-only creation by whoever comes first | mutual exclusion, no self-wait; one creation, before use | `RecursiveMutex`, `WinOnce` |
| Exit list | libsys/ind_exit.c | `exitlisthead`, the nodes' `next` and `func` | `__ghs_at_exit`, `_Exit` | pushes of several threads; functions that join while the list is walked; two threads in `_Exit` | the walk runs what was joined, once, newest first, and ends | `ExitList` |
| Call graph profiler | libsys/ind_gprf.c | hash table, arc pool, next index, guard | `__ghs_indgcount`, clear, dump | interrupt handlers in the middle of an insertion; pool exhaustion; clear and dump by the debugger | counts are the calls less those the guard turns away; lists well formed; a full pool reported | `CallGraph` |
| Call count profiler | libsys/ind_mprf.c | the functions' counters, chunk list, free list | `__ghs_indmcount`, clear, dump | a counter tested before the lock and incremented after it; chunk reuse; out of memory | each function listed once; counts exact; chunks conserved | `CallCount` |
| Block coverage | libsys/ind_bcnt.c | list of functions, a table of counts each | `__ghs_bcount`, clear, dump | the integrator's interrupt lock instead of the global one; a dump while functions join | a dump misses nothing and repeats nothing | `BlockCoverage` |
| Timer-driven profiler | libsys/ind_manprf.c and the `*_manprf.h` of the ports | sample buffer and count; a timer, its vector and masks | set-up, sampling interrupt, flush at exit | the interrupt against the flush; which macro of a port restarts its timer | vector before interrupt; one sample per expiry, sent once and in order up to the flush at exit, whose loss is bounded | `Sampling` |
| Boot chain | libstartup/crt0.ppc, ind_crt0.c, libboardinit/mpc563x.ppc, libsys/ind_crt1.c, ind_main.cc | all of memory, the linker's tables | ECC fill, clear, copy, decompress, relocate, initialise, constructors | globals are not valid until the end; code that is moved while it runs; caches; a reset in the middle | memory at `main` is what the tables say, in every boot | `Boot` |
| Decompression and memory primitives | libstartup/ind_uzip.c, ind_mcpy.c, ind_mset.c, ind_initmem.c, cksum.c | none | decoder, memcpy, memset, DMA copy, checksum | alignment cases, overlaps, bounds | equal to a reference definition | `MemOps`, `Unzip`, `Checksum` |
| Signals | libsys/ind_sgnl.c | handler table, initialised flag | `signal`, `raise` | set-up at first use, reset to SIG_DFL before the call, nesting, threads | a signal meets what its thread asked for last | `Signals` |
| Truncate | libsys/ind_trnc.c | two files | `truncate` | every host call may fail or come back short; the name chosen before the file is made | the file is the old or the new one | `Truncate` |
| Calendar time | libsys/ind_gmtm.c, ind_loctm.c, ind_tmzn.c | zone | `gmtime_r`, `localtime_r`, `tzset` | leap years, centuries, changes of daylight saving | equal to a calendar kept day by day | `Calendar` |
| Thread-local storage, errno, stdio locks | libsys/ind_thrd.c, ind_errn.c, ind_iob.c, ind_except.c | items of each thread, or one for all | `__gh_set_errno`, `gmtime`, `__get_eh_globals` | a pointer obtained, used later; build options that must agree | a thread finds what it has left | `ThreadLocal` |
| System calls | libsys/ind_call.ppc, ind_dots.ppc, ind_io.c, ... | none of their own | trap to the debugger's host | pure I/O | - | the calls `truncate` makes, in `Truncate` |
| Coverage headers | libsys/ind_cov.c | none | `__ghs_coverage_init` | its place in the start-up | called once, before `main` | its call, in `Boot` |
| Stack checking | libsys/ind_stackcheck.c | none | compare, end | - | - | - |
| Application | src/src/main.c, mpc563m.h | PLL and eMIOS registers | `main` | the PLL's lock sequence; a counter that runs during the set-up | the clock within its limit, the two pulses apart and for ever | `Application` |

How they interact. The profilers allocate with `__ghs_calloc`, which calls `sbrk`; both take the
global lock. The profilers join the exit list with `__ghs_at_exit`, under the same lock, and `_Exit`
runs their dumps with that lock held. A dump calls `creat` and `write`, "which may have been
compiled for profiling": a profiler can thus enter itself, or another profiler, in the middle of
`_Exit`. The debugger may stop the program and call the clear and dump procedures. Interrupt
handlers are compiled like everything else and record calls. The boot chain uses the memory
primitives and the decompressor before it has made RAM. Signals, `errno`, the times and the
exceptions all ask `__ghs_GetThreadLocalStorageItem` for their place.

`grep` finds no build file that defines `__disable_thread_safe_extensions`, so the library as
shipped is the thread-safe build, in which the profilers have no `in_...` guards. `ind_mprf.c` and
`ind_bcnt.c` are modelled in that build. `ind_gprf.c` is modelled in the other one, because in the
shipped build it has no protection at all, neither guard nor lock (line 469).

## 2. The modules

### GlobalLock.tla
The contract of `__ghsLock`/`__ghsUnlock`: `owner` and `depth`. The library calls the two functions
and leaves their bodies to the integrator (`ind_lock.c` supplies empty ones), so the module is
marked external. `Heap` and `ExitList` instantiate it as their lock; `RecursiveMutex` is shown to
implement it. Everything proved or checked of the heap and the exit list holds for a program whose
integrator supplies such a lock, and not for the empty default.

### Arena.tla
The abstract specification of the heap: one variable, the set of blocks handed out, and one action
that adds a block in the arena and apart from all others.

### Heap.tla, MCHeap.tla, HeapProofs.tla
`pt` is sbrk's static cursor, `errno` the program's one errno, `owner`/`depth` the lock, `frame[t]`
the arguments and locals of the call thread `t` is in, `pc[t]` where it is. `blocks` and `zeroed`
are history: what was returned to callers, and which addresses are known to hold zero.

| Code | Action |
|---|---|
| `sbrk(size)` called by a thread | `CallSbrk`, `SbrkLock`, `SbrkGrow`, `SbrkCommit`, `SbrkReturn` |
| `__ghs_alloc(size, align)` | `CallAlloc`, `AllocLock`, then three times sbrk's steps, ended by `QueryReturn`, `PadReturn`, `BodyReturn`, then `AllocReturn` |
| `__ghs_calloc` | as `__ghs_alloc`, then `Memset`, with no lock held |

Pointers and sizes are numbers modulo `Space`: `PtrAdd` and `PtrSub` wrap. Which of the three calls
a value belongs to is `frame[t].site`. `__ghs_alloc` keeps the second call's value, which is the
cursor *before* the padding; the model does the same.

### Threads.tla, RecursiveMutex.tla, WinOnce.tla, LockProofs.tla
`RecursiveMutex` is the lock that `ind_lockcpp.c` makes out of a plain mutex on Chorus, Solaris, OSE and LynxOS. One
action per access to `owner`, `count` and the mutex, because the source's argument ("DO NOT CHANGE")
is about the order of exactly these. `held` is history: calls that returned. `Init` allows both
initialisers of `count`.

`WinOnce` is the Windows branch: each critical section is created at its first use, by whoever exchanges the
control word's 0 for a 1. One action per access to the word. `Threads` declares the threads both are
about.

### ExitList.tla, MCExitList.tla, ExitListProofs.tla
`__ghs_at_exit` store by store (`AtExitLock`, `SetNext`, `SetHead`, `AtExitUnlock`), the way the
profilers join (`Join`, `TestFunc`, `SetFunc`: a test and a store, under no lock in
`init_callgraph`; the other two profilers are under the profile lock by then), and `_Exit`
(`ExitLock`, `Call`, `Advance`, `ExitUnlock`, `Syscall`). `Late` says which node the function of
another node joins while it runs. `Syscall` may end the program or do nothing, in which case `_Exit`
loops for ever, as the code does.

### CallGraph.tla, MCCallGraph.tla, CallGraphProofs.tla
`Levels` are the program (1) and interrupt priorities above it; `Runs(l)` says that nothing above
`l` is active. The recorder is one action per access to shared data: `Enter` finds the guard clear,
`Skip` finds it set and returns, `Claim` sets it, `Walk` follows a link, `Take`, `Fill`, `Link` and `Bump` are the insertion,
`Unlock` the end. A `link` is the C code's pointer to a pointer. `Clear` and `Dump` are the
debugger's, or `_Exit`'s, between calls. `made` is history and counts every call, whatever becomes of
it; `missed` counts those made while a call that has set the guard is under way, or after a dump.
Whether a call is missed is read off what is going on (`Recording`) and not off the guard, so a
guard left set by mistake is seen in the counts. That a list holds certain nodes (`Listed`) is said by the
existence of a sequence in which each node follows the one before, and not by a recursive operator.

### CallCount.tla, MCCallCount.tla, CallCountProofs.tla
The counter: `TestArea` before the profile lock, `AddToTail`, `AddReused`, `AddAllocated` or
`AddNoMemory` under it (one step), `Load` and `Store` for `++*area` after it, `SetNoMemory` for the
flag that is set after it. `returned` and `before` are history: which functions have a call that
returned, and which had when another function's first call began. The order of the listing is
compared with these, and not with the order of the entries themselves. `Clear`, and the three
outcomes of a dump. `Callers` says which threads call each function; the theorems hold for any.

### Boot.tla, BootImages.tla, MCBoot.tla, BootProofs.tla
A stage of the start-up is a value of `pc`, an address stands for a word, and an *image* is what the
linker and the integrator hand over: tables of sections, link addresses, which weak functions are
linked. `StartCode` is the reset handler; `Fill8` and `Fill` give SRAM its ECC, in eights and then
in ones; `Hello` asks whether a debugger answers; `Adjust` is what `__ghs_ind_crt0` works out before
it touches memory; `ClearEntry`, `CopyEntry`, `DecompressEntry` and `RelocateEntry` take one entry
of a table each; `InitPart`, `CallMain`, `Construct` and `EnterMain` are `__ghs_ind_crt1` and
`_main`. `MinimalStart` is the start-up built with `MINIMAL_STARTUP`. `Reset` may come at any
moment: flash keeps its words (or the debugger downloads them again), and the rest of RAM keeps what
it held or loses its power. `synced` are the addresses whose instruction fetch sees what was stored.

`BootImages` states what the start-up relies on the linker and the integrator for, in terms of the
addresses they know and not of how the start-up works them out (`Linked`): the fields have their
types, RAM is below ROM and the tables are in ROM when the program is started from there, sections
and pointers do not meet, every word of the program was loaded or is built by one table entry, the
code is among what was loaded, and text in RAM is built by entries that synchronise the caches.
`MCBoot` assumes it of its images, so TLC evaluates it. The image of the run `boot_secinfo` is the
one that is not `Linked`: its tables are in RAM.

### MemOps.tla, Unzip.tla, Checksum.tla, Calendar.tla, MCAlgorithms.tla, AlgorithmsProofs.tla
Pure functions as small machines. `MemOps` moves as the code does: words, blocks, DMA transfers and
single bytes, with `want` as what the call must leave. `Unzip` decodes a token at a time beside the
decoder with a ring buffer, of which the code is a variant without one. `Checksum` walks the
sections of a program in which bits may have flipped; a word is the set of its bits. `Covered(k)`
says which sections a walk vouches for: no BSS, and in `__cksumsects` no RAM copy of another section,
which the program may have changed; `__cksumsects_psinfo` cannot tell those and takes them too. `CrcDetects`
says of a polynomial and a program that errors of up to `MaxFlips` bits in a section change its
checksum; `MCAlgorithms` assumes it, so TLC evaluates it for the real polynomial. `Calendar`
compares `gmtime_r`, `localtime_r` and `tzset` with a clock on the wall that knows only what
tomorrow is; the clocks of `Starts` begin at a New Year, and `ClockAssumption` says that they begin
right, which `MCAlgorithms` assumes of its own. `MCAlgorithms` runs one of the four at a time
(`which`).

### Signals.tla
`stack[t]` are the activations of `signal` and `raise` that a thread is in, the innermost last,
since a handler is code that calls both. `TestReady`, `FillDefault`, `FillIgnored` and `SetReady`
set the static table up; `Exchange` is `signal`; `Fetch`, `Fatal`, `Ignore`, `Reset` and `Enter` are
`raise`. `provided` and `macro` are the two things that have to agree for a thread to have a table
of its own. `armed` is history.

### Truncate.tla
An action for each call to the host, any of which may fail or come back short while `faults` last.
The host is a directory and files, modelled from what the calls are used for. `tmpnam` asks for a
name that is not taken.

### BlockCoverage.tla
`__ghs_bcount` store by store (`TestInserted`, `SetFunc`, `AtExit`, `Insert`, `SetNext`, `SetHead`,
`Count`), the walk of `_Exit` that calls the dump (`Creat`, `Write`, `Close`), and the debugger's
`Clear` and `DebuggerDump`. `separate` says whether the integrator supplies an interrupt lock, in
which case the profile lock is not the global one.

### Sampling.tla
A port is what its header's macros do to its timer: does the timer stop when it expires, which of
TIMER_INIT (in the set-up or in the handler), ENABLE_TIMER_INTERRUPT and CLEAR_TIMER_INTERRUPT
starts it, which of them (or taking the interrupt) acknowledges it, whether the vector is linked,
stored before TIMER_INIT or stored by ENABLE_TIMER_INTERRUPT, and on ColdFire whether the source is
masked and the handler wrapped. `Ports` has eleven. On PowerPC and Blackfin the vector is stored
when the timer already counts or may be about to (`BookE`: DEC is loaded before IVPR); what matters
is that the interrupt is enabled later. The program is set up (`StoreVector`, `Unmask`, `TimerInit`,
`EnableVector`, `EnableTimer`), runs, and flushes at exit: `LoadCount` loads the argument of the
system call, `SendRest` is the trap, `ResetCount` the store after it, and an interrupt may come
before each. The handler is `Interrupt`, `Wrapper`, `Sample`, `Flush`, `Reinit`, `ClearInterrupt`.
`late` is history: the samples of the interrupts that came between `LoadCount` and `ResetCount`.

### ThreadLocal.tla
The places of `errno`, of the time that `gmtime` and `localtime` return and of the exceptions in
flight: one per thread for the items that `__ghs_GetThreadLocalStorageItem` returns, else the global
one. `errno` is thread-local only if the library is built with `USE_THREAD_LOCAL_ERRNO` and without
`MINIMAL_STARTUP`. The pointer is obtained in one step and used in later ones; `gmtime` fills its
item field by field, and `localtime` reads the item back to decide on daylight saving.

### Application.tla
`main` is the list of the register writes of `main.c`. The hardware goes on between any two of them:
`Hunt` and `Lock` are the PLL, `Tick` the counter and the edges it makes. What the peripherals do is
taken from the comments of `main.c`.

### MCServices.tla, ServicesProofs.tla
`MCServices` runs truncate, signals, block coverage, sampling, the thread-local data and the
demonstration program, one of them at a time (`which`). Its constants are those of the six: `Path`
and `Bytes` are the callers' files, under the names 0 and -1, while `tmpnam` makes positive ones;
`Crystal` and `Overshoot` are the board's quartz and how far the PLL overshoots; `Ticks` are the
counts between which the counter is told apart; `Times` and `Summer` are the times and those of them
that get an hour. `ServicesProofs` proves about all six; its theorems speak of the composition that
TLC runs.

## 3. The runs

| Run | Result | What it shows |
|---|---|---|
| `heap` | pass | two threads, every mix of the three functions: blocks disjoint, in the heap, zeroed; every call returns; the heap implements `Arena` |
| `heap_align` | violated | `__ghs_alloc` returns an unaligned address (finding 1) |
| `recursive_mutex` | pass | mutual exclusion, no self-wait; it implements `GlobalLock` |
| `win_once` | pass | one creation, before any use, and no thread asleep for ever |
| `exit_list` | pass | the list stays a stack; walks are complete, alone, in order, and end |
| `call_graph` | pass | lists well formed under interrupts; counts exact; losses reported; a dump ends recording until a clear |
| `call_count` | pass | each function listed once, in the order of first calls; counts exact; chunks conserved |
| `boot` | pass | RAM holds what the tables say (`Initialised`); every call and table read finds what is meant, and fetches see the text (`CodeInPlace`); the ECC fill covers the RAM and nothing else (`FillIsExact`); constructors run once in each boot and `main` gets its own arguments (`MainIsReady`); the last reset is followed by `main` (`LastBootEnds`) |
| `boot_secinfo` | violated | tables linked outside ROM are looked for on the wrong side of them (finding 2) |
| `algorithms` | pass | memcpy, memset and the DMA copy fill exactly their target; the decoder without a ring does what the one with a ring does; up to two flipped bits are found; dates and local times agree with the clock on the wall |
| `services` | pass | truncate answers 0 only for the right file and loses no byte before its copy back fails (`TruncateExact`, `BytesKept`); signals (`RaiseAnswersOwn`); coverage dumps (`CoverageComplete`); samples (`SamplingExact`); each thread's data (`OwnCopies`); clock and pulses (`ClockBounded`, `PulsesApart`, `PulsesGoOn`) |
| `truncate_reentrant` | violated | two threads choose the same temporary file (finding 3) |

Each property of a passing run has a mutant, a faulty variant of one definition that stands before
it in the module under a comment that says so, and TLC finds the property violated with it.

### Bounds, and why they are enough

- `heap`: `Thread` two, `MaxCalls` two calls each, a heap of nine bytes that starts at 3, `Sizes`
  {1, 6}, `Aligns` {4}. The heap starts unaligned, so the first block needs padding, the next may
  not; 6 fits once and not twice, so the third sbrk call of `__ghs_alloc` fails after the second has
  moved the cursor, in both orders with the other thread. Four calls are enough for a success after
  a failure and a failure after that. 92,601 states.
- `heap_align`: one thread and three calls; the heap starts aligned and size 1 unaligns it.
- `recursive_mutex`: four threads, `MaxDepth` three: a nested call and a nested call inside it. The
  state space is finite without any other bound.
- `win_once`: four threads: creator, one that exchanges the creator's 1, one that exchanges its 2,
  and one that sleeps. Finite without bounds.
- `exit_list`: three threads, three nodes: one that joins before, one that may join during, and one
  that is joined from inside a walk; two threads may be in `_Exit` at once. Each node has one
  registrar, so a node is pushed once. The system may stop (ended, or looping in `_Exit`), so
  deadlock is not checked.
- `call_graph`: the program and two interrupt levels; four call sites, two of which share an index
  and one of which lies outside the profiled text; two functions called; a pool of two nodes,
  `MaxCalls` four, those that the guard turns away included: the pool is filled exactly and overrun,
  lists have two nodes, handlers call in the middle of an insertion, and a clear falls between. With
  four calls no list has more than two nodes, as the pool has no more. 406,855 states.
- `call_count`: two threads, three functions, chunks of two, so that a third function needs a second
  chunk; zero, one or two chunks of heap; five calls, with clears anywhere between. `CountMod` 8 is
  above the calls. Each function is called by one thread: what two would do is told in section 6.
  96,916 states.
- `boot`: six images: boot code copied to RAM with compressed data and text; the same program linked
  at its ROM addresses; everything in ROM; downloaded; downloaded and moved, with a word to copy and
  four kinds of pointer to relocate, by a different distance for code, read-only data and data;
  minimal. `MaxResets` two: the boot that is cut short and the one that must
  clean up after it; a third would start from no other memory. RAM sizes of 45 and 64 bytes end the
  fill with and without a rest. 910 states.
- `boot_secinfo`: one image whose tables are linked in RAM.
- `algorithms`: memory of eighteen bytes, every target, source and length in it, words of one and
  two bytes, blocks of four: every alignment, a head, two blocks and a tail. Token streams of three
  tokens over two literals and references at the ends of the ring, with the real ring size and match
  lengths, and one longer stream. A program of four sections, one BSS and one the RAM copy of
  another, with every choice of up to two flipped bits. Years in which a century, a leap day or the
  law of daylight saving changes, from 1599 to 2400, with hours of two minutes of two seconds: the
  code only divides by these constants, and `CalendarAgrees` is for any. 398,696 states.
- `services`: truncate with one thread, lengths 0, 2, 3 and 7 of a file of five bytes, a buffer of
  two and up to four faults, which is more than any path answers with a retry. Signals with two
  threads, three calls nested two deep, a signal that cannot be caught and one that is ignored by
  default. Coverage with two threads, two functions of which one has a marked block. Sampling with a
  buffer of three and seven expiries: two flushes, a rest, and a buffer that fills during the flush
  at exit. `ThreadLocal` with two threads and
  three calls, each choice of items and build. The application with two counts around each edge. The
  services end or wait, so deadlock is not checked. 724,748 states.
- `truncate_reentrant`: two threads, no faults.

### Fairness

`heap` and `exit_list` check liveness under weak fairness of each thread's `Step`: a thread inside a
call keeps executing, which any scheduler that does not starve a thread gives. Calls, joins and
exits themselves are never forced. Weak fairness is enough where a thread waits for the lock only
because the number of times others can take it is bounded (`MaxCalls`; each node pushed once and at
most one `_Exit` per thread); a fair lock is not assumed. `boot` assumes weak fairness of the
processor's `Step`, not of resets. The application assumes it of the program, which has no other, of
the PLL's lock, which `main.c:8` waits for in a loop, and of the counter's tick. The other runs
check safety only.

## 4. What is proved

Eight modules hold the proofs. Each theorem holds for all threads, functions, files, images, programs
and bounds; the last column says under which hypotheses.

| Theorem | Statement | Under |
|---|---|---|
| `HeapType` | `Spec => []TypeOK` | `HeapAssumption` |
| `HeapBlocksDisjoint`, `HeapBlocksInHeap` | `Spec => []BlocksDisjoint`, `... []BlocksInHeap` | also `RequestsFit` |
| `HeapImplementsArena` | `Spec => ArenaSpec` | also `RequestsFit` |
| `HeapCallocZeroed` | `Spec => []CallocZeroed` | also `RequestsFit` |
| `MutexExclusion`, `MutexNested` | `Spec => []MutualExclusion`, `... []NestedNeverWaits` | `MutexAssumption` |
| `MutexImplementsLock` | `Spec => LockSpec` | `MutexAssumption` |
| `OnceCreatedOnce`, `OnceCreatedFirst`, `OnceSleepers` | `OnceSpec => []CreatedOnce`, `... []CreatedFirst`, `... []SleepersHaveHope` | `ThreadAssumption` |
| `ExitListType`, `ExitListStack`, `ExitListComplete`, `ExitListAlone` | `Spec => []TypeOK`, `... []ListIsStack`, `... []WalkComplete`, `... []WalkAlone` | `ExitListAssumption`, `OneFirst` |
| `CallCountFits`, `CallCountChunks` | no chunk above `ChunkSize`; `Spec => ChunksKept` | `CallCountAssumption`, `SomeFunc` |
| `CallCountOrder`, `CallCountExact` | `Spec => []ListedInOrder`, `... []CountsExact` | also `OneCaller`, `CountersHold` |
| `CallGraphLists`, `CallGraphCounts`, `CallGraphLoss`, `CallGraphDumpLast` | `Spec => []ListsWellFormed`, `... []CountsExact`, `... []LossReported`, `... DumpIsLast` | `CallGraphAssumption` |
| `BootTypes`, `BootInitialised`, `BootCodeInPlace`, `BootMainIsReady` | `Spec => []TypeOK`, `... []Initialised`, `... []CodeInPlace`, `... []MainIsReady` | `BootAssumption`, all images `Linked` |
| `BootFillIsExact` | `Spec => []FillIsExact` | also `OpcodeIsUnused` |
| `SignalsAnswerOwn` | `Spec => []RaiseAnswersOwn` of `Signals` | `StaticIsNobodys` |
| `ServicesSampling` | `AllSpec => []SamplingExact` | `BufferAssumption` |
| `ServicesOwnCopies` | `AllSpec => []OwnCopies` | `TimesAreNat` |
| `ServicesPulses` | `AllSpec => []PulsesApart` | `TicksAssumption` |
| `ServicesClock` | `AllSpec => []ClockBounded` | also `BoardAssumption` |
| `ServicesCoverage` | `AllSpec => []CoverageComplete` | `RoutineAssumption` |
| `ServicesTruncate`, `ServicesBytesKept` | `AllSpec => []TruncateExact`, `... []BytesKept` | `CallerAssumption` |
| `MemOpsTypes`, `MemOpsExact` | `Spec => []TypeOK`, `... []CallExact` of `MemOps` | `MemOpsAssumption` |
| `UnzipExact` | `ZipSpec /\ []WholeTokens => []LzssExact` | `UnzipAssumption` |
| `ChecksumAccepts` | `SumSpec => [](result = "bad" => \E f \in flipped : Covered(f[1]))` | `ChecksumAssumption` |
| `ChecksumFinds` | `SumSpec => []CorruptionFound` | also `CrcDetects` |
| `CalendarAgrees` | `AllSpec => []CalendarExact` | `ClockAssumption` |

### The hypotheses

The `...Assumption`s give the constants their types; TLC evaluates those that are ASSUMEs of a
module in every run of it. The others say something of the program, the board or the integrator:

- `RequestsFit`: no size or alignment, added to the end of the heap, wraps the address space. With a
  request that wraps, the cursor moves back and blocks overlap (section 6). `MCHeap` assumes it.
- `OneFirst`: no two threads are ever the first to need one node (one registrar, or joined only from
  inside a walk). A node pushed twice points to itself (section 6). `MCExitList` assumes it.
- `SomeFunc`: there is a profiled function.
- `OneCaller`: each function is called by one thread; two threads in the first call of a function
  enter it twice, and two that count it lose a call (section 6). `CountersHold`: no counter wraps;
  one that does is 0 again, and its function is listed a second time. `CallCountFits` and
  `CallCountChunks` need neither.
- `Linked`, which `MCBoot` assumes of its images: what `BootImages` says of the linker's tables
  (section 2). Without it the start-up cannot work: an image that violates one part is the finding
  of `boot_secinfo`. `OpcodeIsUnused`: no word the program loads is the word the fill stores.
  Without it the statement, which looks for that word, says nothing about the fill.
- `StaticIsNobodys`: the static table's place is no thread's. `BufferAssumption`: the buffer has
  room for a sample. `TimesAreNat`: times are not negative.
- `TicksAssumption`: the counts that are told apart include those at which a channel has an edge
  (250, 500, 999). `BoardAssumption`: the board's quartz of 8 MHz, and an overshoot of the PLL below
  twice its target; main.c computes its registers for this quartz.
- `RoutineAssumption`: finitely many functions.
- `CallerAssumption`: one thread truncates. With two the statement is false, which is what
  `truncate_reentrant` shows. It also says that the callers' files have names that `tmpnam` does not
  make, and that there is a greatest inode number, so that a new file has a new one.
- `WholeTokens`: the section does not end inside a token. With one that does, the code reads on
  behind it, and what is there is not a part of the model.
- `CrcDetects`: errors of up to `MaxFlips` bits in a section change its checksum. It is a fact about
  the polynomial; `MCAlgorithms` assumes it of the real one, so TLC evaluates it.
  `ChecksumAccepts` does without it.
- `ClockAssumption`: a clock begins at a New Year with its weekday and its number of days since the
  Epoch, and one for a 32-bit time stays in 1901 to 2038, which is what 32 bits reach; TZ names
  hours, minutes and seconds less than a minute, east or west. It holds for the minutes of 60
  seconds and the hours of 60 minutes of the code and for the shorter ones of the run.

### The arguments

**Heap.** That blocks are disjoint is not inductive: the block `__ghs_alloc` will return was fixed
two sbrk calls ago. `IInv` adds, per thread, who holds the lock how deep at each step (`LockInv`);
what the locals say of the cursor (`FrameInv`: sbrk's `npt` is the cursor plus the argument, its
return value plus the argument is the cursor, and from the second call on no block reaches above
`base`); the cursor between its bounds and above all blocks (`CursorInv`); and that a call's block
is not yet in `blocks` (`SerialInv`). Between two of the three calls `FrameInv` survives the others'
steps because a thread outside the lock does not touch `pt` (`OtherThread`). There is a lemma per
action, `NextInv` combines them. The refinement follows as only the two returning actions change
`blocks`, and `Fresh` is what the abstract `Grant` asks for. `CallocZeroed` has its own
strengthening `ZeroInv`.

**Mutex.** `IInv` of `RecursiveMutex` ties the three words to one thread: the mutex is `t`'s exactly
while `t` is between taking and releasing it, `owner` is `t` in all of that but the first and the
last step, `count` is the number of its calls. `NestedNeverWaits` is then immediate: whoever reads
`owner` and is not the owner has `held` 0. For the refinement, `HolderOf` says the CHOOSE in
`Holder` has one candidate, and `HeldStep` that a step changes `held` of one thread by one while all
others are 0.

**Control word.** `WordInv` of `WinOnce`: a 0 means nothing has begun, a 1 means that exactly one
thread is creating or putting the 2 back, a 2 that the section exists and nobody does either.

**Exit list.** None of the three invariants is inductive: `SetHead` keeps the list a stack only if
the node's `next` still is the head and the node is not on the list yet. `IInv` of `ExitList` says
who holds the lock at each step, once or twice (`LockInv`); by what right a thread joins a node, and
that a node about to be pushed has its func set and is not pushed (`JoinInv`); that pushed nodes are
distinct and have their func set (`PushInv`); and where a walk is (`WalkInv`: what it saw at the
start is a prefix of the pushes, what it has run is the end of that prefix backwards, and `el` is
the next one). `OwnNode` derives from `OneFirst` and the lock that two threads never join the same
node. `Advance` reads `next` after the function returned; `ListIsStack` gives the value, and pushes
during the walk do not change it because they are in front.

**Call counts.** `ChunksInv` says that the lists are sequences of chunks with room; an entry is made
in the last chunk only when it is not full, a chunk taken off the free list or the heap appears in
the list, a clear turns the list onto the free list, and a dump that took a new chunk leaves it
there. `FullButLast` says of the chunks that only the last has room. The entries are the chunks laid
end to end, which is a recursive function; `Unfolds` gives its values step by step, and an entry
appends to its last value.
For the counts, `CountInv` has a part per thread (`ThreadInv`: who is about to enter a function saw
its counter at 0, what it has loaded is the counter) and one per function (`FuncInv`: unless memory
ran out, the counter and the call in progress add up to the calls made; a function is entered exactly
if its counter is not 0 or about to be incremented). That the test of the counter before the lock
still holds after it is where `OneCaller` is used. `OrderInv` ties the histories to the list: no
function is entered twice, every function with a returned call is entered, those of `before`
included, and `before` agrees with the places in the list. What is entered later was not called
before that, since the counter it found was 0.

**Call graph.** `GuardInv`: a level that has set the guard is alone with the data until it clears it,
as what it interrupted has not got that far and what interrupts it does not get in; after a dump
nothing gets in. While there is memory, the guard is set only if a call is being recorded or a dump
has been made, so `Skip` turns away no call but those that `missed` counts, and `Enter` lets in no
other. `ListInv` says that the nodes of one index are chained in the order in which they
were given out, no two of one arc; so a list ends because its nodes' numbers grow. It says so by
what the nodes hold, and so needs no recursion. `SearchInv`: a search stands at a link of the list of
its arc and no node it has passed has that arc, so that the node it links in is the only one of its
arc. `CountInv` adds the calls still on their way to the counts, which makes `made - missed`, and `LostInv` ties a lost call to a
pool that is used up, which is what the dump tests.

**Boot.** `BootInv` follows a start-up through its stages. `WhereInv` says at which address it runs
and that the addresses `Adjust` worked out are those of `BootImages`. `MemInv` says what memory
holds, word by word: what was loaded, where nothing is built over it (`RestHolds`), and what an entry
puts there once it is done (`SectionsHold`), in both cases relocated if the fix-up of that word is
done. Later entries keep it because `Linked` has sections apart and pointers with one fix-up each.
`SyncInv`: text the instruction fetch may not see is text that an entry which synchronises the caches
has yet to store. `TurnsInv` bounds the turns of the SRAM fill, and `HandedInv` says which
constructors have run and what arguments `main` will get. A reset changes RAM at will, and keeps the
invariant because only what was loaded is relied upon after it. `FillInv` follows the fill: it alone
stores its word, and has up to where it is.

**Signals.** `RaiseAnswersOwn` speaks of the moment between `Fetch` and the decision, and holds
because of what happened at the other end of the call. `IInv` of `Signals` has a part for the stack
(`StackInv`: all but the innermost activation are in a handler, and nobody uses a table before it is
set up) and one for the table (`TableInv`: once set up, the thread's table is `armed`; before, the
activation that fills it says what it holds so far). `Others` shows that a step of one thread leaves
both alone for every other, for a table per thread because the places differ, and without one
because the thread is alone. `Entry` is the exchange and the reset: table and `armed` change in the
same entry.

**The thread's data.** `IInv` of `ThreadLocal` says where the pointer of a call in progress points
(`PtrInv`: the item the thread owns, which only it uses) and what it has filled there so far
(`FillInv`). `OwnCopies` alone is not inductive because a result is complete only at the last of its
stores.

**Sampling.** `IInv` of `Sampling` adds the order of the set-up (`SetupInv`), that a timer once
started (`Started`) runs or its handler is still to come (`TimerInv`, which counts the expiry that is
pending or being handled as not yet sampled), that the buffer is full only at the flush
(`BufferInv`), and where the samples are that the flush at exit may not lose (`LossInv`). While the
count is loaded and not yet used, such a sample is still in the places the call will send, unless a
handler has filled the buffer and sent them all; `LossApart` and `LossKept` follow it through the
steps of main and of the handler. It is proved once for all eleven ports, from what they have in
common (`PortFacts`).

**Application.** `Written`: the registers of the statements passed have their values, the others are
zero. `Pulsed`: an output is high only if its channel is set up and the counter is between its
edges, also when the counter came to one of them while `main` was setting the channel up. `Clocked`:
the PLL before its first word, on its way to lock, and locked.

**Coverage.** `CovInv` says that there is a sequence of functions, oldest first, of which the links
are the reverse (`Chain`), so that a new function moves none of the others; and that a dump in
progress has the first of them still ahead and everything else that had counted in the file, once
(`Walked`, `Ahead`). `Where` says of each thread what it has done of its insertion, under the
profile lock; `Registered`, that nothing is on the list before the dump is on the exit list;
`Counted`, that what has counted is on the list.

**Truncate.** `TrncInv` says what the directory and the files hold in each part of the code: before
the temporary file is made (`Before`), while the bytes kept are copied to it (`Out`), with all of
them there (`Ready`), on their way back (`Back`), with the copies ended (`Over`), and at the return
(`Done`). `Reads` and `Writes` do the two loops, with their short transfers, at once. That the name
`tmpnam` made is still free when its file is created is where `CallerAssumption` is used.

**Memory primitives.** `MemInv` compares memory with `want`, what the call promises, fixed when it
begins: outside the target they agree throughout (`ArgsInv`), and inside it up to where the loop is
(`Right`), from below, or from above for the memset that goes down. `CopyInv` adds that source and
target lie apart and that what is left starts at the same offset in both; a DMA transfer in progress
counts by what the controller has moved. `UpInv` and `DownInv` are the arithmetic of alignment: head,
blocks and tail add up to what is left.

**Decompression.** `Agree`: the two decoders have put out the same, the ring's write position is the
place of the output's length, and the ring holds the last `DECODE_N` bytes of the output, with
zeros before its start. A match copies byte by byte and may overlap what it writes; `Copied` follows
both recursive functions along the match.

**Checksum.** `LinkedIs` computes what the linker writes and shows that it is `Intact`. `FlipsInv`
says that memory is that but for the flipped bits, and `WalkInv` that the covered sections passed
match their sums. A section with an error of few bits does not, by `CrcDetects`; for a walk that
answers -1, some bit of a covered section must have changed because without one all of them are as
linked.

**Calendar.** `CalendarExact` compares a clock that ticks with functions of the whole time, so
`ClockInv` says of the clock's date what it is such a function of (`DateOk`): the days since the
Epoch are those before its year (`NewYear`), its month (`MonthStart`) and its day, and the weekday
is theirs modulo 7. From there each step of the code is inverted: `DayAndSecondIs` on both sides of
the Epoch; `WideIs`, which writes the year as 400s, centuries, fours and a rest (`YearParts`), and
`NarrowIs`; `MonthOfIs`. `NextDayOk` is that tomorrow has such a date again. For daylight saving,
`Summer` says which hours the rule of the code counts (`OffsetIs`); on a Sunday the two hours of the
law are the only minutes to change it (`SummerMinute`), and midnight does not (`SummerMidnight`), so
the clock that the law moves and the rule that only looks at today agree. An hour of summer past
midnight is an hour of the next day, and of the same year or the next.

## 5. What is only model-checked

`CallsReturn`, `ExitEnds`, `LastBootEnds` and `PulsesGoOn` are liveness, which the provers do not
do. Every other property of a passing run is stated by a theorem above.

The library's induction theorems take an operator as a parameter, which the installed provers cannot
instantiate. Where a proof is about a recursive function or a fold (the chunks laid end to end, the
two decoders, the bits of a checksum), or about a list of any length, its induction is done by hand:
the set of numbers for which the claim fails would have a least element (`Least`, from the
well-foundedness of the order), and that element is refuted; for finite sets, one element is added
at a time (`SubsetInduction`). No module that is proved about, nor one it uses, declares a RECURSIVE
operator.

## 6. Findings

1. `ind_alloc.c:43`: `ret = sbrk(padding)` is the cursor before the padding, so the address is
   unaligned whenever padding was needed, and the padding is behind the block (run `heap_align`).
2. `ind_crt0.c:415`: tables outside ROM are adjusted by `-ramtoromoffset`, memset and its like four
   lines below by `+ramtoromoffset`; the comment above says that the ROM version is meant (run
   `boot_secinfo`).
3. `ind_trnc.c:147`: the temporary name is chosen, and its file created 26 lines later; the comment
   at line 122 says "REENTRANT" (run `truncate_reentrant`).

Read in the code, and not the subject of a run:

- Heap: `pt + size` may wrap and pass both comparisons (`ind_heap.c:81`).
- Locks: `_Exit` and the heap depend on a lock whose default body is empty; a lock call that fails
  on Solaris or LynxOS returns without the lock (`ind_lockcpp.c:98`); the Mercury branch does not
  nest.
- Exit list: `init_callgraph` tests and sets func with no lock (`ind_gprf.c:392`): two threads in it
  push the node twice, its `next` points to itself, `_Exit` never ends.
- Call graph: a call made by an interrupt handler while another is being recorded is not counted, and
  no dump says so (`ind_gprf.c:443`). The dump sets the guard at its start and is one step of the
  model: that the functions it calls itself are turned away is not checked. Clear zeroes the pool but not `__ghscallgraph_arcpool_next` (`ind_gprf.c:179`); `>=`
  reports a pool that was exactly large enough (`:232`), although the recorder sets the index one
  higher so that the two cases can be told apart (`:494`); clearing while the program is stopped
  inside the recorder.
- Call count: the counter is tested before the lock and not again (`ind_mprf.c:311`); the dump's
  early return (`:229`).
- Sampling: the flush at exit loads the count, traps and resets the count (`ind_manprf.c:140` to
  142) with the interrupt enabled. A sample taken after the load is not sent and its place is
  forgotten by the reset; a sample taken after the reset stays in the buffer. If one of these fills
  the buffer, the handler sends all of it and the call sends the same places again.
  `SamplingExact` says that the only samples lost are those of such interrupts (`late`); that others
  may be sent twice it allows. On the ColdFire PITs the comment of `coldfire_manprf.h:181` says IMRL, but the address
  is that of IMRH, and the mask of all sources is never cleared.
- Truncate: when the copy back fails, the only good copy is unlinked (`ind_trnc.c:218`); a `stat`
  that fails for another reason makes `tmpnam` take a name that exists.
- Signals: two threads on the shared table may meet in its set-up or in each other's entries.
- Boot: the reset handler keeps argc and argv in registers that the ECC fill uses (`crt0.ppc:58`,
  `mpc563x.ppc:44`), and `ind_crt0.c:121` trusts them; without a host a system call returns its own
  number.
- Checksum: `__cksumsects` leaves out the RAM copies of sections and `__cksumsects_psinfo` cannot, so
  the latter answers -1 for a program that has changed its own data. `__cksumsects` ignores `SECINFO_CHECKSUM`, and a section of less than four bytes makes
  the size wrap.
- Application: the comments at `main.c:40` say 250 and 500, the code 500 and 999.

## 7. What is not modelled, and why

- Formats of `mon.out`, `gmon.out` and `bmon.out`, messages, and the assembly stubs that save
  registers: no property is about them.
- The PowerPC assembly versions of memcpy and memset, the instruction RAM branch of `ind_initmem.c`,
  the StarCore and other processors' branches, the patching of flash by the debugger (`ind_crt0.c`
  743 to 764): not in this build.
- The C++ exception clean-up that `_Exit` may call, and the items of asctime, tmpnam and strtok,
  whose code is outside this repository; the file locks of `ind_iob.c`, which are empty functions.
- Times beyond 32 bits and years beyond int; `time()`, which asks the host.
- Sections under the profile lock in `ind_mprf.c` are one step, and the debugger's clear and dump
  are taken between calls in the call graph and call count profilers; a debugger's dump during the
  dump at exit.
- Stack checking (one comparison), the system call trap, the rest of the wrappers, and what
  `__ghs_coverage_init` writes.
- The rest of `mpc563m.h`, a generated register map: the model has the registers `main.c` writes.

## 8. The plan

1. **Done**: heap, locks, exit list, call graph and call count; `Boot`; `MemOps`, `Unzip`,
   `Checksum`, `Calendar`; `Sampling`, `BlockCoverage`, `Signals`, `Truncate`, `ThreadLocal`,
   `Application`.
2. **Done**: a theorem for each safety property of a passing run.
3. `CallGraph` and `CallCount`: clears with the program stopped inside the recorder; the unguarded
   build of the recorder with threads.
4. `Profiling`: the composition of heap, exit list and a profiler under the one lock they share,
   where a dump at exit allocates and joins.
