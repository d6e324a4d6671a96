---------------------------- MODULE MCServices ----------------------------
(* The services a program uses while it runs, one of them at a time, and   *)
(* the demonstration program itself.  Signals, the first, is extended.     *)
EXTENDS Signals, Integers, TLC

VARIABLES
  which,
  dir, data, frame, faults,
  separate, profiling, exiting, blocklisthead, inserted, next, cnt, func, pc,
  routinfo, test, requests, ended, executed, file,
  port, running, pending, enabled, expired, vector, unmasked, maskall, epc,
  sample_count, profile_buffer, taken, sent, rest, main, isr, late,
  stmt, reg, locked, vco, count, out,
  threads, items, USE_THREAD_LOCAL_ERRNO, MINIMAL_STARTUP, errno, tm, eh, step,
  arg, ptr, failed, shown, result, thrown, uses

\* truncate: the first name tmpnam tries is taken, by somebody's file.
CONSTANTS Threads, Lengths, LBUFSIZ, MaxFaults, Path, Bytes
MCPath == [t \in Threads |-> IF t = 1 THEN 0 ELSE -1]
MCBytes == (1 :> <<9>>) @@ (0 :> <<1, 2, 3, 4, 5>>) @@ (-1 :> <<6, 7>>)
Trnc == INSTANCE Truncate

\* Block coverage.
CONSTANTS Thread, Routine, Marked, MaxCount, MaxRequests
Cov == INSTANCE BlockCoverage

\* The sampling interrupt.
CONSTANTS PROFBUFSIZE, MaxExpiries
Prf == INSTANCE Sampling

\* The demonstration program on its 8 MHz crystal; the counts between two edges
\* are represented by one or two of them.
CONSTANTS Crystal, Overshoot, Ticks
App == INSTANCE Application

\* errno, times and exceptions of each thread.
CONSTANTS Users, MaxUses, Times, Summer
Tls == INSTANCE ThreadLocal

trnc == <<dir, data, frame, faults>>
sgnl == <<active, provided, macro, handlers, ready, stack, calls, exited, armed>>
cov == <<separate, profiling, exiting, blocklisthead, inserted, next, cnt, func, pc,
         routinfo, test, requests, ended, executed, file>>
prf == <<port, running, pending, enabled, expired, vector, unmasked, maskall, epc,
         sample_count, profile_buffer, taken, sent, rest, main, isr, late>>
app == <<stmt, reg, locked, vco, count, out>>
tls == <<threads, items, USE_THREAD_LOCAL_ERRNO, MINIMAL_STARTUP, errno, tm, eh, step,
         arg, ptr, failed, shown, result, thrown, uses>>

NoTrnc == dir = <<>> /\ data = <<>> /\ frame = <<>> /\ faults = 0
NoSig == /\ active = {} /\ provided = FALSE /\ macro = FALSE /\ handlers = <<>>
         /\ ready = FALSE /\ stack = [t \in Callers |-> <<>>] /\ calls = 0 /\ exited = FALSE
         /\ armed = <<>>
NoCov == /\ separate = FALSE /\ profiling = "" /\ exiting = "" /\ blocklisthead = ""
         /\ inserted = {} /\ next = <<>> /\ cnt = <<>> /\ func = "" /\ pc = <<>>
         /\ routinfo = <<>> /\ test = "" /\ requests = 0 /\ ended = FALSE
         /\ executed = {} /\ file = <<>>
NoPrf == /\ port = <<>> /\ running = FALSE /\ pending = FALSE /\ enabled = FALSE
         /\ vector = FALSE /\ unmasked = FALSE /\ maskall = FALSE /\ epc = 0
         /\ expired = 0 /\ sample_count = 0 /\ profile_buffer = <<>> /\ taken = <<>>
         /\ sent = <<>> /\ rest = 0 /\ main = "" /\ isr = "" /\ late = {}
NoApp == /\ stmt = 99 /\ reg = [f \in App!Fields |-> 0] /\ locked = FALSE /\ vco = 0
         /\ count = 0 /\ out = <<>>
NoTls == /\ threads = {} /\ items = {} /\ USE_THREAD_LOCAL_ERRNO = FALSE
         /\ MINIMAL_STARTUP = FALSE /\ errno = <<>> /\ tm = <<>> /\ eh = <<>> /\ step = <<>>
         /\ arg = <<>> /\ ptr = <<>> /\ failed = <<>> /\ shown = <<>> /\ result = <<>>
         /\ thrown = <<>> /\ uses = 0

AllInit ==
  \/ which = "truncate"    /\ Trnc!Init /\ NoSig /\ NoCov /\ NoPrf /\ NoApp /\ NoTls
  \/ which = "signals"     /\ Init      /\ NoTrnc /\ NoCov /\ NoPrf /\ NoApp /\ NoTls
  \/ which = "coverage"    /\ Cov!Init  /\ NoTrnc /\ NoSig /\ NoPrf /\ NoApp /\ NoTls
  \/ which = "sampling"    /\ Prf!Init  /\ NoTrnc /\ NoSig /\ NoCov /\ NoApp /\ NoTls
  \/ which = "application" /\ App!Init  /\ NoTrnc /\ NoSig /\ NoCov /\ NoPrf /\ NoTls
  \/ which = "tls"         /\ Tls!Init  /\ NoTrnc /\ NoSig /\ NoCov /\ NoPrf /\ NoApp

AllNext ==
  /\ UNCHANGED which
  /\ \/ which = "truncate"    /\ Trnc!Next /\ UNCHANGED <<sgnl, cov, prf, app, tls>>
     \/ which = "signals"     /\ Next      /\ UNCHANGED <<trnc, cov, prf, app, tls>>
     \/ which = "coverage"    /\ Cov!Next  /\ UNCHANGED <<trnc, sgnl, prf, app, tls>>
     \/ which = "sampling"    /\ Prf!Next  /\ UNCHANGED <<trnc, sgnl, cov, app, tls>>
     \/ which = "application" /\ App!Next  /\ UNCHANGED <<trnc, sgnl, cov, prf, tls>>
     \/ which = "tls"         /\ Tls!Next  /\ UNCHANGED <<trnc, sgnl, cov, prf, app>>

all == <<which, trnc, sgnl, cov, prf, app, tls>>

AllSpec == AllInit /\ [][AllNext]_all /\ App!Fairness

\* What truncate leaves behind when it says 0, and what it never loses.
TruncateExact == which = "truncate" => Trnc!TruncateExact
BytesKept == which = "truncate" => Trnc!BytesKept

\* A dump of block coverage misses nothing and repeats nothing.
CoverageComplete == which = "coverage" => Cov!CoverageComplete

\* At most one sample for each expiry of the timer; each is sent once and in order,
\* but for what an interrupt in the midst of the flush at exit repeats or loses.
SamplingExact == which = "sampling" => Prf!SamplingExact

\* The clock stays within 64 MHz, and the two pulses apart, forever.
ClockBounded == which = "application" => App!ClockBounded
PulsesApart == which = "application" => App!PulsesApart
PulsesGoOn == which = "application" => App!PulsesGoOn

\* A thread finds what it has left itself in the data that is its own.
OwnCopies == which = "tls" => Tls!OwnCopies
===========================================================================
