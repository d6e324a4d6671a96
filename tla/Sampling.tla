----------------------------- MODULE Sampling -----------------------------
(* The timer-driven profiler of ind_manprf.c on each of the timers that    *)
(* the port headers drive: an interrupt puts the program counter into a    *)
(* static buffer, and a full buffer, or the rest of it at exit, goes to    *)
(* the debug server.  What the timers do is taken from the comments of the *)
(* headers; a period is one step of the clock.                             *)
EXTENDS Naturals, Sequences

CONSTANTS
  PROFBUFSIZE,
  MaxExpiries     \* how often the timer expires

VARIABLES
  port,           \* the timer this build drives
  running, pending, enabled, expired,
  vector, unmasked, maskall,  \* the way of the interrupt to its handler
  epc,            \* where GET_EPC finds the interrupted program counter
  sample_count, profile_buffer,
  taken, sent,    \* the samples of the interrupts, and what the server got
  rest,           \* the count that the flush at exit has loaded to send
  main, isr,      \* where the program and the interrupt handler are
  late            \* the samples of interrupts between that load and the reset

timer == <<running, pending, expired>>
route == <<vector, unmasked, maskall>>
vars == <<port, timer, route, enabled, epc, sample_count, profile_buffer, taken, sent,
          rest, main, isr, late>>

\* A timer may stop when it expires.  It is started by TIMER_INIT, in the program
\* ("init") and in the handler ("reinit"), by ENABLE_TIMER_INTERRUPT or by
\* CLEAR_TIMER_INTERRUPT; TIMER_INIT, CLEAR_TIMER_INTERRUPT or taking the interrupt
\* acknowledges it.  Its vector is linked, or stored by the set-up in TIMER_INIT or
\* by ENABLE_TIMER_INTERRUPT.
Port(stops, starts, acks, stored) ==
  [stops |-> stops, starts |-> starts, acks |-> acks, stored |-> stored,
   masked |-> FALSE, shared |-> FALSE, wrapped |-> FALSE]
\* Decrementer of the 440 with IVPR and IVOR10, PIT of the 40x with EVPR; TSR written.
BookE     == Port(TRUE, {"init", "reinit"}, "init", "enable")
\* The same decrementer, whose time base stands still until HID0[TBEN] is set.
E500      == Port(TRUE, {"enable", "reinit"}, "init", "enable")
Classic   == Port(FALSE, {"init", "reinit"}, "entry", "linked")  \* vector 0x900
SysTick   == Port(FALSE, {"enable"}, "entry", "linked")
Edb7212   == Port(FALSE, {"init", "reinit"}, "clear", "linked")  \* TC1EOI
Mips      == Port(FALSE, {"init", "reinit"}, "init", "linked")   \* compare register
Blackfin  == Port(TRUE, {"enable", "clear"}, "clear", "enable")  \* TCNTL = 3, EVT6
Pit       == Port(FALSE, {"init", "reinit"}, "clear", "linked")  \* MCF5282, PIF
Pit5213   == Port(FALSE, {"init", "reinit"}, "clear", "linked")  \* MCF5213, PIF
Timer0    == Port(FALSE, {"init", "reinit"}, "clear", "linked")  \* other ColdFires, TER

\* On ColdFire the vector is linked or stored at run time, the source may be masked,
\* and a wrapper in assembly leads to the handler.  The PITs' setup means to clear
\* the mask of all sources in IMRL, but the address it writes is that of IMRH.
Setup(stored, masked, shared) == [stored |-> stored, masked |-> masked, shared |-> shared]
Setup5272 == Setup("linked", FALSE, FALSE)
Setup5282 == Setup("init", TRUE, TRUE)
Setup5213 == Setup("init", TRUE, TRUE)
SetupAutovectored == Setup("linked", TRUE, FALSE)
Wrapped(timer0, setup) ==
  [timer0 EXCEPT !.stored = setup.stored, !.masked = setup.masked,
                 !.shared = setup.shared, !.wrapped = TRUE]
ColdFires ==
  {Wrapped(Timer0, SetupAutovectored), Wrapped(Timer0, Setup5272),
   Wrapped(Pit, Setup5282), Wrapped(Pit5213, Setup5213)}
Ports == {BookE, E500, Classic, SysTick, Edb7212, Mips, Blackfin} \cup ColdFires

Init ==
  /\ port \in Ports
  /\ running = FALSE /\ pending = FALSE /\ enabled = FALSE /\ expired = 0
  /\ vector = (port.stored = "linked") /\ unmasked = ~port.masked /\ epc = 0
  /\ maskall \in {FALSE, port.shared}    \* what the board's monitor left
  /\ sample_count = 0 /\ profile_buffer = [k \in 0..PROFBUFSIZE-1 |-> 0]
  /\ taken = <<>> /\ sent = <<>>
  /\ rest = 0 /\ main = "setup" /\ isr = "idle" /\ late = {}

\* What a macro of the port does to the timer and to its vector.
Starts(op) == running' = (running \/ op \in port.starts)
Stores(op) == vector' = (vector \/ port.stored = op)
Acks(op) == pending' = (pending /\ port.acks # op)
Buffer == <<sample_count, profile_buffer, taken, sent>>
Buffered == [k \in 1..sample_count |-> profile_buffer[k-1]]
In(k, s) == \E i \in 1..Len(s) : s[i] = k

Expire ==
  /\ running /\ expired < MaxExpiries /\ main # "ended"
  /\ expired' = expired + 1 /\ pending' = TRUE
  /\ running' = ~port.stops
  /\ UNCHANGED <<port, route, enabled, epc, Buffer, rest, main, isr, late>>

-----------------------------------------------------------------------------
\* __ghs_manprf_init, then the program, then _Exit.  The setup of the interrupt is
\* part of the ColdFires' TIMER_INIT; the handler's calls of it change nothing.
StoreVector ==
  /\ main = "setup" /\ main' = "unmask" /\ Stores("init")
  /\ UNCHANGED <<port, timer, unmasked, maskall, enabled, epc, Buffer, rest, isr, late>>
Unmask ==
  /\ main = "unmask" /\ main' = "init" /\ unmasked' = TRUE
  /\ UNCHANGED <<port, timer, vector, maskall, enabled, epc, Buffer, rest, isr, late>>
TimerInit ==
  /\ main = "init" /\ isr = "idle" /\ main' = "vector"
  /\ Starts("init") /\ Acks("init")
  /\ UNCHANGED <<port, route, epc, expired, enabled, Buffer, rest, isr, late>>
\* The rest of __ghs_manprf_init is ENABLE_TIMER_INTERRUPT: first the vector.
EnableVector ==
  /\ main = "vector" /\ main' = "enable" /\ Stores("enable")
  /\ UNCHANGED <<port, timer, unmasked, maskall, enabled, epc, Buffer, rest, isr, late>>
EnableTimer ==
  /\ main = "enable" /\ main' = "run" /\ enabled' = TRUE
  /\ Starts("enable")
  /\ UNCHANGED <<port, route, epc, pending, expired, Buffer, rest, isr, late>>
End ==
  /\ main = "run" /\ isr = "idle"
  /\ main' = IF sample_count > 0 THEN "flush" ELSE "exit"
  /\ UNCHANGED <<port, route, epc, timer, enabled, Buffer, rest, isr, late>>
\* The count is loaded as an argument of the system call, which is a trap; the
\* debug server reads the buffer while the processor stands still.
LoadCount ==
  /\ main = "flush" /\ isr = "idle" /\ main' = "send"
  /\ rest' = sample_count
  /\ UNCHANGED <<port, route, epc, timer, enabled, Buffer, isr, late>>
SendRest ==
  /\ main = "send" /\ isr = "idle" /\ main' = "reset"
  /\ sent' = sent \o [k \in 1..rest |-> profile_buffer[k-1]]
  /\ UNCHANGED <<port, route, epc, timer, enabled, sample_count, profile_buffer, taken,
                 rest, isr, late>>
ResetCount ==
  /\ main = "reset" /\ isr = "idle" /\ main' = "exit"
  /\ sample_count' = 0
  /\ UNCHANGED <<port, route, epc, timer, enabled, profile_buffer, taken, sent,
                 rest, isr, late>>
Exit ==
  /\ main = "exit" /\ isr = "idle" /\ main' = "ended"
  /\ UNCHANGED <<port, route, epc, timer, enabled, Buffer, rest, isr, late>>

-----------------------------------------------------------------------------
\* The interrupt handler runs with interrupts off.
Interrupt ==
  /\ pending /\ unmasked /\ ~maskall /\ enabled /\ isr = "idle" /\ main # "ended"
  /\ pending' = (port.acks # "entry")
  /\ late' = IF main \in {"send", "reset"} THEN late \cup {Len(taken) + 1} ELSE late
  /\ IF port.wrapped
     THEN isr' = "wrapper" /\ UNCHANGED epc
     ELSE isr' = "sample" /\ epc' = Len(taken) + 1
  /\ UNCHANGED <<port, route, running, expired, enabled, Buffer, rest, main>>
\* With all interrupts off, the wrapper saves the program counter of the exception
\* in a global variable.
Wrapper ==
  /\ isr = "wrapper" /\ isr' = "sample" /\ epc' = Len(taken) + 1
  /\ UNCHANGED <<port, timer, route, enabled, Buffer, rest, main, late>>
Sample ==
  /\ isr = "sample"
  /\ profile_buffer' = [profile_buffer EXCEPT ![sample_count] = epc]
  /\ taken' = Append(taken, Len(taken) + 1)
  /\ sample_count' = sample_count + 1
  /\ isr' = IF sample_count' >= PROFBUFSIZE THEN "flush" ELSE "init"
  /\ UNCHANGED <<port, route, epc, timer, enabled, sent, rest, main, late>>
Flush ==
  /\ isr = "flush" /\ isr' = "init"
  /\ sent' = sent \o Buffered /\ sample_count' = 0
  /\ UNCHANGED <<port, route, epc, timer, enabled, profile_buffer, taken, rest, main, late>>
\* A mutant of Reinit: the handler acknowledges the timer but does not set it.
ReinitForgotten ==
  /\ isr = "init" /\ isr' = "clear"
  /\ Acks("init")
  /\ UNCHANGED <<port, route, epc, running, expired, enabled, Buffer, rest, main, late>>
Reinit ==
  /\ isr = "init" /\ isr' = "clear"
  /\ Starts("reinit") /\ Acks("init")
  /\ UNCHANGED <<port, route, epc, expired, enabled, Buffer, rest, main, late>>
ClearInterrupt ==
  /\ isr = "clear" /\ isr' = "idle"
  /\ Starts("clear") /\ Acks("clear")
  /\ UNCHANGED <<port, route, epc, expired, enabled, Buffer, rest, main, late>>

Next ==
  \/ Expire \/ StoreVector \/ Unmask \/ TimerInit \/ EnableVector \/ EnableTimer
  \/ End \/ LoadCount \/ SendRest \/ ResetCount \/ Exit
  \/ Interrupt \/ Wrapper \/ Sample \/ Flush \/ Reinit \/ ClearInterrupt

Spec == Init /\ [][Next]_vars

(* ------------------------------ properties ------------------------------ *)

\* On every port the interrupt samples at most once per expiry and leaves the timer
\* ready to expire again, no interrupt can come before its vector is stored and its
\* source unmasked, and the buffer is never overrun.  Up to the system call of the
\* flush at exit every sample is buffered or has gone to the server, once and in
\* order.  An interrupt between the load of the count for that call and the reset of
\* the count (ind_manprf.c:140 to 142) makes samples go twice or not at all, but the
\* only ones that are lost are of such interrupts.
SamplingExact ==
  /\ Len(taken) <= expired
  /\ enabled /\ isr = "idle" => running \/ pending
  /\ enabled => vector /\ unmasked
  /\ sample_count <= PROFBUFSIZE
  /\ main \notin {"reset", "exit", "ended"} => sent \o Buffered = taken
  /\ late = {} /\ main # "reset" => sent \o Buffered = taken
  /\ \A k \in 1..Len(taken) : k \in late \/ In(k, sent) \/ In(k, Buffered)

-----------------------------------------------------------------------------
(* The inductive invariant of ServicesProofs                               *)

Before == {"setup", "unmask", "init"}
Mains == Before \cup {"vector", "enable", "run", "flush", "send", "reset", "exit", "ended"}
Isrs == {"idle", "wrapper", "sample", "flush", "init", "clear"}

TypeOK ==
  /\ port \in Ports
  /\ running \in BOOLEAN /\ pending \in BOOLEAN /\ enabled \in BOOLEAN /\ expired \in Nat
  /\ vector \in BOOLEAN /\ unmasked \in BOOLEAN /\ maskall \in BOOLEAN /\ epc \in Nat
  /\ sample_count \in 0..PROFBUFSIZE /\ rest \in 0..PROFBUFSIZE
  /\ profile_buffer \in [0..PROFBUFSIZE-1 -> Nat]
  /\ taken \in Seq(Nat) /\ sent \in Seq(Nat)
  /\ main \in Mains /\ isr \in Isrs /\ late \subseteq Nat

\* The setup is in order: who stores the vector does so before the interrupt.
SetupInv ==
  /\ main # "setup" /\ port.stored = "init" => vector
  /\ port.stored = "linked" => vector
  /\ main \notin Before \cup {"vector"} => vector
  /\ main \notin {"setup", "unmask"} => unmasked
  /\ enabled <=> main \notin Before \cup {"vector", "enable"}
  /\ isr # "idle" => enabled

\* A pending interrupt that is not the one being handled will be sampled too.
FreshPending ==
  /\ pending
  /\ \/ isr = "idle" \/ port.acks = "entry"
     \/ port.acks = "init" /\ isr = "clear"
Unsampled == (IF FreshPending THEN 1 ELSE 0) + (IF isr \in {"wrapper", "sample"} THEN 1 ELSE 0)

\* Once started the timer runs, or it has stopped and the handler is still to come.
Started == IF "init" \in port.starts THEN main \notin Before ELSE enabled
TimerInv ==
  /\ Len(taken) + Unsampled <= expired
  /\ IF Started THEN running \/ (port.stops /\ pending) ELSE ~running /\ ~pending

BufferInv ==
  /\ IF isr = "flush" THEN sample_count = PROFBUFSIZE ELSE sample_count < PROFBUFSIZE
  /\ isr = "sample" => epc = Len(taken) + 1
  /\ main \notin {"reset", "exit", "ended"} => sent \o Buffered = taken
  /\ late = {} =>
       /\ main \in {"send", "reset"} => isr = "idle"
       /\ main = "send" => rest = sample_count
       /\ IF main = "reset" THEN sent = taken ELSE sent \o Buffered = taken

\* Where the samples are that the flush at exit may not lose: those it has loaded
\* the count of are sent by its own call, or by a handler that fills the buffer.
OnTime == (1..Len(taken)) \ late
InRest(k) == \E i \in 0..rest-1 : profile_buffer[i] = k
LossInv ==
  /\ main \in {"send", "reset"} /\ isr \in {"wrapper", "sample"} => Len(taken) + 1 \in late
  /\ main \notin {"send", "reset"} => \A k \in OnTime : In(k, sent) \/ In(k, Buffered)
  /\ main = "send" => \/ \A k \in OnTime : In(k, sent)
                      \/ /\ rest <= sample_count
                         /\ \A k \in OnTime : In(k, sent) \/ InRest(k)
  /\ main = "reset" => \A k \in OnTime : In(k, sent)

IInv == TypeOK /\ SetupInv /\ TimerInv /\ BufferInv /\ LossInv
===========================================================================
