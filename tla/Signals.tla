------------------------------ MODULE Signals ------------------------------
(* signal and raise of ind_sgnl.c with the storage that ind_thrd.c gives   *)
(* them: the integrator may return a table per thread, and the file may be *)
(* built with USE_THREAD_LOCAL_SIGNAL; only both together make it private. *)
(* A handler is itself code that calls signal and raise.                   *)
EXTENDS Integers, Sequences, SequencesExt

CONSTANTS
  Callers,      \* the threads that may use signals
  Signal,       \* the signal numbers tried
  SIGKILL,
  Ignored,      \* the signals whose default is SIG_IGN
  Handler,      \* the functions a program installs
  MaxCalls,     \* the calls the threads make, all together
  MaxNested     \* how deep handlers and their calls nest

SIG_DFL == "SIG_DFL"
SIG_IGN == "SIG_IGN"
Dispositions == Handler \cup {SIG_DFL, SIG_IGN}
Static == 0                             \* the place of static_SignalHandlers

ASSUME StaticIsNobodys == Static \notin Callers

VARIABLES
  active,       \* the threads that use signals in this program
  provided,     \* does __ghs_GetThreadLocalStorageItem return a table?
  macro,        \* is USE_THREAD_LOCAL_SIGNAL defined?
  handlers,     \* the tables, one per thread and the static one
  ready,        \* __gh_signal_initialized
  stack,        \* the activations of each thread, innermost last
  calls,        \* how many calls have been made
  exited,       \* has __ghs_default_signal_handler ended the program?
  armed         \* what each thread has last asked for, and not yet received

vars == <<active, provided, macro, handlers, ready, stack, calls, exited, armed>>

Defaults == [sig \in Signal |-> IF sig \in Ignored THEN SIG_IGN ELSE SIG_DFL]

Init ==
  /\ active \in (SUBSET Callers) \ {{}}
  /\ provided \in BOOLEAN /\ macro \in BOOLEAN
  /\ handlers = [p \in Callers \cup {Static} |->
       IF p = Static THEN [sig \in Signal |-> SIG_DFL] ELSE Defaults]
  /\ ready = FALSE /\ exited = FALSE
  /\ stack = [t \in Callers |-> <<>>]
  /\ calls = 0
  /\ armed = [t \in Callers |-> Defaults]

Private == provided /\ macro
Place(t) == IF Private THEN t ELSE Static

Top(t) == Last(stack[t])
At(t, pc) == stack[t] # <<>> /\ Top(t).pc = pc /\ ~exited
Goto(t, pc) == stack' = [stack EXCEPT ![t][Len(stack[t])].pc = pc]
Pop(t) == stack' = [stack EXCEPT ![t] = Front(@)]
FileBuild == <<active, provided, macro>>

\* The program, or a handler that is running, calls signal or raise.
Call(t) ==
  /\ t \in active /\ ~exited /\ calls < MaxCalls /\ Len(stack[t]) < MaxNested
  /\ stack[t] # <<>> => Top(t).pc = "handler"
  /\ \E op \in {"signal", "raise"}, sig \in Signal, func \in Dispositions :
       /\ op = "raise" => func = SIG_DFL
       /\ stack' = [stack EXCEPT ![t] = Append(@,
            [pc |-> "test", op |-> op, sig |-> sig, func |-> func, temp |-> SIG_DFL])]
  /\ calls' = calls + 1
  /\ UNCHANGED <<FileBuild, handlers, ready, exited, armed>>

\* The static table is filled by whoever finds it not initialised: every entry
\* SIG_DFL, then some SIG_IGN, then the flag.
TestReady(t) ==
  /\ At(t, "test")
  /\ Goto(t, IF Private \/ ready THEN Top(t).op ELSE "default")
  /\ UNCHANGED <<FileBuild, handlers, ready, calls, exited, armed>>
FillDefault(t) ==
  /\ At(t, "default") /\ Goto(t, "ignore")
  /\ handlers' = [handlers EXCEPT ![Static] = [sig \in Signal |-> SIG_DFL]]
  /\ UNCHANGED <<FileBuild, ready, calls, exited, armed>>
FillIgnored(t) ==
  /\ At(t, "ignore") /\ Goto(t, "flag")
  /\ handlers' = [handlers EXCEPT ![Static] =
       [sig \in Signal |-> IF sig \in Ignored THEN SIG_IGN ELSE @[sig]]]
  /\ UNCHANGED <<FileBuild, ready, calls, exited, armed>>
SetReady(t) ==
  /\ At(t, "flag") /\ Goto(t, Top(t).op) /\ ready' = TRUE
  /\ UNCHANGED <<FileBuild, handlers, calls, exited, armed>>

\* signal exchanges the entry.
Exchange(t) ==
  /\ At(t, "signal")
  /\ handlers' = [handlers EXCEPT ![Place(t)][Top(t).sig] = Top(t).func]
  /\ armed' = [armed EXCEPT ![t][Top(t).sig] = Top(t).func]
  /\ Pop(t)
  /\ UNCHANGED <<FileBuild, ready, calls, exited>>

\* raise reads the entry, and for a function resets it before the call.
Fetch(t) ==
  /\ At(t, "raise")
  /\ stack' = [stack EXCEPT ![t][Len(stack[t])] =
                 [@ EXCEPT !.temp = handlers[Place(t)][Top(t).sig], !.pc = "decide"]]
  /\ UNCHANGED <<FileBuild, handlers, ready, calls, exited, armed>>
IsFatal(t) == Top(t).sig = SIGKILL \/ Top(t).temp = SIG_DFL
Fatal(t) ==
  /\ At(t, "decide") /\ IsFatal(t) /\ exited' = TRUE
  /\ UNCHANGED <<FileBuild, handlers, ready, stack, calls, armed>>
Ignore(t) ==
  /\ At(t, "decide") /\ ~IsFatal(t) /\ Top(t).temp = SIG_IGN /\ Pop(t)
  /\ UNCHANGED <<FileBuild, handlers, ready, calls, exited, armed>>
\* A mutant of Reset: the handler stays.
ResetForgotten(t) == UNCHANGED handlers
Reset(t) == handlers' = [handlers EXCEPT ![Place(t)][Top(t).sig] = SIG_DFL]
Enter(t) ==
  /\ At(t, "decide") /\ ~IsFatal(t) /\ Top(t).temp # SIG_IGN
  /\ Reset(t) /\ Goto(t, "handler")
  /\ armed' = [armed EXCEPT ![t][Top(t).sig] = SIG_DFL]
  /\ UNCHANGED <<FileBuild, ready, calls, exited>>
Leave(t) ==
  /\ At(t, "handler") /\ Pop(t)
  /\ UNCHANGED <<FileBuild, handlers, ready, calls, exited, armed>>

Step(t) ==
  \/ Call(t) \/ TestReady(t) \/ FillDefault(t) \/ FillIgnored(t) \/ SetReady(t)
  \/ Exchange(t) \/ Fetch(t) \/ Fatal(t) \/ Ignore(t) \/ Enter(t) \/ Leave(t)

Next == \E t \in Callers : Step(t)

Spec == Init /\ [][Next]_vars

(* ------------------------------ properties ------------------------------ *)

Alone == \A t, u \in active : t = u
Own == Private \/ Alone

\* A signal meets what its thread last asked for: a handler once for each call
\* of signal, then the default again (ind_sgnl.c:153 to 188), also when handlers
\* install handlers and raise signals.  It is claimed of one thread, and of several
\* that have a table each.  On one table another thread may have the last word.
RaiseAnswersOwn ==
  Own => \A t \in Callers : At(t, "decide") => Top(t).temp = armed[t][Top(t).sig]

-----------------------------------------------------------------------------
(* The inductive invariant of SignalsProofs                                *)

Filling == {"default", "ignore", "flag"}
Using == {"signal", "raise", "decide", "handler"}
Activation == [pc : {"test"} \cup Filling \cup Using, op : {"signal", "raise"},
               sig : Signal, func : Dispositions, temp : Dispositions]
Table == [Signal -> Dispositions]

TypeOK ==
  /\ active \subseteq Callers
  /\ handlers \in [Callers \cup {Static} -> Table] /\ armed \in [Callers -> Table]
  /\ stack \in [Callers -> Seq(Activation)]
  /\ ready \in BOOLEAN /\ exited \in BOOLEAN

\* All but the innermost activation are running a handler, and an activation
\* uses a table only once it is set up.
StackInv(t) ==
  /\ stack[t] # <<>> => t \in active
  /\ \A k \in 1 .. Len(stack[t]) - 1 : stack[t][k].pc = "handler"
  /\ \A k \in 1 .. Len(stack[t]) :
       /\ stack[t][k].pc \in Using => Private \/ ready
       /\ stack[t][k].pc \in Filling => ~Private

\* The table of a thread says what the thread asked for, once it is set up.
TableInv(t) ==
  /\ Private \/ ready => handlers[Place(t)] = armed[t]
  /\ ~Private /\ ~ready => armed[t] = Defaults
  /\ \A k \in 1 .. Len(stack[t]) :
       LET a == stack[t][k] IN
       /\ a.pc \in Filling => ~ready
       /\ a.pc = "ignore" => handlers[Static] = [sig \in Signal |-> SIG_DFL]
       /\ a.pc = "flag" => handlers[Static] = Defaults
       /\ a.pc = "decide" => a.temp = armed[t][a.sig]

IInv ==
  /\ TypeOK
  /\ \A t \in Callers : StackInv(t)
  /\ Own => \A t \in active : TableInv(t)
===========================================================================
