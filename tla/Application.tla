---------------------------- MODULE Application ----------------------------
(* main.c: the PLL is brought to 64 MHz, channel 23 of the eMIOS counts    *)
(* modulo 1000, and channels 0 and 2 make pulses from its count.  Each     *)
(* write of a register or of a bit-field is a step of the program; the PLL *)
(* and the counter go on between any two of them.  The peripherals do what *)
(* main.c's comments say.                                                  *)
EXTENDS Integers, Sequences

CONSTANTS
  Crystal,        \* MHz
  Overshoot,      \* how many times its target an unlocked PLL may reach
  Ticks           \* the counts at which something can happen

VARIABLES
  stmt,           \* the next statement of main
  reg,            \* the fields of the registers main writes
  locked, vco,    \* the PLL
  count,          \* counter bus A, driven by channel 23
  out             \* the outputs of channels 0 and 2

vars == <<stmt, reg, locked, vco, count, out>>

Outputs == {"CH0", "CH2"}
Pad(c) == IF c = "CH0" THEN "179" ELSE "181"

-----------------------------------------------------------------------------
\* The registers of mpc563m.h: of the PLL,
PllFields == {<<"SYNCR", "R">>, <<"ESYNCR1", "CLKCFG">>}
\* of the eMIOS,
UnitFields == {"MCR"} \X {"FRZ", "GTBE", "ETB", "GPREN", "GPRE"}
\* of its channels,
ChannelFields ==
  (Outputs \cup {"CH23"}) \X {"CADR", "CBDR", "FREN", "UCPRE", "UCPREN", "BSL", "EDPOL", "MODE"}
\* and of the pads.
PadFields == {"PCR"} \X {"179", "181"}
Fields == PllFields \cup UnitFields \cup ChannelFields \cup PadFields

\* The fields of SYNCR, most significant bit first: 1 reserved, PREDIV:3, MFD:5,
\* 1 reserved, RFD:3, and the rest.
PREDIV(word) == (word \div 2^28) % 2^3
MFD(word) == (word \div 2^23) % 2^5
RFD(word) == (word \div 2^19) % 2^3
\* Of a pad's register: 3 reserved, PA:3, OBE:1, and the rest.
PA(word) == (word \div 2^10) % 2^3
OBE(word) == (word \div 2^9) % 2

Target(word) == (Crystal * (MFD(word) + 4)) \div (PREDIV(word) + 1)
SYNCR == reg[<<"SYNCR", "R">>]
PllChosen == reg[<<"ESYNCR1", "CLKCFG">>] = 7
Sysclk == IF PllChosen THEN vco \div 2^RFD(SYNCR) ELSE Crystal
\* The dividers that make the PLL lose its lock when they change.
SameLoop(a, b) == PREDIV(a) = PREDIV(b) /\ MFD(a) = MFD(b)

-----------------------------------------------------------------------------
(* The statements of main.c: a register, a field and the value it gets.    *)

\* 0x16080000 for the lock, and 0x16000000 afterwards.
LockWord == 369623040
RunWord == 369098752
\* A mutant of FirstWord: the clock is not halved while the PLL locks.
FullSpeed == RunWord
FirstWord == LockWord

initSysclk ==
  << <<"ESYNCR1", "CLKCFG", 7>>, <<"SYNCR", "R", FirstWord>>,
     <<"SYNSR", "LOCK", 1>>, <<"SYNCR", "R", RunWord>> >>

\* A mutant of initEMIOS: the global time base is not enabled.
initEMIOSHalf ==
  << <<"MCR", "GPRE", 63>>, <<"MCR", "ETB", 0>>, <<"MCR", "GPREN", 1>>, <<"MCR", "FRZ", 1>> >>
initEMIOS ==
  << <<"MCR", "GPRE", 63>>, <<"MCR", "ETB", 0>>, <<"MCR", "GPREN", 1>>,
     <<"MCR", "GTBE", 1>>, <<"MCR", "FRZ", 1>> >>

initEMIOSch23 ==
  << <<"CH23", "CADR", 999>>, <<"CH23", "MODE", 80>>, <<"CH23", "BSL", 3>>,
     <<"CH23", "UCPRE", 0>>, <<"CH23", "FREN", 1>>, <<"CH23", "UCPREN", 1>> >>

initEMIOSch0 ==
  << <<"CH0", "CADR", 250>>, <<"CH0", "CBDR", 500>>, <<"CH0", "BSL", 0>>,
     <<"CH0", "EDPOL", 1>>, <<"CH0", "MODE", 96>>, <<"PCR", "179", 3584>> >>

\* A mutant of initEMIOSch2: the edges are where its comments say.
initEMIOSch2Commented ==
  << <<"CH2", "CADR", 250>>, <<"CH2", "CBDR", 500>>, <<"CH2", "BSL", 0>>,
     <<"CH2", "EDPOL", 1>>, <<"CH2", "MODE", 96>>, <<"PCR", "181", 3584>> >>
initEMIOSch2 ==
  << <<"CH2", "CADR", 500>>, <<"CH2", "CBDR", 999>>, <<"CH2", "BSL", 0>>,
     <<"CH2", "EDPOL", 1>>, <<"CH2", "MODE", 96>>, <<"PCR", "181", 3584>> >>

main == initSysclk \o initEMIOS \o initEMIOSch23 \o initEMIOSch0 \o initEMIOSch2

-----------------------------------------------------------------------------
Init ==
  /\ stmt = 1
  /\ reg = [f \in Fields |-> 0]
  /\ locked = FALSE /\ vco = Crystal
  /\ count = 0 /\ out = [c \in Outputs |-> 0]

Field(k) == <<main[k][1], main[k][2]>>
Advance == stmt <= Len(main) /\ stmt' = stmt + 1
Set == reg' = [reg EXCEPT ![Field(stmt)] = main[stmt][3]]

\* A write of SYNCR may throw the PLL out of its lock.
WriteSYNCR ==
  /\ Advance /\ main[stmt][1] = "SYNCR" /\ Set
  /\ LET same == SameLoop(SYNCR, main[stmt][3]) IN
     /\ locked' = (locked /\ same)
     /\ vco' = IF same THEN vco ELSE Target(main[stmt][3])
  /\ UNCHANGED <<count, out>>

WaitLock ==
  /\ Advance /\ main[stmt][1] = "SYNSR" /\ locked
  /\ UNCHANGED <<reg, locked, vco, count, out>>

WriteField ==
  /\ Advance /\ main[stmt][1] \notin {"SYNCR", "SYNSR"} /\ Set
  /\ UNCHANGED <<locked, vco, count, out>>

\* At the end main waits forever.
Program == WriteSYNCR \/ WaitLock \/ WriteField

-----------------------------------------------------------------------------
\* The PLL hunts around its target until it locks on it.
Hunt ==
  /\ PllChosen /\ ~locked /\ SYNCR # 0
  /\ vco' \in {0, Target(SYNCR), Overshoot * Target(SYNCR)}
  /\ UNCHANGED <<stmt, reg, locked, count, out>>
Lock ==
  /\ PllChosen /\ ~locked /\ SYNCR # 0
  /\ locked' = TRUE /\ vco' = Target(SYNCR)
  /\ UNCHANGED <<stmt, reg, count, out>>

\* Channel 23 counts on counter bus A once both prescalers, the global time base
\* and its mode are on.
Counting ==
  /\ reg[<<"MCR", "GPREN">>] = 1 /\ reg[<<"MCR", "GTBE">>] = 1 /\ reg[<<"MCR", "ETB">>] = 0
  /\ reg[<<"CH23", "UCPREN">>] = 1 /\ reg[<<"CH23", "MODE">>] = 80 /\ reg[<<"CH23", "BSL">>] = 3
NextCount ==
  LET later == {k \in Ticks : k > count /\ k <= reg[<<"CH23", "CADR">>]} IN
  IF later = {} THEN 0 ELSE CHOOSE k \in later : \A j \in later : k <= j
\* A channel in OPWM on bus A has its leading edge at CADR and its trailing one
\* at CBDR; EDPOL is the level the leading edge sets.
Edge(c) ==
  IF reg[<<c, "MODE">>] # 96 \/ reg[<<c, "BSL">>] # 0 THEN out[c]
  ELSE IF reg[<<c, "CBDR">>] = NextCount THEN 1 - reg[<<c, "EDPOL">>]
  ELSE IF reg[<<c, "CADR">>] = NextCount THEN reg[<<c, "EDPOL">>]
  ELSE out[c]
Tick ==
  /\ Counting
  /\ count' = NextCount
  /\ out' = [c \in Outputs |-> Edge(c)]
  /\ UNCHANGED <<stmt, reg, locked, vco>>

Next == Program \/ Hunt \/ Lock \/ Tick

\* The processor runs, the counter counts, and the PLL locks in the end.
Fairness == WF_vars(Program) /\ WF_vars(Lock) /\ WF_vars(Tick)

Spec == Init /\ [][Next]_vars /\ Fairness

(* ------------------------------ properties ------------------------------ *)

\* The system clock never exceeds the 64 MHz it is brought to (main.c:52), while
\* the PLL locks as well as afterwards, and the counter never counts but at
\* the 1 MHz its period and the edges are reckoned in (main.c:14).
ClockBounded ==
  /\ Sysclk <= 64
  /\ Counting => Sysclk = (reg[<<"MCR", "GPRE">>] + 1) * (reg[<<"CH23", "UCPRE">>] + 1)

\* The two pulses never overlap on the pads, also while the channels are set up
\* with the counter running.
Driven(c) == LET word == reg[<<"PCR", Pad(c)>>] IN PA(word) = 3 /\ OBE(word) = 1
High(c) == Driven(c) /\ out[c] = 1
PulsesApart == ~(High("CH0") /\ High("CH2"))

\* Both outputs go on pulsing once the PLL has locked.
PulsesGoOn == \A c \in Outputs : ([]<>(High(c))) /\ ([]<>(Driven(c) /\ out[c] = 0))
===========================================================================
