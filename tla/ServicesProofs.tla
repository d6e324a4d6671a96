--------------------------- MODULE ServicesProofs ---------------------------
(* The services, each by itself and among the others: MCServices has one   *)
(* specification for all of them, of which exactly one runs.  Signals is   *)
(* extended; what belongs to another service has the name of its instance  *)
(* in front: Prf for the sampling interrupt, Tls for thread-local data,    *)
(* App for the demonstration program, Cov for block coverage and Trnc for  *)
(* truncate.                                                               *)
EXTENDS MCServices, SequenceTheorems, FiniteSetTheorems, WellFoundedInduction, TLAPS

-----------------------------------------------------------------------------
(* Signals: a signal meets what its thread last asked for, however deep     *)
(* handlers nest, for one thread and, where each has a table, for any       *)
(* number.                                                                  *)

(* A stack that grows, shrinks and changes at its top. *)
LEMMA Push ==
  ASSUME NEW S, NEW s \in Seq(S), NEW e \in S
  PROVE  /\ Append(s, e) \in Seq(S) /\ Len(Append(s, e)) = Len(s) + 1 /\ Len(s) \in Nat
         /\ Append(s, e) # <<>>
         /\ \A k \in 1 .. Len(s) : Append(s, e)[k] = s[k]
         /\ Append(s, e)[Len(s) + 1] = e
  OBVIOUS

LEMMA Pushed ==
  ASSUME NEW S, NEW s \in Seq(S), s # <<>>
  PROVE  Len(s) \in Nat \ {0} /\ Last(s) = s[Len(s)] /\ Last(s) \in S
<1>1. Len(s) \in Nat \ {0}
  BY EmptySeq
<1> QED
  BY <1>1 DEF Last

LEMMA Popped ==
  ASSUME NEW S, NEW s \in Seq(S), s # <<>>
  PROVE  /\ Front(s) \in Seq(S) /\ Len(Front(s)) = Len(s) - 1
         /\ \A k \in 1 .. Len(Front(s)) : Front(s)[k] = s[k]
<1>1. Len(s) \in Nat \ {0}
  BY Pushed
<1>2. \A k \in 1 .. Len(s) - 1 : s[k] \in S
  BY <1>1, ElementOfSeq
<1>3. /\ SubSeq(s, 1, Len(s) - 1) \in Seq(S)
      /\ Len(SubSeq(s, 1, Len(s) - 1)) = Len(s) - 1
  <2> DEFINE n == Len(s) - 1
  <2>1. n \in Nat /\ n \in Int /\ 1 \in Int /\ \A k \in 1 .. n : s[k] \in S
    BY <1>1, <1>2
  <2> HIDE DEF n
  <2>2. SubSeq(s, 1, n) \in Seq(S) /\ Len(SubSeq(s, 1, n)) = IF 1 <= n THEN n - 1 + 1 ELSE 0
    BY <2>1, SubSeqProperties
  <2>3. Len(SubSeq(s, 1, n)) = n
    BY <2>1, <2>2
  <2> QED
    BY <2>2, <2>3 DEF n
<1>4. \A k \in 1 .. Len(s) - 1 : SubSeq(s, 1, Len(s) - 1)[k] = s[k]
  BY <1>1
<1> QED
  BY <1>3, <1>4 DEF Front

LEMMA SetTop ==
  ASSUME NEW S, NEW s \in Seq(S), s # <<>>, NEW e \in S
  PROVE  LET r == [s EXCEPT ![Len(s)] = e] IN
         /\ r \in Seq(S) /\ Len(r) = Len(s) /\ r # <<>> /\ r[Len(s)] = e
         /\ \A k \in 1 .. Len(s) - 1 : r[k] = s[k]
<1> DEFINE n == Len(s)
           r == [s EXCEPT ![n] = e]
<1>1. n \in Nat \ {0} /\ s \in [1 .. n -> S]
  BY Pushed, LenProperties
<1> HIDE DEF n
<1>2. r \in [1 .. n -> S] /\ r[n] = e /\ \A k \in 1 .. n - 1 : r[k] = s[k]
  BY <1>1
<1> HIDE DEF r
<1>3. r \in Seq(S) /\ Len(r) = n /\ r # <<>>
  BY <1>1, <1>2
<1> QED
  BY <1>2, <1>3 DEF n, r

LEMMA DefaultsType == Defaults \in Table /\ [sig \in Signal |-> SIG_DFL] \in Table
  BY DEF Defaults, Table, Dispositions

(* The other threads keep what they have: a private table is not touched,  *)
(* and without private tables there are none.                              *)
LEMMA Others ==
  ASSUME IInv, NEW t \in active, UNCHANGED FileBuild,
         ready' = ready \/ ready' = TRUE,
         \A u \in Callers \ {t} : stack'[u] = stack[u] /\ armed'[u] = armed[u],
         Private => \A u \in Callers \ {t} : handlers'[u] = handlers[u]
  PROVE  /\ \A u \in Callers \ {t} : StackInv(u)'
         /\ Own' => \A u \in active' \ {t} : TableInv(u)'
<1>1. active' = active /\ Private' = Private /\ (Own' <=> Own) /\ active \subseteq Callers
  BY DEF FileBuild, Private, Own, Alone, IInv, TypeOK
<1>2. \A u \in Callers \ {t} : StackInv(u)'
  BY <1>1 DEF IInv, StackInv
<1>3. ASSUME Own, NEW u \in active \ {t} PROVE TableInv(u)'
  <2>1. Private /\ TableInv(u) /\ u \in Callers
    BY <1>1, <1>3 DEF IInv, Own, Alone
  <2>2. Place(u) = u /\ Place(u)' = u
    BY <1>1, <2>1 DEF Place
  <2>3. StackInv(u)
    BY <2>1 DEF IInv
  <2> QED
    BY <1>1, <2>1, <2>2, <2>3 DEF TableInv, StackInv, Filling
<1> QED
  BY <1>1, <1>2, <1>3

(* What a step has to show for its own thread. *)
LEMMA OwnStep ==
  ASSUME IInv, NEW t \in active, UNCHANGED FileBuild, TypeOK',
         ready' = ready \/ ready' = TRUE,
         \A u \in Callers \ {t} : stack'[u] = stack[u] /\ armed'[u] = armed[u],
         Private => \A u \in Callers \ {t} : handlers'[u] = handlers[u],
         StackInv(t)', Own => TableInv(t)'
  PROVE  IInv'
<1>1. (Own' <=> Own) /\ active' = active
  BY DEF FileBuild, Private, Own, Alone
<1>2. /\ \A u \in Callers \ {t} : StackInv(u)'
      /\ Own' => \A u \in active' \ {t} : TableInv(u)'
  BY Others
<1> QED
  BY <1>1, <1>2 DEF IInv

LEMMA CallInv ==
  ASSUME IInv, NEW t \in Callers, Call(t)
  PROVE  IInv'
<1>1. PICK a \in Activation :
        a.pc = "test" /\ stack' = [stack EXCEPT ![t] = Append(@, a)]
  <2>1. PICK op \in {"signal", "raise"}, sig \in Signal, disp \in Dispositions :
          stack' = [stack EXCEPT ![t] = Append(@,
            [pc |-> "test", op |-> op, sig |-> sig, func |-> disp, temp |-> SIG_DFL])]
    BY DEF Call
  <2>2. [pc |-> "test", op |-> op, sig |-> sig, func |-> disp, temp |-> SIG_DFL] \in Activation
    BY DEF Activation, Dispositions
  <2> QED
    BY <2>1, <2>2
<1>2. /\ t \in active /\ UNCHANGED <<FileBuild, handlers, ready, exited, armed>>
      /\ stack[t] # <<>> => Top(t).pc = "handler"
  BY DEF Call
<1>3. TypeOK /\ StackInv(t) /\ stack[t] \in Seq(Activation)
  BY DEF IInv, TypeOK
<1>4. /\ stack'[t] = Append(stack[t], a) /\ stack' \in [Callers -> Seq(Activation)]
      /\ \A u \in Callers \ {t} : stack'[u] = stack[u]
  BY <1>1, <1>3, Push DEF TypeOK
<1>5. /\ Len(stack'[t]) = Len(stack[t]) + 1 /\ Len(stack[t]) \in Nat
      /\ \A k \in 1 .. Len(stack[t]) : stack'[t][k] = stack[t][k]
      /\ stack'[t][Len(stack[t]) + 1] = a
  BY <1>3, <1>4, Push
<1>6. Len(stack[t]) # 0 => stack[t][Len(stack[t])].pc = "handler"
  BY <1>2, <1>3, Pushed, EmptySeq DEF Top
<1>7. \A k \in 1 .. Len(stack[t]) : stack'[t][k].pc = "handler"
  BY <1>3, <1>5, <1>6, SMTT(30) DEF StackInv
<1>8. TypeOK'
  BY <1>2, <1>3, <1>4 DEF TypeOK, FileBuild
<1>9. StackInv(t)'
  BY <1>1, <1>2, <1>3, <1>5, <1>7 DEF StackInv, FileBuild, Private, Using, Filling
<1>10. Own => TableInv(t)'
  BY <1>1, <1>2, <1>5, <1>7, SMTT(30) DEF IInv, TableInv, FileBuild, Private, Place, Filling
<1> QED
  BY <1>2, <1>4, <1>8, <1>9, <1>10, OwnStep

(* The innermost activation of a thread that is at a step. *)
LEMMA Innermost ==
  ASSUME IInv, NEW t \in Callers, NEW label, At(t, label)
  PROVE  /\ t \in active /\ stack[t] \in Seq(Activation) /\ stack[t] # <<>>
         /\ Len(stack[t]) \in Nat \ {0} /\ Top(t) = stack[t][Len(stack[t])]
         /\ Top(t) \in Activation /\ Top(t).pc = label
         /\ TypeOK /\ StackInv(t) /\ (Own => TableInv(t))
         /\ Place(t) \in Callers \cup {Static}
<1>1. TypeOK /\ StackInv(t) /\ stack[t] # <<>> /\ Top(t).pc = label /\ t \in active
  BY DEF IInv, At, StackInv
<1>2. stack[t] \in Seq(Activation)
  BY <1>1 DEF TypeOK
<1> QED
  BY <1>1, <1>2, Pushed DEF IInv, Top, Place

LEMMA Goes ==
  ASSUME IInv, NEW t \in Callers, NEW from, At(t, from), NEW e \in Activation,
         stack' = [stack EXCEPT ![t][Len(stack[t])] = e]
  PROVE  /\ stack' \in [Callers -> Seq(Activation)]
         /\ \A u \in Callers \ {t} : stack'[u] = stack[u]
         /\ Len(stack'[t]) = Len(stack[t])
         /\ \A k \in 1 .. Len(stack[t]) - 1 : stack'[t][k] = stack[t][k]
         /\ stack'[t][Len(stack[t])] = e
<1> DEFINE n == Len(stack[t])
           r == [stack[t] EXCEPT ![n] = e]
<1>1. stack[t] \in Seq(Activation) /\ stack[t] # <<>> /\ TypeOK
  BY Innermost
<1>2. stack' = [stack EXCEPT ![t] = r]
  OBVIOUS
<1>3. /\ r \in Seq(Activation) /\ Len(r) = n /\ r[n] = e
      /\ \A k \in 1 .. n - 1 : r[k] = stack[t][k]
  BY <1>1, SetTop
<1> HIDE DEF r
<1> QED
  BY <1>1, <1>2, <1>3 DEF TypeOK

(* A thread that moves on within its activation. *)
LEMMA GotoStep ==
  ASSUME IInv, NEW t \in Callers, NEW from, At(t, from),
         NEW label \in {"test"} \cup Filling \cup Using, Goto(t, label)
  PROVE  /\ stack' \in [Callers -> Seq(Activation)]
         /\ \A u \in Callers \ {t} : stack'[u] = stack[u]
         /\ Len(stack'[t]) = Len(stack[t])
         /\ \A k \in 1 .. Len(stack[t]) - 1 : stack'[t][k] = stack[t][k]
         /\ stack'[t][Len(stack[t])].pc = label
<1> DEFINE a == stack[t][Len(stack[t])]
           e == [a EXCEPT !.pc = label]
<1>1. a \in Activation
  BY Innermost
<1>2. e \in Activation /\ e.pc = label
  BY <1>1 DEF Activation
<1>3. stack' = [stack EXCEPT ![t][Len(stack[t])] = e]
  BY DEF Goto
<1> HIDE DEF e
<1> QED
  BY <1>2, <1>3, Goes

LEMMA PopStep ==
  ASSUME IInv, NEW t \in Callers, NEW from, At(t, from), Pop(t)
  PROVE  /\ stack' \in [Callers -> Seq(Activation)]
         /\ \A u \in Callers \ {t} : stack'[u] = stack[u]
         /\ Len(stack'[t]) = Len(stack[t]) - 1
         /\ \A k \in 1 .. Len(stack[t]) - 1 :
              stack'[t][k] = stack[t][k] /\ stack'[t][k].pc = "handler"
<1>1. stack[t] \in Seq(Activation) /\ stack[t] # <<>> /\ TypeOK /\ StackInv(t)
  BY Innermost
<1>2. /\ Front(stack[t]) \in Seq(Activation) /\ Len(Front(stack[t])) = Len(stack[t]) - 1
      /\ \A k \in 1 .. Len(stack[t]) - 1 : Front(stack[t])[k] = stack[t][k]
  BY <1>1, Popped
<1>3. /\ stack' = [stack EXCEPT ![t] = Front(stack[t])]
      /\ \A k \in 1 .. Len(stack[t]) - 1 : stack[t][k].pc = "handler"
  BY <1>1 DEF Pop, StackInv
<1> HIDE DEF Front
<1> QED
  BY <1>1, <1>2, <1>3 DEF TypeOK

LEMMA TestReadyInv ==
  ASSUME IInv, NEW t \in Callers, TestReady(t)
  PROVE  IInv'
<1> DEFINE label == IF Private \/ ready THEN Top(t).op ELSE "default"
<1>1. At(t, "test") /\ Goto(t, label) /\ UNCHANGED <<FileBuild, handlers, ready, exited, armed>>
  BY DEF TestReady
<1>2. /\ t \in active /\ TypeOK /\ StackInv(t) /\ (Own => TableInv(t)) /\ Top(t).pc = "test"
      /\ Top(t).op \in {"signal", "raise"} /\ Len(stack[t]) \in Nat \ {0}
  BY <1>1, Innermost DEF Activation
<1>3. label \in {"signal", "raise", "default"} /\ label \in {"test"} \cup Filling \cup Using
      /\ (label = "default" <=> ~Private /\ ~ready)
  BY <1>2 DEF Filling, Using
<1> HIDE DEF label
<1>4. /\ stack' \in [Callers -> Seq(Activation)]
      /\ \A u \in Callers \ {t} : stack'[u] = stack[u]
      /\ Len(stack'[t]) = Len(stack[t]) /\ stack'[t][Len(stack[t])].pc = label
      /\ \A k \in 1 .. Len(stack[t]) - 1 : stack'[t][k] = stack[t][k]
  BY <1>1, <1>3, GotoStep
<1>5. TypeOK'
  BY <1>1, <1>2, <1>4 DEF TypeOK, FileBuild
<1>6. StackInv(t)'
  <2>1. stack'[t] # <<>>  => t \in active'
    BY <1>1, <1>2 DEF FileBuild
  <2> QED
    BY <1>1, <1>2, <1>3, <1>4, <2>1 DEF StackInv, FileBuild, Private, Using, Filling
<1>7. ASSUME Own PROVE TableInv(t)'
  <2>1. /\ Place(t)' = Place(t) /\ Private' = Private /\ UNCHANGED <<handlers, ready, armed>>
    BY <1>1 DEF FileBuild, Private, Place
  <2>2. \A k \in 1 .. Len(stack[t]) - 1 : stack'[t][k].pc = "handler"
    BY <1>2, <1>4 DEF StackInv
  <2>3. \A k \in 1 .. Len(stack'[t]) :
          \/ stack'[t][k].pc \in {"handler", "signal", "raise"}
          \/ stack'[t][k].pc = "default" /\ ~ready
    BY <1>2, <1>3, <1>4, <2>2
  <2> QED
    BY <1>2, <1>7, <2>1, <2>3 DEF TableInv, Filling
<1> QED
  BY <1>1, <1>2, <1>4, <1>5, <1>6, <1>7, OwnStep

LEMMA FillDefaultInv ==
  ASSUME IInv, NEW t \in Callers, FillDefault(t)
  PROVE  IInv'
<1>1. At(t, "default") /\ Goto(t, "ignore") /\ UNCHANGED <<FileBuild, ready, exited, armed>>
      /\ handlers' = [handlers EXCEPT ![Static] = [sig \in Signal |-> SIG_DFL]]
  BY DEF FillDefault
<1>2. /\ t \in active /\ TypeOK /\ StackInv(t) /\ (Own => TableInv(t)) /\ Top(t).pc = "default"
      /\ Len(stack[t]) \in Nat \ {0} /\ Top(t) = stack[t][Len(stack[t])]
  BY <1>1, Innermost
<1>3. "ignore" \in {"test"} \cup Filling \cup Using
  BY DEF Filling
<1>4. /\ stack' \in [Callers -> Seq(Activation)]
      /\ \A u \in Callers \ {t} : stack'[u] = stack[u]
      /\ Len(stack'[t]) = Len(stack[t]) /\ stack'[t][Len(stack[t])].pc = "ignore"
      /\ \A k \in 1 .. Len(stack[t]) - 1 : stack'[t][k] = stack[t][k]
  BY <1>1, <1>3, GotoStep
<1>5. ~Private
  BY <1>2 DEF StackInv, Filling
<1>6. handlers' \in [Callers \cup {Static} -> Table] /\ handlers'[Static] = [sig \in Signal |-> SIG_DFL]
  BY <1>1, <1>2, DefaultsType DEF TypeOK, Table, Dispositions
<1>7. TypeOK'
  BY <1>1, <1>2, <1>4, <1>6 DEF TypeOK, FileBuild
<1>8. StackInv(t)'
  BY <1>1, <1>2, <1>4, <1>5 DEF StackInv, FileBuild, Private, Using, Filling
<1>9. ASSUME Own PROVE TableInv(t)'
  <2>1. ~ready /\ armed[t] = Defaults
    BY <1>2, <1>5, <1>9 DEF TableInv, Filling
  <2>2. ~Private' /\ ~ready' /\ armed'[t] = Defaults
    BY <1>1, <1>5, <2>1 DEF FileBuild, Private
  <2>3. \A k \in 1 .. Len(stack[t]) - 1 : stack'[t][k].pc = "handler"
    BY <1>2, <1>4 DEF StackInv
  <2>4. \A k \in 1 .. Len(stack'[t]) : stack'[t][k].pc \in {"handler", "ignore"}
    BY <1>2, <1>4, <2>3
  <2> QED
    BY <1>6, <2>2, <2>4 DEF TableInv
<1> QED
  BY <1>1, <1>2, <1>4, <1>5, <1>7, <1>8, <1>9, OwnStep

LEMMA FillIgnoredInv ==
  ASSUME IInv, NEW t \in Callers, FillIgnored(t)
  PROVE  IInv'
<1>1. At(t, "ignore") /\ Goto(t, "flag") /\ UNCHANGED <<FileBuild, ready, exited, armed>>
      /\ handlers' = [handlers EXCEPT ![Static] = 
           [sig \in Signal |-> IF sig \in Ignored THEN SIG_IGN ELSE handlers[Static][sig]]]
  BY DEF FillIgnored
<1>2. /\ t \in active /\ TypeOK /\ StackInv(t) /\ (Own => TableInv(t)) /\ Top(t).pc = "ignore"
      /\ Len(stack[t]) \in Nat \ {0} /\ Top(t) = stack[t][Len(stack[t])]
  BY <1>1, Innermost
<1>3. "flag" \in {"test"} \cup Filling \cup Using
  BY DEF Filling
<1>4. /\ stack' \in [Callers -> Seq(Activation)]
      /\ \A u \in Callers \ {t} : stack'[u] = stack[u]
      /\ Len(stack'[t]) = Len(stack[t]) /\ stack'[t][Len(stack[t])].pc = "flag"
      /\ \A k \in 1 .. Len(stack[t]) - 1 : stack'[t][k] = stack[t][k]
  BY <1>1, <1>3, GotoStep
<1>5. ~Private
  BY <1>2 DEF StackInv, Filling
<1>6. handlers' \in [Callers \cup {Static} -> Table] /\ handlers'[Static] = 
           [sig \in Signal |-> IF sig \in Ignored THEN SIG_IGN ELSE handlers[Static][sig]]
  BY <1>1, <1>2, DefaultsType DEF TypeOK, Table, Dispositions
<1>7. TypeOK'
  BY <1>1, <1>2, <1>4, <1>6 DEF TypeOK, FileBuild
<1>8. StackInv(t)'
  BY <1>1, <1>2, <1>4, <1>5 DEF StackInv, FileBuild, Private, Using, Filling
<1>9. ASSUME Own PROVE TableInv(t)'
  <2>1. ~ready /\ armed[t] = Defaults
    BY <1>2, <1>5, <1>9 DEF TableInv, Filling
  <2>2. ~Private' /\ ~ready' /\ armed'[t] = Defaults
    BY <1>1, <1>5, <2>1 DEF FileBuild, Private
  <2>3. \A k \in 1 .. Len(stack[t]) - 1 : stack'[t][k].pc = "handler"
    BY <1>2, <1>4 DEF StackInv
  <2>4. \A k \in 1 .. Len(stack'[t]) : stack'[t][k].pc \in {"handler", "flag"}
    BY <1>2, <1>4, <2>3
  <2>5. handlers[Static] = [sig \in Signal |-> SIG_DFL]
    BY <1>2, <1>9 DEF TableInv
  <2>6. handlers'[Static] = Defaults
    BY <1>6, <2>5 DEF Defaults
  <2> QED
    BY <2>2, <2>4, <2>6 DEF TableInv
<1> QED
  BY <1>1, <1>2, <1>4, <1>5, <1>7, <1>8, <1>9, OwnStep

LEMMA SetReadyInv ==
  ASSUME IInv, NEW t \in Callers, SetReady(t)
  PROVE  IInv'
<1> DEFINE label == Top(t).op
<1>1. /\ At(t, "flag") /\ Goto(t, label) /\ ready' = TRUE
      /\ UNCHANGED <<FileBuild, handlers, exited, armed>>
  BY DEF SetReady
<1>2. /\ t \in active /\ TypeOK /\ StackInv(t) /\ (Own => TableInv(t)) /\ Top(t).pc = "flag"
      /\ Len(stack[t]) \in Nat \ {0} /\ Top(t) = stack[t][Len(stack[t])]
      /\ label \in {"signal", "raise"}
  BY <1>1, Innermost DEF Activation
<1>3. label \in {"test"} \cup Filling \cup Using
  BY <1>2 DEF Using
<1> HIDE DEF label
<1>4. /\ stack' \in [Callers -> Seq(Activation)]
      /\ \A u \in Callers \ {t} : stack'[u] = stack[u]
      /\ Len(stack'[t]) = Len(stack[t]) /\ stack'[t][Len(stack[t])].pc = label
      /\ \A k \in 1 .. Len(stack[t]) - 1 : stack'[t][k] = stack[t][k]
  BY <1>1, <1>3, GotoStep
<1>5. ~Private /\ ~Private'
  BY <1>1, <1>2 DEF StackInv, Filling, FileBuild, Private
<1>6. \A k \in 1 .. Len(stack'[t]) : stack'[t][k].pc \in {"handler", "signal", "raise"}
  BY <1>2, <1>4 DEF StackInv
<1>7. TypeOK'
  BY <1>1, <1>2, <1>4 DEF TypeOK, FileBuild
<1>8. StackInv(t)'
  BY <1>1, <1>2, <1>4, <1>6 DEF StackInv, FileBuild, Filling
<1>9. ASSUME Own PROVE TableInv(t)'
  <2>1. handlers[Static] = Defaults /\ armed[t] = Defaults
    BY <1>2, <1>5, <1>9 DEF TableInv, Filling
  <2> QED
    BY <1>1, <1>5, <1>6, <2>1 DEF TableInv, Place, Filling
<1> QED
  BY <1>1, <1>2, <1>4, <1>7, <1>8, <1>9, OwnStep

LEMMA FetchInv ==
  ASSUME IInv, NEW t \in Callers, Fetch(t)
  PROVE  IInv'
<1> DEFINE n == Len(stack[t])
           a == stack[t][n]
           h == handlers[Place(t)][Top(t).sig]
           e == [a EXCEPT !.temp = h, !.pc = "decide"]
<1>1. /\ At(t, "raise") /\ UNCHANGED <<FileBuild, handlers, ready, exited, armed>>
      /\ stack' = [stack EXCEPT ![t][n] = e]
  BY DEF Fetch
<1>2. /\ t \in active /\ TypeOK /\ StackInv(t) /\ (Own => TableInv(t))
      /\ n \in Nat \ {0} /\ Top(t) = a /\ a \in Activation /\ a.pc = "raise"
      /\ Place(t) \in Callers \cup {Static}
  BY <1>1, Innermost
<1>3. h \in Dispositions
  BY <1>2 DEF TypeOK, Activation, Table
<1>4. e \in Activation /\ e.pc = "decide" /\ e.temp = h /\ e.sig = a.sig
  BY <1>2, <1>3 DEF Activation, Using
<1> HIDE DEF e
<1>5. /\ stack' \in [Callers -> Seq(Activation)]
      /\ \A u \in Callers \ {t} : stack'[u] = stack[u]
      /\ Len(stack'[t]) = n /\ stack'[t][n] = e
      /\ \A k \in 1 .. n - 1 : stack'[t][k] = stack[t][k]
  BY <1>1, <1>4, Goes
<1>6. Private \/ ready
  BY <1>2 DEF StackInv, Using
<1>7. \A k \in 1 .. n - 1 : stack'[t][k].pc = "handler"
  BY <1>2, <1>5 DEF StackInv
<1>8. TypeOK'
  BY <1>1, <1>2, <1>5 DEF TypeOK, FileBuild
<1>9. StackInv(t)'
  BY <1>1, <1>2, <1>4, <1>5, <1>6, <1>7 DEF StackInv, FileBuild, Private, Filling
<1>10. ASSUME Own PROVE TableInv(t)'
  <2>1. Place(t)' = Place(t) /\ Private' = Private
    BY <1>1 DEF FileBuild, Private, Place
  <2>2. h = armed[t][a.sig]
    BY <1>2, <1>6, <1>10 DEF TableInv
  <2> HIDE DEF h
  <2> QED
    BY <1>1, <1>2, <1>4, <1>5, <1>6, <1>7, <1>10, <2>1, <2>2 DEF TableInv, Filling
<1> QED
  BY <1>1, <1>2, <1>5, <1>8, <1>9, <1>10, OwnStep

(* A thread that returns to the handler its activation interrupted. *)
LEMMA PopInv ==
  ASSUME IInv, NEW t \in Callers, NEW from \in Using, At(t, from), Pop(t),
         UNCHANGED <<FileBuild, ready, exited>>, TypeOK',
         \A u \in Callers \ {t} : armed'[u] = armed[u],
         Private => \A u \in Callers \ {t} : handlers'[u] = handlers[u],
         Own => handlers'[Place(t)] = armed'[t]
  PROVE  IInv'
<1>1. /\ t \in active /\ TypeOK /\ StackInv(t) /\ Top(t).pc = from
      /\ Len(stack[t]) \in Nat \ {0} /\ Top(t) = stack[t][Len(stack[t])]
  BY Innermost
<1>2. /\ \A u \in Callers \ {t} : stack'[u] = stack[u]
      /\ Len(stack'[t]) = Len(stack[t]) - 1
      /\ \A k \in 1 .. Len(stack[t]) - 1 :
           stack'[t][k] = stack[t][k] /\ stack'[t][k].pc = "handler"
  BY PopStep
<1>3. Private \/ ready
  BY <1>1 DEF StackInv
<1>4. Private' = Private /\ Place(t)' = Place(t) /\ active' = active
  BY DEF FileBuild, Private, Place
<1>5. StackInv(t)'
  BY <1>1, <1>2, <1>3, <1>4 DEF StackInv, Filling
<1>6. Own => TableInv(t)'
  BY <1>1, <1>2, <1>3, <1>4 DEF TableInv, Filling
<1> QED
  BY <1>1, <1>2, <1>5, <1>6, OwnStep

LEMMA SetEntry ==
  ASSUME NEW D, NEW S, NEW V, NEW f \in [D -> [S -> V]], NEW d \in D, NEW x \in S, NEW v \in V
  PROVE  LET g == [f EXCEPT ![d][x] = v] IN
         /\ g \in [D -> [S -> V]] /\ g[d] = [f[d] EXCEPT ![x] = v]
         /\ \A e \in D \ {d} : g[e] = f[e]
<1> DEFINE h == [f[d] EXCEPT ![x] = v]
<1>1. h \in [S -> V]
  OBVIOUS
<1>2. [f EXCEPT ![d][x] = v] = [f EXCEPT ![d] = h]
  OBVIOUS
<1> HIDE DEF h
<1>3. /\ [f EXCEPT ![d] = h] \in [D -> [S -> V]] /\ [f EXCEPT ![d] = h][d] = h
      /\ \A e \in D \ {d} : [f EXCEPT ![d] = h][e] = f[e]
  BY <1>1
<1> QED
  BY <1>2, <1>3 DEF h

(* An entry of the thread's table changes as what it has asked for does. *)
LEMMA Entry ==
  ASSUME IInv, NEW t \in Callers, NEW sig \in Signal, NEW disp \in Dispositions,
         Private \/ ready, t \in active,
         handlers' = [handlers EXCEPT ![Place(t)][sig] = disp],
         armed' = [armed EXCEPT ![t][sig] = disp]
  PROVE  /\ handlers' \in [Callers \cup {Static} -> Table] /\ armed' \in [Callers -> Table]
         /\ \A u \in Callers \ {t} : armed'[u] = armed[u]
         /\ Private => \A u \in Callers \ {t} : handlers'[u] = handlers[u]
         /\ Own => handlers'[Place(t)] = armed'[t]
<1>1. TypeOK /\ Place(t) \in Callers \cup {Static} /\ (Private => Place(t) = t)
  BY DEF IInv, Place
<1>2. handlers \in [Callers \cup {Static} -> [Signal -> Dispositions]]
  BY <1>1 DEF TypeOK, Table
<1>3. armed \in [Callers -> [Signal -> Dispositions]]
  BY <1>1 DEF TypeOK, Table
<1>4. /\ handlers' \in [Callers \cup {Static} -> [Signal -> Dispositions]]
      /\ handlers'[Place(t)] = [handlers[Place(t)] EXCEPT ![sig] = disp]
      /\ \A p \in (Callers \cup {Static}) \ {Place(t)} : handlers'[p] = handlers[p]
  BY <1>1, <1>2, SetEntry
<1>5. /\ armed' \in [Callers -> [Signal -> Dispositions]]
      /\ armed'[t] = [armed[t] EXCEPT ![sig] = disp]
      /\ \A u \in Callers \ {t} : armed'[u] = armed[u]
  BY <1>3, SetEntry
<1>6. Own => handlers[Place(t)] = armed[t]
  BY DEF IInv, TableInv
<1>7. Private => \A u \in Callers \ {t} : handlers'[u] = handlers[u]
  BY <1>1, <1>4
<1>8. Own => handlers'[Place(t)] = armed'[t]
  BY <1>4, <1>5, <1>6
<1> QED
  BY <1>4, <1>5, <1>7, <1>8 DEF Table

LEMMA ExchangeInv ==
  ASSUME IInv, NEW t \in Callers, Exchange(t)
  PROVE  IInv'
<1>1. /\ At(t, "signal") /\ Pop(t) /\ UNCHANGED <<FileBuild, ready, exited>>
      /\ handlers' = [handlers EXCEPT ![Place(t)][Top(t).sig] = Top(t).func]
      /\ armed' = [armed EXCEPT ![t][Top(t).sig] = Top(t).func]
  BY DEF Exchange
<1>2. /\ t \in active /\ TypeOK /\ StackInv(t) /\ Top(t).pc = "signal"
      /\ Len(stack[t]) \in Nat \ {0} /\ Top(t) = stack[t][Len(stack[t])]
      /\ Top(t).sig \in Signal /\ Top(t).func \in Dispositions
  BY <1>1, Innermost DEF Activation
<1>3. Private \/ ready
  BY <1>2 DEF StackInv, Using
<1>4. /\ handlers' \in [Callers \cup {Static} -> Table] /\ armed' \in [Callers -> Table]
      /\ \A u \in Callers \ {t} : armed'[u] = armed[u]
      /\ Private => \A u \in Callers \ {t} : handlers'[u] = handlers[u]
      /\ Own => handlers'[Place(t)] = armed'[t]
  BY <1>1, <1>2, <1>3, Entry
<1>5. stack' \in [Callers -> Seq(Activation)]
  BY <1>1, PopStep
<1>6. TypeOK' /\ "signal" \in Using
  BY <1>1, <1>2, <1>4, <1>5 DEF TypeOK, FileBuild, Using
<1> QED
  BY <1>1, <1>4, <1>6, PopInv

LEMMA ReturnInv ==
  ASSUME IInv, NEW t \in Callers, Ignore(t) \/ Leave(t)
  PROVE  IInv'
<1>1. PICK from \in {"decide", "handler"} :
        At(t, from) /\ Pop(t) /\ UNCHANGED <<FileBuild, handlers, ready, exited, armed>>
  BY DEF Ignore, Leave
<1>2. /\ t \in active /\ TypeOK /\ StackInv(t) /\ (Own => TableInv(t)) /\ Top(t).pc = from
      /\ Len(stack[t]) \in Nat \ {0} /\ Top(t) = stack[t][Len(stack[t])]
  BY <1>1, Innermost
<1>3. Own => handlers[Place(t)] = armed[t]
  BY <1>1, <1>2 DEF StackInv, TableInv, Using
<1>4. stack' \in [Callers -> Seq(Activation)]
  BY <1>1, PopStep
<1>5. TypeOK' /\ from \in Using
  BY <1>1, <1>2, <1>4 DEF TypeOK, FileBuild, Using
<1> QED
  BY <1>1, <1>3, <1>5, PopInv

LEMMA FatalInv ==
  ASSUME IInv, NEW t \in Callers, Fatal(t)
  PROVE  IInv'
  BY DEF IInv, Fatal, FileBuild, TypeOK, StackInv, TableInv, Own, Alone, Private, Place

LEMMA EnterInv ==
  ASSUME IInv, NEW t \in Callers, Enter(t)
  PROVE  IInv'
<1>1. /\ At(t, "decide") /\ Goto(t, "handler") /\ UNCHANGED <<FileBuild, ready, exited>>
      /\ handlers' = [handlers EXCEPT ![Place(t)][Top(t).sig] = SIG_DFL]
      /\ armed' = [armed EXCEPT ![t][Top(t).sig] = SIG_DFL]
  BY DEF Enter, Reset
<1>2. /\ t \in active /\ TypeOK /\ StackInv(t) /\ (Own => TableInv(t)) /\ Top(t).pc = "decide"
      /\ Len(stack[t]) \in Nat \ {0} /\ Top(t) = stack[t][Len(stack[t])]
      /\ Top(t).sig \in Signal /\ SIG_DFL \in Dispositions
  BY <1>1, Innermost DEF Activation, Dispositions
<1>3. Private \/ ready
  BY <1>2 DEF StackInv, Using
<1>4. /\ handlers' \in [Callers \cup {Static} -> Table] /\ armed' \in [Callers -> Table]
      /\ \A u \in Callers \ {t} : armed'[u] = armed[u]
      /\ Private => \A u \in Callers \ {t} : handlers'[u] = handlers[u]
      /\ Own => handlers'[Place(t)] = armed'[t]
  BY <1>1, <1>2, <1>3, Entry
<1>5. "handler" \in {"test"} \cup Filling \cup Using
  BY DEF Using
<1>6. /\ stack' \in [Callers -> Seq(Activation)]
      /\ \A u \in Callers \ {t} : stack'[u] = stack[u]
      /\ Len(stack'[t]) = Len(stack[t]) /\ stack'[t][Len(stack[t])].pc = "handler"
      /\ \A k \in 1 .. Len(stack[t]) - 1 : stack'[t][k] = stack[t][k]
  BY <1>1, <1>5, GotoStep
<1>7. \A k \in 1 .. Len(stack'[t]) : stack'[t][k].pc = "handler"
  BY <1>2, <1>6 DEF StackInv
<1>8. TypeOK'
  BY <1>1, <1>2, <1>4, <1>6 DEF TypeOK, FileBuild
<1>9. Private' = Private /\ Place(t)' = Place(t) /\ active' = active
  BY <1>1 DEF FileBuild, Private, Place
<1>10. StackInv(t)'
  BY <1>1, <1>2, <1>3, <1>7, <1>9 DEF StackInv, Filling
<1>11. Own => TableInv(t)'
  BY <1>1, <1>3, <1>4, <1>7, <1>9 DEF TableInv, Filling
<1> QED
  BY <1>1, <1>2, <1>4, <1>6, <1>8, <1>10, <1>11, OwnStep

LEMMA InitInv ==
  ASSUME Init
  PROVE  IInv
<1>1. handlers \in [Callers \cup {Static} -> Table] /\ armed \in [Callers -> Table]
  BY DefaultsType DEF Init
<1>2. \A t \in Callers : handlers[t] = Defaults /\ armed[t] = Defaults /\ stack[t] = <<>>
  BY StaticIsNobodys DEF Init
<1>3. stack \in [Callers -> Seq(Activation)]
  BY EmptySeq DEF Init
<1>4. active \subseteq Callers /\ ready = FALSE /\ exited = FALSE
  BY DEF Init
<1>5. TypeOK
  BY <1>1, <1>3, <1>4 DEF TypeOK
<1>6. \A t \in Callers : 1 .. Len(stack[t]) = {} /\ 1 .. Len(stack[t]) - 1 = {}
  BY <1>2
<1>7. \A t \in Callers : StackInv(t)
  BY <1>2, <1>6 DEF StackInv
<1>8. \A t \in active : TableInv(t)
  BY <1>2, <1>4, <1>6 DEF TableInv, Place
<1> QED
  BY <1>5, <1>7, <1>8 DEF IInv

LEMMA NextInv ==
  ASSUME IInv, [Next]_vars
  PROVE  IInv'
<1>1. CASE UNCHANGED vars
  <2>1. TypeOK'
    BY <1>1 DEF vars, IInv, TypeOK
  <2>2. \A t \in Callers : StackInv(t)'
    BY <1>1 DEF vars, IInv, StackInv, Private
  <2>3. ASSUME Own', NEW t \in active'
        PROVE  TableInv(t)'
    <3>1. Own /\ t \in active
      BY <1>1, <2>3 DEF vars, Own, Alone, Private
    <3>2. TableInv(t)
      BY <3>1 DEF IInv
    <3> QED
      BY <1>1, <3>2 DEF vars, TableInv, Private, Place
  <2> QED
    BY <2>1, <2>2, <2>3 DEF IInv
<1>2. CASE Next
  BY <1>2, CallInv, TestReadyInv, FillDefaultInv, FillIgnoredInv, SetReadyInv, ExchangeInv,
     FetchInv, FatalInv, ReturnInv, EnterInv DEF Next, Step
<1> QED
  BY <1>1, <1>2

(* Where a thread has its table for itself, raise does what the thread     *)
(* asked for last, whatever the others and its own handlers do between any *)
(* two of its steps.                                                       *)
THEOREM SignalsAnswerOwn == Spec => []RaiseAnswersOwn
<1>1. IInv => RaiseAnswersOwn
  <2> SUFFICES ASSUME IInv, Own, NEW t \in Callers, At(t, "decide")
      PROVE Top(t).temp = armed[t][Top(t).sig]
    BY DEF RaiseAnswersOwn
  <2>1. /\ t \in active /\ TableInv(t) /\ Top(t) = stack[t][Len(stack[t])]
        /\ Top(t).pc = "decide" /\ Len(stack[t]) \in Nat \ {0}
    BY Innermost
  <2> QED
    BY <2>1 DEF TableInv
<1>2. IInv /\ [Next]_vars => IInv'
  BY NextInv
<1>3. Init => IInv
  BY InitInv
<1> QED
  BY <1>1, <1>2, <1>3, PTL DEF Spec
-----------------------------------------------------------------------------
(* The sampling interrupt takes at most one sample for each expiry of the   *)
(* timer and the flush at exit loses only those that come in its midst, for *)
(* any length of the buffer and on every port.                              *)

BufferAssumption == PROFBUFSIZE \in Nat \ {0} /\ MaxExpiries \in Nat

(* What the headers' timers have in common: each has a start, and one that *)
(* stops is started by the macro that acknowledges it, or before that.     *)
LEMMA PortFacts ==
  ASSUME port \in Prf!Ports
  PROVE  /\ port.stops \in BOOLEAN /\ port.stored \in {"linked", "init", "enable"}
         /\ port.masked \in BOOLEAN /\ port.shared \in BOOLEAN /\ port.wrapped \in BOOLEAN
         /\ port.acks \in {"init", "clear", "entry"}
         /\ "init" \in port.starts \/ "enable" \in port.starts
         /\ port.stops => \/ port.acks = "init" /\ "reinit" \in port.starts
                          \/ port.acks = "clear" /\ "clear" \in port.starts
<1>1. CASE port \in {Prf!BookE, Prf!E500, Prf!Blackfin}
  <2>1. CASE port = Prf!BookE
    BY <2>1 DEF Prf!BookE, Prf!Port
  <2>2. CASE port = Prf!E500
    BY <2>2 DEF Prf!E500, Prf!Port
  <2>3. CASE port = Prf!Blackfin
    BY <2>3 DEF Prf!Blackfin, Prf!Port
  <2> QED
    BY <1>1, <2>1, <2>2, <2>3
<1>2. CASE port \in {Prf!Classic, Prf!SysTick, Prf!Edb7212, Prf!Mips}
  <2>1. CASE port = Prf!Classic
    BY <2>1 DEF Prf!Classic, Prf!Port
  <2>2. CASE port = Prf!SysTick
    BY <2>2 DEF Prf!SysTick, Prf!Port
  <2>3. CASE port = Prf!Edb7212
    BY <2>3 DEF Prf!Edb7212, Prf!Port
  <2>4. CASE port = Prf!Mips
    BY <2>4 DEF Prf!Mips, Prf!Port
  <2> QED
    BY <1>2, <2>1, <2>2, <2>3, <2>4
<1>3. CASE port \in Prf!ColdFires
  <2> DEFINE P == [stops : {FALSE}, starts : {{"init", "reinit"}}, acks : {"clear"},
                   stored : {"linked", "init"}, masked : BOOLEAN, shared : BOOLEAN,
                   wrapped : BOOLEAN]
             S == [stored : {"linked", "init"}, masked : BOOLEAN, shared : BOOLEAN]
  <2>1. {Prf!Timer0, Prf!Pit, Prf!Pit5213} \subseteq P
    BY DEF Prf!Timer0, Prf!Pit, Prf!Pit5213, Prf!Port
  <2>2. {Prf!SetupAutovectored, Prf!Setup5272, Prf!Setup5282, Prf!Setup5213} \subseteq S
    BY DEF Prf!SetupAutovectored, Prf!Setup5272, Prf!Setup5282, Prf!Setup5213, Prf!Setup
  <2>3. \A p \in P, s \in S : Prf!Wrapped(p, s) \in P
    BY DEF Prf!Wrapped
  <2>4. port \in P
    <3> HIDE DEF P, S
    <3> QED
      BY <1>3, <2>1, <2>2, <2>3 DEF Prf!ColdFires
  <2> QED
    BY <2>4
<1> QED
  BY <1>1, <1>2, <1>3 DEF Prf!Ports

(* The buffer as a sequence: filled by one, and emptied. *)
LEMMA BufferSeq ==
  ASSUME BufferAssumption, Prf!TypeOK
  PROVE  Prf!Buffered \in Seq(Nat) /\ Len(Prf!Buffered) = sample_count
  BY DEF BufferAssumption, Prf!TypeOK, Prf!Buffered

LEMMA BufferEmptied ==
  ASSUME sample_count' = 0
  PROVE  Prf!Buffered' = <<>>
  BY DEF Prf!Buffered

LEMMA BufferFilled ==
  ASSUME BufferAssumption, Prf!TypeOK, sample_count < PROFBUFSIZE,
         sample_count' = sample_count + 1,
         profile_buffer' = [profile_buffer EXCEPT ![sample_count] = epc]
  PROVE  Prf!Buffered' = Append(Prf!Buffered, epc)
<1>1. sample_count \in Nat /\ epc \in Nat /\ PROFBUFSIZE \in Nat
  BY DEF BufferAssumption, Prf!TypeOK
<1>2. Prf!Buffered' = [k \in 1 .. sample_count + 1 |-> profile_buffer'[k-1]]
  BY DEF Prf!Buffered
<1>3. Prf!Buffered \in Seq(Nat) /\ Len(Prf!Buffered) = sample_count
  BY BufferSeq
<1>4. \A k \in 1 .. sample_count : profile_buffer'[k-1] = profile_buffer[k-1]
  BY <1>1 DEF Prf!TypeOK
<1>5. profile_buffer'[sample_count] = epc
  BY <1>1 DEF Prf!TypeOK
<1>6. \A k \in 1 .. sample_count + 1 : Prf!Buffered'[k] = Append(Prf!Buffered, epc)[k]
  BY <1>1, <1>2, <1>3, <1>4, <1>5 DEF Prf!Buffered
<1>7. Prf!Buffered' \in Seq(Nat) /\ Len(Prf!Buffered') = sample_count + 1
  <2>1. \A k \in 1 .. sample_count + 1 : profile_buffer'[k-1] \in Nat
    BY <1>1, <1>4, <1>5 DEF Prf!TypeOK
  <2> QED
    BY <1>1, <1>2, <2>1
<1>8. Append(Prf!Buffered, epc) \in Seq(Nat) /\ Len(Append(Prf!Buffered, epc)) = sample_count + 1
  BY <1>1, <1>3
<1> QED
  BY <1>6, <1>7, <1>8, SeqEqual

LEMMA AppendConcat ==
  ASSUME NEW S, NEW s \in Seq(S), NEW r \in Seq(S), NEW e \in S
  PROVE  s \o Append(r, e) = Append(s \o r, e)
<1>1. /\ s \o Append(r, e) \in Seq(S) /\ Append(s \o r, e) \in Seq(S)
      /\ Len(s \o Append(r, e)) = Len(Append(s \o r, e))
  OBVIOUS
<1>2. \A k \in 1 .. Len(s \o Append(r, e)) : (s \o Append(r, e))[k] = Append(s \o r, e)[k]
  OBVIOUS
<1> QED
  BY <1>1, <1>2, SeqEqual

LEMMA ConcatEmpty ==
  ASSUME NEW S, NEW s \in Seq(S)
  PROVE  s \o <<>> = s
  OBVIOUS
LEMMA BufferedKept ==
  ASSUME UNCHANGED <<sample_count, profile_buffer>>
  PROVE  Prf!Buffered' = Prf!Buffered
  BY DEF Prf!Buffered

(* What is in a sequence stays in it when it grows. *)
LEMMA InConcat ==
  ASSUME NEW S, NEW s \in Seq(S), NEW r \in Seq(S), NEW k, Prf!In(k, s) \/ Prf!In(k, r)
  PROVE  Prf!In(k, s \o r)
<1>1. /\ Len(s \o r) = Len(s) + Len(r) /\ Len(s) \in Nat /\ Len(r) \in Nat
      /\ \A i \in 1 .. Len(s) : (s \o r)[i] = s[i]
      /\ \A i \in 1 .. Len(r) : (s \o r)[Len(s) + i] = r[i]
  OBVIOUS
<1>2. CASE Prf!In(k, s)
  BY <1>1, <1>2 DEF Prf!In
<1>3. CASE Prf!In(k, r)
  <2>1. PICK i \in 1 .. Len(r) : r[i] = k
    BY <1>3 DEF Prf!In
  <2>2. Len(s) + i \in 1 .. Len(s \o r) /\ (s \o r)[Len(s) + i] = k
    BY <1>1, <2>1
  <2> QED
    BY <2>2 DEF Prf!In
<1> QED
  BY <1>2, <1>3

LEMMA InAppend ==
  ASSUME NEW S, NEW s \in Seq(S), NEW e \in S, NEW k, Prf!In(k, s) \/ k = e
  PROVE  Prf!In(k, Append(s, e))
<1>1. /\ Len(Append(s, e)) = Len(s) + 1 /\ Len(s) \in Nat
      /\ \A i \in 1 .. Len(s) : Append(s, e)[i] = s[i]
      /\ Append(s, e)[Len(s) + 1] = e
  OBVIOUS
<1>2. Len(s) + 1 \in 1 .. Len(Append(s, e)) /\ 1 .. Len(s) \subseteq 1 .. Len(Append(s, e))
  BY <1>1
<1> QED
  BY <1>1, <1>2 DEF Prf!In

(* A step that takes and sends nothing loses nothing. *)
LEMMA LossKept ==
  ASSUME Prf!LossInv, UNCHANGED <<taken, sent, sample_count, profile_buffer, rest, main, late>>,
         isr' \in {"wrapper", "sample"} => isr \in {"wrapper", "sample"}
  PROVE  Prf!LossInv'
<1>1. Prf!Buffered' = Prf!Buffered
  BY BufferedKept
<1> QED
  BY <1>1 DEF Prf!LossInv, Prf!OnTime, Prf!InRest, Prf!In

LEMMA LossApart ==
  ASSUME Prf!LossInv, UNCHANGED <<taken, sent, sample_count, profile_buffer, late>>,
         main \notin {"send", "reset"}, main' \notin {"send", "reset"}
  PROVE  Prf!LossInv'
<1>1. Prf!Buffered' = Prf!Buffered
  BY BufferedKept
<1> QED
  BY <1>1 DEF Prf!LossInv, Prf!OnTime, Prf!In

LEMMA ExpireInv ==
  ASSUME BufferAssumption, Prf!IInv, Prf!Expire
  PROVE  Prf!IInv'
<1>1. Prf!TypeOK /\ Prf!SetupInv /\ Prf!TimerInv /\ Prf!BufferInv /\ Prf!LossInv
  BY DEF Prf!IInv
<1>2. Prf!TypeOK'
  BY <1>1 DEF Prf!TypeOK, Prf!Expire, Prf!Mains, Prf!Isrs, Prf!Before, Prf!Buffer, Prf!timer, Prf!route
<1>3. Prf!SetupInv'
  BY <1>1 DEF Prf!TypeOK, Prf!SetupInv, Prf!Expire, Prf!Mains, Prf!Isrs, Prf!Before, Prf!Buffer, Prf!timer, Prf!route
<1>4. Prf!TimerInv'
  BY <1>1, PortFacts DEF Prf!TypeOK, Prf!SetupInv, Prf!TimerInv, Prf!Started, Prf!FreshPending, Prf!Unsampled, Prf!Expire,
     Prf!Mains, Prf!Isrs, Prf!Before, Prf!Buffer, Prf!timer, Prf!route
<1>5. Prf!BufferInv'
  BY <1>1, BufferedKept DEF Prf!TypeOK, Prf!BufferInv, Prf!Expire, Prf!Mains, Prf!Isrs, Prf!Buffer, Prf!timer, Prf!route
<1>6. Prf!LossInv'
  BY <1>1, LossKept DEF Prf!Expire, Prf!Buffer
<1> QED
  BY <1>2, <1>3, <1>4, <1>5, <1>6 DEF Prf!IInv

LEMMA StoreVectorInv ==
  ASSUME BufferAssumption, Prf!IInv, Prf!StoreVector
  PROVE  Prf!IInv'
<1>1. Prf!TypeOK /\ Prf!SetupInv /\ Prf!TimerInv /\ Prf!BufferInv /\ Prf!LossInv
  BY DEF Prf!IInv
<1>2. Prf!TypeOK'
  BY <1>1 DEF Prf!TypeOK, Prf!StoreVector, Prf!Stores, Prf!Mains, Prf!Isrs, Prf!Before, Prf!Buffer, Prf!timer, Prf!route
<1>3. Prf!SetupInv'
  BY <1>1 DEF Prf!TypeOK, Prf!SetupInv, Prf!StoreVector, Prf!Stores, Prf!Mains, Prf!Isrs, Prf!Before, Prf!Buffer, Prf!timer, Prf!route
<1>4. Prf!TimerInv'
  BY <1>1, PortFacts DEF Prf!TypeOK, Prf!SetupInv, Prf!TimerInv, Prf!Started, Prf!FreshPending, Prf!Unsampled,
     Prf!StoreVector, Prf!Stores, Prf!Mains, Prf!Isrs, Prf!Before, Prf!Buffer, Prf!timer, Prf!route
<1>5. Prf!BufferInv'
  BY <1>1, BufferedKept DEF Prf!TypeOK, Prf!BufferInv, Prf!StoreVector, Prf!Stores, Prf!Mains, Prf!Isrs, Prf!Buffer, Prf!timer,
     Prf!route
<1>6. Prf!LossInv'
  BY <1>1, LossApart DEF Prf!StoreVector, Prf!Buffer
<1> QED
  BY <1>2, <1>3, <1>4, <1>5, <1>6 DEF Prf!IInv

LEMMA UnmaskInv ==
  ASSUME BufferAssumption, Prf!IInv, Prf!Unmask
  PROVE  Prf!IInv'
<1>1. Prf!TypeOK /\ Prf!SetupInv /\ Prf!TimerInv /\ Prf!BufferInv /\ Prf!LossInv
  BY DEF Prf!IInv
<1>2. Prf!TypeOK'
  BY <1>1 DEF Prf!TypeOK, Prf!Unmask, Prf!Mains, Prf!Isrs, Prf!Before, Prf!Buffer, Prf!timer, Prf!route
<1>3. Prf!SetupInv'
  BY <1>1 DEF Prf!TypeOK, Prf!SetupInv, Prf!Unmask, Prf!Mains, Prf!Isrs, Prf!Before, Prf!Buffer, Prf!timer, Prf!route
<1>4. Prf!TimerInv'
  BY <1>1, PortFacts DEF Prf!TypeOK, Prf!SetupInv, Prf!TimerInv, Prf!Started, Prf!FreshPending, Prf!Unsampled, Prf!Unmask,
     Prf!Mains, Prf!Isrs, Prf!Before, Prf!Buffer, Prf!timer, Prf!route
<1>5. Prf!BufferInv'
  BY <1>1, BufferedKept DEF Prf!TypeOK, Prf!BufferInv, Prf!Unmask, Prf!Mains, Prf!Isrs, Prf!Buffer, Prf!timer, Prf!route
<1>6. Prf!LossInv'
  BY <1>1, LossApart DEF Prf!Unmask, Prf!Buffer
<1> QED
  BY <1>2, <1>3, <1>4, <1>5, <1>6 DEF Prf!IInv

LEMMA TimerInitInv ==
  ASSUME BufferAssumption, Prf!IInv, Prf!TimerInit
  PROVE  Prf!IInv'
<1>1. Prf!TypeOK /\ Prf!SetupInv /\ Prf!TimerInv /\ Prf!BufferInv /\ Prf!LossInv
  BY DEF Prf!IInv
<1>2. Prf!TypeOK'
  BY <1>1 DEF Prf!TypeOK, Prf!TimerInit, Prf!Starts, Prf!Acks, Prf!Mains, Prf!Isrs, Prf!Before, Prf!Buffer, Prf!timer, Prf!route
<1>3. Prf!SetupInv'
  BY <1>1 DEF Prf!TypeOK, Prf!SetupInv, Prf!TimerInit, Prf!Starts, Prf!Acks, Prf!Mains, Prf!Isrs, Prf!Before, Prf!Buffer,
     Prf!timer, Prf!route
<1>4. Prf!TimerInv'
  BY <1>1, PortFacts DEF Prf!TypeOK, Prf!SetupInv, Prf!TimerInv, Prf!Started, Prf!FreshPending, Prf!Unsampled, Prf!TimerInit,
     Prf!Starts, Prf!Acks, Prf!Mains, Prf!Isrs, Prf!Before, Prf!Buffer, Prf!timer, Prf!route
<1>5. Prf!BufferInv'
  BY <1>1, BufferedKept DEF Prf!TypeOK, Prf!BufferInv, Prf!TimerInit, Prf!Mains, Prf!Isrs, Prf!Buffer, Prf!timer,
     Prf!route
<1>6. Prf!LossInv'
  BY <1>1, LossApart DEF Prf!TimerInit, Prf!Buffer
<1> QED
  BY <1>2, <1>3, <1>4, <1>5, <1>6 DEF Prf!IInv

LEMMA EnableVectorInv ==
  ASSUME BufferAssumption, Prf!IInv, Prf!EnableVector
  PROVE  Prf!IInv'
<1>1. Prf!TypeOK /\ Prf!SetupInv /\ Prf!TimerInv /\ Prf!BufferInv /\ Prf!LossInv
  BY DEF Prf!IInv
<1>2. Prf!TypeOK'
  BY <1>1 DEF Prf!TypeOK, Prf!EnableVector, Prf!Stores, Prf!Mains, Prf!Isrs, Prf!Before, Prf!Buffer, Prf!timer, Prf!route
<1>3. Prf!SetupInv'
  BY <1>1, PortFacts DEF Prf!TypeOK, Prf!SetupInv, Prf!EnableVector, Prf!Stores, Prf!Mains, Prf!Isrs, Prf!Before, Prf!Buffer, Prf!timer, Prf!route
<1>4. Prf!TimerInv'
  BY <1>1, PortFacts DEF Prf!TypeOK, Prf!SetupInv, Prf!TimerInv, Prf!Started, Prf!FreshPending, Prf!Unsampled,
     Prf!EnableVector, Prf!Stores, Prf!Mains, Prf!Isrs, Prf!Before, Prf!Buffer, Prf!timer, Prf!route
<1>5. Prf!BufferInv'
  BY <1>1, BufferedKept DEF Prf!TypeOK, Prf!BufferInv, Prf!EnableVector, Prf!Stores, Prf!Mains, Prf!Isrs, Prf!Buffer, Prf!timer,
     Prf!route
<1>6. Prf!LossInv'
  BY <1>1, LossApart DEF Prf!EnableVector, Prf!Buffer
<1> QED
  BY <1>2, <1>3, <1>4, <1>5, <1>6 DEF Prf!IInv

LEMMA EnableTimerInv ==
  ASSUME BufferAssumption, Prf!IInv, Prf!EnableTimer
  PROVE  Prf!IInv'
<1>1. Prf!TypeOK /\ Prf!SetupInv /\ Prf!TimerInv /\ Prf!BufferInv /\ Prf!LossInv
  BY DEF Prf!IInv
<1>2. Prf!TypeOK'
  BY <1>1 DEF Prf!TypeOK, Prf!EnableTimer, Prf!Starts, Prf!Mains, Prf!Isrs, Prf!Before, Prf!Buffer, Prf!timer, Prf!route
<1>3. Prf!SetupInv'
  BY <1>1 DEF Prf!TypeOK, Prf!SetupInv, Prf!EnableTimer, Prf!Starts, Prf!Mains, Prf!Isrs, Prf!Before, Prf!Buffer, Prf!timer, Prf!route
<1>4. Prf!TimerInv'
  BY <1>1, PortFacts DEF Prf!TypeOK, Prf!SetupInv, Prf!TimerInv, Prf!Started, Prf!FreshPending, Prf!Unsampled,
     Prf!EnableTimer, Prf!Starts, Prf!Mains, Prf!Isrs, Prf!Before, Prf!Buffer, Prf!timer, Prf!route
<1>5. Prf!BufferInv'
  BY <1>1, BufferedKept DEF Prf!TypeOK, Prf!BufferInv, Prf!EnableTimer, Prf!Starts, Prf!Mains, Prf!Isrs, Prf!Buffer, Prf!timer,
     Prf!route
<1>6. Prf!LossInv'
  BY <1>1, LossApart DEF Prf!EnableTimer, Prf!Buffer
<1> QED
  BY <1>2, <1>3, <1>4, <1>5, <1>6 DEF Prf!IInv

LEMMA EndInv ==
  ASSUME BufferAssumption, Prf!IInv, Prf!End
  PROVE  Prf!IInv'
<1>1. Prf!TypeOK /\ Prf!SetupInv /\ Prf!TimerInv /\ Prf!BufferInv /\ Prf!LossInv
  BY DEF Prf!IInv
<1>2. Prf!TypeOK'
  BY <1>1 DEF Prf!TypeOK, Prf!End, Prf!Mains, Prf!Isrs, Prf!Before, Prf!Buffer, Prf!timer, Prf!route
<1>3. Prf!SetupInv'
  BY <1>1 DEF Prf!TypeOK, Prf!SetupInv, Prf!End, Prf!Mains, Prf!Isrs, Prf!Before, Prf!Buffer, Prf!timer, Prf!route
<1>4. Prf!TimerInv'
  BY <1>1, PortFacts DEF Prf!TypeOK, Prf!SetupInv, Prf!TimerInv, Prf!Started, Prf!FreshPending, Prf!Unsampled, Prf!End,
     Prf!Mains, Prf!Isrs, Prf!Before, Prf!Buffer, Prf!timer, Prf!route
<1>5. Prf!BufferInv'
  BY <1>1, BufferedKept DEF Prf!TypeOK, Prf!BufferInv, Prf!End, Prf!Mains, Prf!Isrs, Prf!Buffer, Prf!timer, Prf!route
<1>6. Prf!LossInv'
  BY <1>1, LossApart DEF Prf!End, Prf!Buffer
<1> QED
  BY <1>2, <1>3, <1>4, <1>5, <1>6 DEF Prf!IInv

LEMMA ExitInv ==
  ASSUME BufferAssumption, Prf!IInv, Prf!Exit
  PROVE  Prf!IInv'
<1>1. Prf!TypeOK /\ Prf!SetupInv /\ Prf!TimerInv /\ Prf!BufferInv /\ Prf!LossInv
  BY DEF Prf!IInv
<1>2. Prf!TypeOK'
  BY <1>1 DEF Prf!TypeOK, Prf!Exit, Prf!Mains, Prf!Isrs, Prf!Before, Prf!Buffer, Prf!timer, Prf!route
<1>3. Prf!SetupInv'
  BY <1>1 DEF Prf!TypeOK, Prf!SetupInv, Prf!Exit, Prf!Mains, Prf!Isrs, Prf!Before, Prf!Buffer, Prf!timer, Prf!route
<1>4. Prf!TimerInv'
  BY <1>1, PortFacts DEF Prf!TypeOK, Prf!SetupInv, Prf!TimerInv, Prf!Started, Prf!FreshPending, Prf!Unsampled, Prf!Exit,
     Prf!Mains, Prf!Isrs, Prf!Before, Prf!Buffer, Prf!timer, Prf!route
<1>5. Prf!BufferInv'
  BY <1>1, BufferedKept DEF Prf!TypeOK, Prf!BufferInv, Prf!Exit, Prf!Mains, Prf!Isrs, Prf!Buffer, Prf!timer, Prf!route
<1>6. Prf!LossInv'
  BY <1>1, LossApart DEF Prf!Exit, Prf!Buffer
<1> QED
  BY <1>2, <1>3, <1>4, <1>5, <1>6 DEF Prf!IInv

LEMMA InterruptInv ==
  ASSUME BufferAssumption, Prf!IInv, Prf!Interrupt
  PROVE  Prf!IInv'
<1>1. Prf!TypeOK /\ Prf!SetupInv /\ Prf!TimerInv /\ Prf!BufferInv /\ Prf!LossInv
  BY DEF Prf!IInv
<1>2. Prf!TypeOK'
  <2>1. late' \subseteq Nat /\ epc' \in Nat
    <3>1. late \subseteq Nat /\ epc \in Nat /\ Len(taken) + 1 \in Nat
      BY <1>1 DEF Prf!TypeOK
    <3>2. late' = late \/ late' = late \cup {Len(taken) + 1}
      BY DEF Prf!Interrupt
    <3>3. epc' = epc \/ epc' = Len(taken) + 1
      BY DEF Prf!Interrupt
    <3> QED
      BY <3>1, <3>2, <3>3
  <2> QED
    BY <1>1, <2>1 DEF Prf!TypeOK, Prf!Interrupt, Prf!Mains, Prf!Isrs, Prf!Before, Prf!Buffer, Prf!timer,
       Prf!route
<1>3. Prf!SetupInv'
  BY <1>1 DEF Prf!TypeOK, Prf!SetupInv, Prf!Interrupt, Prf!Mains, Prf!Isrs, Prf!Before, Prf!Buffer, Prf!timer, Prf!route
<1>4. Prf!TimerInv'
  BY <1>1, PortFacts DEF Prf!TypeOK, Prf!SetupInv, Prf!TimerInv, Prf!Started, Prf!FreshPending, Prf!Unsampled, Prf!Interrupt,
     Prf!Mains, Prf!Isrs, Prf!Before, Prf!Buffer, Prf!timer, Prf!route
<1>5. Prf!BufferInv'
  BY <1>1, BufferedKept DEF Prf!TypeOK, Prf!BufferInv, Prf!Interrupt, Prf!Mains, Prf!Isrs, Prf!Buffer, Prf!timer,
     Prf!route
<1>6. Prf!LossInv'
  <2>1. /\ UNCHANGED <<taken, sent, sample_count, profile_buffer, rest, main>>
        /\ late' = IF main \in {"send", "reset"} THEN late \cup {Len(taken) + 1} ELSE late
    BY DEF Prf!Interrupt, Prf!Buffer
  <2>2. Prf!Buffered' = Prf!Buffered
    BY <2>1, BufferedKept
  <2> QED
    BY <1>1, <2>1, <2>2 DEF Prf!LossInv, Prf!OnTime, Prf!InRest, Prf!In
<1> QED
  BY <1>2, <1>3, <1>4, <1>5, <1>6 DEF Prf!IInv

LEMMA WrapperInv ==
  ASSUME BufferAssumption, Prf!IInv, Prf!Wrapper
  PROVE  Prf!IInv'
<1>1. Prf!TypeOK /\ Prf!SetupInv /\ Prf!TimerInv /\ Prf!BufferInv /\ Prf!LossInv
  BY DEF Prf!IInv
<1>2. Prf!TypeOK'
  BY <1>1 DEF Prf!TypeOK, Prf!Wrapper, Prf!Mains, Prf!Isrs, Prf!Before, Prf!Buffer, Prf!timer, Prf!route
<1>3. Prf!SetupInv'
  BY <1>1 DEF Prf!TypeOK, Prf!SetupInv, Prf!Wrapper, Prf!Mains, Prf!Isrs, Prf!Before, Prf!Buffer, Prf!timer, Prf!route
<1>4. Prf!TimerInv'
  BY <1>1, PortFacts DEF Prf!TypeOK, Prf!SetupInv, Prf!TimerInv, Prf!Started, Prf!FreshPending, Prf!Unsampled, Prf!Wrapper,
     Prf!Mains, Prf!Isrs, Prf!Before, Prf!Buffer, Prf!timer, Prf!route
<1>5. Prf!BufferInv'
  BY <1>1, BufferedKept DEF Prf!TypeOK, Prf!BufferInv, Prf!Wrapper, Prf!Mains, Prf!Isrs, Prf!Buffer, Prf!timer, Prf!route
<1>6. Prf!LossInv'
  BY <1>1, LossKept DEF Prf!Wrapper, Prf!Buffer
<1> QED
  BY <1>2, <1>3, <1>4, <1>5, <1>6 DEF Prf!IInv

LEMMA ReinitInv ==
  ASSUME BufferAssumption, Prf!IInv, Prf!Reinit
  PROVE  Prf!IInv'
<1>1. Prf!TypeOK /\ Prf!SetupInv /\ Prf!TimerInv /\ Prf!BufferInv /\ Prf!LossInv
  BY DEF Prf!IInv
<1>2. Prf!TypeOK'
  BY <1>1 DEF Prf!TypeOK, Prf!Reinit, Prf!Starts, Prf!Acks, Prf!Mains, Prf!Isrs, Prf!Before, Prf!Buffer, Prf!timer, Prf!route
<1>3. Prf!SetupInv'
  BY <1>1 DEF Prf!TypeOK, Prf!SetupInv, Prf!Reinit, Prf!Starts, Prf!Acks, Prf!Mains, Prf!Isrs, Prf!Before, Prf!Buffer,
     Prf!timer, Prf!route
<1>4. Prf!TimerInv'
  BY <1>1, PortFacts DEF Prf!TypeOK, Prf!SetupInv, Prf!TimerInv, Prf!Started, Prf!FreshPending, Prf!Unsampled, Prf!Reinit,
     Prf!Starts, Prf!Acks, Prf!Mains, Prf!Isrs, Prf!Before, Prf!Buffer, Prf!timer, Prf!route
<1>5. Prf!BufferInv'
  BY <1>1, BufferedKept DEF Prf!TypeOK, Prf!BufferInv, Prf!Reinit, Prf!Mains, Prf!Isrs, Prf!Buffer, Prf!timer, Prf!route
<1>6. Prf!LossInv'
  BY <1>1, LossKept DEF Prf!Reinit, Prf!Buffer
<1> QED
  BY <1>2, <1>3, <1>4, <1>5, <1>6 DEF Prf!IInv

LEMMA ClearInterruptInv ==
  ASSUME BufferAssumption, Prf!IInv, Prf!ClearInterrupt
  PROVE  Prf!IInv'
<1>1. Prf!TypeOK /\ Prf!SetupInv /\ Prf!TimerInv /\ Prf!BufferInv /\ Prf!LossInv
  BY DEF Prf!IInv
<1>2. Prf!TypeOK'
  BY <1>1 DEF Prf!TypeOK, Prf!ClearInterrupt, Prf!Starts, Prf!Acks, Prf!Mains, Prf!Isrs, Prf!Before, Prf!Buffer, Prf!timer,
     Prf!route
<1>3. Prf!SetupInv'
  BY <1>1 DEF Prf!TypeOK, Prf!SetupInv, Prf!ClearInterrupt, Prf!Starts, Prf!Acks, Prf!Mains, Prf!Isrs, Prf!Before,
     Prf!Buffer, Prf!timer, Prf!route
<1>4. Prf!TimerInv'
  BY <1>1, PortFacts DEF Prf!TypeOK, Prf!SetupInv, Prf!TimerInv, Prf!Started, Prf!FreshPending, Prf!Unsampled,
     Prf!ClearInterrupt, Prf!Starts, Prf!Acks, Prf!Mains, Prf!Isrs, Prf!Before, Prf!Buffer, Prf!timer, Prf!route
<1>5. Prf!BufferInv'
  BY <1>1, BufferedKept DEF Prf!TypeOK, Prf!BufferInv, Prf!ClearInterrupt, Prf!Mains, Prf!Isrs, Prf!Buffer,
     Prf!timer, Prf!route
<1>6. Prf!LossInv'
  BY <1>1, LossKept DEF Prf!ClearInterrupt, Prf!Buffer
<1> QED
  BY <1>2, <1>3, <1>4, <1>5, <1>6 DEF Prf!IInv

LEMMA LoadCountInv ==
  ASSUME BufferAssumption, Prf!IInv, Prf!LoadCount
  PROVE  Prf!IInv'
<1>1. Prf!TypeOK /\ Prf!SetupInv /\ Prf!TimerInv /\ Prf!BufferInv /\ Prf!LossInv
  BY DEF Prf!IInv
<1>2. Prf!TypeOK'
  BY <1>1 DEF Prf!TypeOK, Prf!LoadCount, Prf!Mains, Prf!Isrs, Prf!Before, Prf!Buffer, Prf!timer, Prf!route
<1>3. Prf!SetupInv'
  BY <1>1 DEF Prf!TypeOK, Prf!SetupInv, Prf!LoadCount, Prf!Mains, Prf!Isrs, Prf!Before, Prf!Buffer, Prf!timer, Prf!route
<1>4. Prf!TimerInv'
  BY <1>1, PortFacts DEF Prf!TypeOK, Prf!SetupInv, Prf!TimerInv, Prf!Started, Prf!FreshPending, Prf!Unsampled, Prf!LoadCount,
     Prf!Mains, Prf!Isrs, Prf!Before, Prf!Buffer, Prf!timer, Prf!route
<1>5. Prf!BufferInv'
  BY <1>1, BufferedKept DEF Prf!TypeOK, Prf!BufferInv, Prf!LoadCount, Prf!Mains, Prf!Isrs, Prf!Buffer, Prf!timer, Prf!route
<1>6. Prf!LossInv'
  <2>1. /\ UNCHANGED <<taken, sent, sample_count, profile_buffer, late, isr>>
        /\ main = "flush" /\ main' = "send" /\ isr = "idle" /\ rest' = sample_count
    BY DEF Prf!LoadCount, Prf!Buffer
  <2>2. \A k \in Prf!OnTime : Prf!In(k, sent) \/ Prf!In(k, Prf!Buffered)
    BY <1>1, <2>1 DEF Prf!LossInv
  <2>3. \A k : Prf!In(k, Prf!Buffered) => Prf!InRest(k)'
    <3> SUFFICES ASSUME NEW k, NEW i \in 1 .. Len(Prf!Buffered), Prf!Buffered[i] = k
                 PROVE  Prf!InRest(k)'
      BY DEF Prf!In
    <3>1. sample_count \in Nat /\ i \in 1 .. sample_count
      BY <1>1, BufferSeq DEF Prf!TypeOK, BufferAssumption
    <3>2. i - 1 \in 0 .. rest' - 1 /\ profile_buffer'[i - 1] = k
      BY <2>1, <3>1 DEF Prf!Buffered
    <3> QED
      BY <3>2 DEF Prf!InRest
  <2>4. \A k \in Prf!OnTime' : Prf!In(k, sent)' \/ Prf!InRest(k)'
    BY <2>1, <2>2, <2>3 DEF Prf!OnTime, Prf!In
  <2>5. rest' <= sample_count'
    BY <1>1, <2>1 DEF Prf!TypeOK, BufferAssumption
  <2> QED
    BY <2>1, <2>4, <2>5 DEF Prf!LossInv
<1> QED
  BY <1>2, <1>3, <1>4, <1>5, <1>6 DEF Prf!IInv

LEMMA SendRestInv ==
  ASSUME BufferAssumption, Prf!IInv, Prf!SendRest
  PROVE  Prf!IInv'
<1>1. Prf!TypeOK /\ Prf!SetupInv /\ Prf!TimerInv /\ Prf!BufferInv /\ Prf!LossInv
  BY DEF Prf!IInv
<1>2. Prf!TypeOK'
  <2>1. sent' \in Seq(Nat)
    <3>1. [k \in 1 .. rest |-> profile_buffer[k-1]] \in Seq(Nat)
      BY <1>1 DEF Prf!TypeOK, BufferAssumption
    <3> QED
      BY <1>1, <3>1, ConcatProperties DEF Prf!TypeOK, Prf!SendRest
  <2> QED
    BY <1>1, <2>1 DEF Prf!TypeOK, Prf!SendRest, Prf!Mains, Prf!timer, Prf!route
<1>3. Prf!SetupInv'
  BY <1>1, PortFacts DEF Prf!TypeOK, Prf!SetupInv, Prf!SendRest, Prf!Mains, Prf!Isrs, Prf!Before, Prf!Buffer, Prf!timer,
     Prf!route
<1>4. Prf!TimerInv'
  BY <1>1, PortFacts DEF Prf!TypeOK, Prf!SetupInv, Prf!TimerInv, Prf!Started, Prf!FreshPending, Prf!Unsampled, Prf!SendRest,
     Prf!Mains,
     Prf!Isrs, Prf!Before, Prf!Buffer, Prf!timer, Prf!route
<1>5. Prf!BufferInv'
  <2>1. /\ UNCHANGED <<taken, late, isr, sample_count>> /\ main = "send" /\ main' = "reset"
        /\ isr = "idle"
    BY DEF Prf!SendRest
  <2>2. late = {} => sent' = taken
    <3> SUFFICES ASSUME late = {} PROVE sent' = taken
      OBVIOUS
    <3>1. rest = sample_count /\ sent \o Prf!Buffered = taken
      BY <1>1, <2>1 DEF Prf!BufferInv
    <3> QED
      BY <3>1 DEF Prf!SendRest, Prf!Buffered
  <2> QED
    BY <1>1, <2>1, <2>2 DEF Prf!BufferInv
<1>6. Prf!LossInv'
  <2> DEFINE X == [k \in 1 .. rest |-> profile_buffer[k-1]]
  <2>1. /\ UNCHANGED <<taken, late, isr>> /\ main = "send" /\ main' = "reset" /\ isr = "idle"
        /\ sent' = sent \o X
    BY DEF Prf!SendRest
  <2>2. X \in Seq(Nat) /\ Len(X) = rest /\ rest \in Nat /\ sent \in Seq(Nat)
    BY <1>1 DEF Prf!TypeOK, BufferAssumption
  <2>3. \A k : Prf!InRest(k) => Prf!In(k, X)
    <3> SUFFICES ASSUME NEW k, NEW i \in 0 .. rest - 1, profile_buffer[i] = k
                 PROVE  Prf!In(k, X)
      BY DEF Prf!InRest
    <3>1. i + 1 \in 1 .. Len(X) /\ X[i + 1] = k
      BY <2>2
    <3> HIDE DEF X
    <3> QED
      BY <3>1 DEF Prf!In
  <2>4. \A k \in Prf!OnTime : Prf!In(k, sent) \/ Prf!InRest(k)
    BY <1>1, <2>1 DEF Prf!LossInv
  <2> HIDE DEF X
  <2>5. \A k \in Prf!OnTime : Prf!In(k, sent')
    BY <2>1, <2>2, <2>3, <2>4, InConcat
  <2> QED
    BY <2>1, <2>5 DEF Prf!LossInv, Prf!OnTime
<1> QED
  BY <1>2, <1>3, <1>4, <1>5, <1>6 DEF Prf!IInv

LEMMA ResetCountInv ==
  ASSUME BufferAssumption, Prf!IInv, Prf!ResetCount
  PROVE  Prf!IInv'
<1>1. Prf!TypeOK /\ Prf!SetupInv /\ Prf!TimerInv /\ Prf!BufferInv /\ Prf!LossInv
  BY DEF Prf!IInv
<1>2. Prf!TypeOK'
  BY <1>1 DEF BufferAssumption, Prf!TypeOK, Prf!ResetCount, Prf!Mains, Prf!timer, Prf!route
<1>3. Prf!SetupInv'
  BY <1>1, PortFacts DEF Prf!TypeOK, Prf!SetupInv, Prf!ResetCount, Prf!Mains, Prf!Isrs, Prf!Before, Prf!Buffer,
     Prf!timer, Prf!route
<1>4. Prf!TimerInv'
  BY <1>1, PortFacts DEF Prf!TypeOK, Prf!SetupInv, Prf!TimerInv, Prf!Started, Prf!FreshPending, Prf!Unsampled,
     Prf!ResetCount, Prf!Mains,
     Prf!Isrs, Prf!Before, Prf!Buffer, Prf!timer, Prf!route
<1>5. Prf!BufferInv'
  <2>1. Prf!Buffered' = <<>> /\ sent \o <<>> = sent
    BY <1>1, BufferEmptied, ConcatEmpty DEF Prf!TypeOK, Prf!ResetCount
  <2> QED
    BY <1>1, <2>1 DEF BufferAssumption, Prf!TypeOK, Prf!BufferInv, Prf!ResetCount, Prf!Mains, Prf!Isrs
<1>6. Prf!LossInv'
  <2>1. /\ UNCHANGED <<taken, sent, late, isr>> /\ main = "reset" /\ main' = "exit"
    BY DEF Prf!ResetCount
  <2> QED
    BY <1>1, <2>1 DEF Prf!LossInv, Prf!OnTime, Prf!In
<1> QED
  BY <1>2, <1>3, <1>4, <1>5, <1>6 DEF Prf!IInv

LEMMA SampleInv ==
  ASSUME BufferAssumption, Prf!IInv, Prf!Sample
  PROVE  Prf!IInv'
<1>1. Prf!TypeOK /\ Prf!SetupInv /\ Prf!TimerInv /\ Prf!BufferInv /\ Prf!LossInv
  BY DEF Prf!IInv
<1>2. Prf!TypeOK'
  <2>1. sample_count < PROFBUFSIZE /\ sample_count' \in 0..PROFBUFSIZE
    BY <1>1 DEF BufferAssumption, Prf!TypeOK, Prf!BufferInv, Prf!Sample
  <2>2. taken' \in Seq(Nat)
    BY <1>1 DEF Prf!TypeOK, Prf!Sample
  <2>3. profile_buffer' \in [0..PROFBUFSIZE-1 -> Nat]
    BY <1>1, <2>1 DEF Prf!TypeOK, Prf!Sample
  <2>4. isr' \in Prf!Isrs
    BY DEF Prf!Sample, Prf!Isrs
  <2> QED
    BY <1>1, <2>1, <2>2, <2>3, <2>4 DEF Prf!TypeOK, Prf!Sample, Prf!timer, Prf!route
<1>3. Prf!SetupInv'
  BY <1>1, PortFacts DEF Prf!TypeOK, Prf!SetupInv, Prf!Sample, Prf!Mains, Prf!Isrs, Prf!Before, Prf!Buffer, Prf!timer,
     Prf!route
<1>4. Prf!TimerInv'
  BY <1>1, PortFacts DEF Prf!TypeOK, Prf!SetupInv, Prf!TimerInv, Prf!Started, Prf!FreshPending, Prf!Unsampled, Prf!Sample,
     Prf!Mains,
     Prf!Isrs, Prf!Before, Prf!Buffer, Prf!timer, Prf!route
<1>5. Prf!BufferInv'
  <2>1. sample_count < PROFBUFSIZE /\ epc = Len(taken) + 1 /\ isr = "sample"
    BY <1>1 DEF Prf!BufferInv, Prf!Sample
  <2>2. Prf!Buffered' = Append(Prf!Buffered, epc)
    BY <1>1, <2>1, BufferFilled DEF Prf!Sample
  <2>3. IF isr' = "flush" THEN sample_count' = PROFBUFSIZE ELSE sample_count' < PROFBUFSIZE
    BY <1>1, <2>1 DEF BufferAssumption, Prf!TypeOK, Prf!Sample
  <2>4. /\ main \notin {"reset", "exit", "ended"} => sent \o Prf!Buffered = taken
        /\ late = {} => main \notin {"send", "reset"} /\ sent \o Prf!Buffered = taken
    BY <1>1, <2>1 DEF Prf!BufferInv
  <2>5. sent \o Append(Prf!Buffered, epc) = Append(sent \o Prf!Buffered, epc)
    BY <1>1, BufferSeq, AppendConcat DEF Prf!TypeOK
  <2>6. /\ taken' = Append(taken, epc) /\ isr' # "sample"
        /\ UNCHANGED <<sent, late, main>>
    BY <2>1 DEF Prf!Sample
  <2> QED
    BY <2>2, <2>3, <2>4, <2>5, <2>6 DEF Prf!BufferInv
<1>6. Prf!LossInv'
  <2>1. /\ UNCHANGED <<sent, rest, late, main>> /\ isr = "sample" /\ isr' # "sample" /\ isr' # "wrapper"
        /\ taken' = Append(taken, Len(taken) + 1)
        /\ sample_count' = sample_count + 1
        /\ profile_buffer' = [profile_buffer EXCEPT ![sample_count] = epc]
    BY DEF Prf!Sample
  <2>2. /\ sample_count < PROFBUFSIZE /\ epc = Len(taken) + 1
        /\ Len(taken) \in Nat /\ Len(taken') = Len(taken) + 1
        /\ sample_count \in Nat /\ PROFBUFSIZE \in Nat /\ rest \in Nat
    BY <1>1, <2>1 DEF Prf!TypeOK, Prf!BufferInv, BufferAssumption
  <2>3. /\ Prf!OnTime' \subseteq Prf!OnTime \cup {epc}
        /\ main \in {"send", "reset"} => Prf!OnTime' \subseteq Prf!OnTime
    BY <1>1, <2>1, <2>2 DEF Prf!OnTime, Prf!LossInv
  <2>4. \A k : Prf!In(k, sent)' <=> Prf!In(k, sent)
    BY <2>1 DEF Prf!In
  <2>5. CASE main \notin {"send", "reset"}
    <3>1. Prf!Buffered' = Append(Prf!Buffered, epc) /\ Prf!Buffered \in Seq(Nat) /\ epc \in Nat
      BY <1>1, <2>1, <2>2, BufferFilled, BufferSeq
    <3>2. \A k : Prf!In(k, Prf!Buffered) \/ k = epc => Prf!In(k, Prf!Buffered')
      BY <3>1, InAppend
    <3> QED
      BY <1>1, <2>1, <2>3, <2>4, <2>5, <3>2 DEF Prf!LossInv, Prf!In
  <2>6. CASE main = "send"
    <3>1. rest <= sample_count => \A k : Prf!InRest(k) => Prf!InRest(k)'
      BY <1>1, <2>1, <2>2 DEF Prf!TypeOK, Prf!InRest
    <3>2. rest <= sample_count => rest' <= sample_count'
      BY <2>1, <2>2
    <3>3. \/ \A k \in Prf!OnTime : Prf!In(k, sent)
          \/ rest <= sample_count /\ \A k \in Prf!OnTime : Prf!In(k, sent) \/ Prf!InRest(k)
      BY <1>1, <2>6 DEF Prf!LossInv
    <3>4. main' = "send" /\ Prf!OnTime' \subseteq Prf!OnTime
      BY <2>1, <2>3, <2>6
    <3>5. \/ \A k \in Prf!OnTime' : Prf!In(k, sent)'
          \/ rest' <= sample_count' /\ \A k \in Prf!OnTime' : Prf!In(k, sent)' \/ Prf!InRest(k)'
      BY <2>4, <3>1, <3>2, <3>3, <3>4
    <3> QED
      BY <2>1, <3>4, <3>5 DEF Prf!LossInv
  <2>7. CASE main = "reset"
    BY <1>1, <2>1, <2>3, <2>4, <2>7 DEF Prf!LossInv
  <2> QED
    BY <2>5, <2>6, <2>7
<1> QED
  BY <1>2, <1>3, <1>4, <1>5, <1>6 DEF Prf!IInv

LEMMA FlushInv ==
  ASSUME BufferAssumption, Prf!IInv, Prf!Flush
  PROVE  Prf!IInv'
<1>1. Prf!TypeOK /\ Prf!SetupInv /\ Prf!TimerInv /\ Prf!BufferInv /\ Prf!LossInv
  BY DEF Prf!IInv
<1>2. Prf!TypeOK'
  <2>1. sent' \in Seq(Nat)
    BY <1>1, BufferSeq, ConcatProperties DEF Prf!TypeOK, Prf!Flush
  <2> QED
    BY <1>1, <2>1 DEF BufferAssumption, Prf!TypeOK, Prf!Flush, Prf!Isrs, Prf!timer, Prf!route
<1>3. Prf!SetupInv'
  BY <1>1, PortFacts DEF Prf!TypeOK, Prf!SetupInv, Prf!Flush, Prf!Mains, Prf!Isrs, Prf!Before, Prf!Buffer, Prf!timer,
     Prf!route
<1>4. Prf!TimerInv'
  BY <1>1, PortFacts DEF Prf!TypeOK, Prf!SetupInv, Prf!TimerInv, Prf!Started, Prf!FreshPending, Prf!Unsampled, Prf!Flush,
     Prf!Mains,
     Prf!Isrs, Prf!Before, Prf!Buffer, Prf!timer, Prf!route
<1>5. Prf!BufferInv'
  <2>1. Prf!Buffered' = <<>> /\ sent' \in Seq(Nat)
    BY <1>1, <1>2, BufferEmptied DEF Prf!TypeOK, Prf!Flush
  <2>2. sent' \o <<>> = sent'
    BY <2>1, ConcatEmpty
  <2>3. /\ main \notin {"reset", "exit", "ended"} => sent \o Prf!Buffered = taken
        /\ late = {} => main \notin {"send", "reset"} /\ sent \o Prf!Buffered = taken
    BY <1>1 DEF Prf!BufferInv, Prf!Flush
  <2>4. /\ sent' = sent \o Prf!Buffered /\ sample_count' = 0 /\ isr' = "init"
        /\ UNCHANGED <<taken, late, main>>
    BY DEF Prf!Flush
  <2> QED
    BY <2>1, <2>2, <2>3, <2>4 DEF BufferAssumption, Prf!BufferInv
<1>6. Prf!LossInv'
  <2>1. /\ UNCHANGED <<taken, rest, late, main>> /\ isr' = "init"
        /\ sent' = sent \o Prf!Buffered
    BY DEF Prf!Flush
  <2>2. Prf!Buffered \in Seq(Nat) /\ Len(Prf!Buffered) = sample_count /\ sent \in Seq(Nat)
    BY <1>1, BufferSeq DEF Prf!TypeOK
  <2>3. \A k : Prf!In(k, sent) \/ Prf!In(k, Prf!Buffered) => Prf!In(k, sent')
    BY <2>1, <2>2, InConcat
  <2>4. rest <= sample_count => \A k : Prf!InRest(k) => Prf!In(k, Prf!Buffered)
    <3> SUFFICES ASSUME rest <= sample_count, NEW k, NEW i \in 0 .. rest - 1,
                        profile_buffer[i] = k
                 PROVE  Prf!In(k, Prf!Buffered)
      BY DEF Prf!InRest
    <3>1. i + 1 \in 1 .. sample_count /\ Prf!Buffered[i + 1] = k
      BY <1>1 DEF Prf!TypeOK, BufferAssumption, Prf!Buffered
    <3> QED
      BY <2>2, <3>1 DEF Prf!In
  <2>5. \A k \in Prf!OnTime' : Prf!In(k, sent)'
    BY <1>1, <2>1, <2>3, <2>4 DEF Prf!LossInv, Prf!OnTime, Prf!In
  <2> QED
    BY <2>1, <2>5 DEF Prf!LossInv
<1> QED
  BY <1>2, <1>3, <1>4, <1>5, <1>6 DEF Prf!IInv

LEMMA SamplingInit ==
  ASSUME BufferAssumption, Prf!Init
  PROVE  Prf!IInv
<1>1. Prf!TypeOK
  <2>1. taken \in Seq(Nat) /\ sent \in Seq(Nat)
    BY EmptySeq DEF Prf!Init
  <2>2. profile_buffer \in [0..PROFBUFSIZE-1 -> Nat] /\ sample_count \in 0..PROFBUFSIZE
      /\ rest \in 0..PROFBUFSIZE /\ late \subseteq Nat
    BY DEF Prf!Init, BufferAssumption
  <2>3. port \in Prf!Ports /\ vector \in BOOLEAN /\ unmasked \in BOOLEAN /\ maskall \in BOOLEAN
    BY PortFacts DEF Prf!Init
  <2>4. /\ running \in BOOLEAN /\ pending \in BOOLEAN /\ enabled \in BOOLEAN /\ expired \in Nat
        /\ epc \in Nat /\ main \in Prf!Mains /\ isr \in Prf!Isrs
    BY DEF Prf!Init, Prf!Mains, Prf!Before, Prf!Isrs
  <2> QED
    BY <2>1, <2>2, <2>3, <2>4 DEF Prf!TypeOK
<1>2. Prf!SetupInv /\ Prf!TimerInv
  <2>1. /\ main = "setup" /\ isr = "idle" /\ enabled = FALSE /\ running = FALSE
        /\ pending = FALSE /\ expired = 0 /\ Len(taken) = 0
        /\ vector = (port.stored = "linked")
    BY EmptySeq DEF Prf!Init
  <2>2. Prf!SetupInv
    BY <2>1 DEF Prf!SetupInv, Prf!Before
  <2>3. Prf!Unsampled = 0 /\ ~Prf!Started
    BY <2>1 DEF Prf!Unsampled, Prf!FreshPending, Prf!Started, Prf!Before
  <2> QED
    BY <2>1, <2>2, <2>3 DEF Prf!TimerInv
<1>3. Prf!BufferInv
  <2>1. Prf!Buffered = <<>> /\ <<>> \o <<>> = <<>>
    BY DEF Prf!Init, Prf!Buffered
  <2> QED
    BY <2>1 DEF Prf!Init, Prf!BufferInv, BufferAssumption
<1>4. Prf!LossInv
  BY EmptySeq DEF Prf!Init, Prf!LossInv, Prf!OnTime
<1> QED
  BY <1>1, <1>2, <1>3, <1>4 DEF Prf!IInv

LEMMA SamplingNext ==
  ASSUME BufferAssumption, Prf!IInv, [Prf!Next]_(Prf!vars)
  PROVE  Prf!IInv'
<1>1. CASE UNCHANGED Prf!vars
  <2>1. Prf!Buffered' = Prf!Buffered
    BY <1>1, BufferedKept DEF Prf!vars
  <2> QED
    BY <1>1, <2>1 DEF Prf!vars, Prf!timer, Prf!route, Prf!IInv, Prf!TypeOK, Prf!SetupInv, Prf!TimerInv, Prf!Unsampled,
       Prf!Started, Prf!FreshPending, Prf!BufferInv, Prf!LossInv, Prf!OnTime, Prf!InRest, Prf!In
<1>2. CASE Prf!Next
  BY <1>2, ExpireInv, StoreVectorInv, UnmaskInv, TimerInitInv, EnableVectorInv, EnableTimerInv, EndInv,
     LoadCountInv,
     SendRestInv, ResetCountInv, ExitInv, InterruptInv, WrapperInv, SampleInv, FlushInv,
     ReinitInv, ClearInterruptInv DEF Prf!Next
<1> QED
  BY <1>1, <1>2

(* What the inductive invariant says of the samples. *)
LEMMA SamplingHolds ==
  ASSUME BufferAssumption, Prf!IInv
  PROVE  Prf!SamplingExact
<1>1. Len(taken) <= expired
  BY DEF Prf!IInv, Prf!TypeOK, Prf!TimerInv, Prf!Unsampled
<1>2. enabled /\ isr = "idle" => running \/ pending
  BY DEF Prf!IInv, Prf!SetupInv, Prf!TimerInv, Prf!Started
<1>3. enabled => vector /\ unmasked
  BY DEF Prf!IInv, Prf!SetupInv, Prf!Before
<1>4. sample_count <= PROFBUFSIZE
  BY DEF Prf!IInv, Prf!TypeOK, BufferAssumption
<1>5. \A k \in 1 .. Len(taken) : k \in late \/ Prf!In(k, sent) \/ Prf!In(k, Prf!Buffered)
  <2>1. \A k : rest <= sample_count /\ Prf!InRest(k) => Prf!In(k, Prf!Buffered)
    <3> SUFFICES ASSUME rest <= sample_count, NEW k, NEW i \in 0 .. rest - 1,
                        profile_buffer[i] = k
                 PROVE  Prf!In(k, Prf!Buffered)
      BY DEF Prf!InRest
    <3>1. i + 1 \in 1 .. sample_count /\ Prf!Buffered[i + 1] = k
      BY DEF Prf!IInv, Prf!TypeOK, BufferAssumption, Prf!Buffered
    <3> QED
      BY <3>1, BufferSeq DEF Prf!IInv, Prf!In
  <2>2. \A k \in Prf!OnTime : Prf!In(k, sent) \/ Prf!In(k, Prf!Buffered)
    BY <2>1 DEF Prf!IInv, Prf!LossInv
  <2> QED
    BY <2>2 DEF Prf!OnTime
<1> QED
  BY <1>1, <1>2, <1>3, <1>4, <1>5 DEF Prf!IInv, Prf!BufferInv, Prf!SamplingExact

(* No sample is taken without an expiry, the buffer is never overrun, the  *)
(* vector is in place before an interrupt can come, and the timer is ready *)
(* or its interrupt to come, on every port.  Samples go once and in order  *)
(* up to the system call of the flush at exit, and lost are only those of  *)
(* interrupts between its load of the count and its reset of it.           *)
THEOREM SamplingAlwaysExact ==
  ASSUME BufferAssumption
  PROVE  Prf!Spec => []Prf!SamplingExact
<1>1. Prf!Init => Prf!IInv
  BY SamplingInit
<1>2. Prf!IInv /\ [Prf!Next]_(Prf!vars) => Prf!IInv'
  BY SamplingNext
<1>3. Prf!IInv => Prf!SamplingExact
  BY SamplingHolds
<1> QED
  BY <1>1, <1>2, <1>3, PTL DEF Prf!Spec
-----------------------------------------------------------------------------
(* Thread-local data: a thread finds in its own items what it left there,   *)
(* for any threads and times and whatever items an integrator provides.     *)

TimesAreNat == Times \subseteq Nat

LEMMA Item ==
  ASSUME NEW t \in Users, NEW item
  PROVE  Tls!GetThreadLocalStorageItem(t, item) \in Tls!Places
  BY DEF Tls!GetThreadLocalStorageItem, Tls!Places, Tls!Global

(* What is a thread's own is no other thread's. *)
LEMMA Apart ==
  ASSUME NEW t \in threads, NEW u \in threads, t # u, NEW item, Tls!Own(item)
  PROVE  Tls!GetThreadLocalStorageItem(t, item) # Tls!GetThreadLocalStorageItem(u, item)
  BY DEF Tls!Own, Tls!Alone, Tls!GetThreadLocalStorageItem

LEMMA ErrnoApart ==
  ASSUME NEW t \in threads, NEW u \in threads, t # u, Tls!OwnErrno
  PROVE  Tls!errno_ptr(t) # Tls!errno_ptr(u)
  BY DEF Tls!OwnErrno, Tls!Alone, Tls!errno_ptr, Tls!GetThreadLocalStorageItem

(* The configuration of the library never changes. *)
LEMMA Config ==
  ASSUME UNCHANGED Tls!config
  PROVE  /\ threads' = threads /\ Tls!Alone' = Tls!Alone /\ Tls!OwnErrno' = Tls!OwnErrno
         /\ \A item : Tls!Own(item)' = Tls!Own(item)
         /\ \A t : /\ Tls!errno_ptr(t)' = Tls!errno_ptr(t) /\ Tls!TimeItem(t)' = Tls!TimeItem(t)
                   /\ Tls!get_eh_globals(t)' = Tls!get_eh_globals(t)
  BY DEF Tls!config, Tls!Alone, Tls!Own, Tls!OwnErrno, Tls!ThreadErrno, Tls!errno_ptr, Tls!TimeItem, Tls!get_eh_globals,
         Tls!GetThreadLocalStorageItem

LEMMA ErrnoKept ==
  ASSUME Tls!IInv, UNCHANGED <<Tls!config, errno, failed>>
  PROVE  \A u \in threads' : Tls!OwnErrno' => Tls!ErrnoIsOwn(u)'
  BY Config DEF Tls!IInv, Tls!OwnCopies, Tls!ErrnoIsOwn, Tls!get_errno

LEMMA ThrownKept ==
  ASSUME Tls!IInv, UNCHANGED <<Tls!config, eh, thrown>>
  PROVE  \A u \in threads' : Tls!Own("__eh_globals")' => Tls!ThrownIsOwn(u)'
  BY Config DEF Tls!IInv, Tls!OwnCopies, Tls!ThrownIsOwn

LEMMA TimeKept ==
  ASSUME Tls!IInv, UNCHANGED <<Tls!config, tm, shown, result>>
  PROVE  \A u \in threads' : Tls!Own("gmtime_temp")' => Tls!TimeIsOwn(u)'
  BY Config DEF Tls!IInv, Tls!OwnCopies, Tls!TimeIsOwn

LEMMA CallKept ==
  ASSUME Tls!IInv, UNCHANGED <<Tls!config, tm, step, arg, ptr, shown, result>>
  PROVE  \A u \in threads' : Tls!PtrInv(u)' /\ (Tls!Own("gmtime_temp")' => Tls!FillInv(u)')
  BY Config DEF Tls!IInv, Tls!PtrInv, Tls!FillInv

LEMMA ThrowInv ==
  ASSUME Tls!IInv, NEW t \in Users, Tls!Throw(t)
  PROVE  Tls!IInv'
<1>0. t \in threads /\ t \in Users /\ UNCHANGED <<Tls!config, errno, tm, step, arg, ptr, failed, shown, result>>
  BY DEF Tls!Throw, Tls!Use, Tls!At
<1>1. Tls!get_eh_globals(t) \in Tls!Places /\ Tls!TypeOK
  BY Item DEF Tls!get_eh_globals, Tls!IInv, Tls!TypeOK
<1>2. Tls!TypeOK'
  BY <1>0, <1>1 DEF Tls!TypeOK, Tls!Throw, Tls!config
<1>3. ASSUME NEW u \in threads', Tls!Own("__eh_globals")' PROVE Tls!ThrownIsOwn(u)'
  <2>1. Tls!Own("__eh_globals") /\ u \in threads /\ Tls!ThrownIsOwn(u) /\ Tls!get_eh_globals(u)' = Tls!get_eh_globals(u)
    BY <1>0, <1>3, Config DEF Tls!IInv, Tls!OwnCopies
  <2>2. CASE u = t
    BY <1>0, <1>1, <2>1, <2>2 DEF Tls!ThrownIsOwn, Tls!Throw, Tls!TypeOK
  <2>3. CASE u # t
    <3>1. Tls!get_eh_globals(u) # Tls!get_eh_globals(t)
      BY <1>0, <2>1, <2>3, Apart DEF Tls!get_eh_globals
    <3> QED
      BY <1>0, <1>1, <2>1, <2>3, <3>1 DEF Tls!ThrownIsOwn, Tls!Throw, Tls!TypeOK
  <2> QED
    BY <2>2, <2>3
<1> QED
  BY <1>0, <1>2, <1>3, ErrnoKept, TimeKept, CallKept DEF Tls!IInv, Tls!OwnCopies

LEMMA Shorter ==
  ASSUME NEW S, NEW s \in Seq(S), s # <<>>
  PROVE  SubSeq(s, 1, Len(s) - 1) \in Seq(S)
<1>1. Len(s) \in Nat /\ Len(s) # 0
  BY EmptySeq, LenProperties
<1>2. \A i \in 1 .. Len(s) - 1 : s[i] \in S
  BY <1>1, ElementOfSeq
<1> QED
  BY <1>1, <1>2, SubSeqProperties

LEMMA CatchInv ==
  ASSUME Tls!IInv, NEW t \in Users, Tls!Catch(t)
  PROVE  Tls!IInv'
<1>0. t \in threads /\ t \in Users
      /\ UNCHANGED <<Tls!config, errno, tm, step, arg, ptr, failed, shown, result>>
  BY DEF Tls!Catch, Tls!At
<1>1. Tls!get_eh_globals(t) \in Tls!Places /\ Tls!TypeOK
  BY Item DEF Tls!get_eh_globals, Tls!IInv
<1>2. /\ SubSeq(eh[Tls!get_eh_globals(t)], 1, Len(eh[Tls!get_eh_globals(t)]) - 1) \in Seq(Users)
      /\ SubSeq(thrown[t], 1, Len(thrown[t]) - 1) \in Seq(Users)
  <2>1. eh[Tls!get_eh_globals(t)] \in Seq(Users) /\ eh[Tls!get_eh_globals(t)] # <<>>
    BY <1>1 DEF Tls!TypeOK, Tls!Catch
  <2>2. thrown[t] \in Seq(Users) /\ thrown[t] # <<>>
    BY DEF Tls!IInv, Tls!TypeOK, Tls!Catch
  <2> QED
    BY <2>1, <2>2, Shorter
<1>3. Tls!TypeOK'
  BY <1>0, <1>1, <1>2 DEF Tls!TypeOK, Tls!Catch, Tls!config
<1>4. ASSUME NEW u \in threads', Tls!Own("__eh_globals")' PROVE Tls!ThrownIsOwn(u)'
  <2>1. Tls!Own("__eh_globals") /\ u \in threads /\ Tls!ThrownIsOwn(u) /\ Tls!get_eh_globals(u)' = Tls!get_eh_globals(u)
    BY <1>0, <1>4, Config DEF Tls!IInv, Tls!OwnCopies
  <2>2. CASE u = t
    BY <1>0, <1>1, <2>1, <2>2 DEF Tls!ThrownIsOwn, Tls!Catch, Tls!TypeOK
  <2>3. CASE u # t
    <3>1. Tls!get_eh_globals(u) # Tls!get_eh_globals(t)
      BY <1>0, <2>1, <2>3, Apart DEF Tls!get_eh_globals
    <3> QED
      BY <1>0, <1>1, <2>1, <2>3, <3>1 DEF Tls!ThrownIsOwn, Tls!Catch, Tls!TypeOK
  <2> QED
    BY <2>2, <2>3
<1> QED
  BY <1>0, <1>3, <1>4, ErrnoKept, TimeKept, CallKept DEF Tls!IInv, Tls!OwnCopies

LEMMA FailInv ==
  ASSUME Tls!IInv, NEW t \in Users, Tls!Fail(t)
  PROVE  Tls!IInv'
<1>0. t \in threads /\ t \in Users /\ step[t] = "idle" /\ UNCHANGED <<Tls!config, Tls!data, Tls!ghosts>>
  BY DEF Tls!Fail, Tls!Use, Tls!At
<1>1. Tls!TypeOK /\ Tls!errno_ptr(t) \in Tls!Places
  BY Item DEF Tls!errno_ptr, Tls!IInv, Tls!Places
<1>2. Tls!TypeOK'
  <2>1. \E err \in Nat : arg' = [arg EXCEPT ![t] = err]
    BY DEF Tls!Fail, Tls!ENOENT, Tls!ENOMEM
  <2>2. step' = [step EXCEPT ![t] = "set_errno"] /\ ptr' = [ptr EXCEPT ![t] = Tls!errno_ptr(t)]
    BY DEF Tls!Fail, Tls!Goto
  <2> QED
    BY <1>0, <1>1, <2>1, <2>2 DEF Tls!TypeOK, Tls!config, Tls!data, Tls!ghosts, Tls!Steps
<1>3. ASSUME NEW u \in threads' PROVE Tls!PtrInv(u)' /\ (Tls!Own("gmtime_temp")' => Tls!FillInv(u)')
  <2>1. /\ u \in threads /\ Tls!PtrInv(u) /\ (Tls!Own("gmtime_temp")' => Tls!FillInv(u))
        /\ Tls!errno_ptr(u)' = Tls!errno_ptr(u) /\ Tls!TimeItem(u)' = Tls!TimeItem(u)
    BY <1>0, <1>3, Config DEF Tls!IInv
  <2> QED
    BY <1>0, <1>1, <2>1 DEF Tls!PtrInv, Tls!FillInv, Tls!TypeOK, Tls!Fail, Tls!Goto, Tls!TimeSteps, Tls!data, Tls!ghosts
<1> QED
  BY <1>0, <1>2, <1>3, ErrnoKept, TimeKept, ThrownKept DEF Tls!IInv, Tls!OwnCopies, Tls!data, Tls!ghosts

LEMMA SetErrnoInv ==
  ASSUME Tls!IInv, NEW t \in Users, Tls!set_errno(t)
  PROVE  Tls!IInv'
<1>0. t \in threads /\ t \in Users /\ step[t] = "set_errno"
      /\ UNCHANGED <<Tls!config, tm, eh, arg, ptr, shown, result, thrown>>
  BY DEF Tls!set_errno, Tls!At
<1>1. Tls!TypeOK /\ ptr[t] = Tls!errno_ptr(t)
  BY <1>0 DEF Tls!IInv, Tls!PtrInv
<1>2. Tls!TypeOK'
  BY <1>0, <1>1 DEF Tls!TypeOK, Tls!set_errno, Tls!Goto, Tls!config, Tls!Steps
<1>3. ASSUME NEW u \in threads' PROVE Tls!PtrInv(u)' /\ (Tls!Own("gmtime_temp")' => Tls!FillInv(u)')
  <2>1. /\ u \in threads /\ Tls!PtrInv(u) /\ (Tls!Own("gmtime_temp")' => Tls!FillInv(u))
        /\ Tls!errno_ptr(u)' = Tls!errno_ptr(u) /\ Tls!TimeItem(u)' = Tls!TimeItem(u)
    BY <1>0, <1>3, Config DEF Tls!IInv
  <2> QED
    BY <1>0, <1>1, <2>1 DEF Tls!PtrInv, Tls!FillInv, Tls!TypeOK, Tls!set_errno, Tls!Goto, Tls!TimeSteps
<1>4. ASSUME NEW u \in threads', Tls!OwnErrno' PROVE Tls!ErrnoIsOwn(u)'
  <2>1. u \in threads /\ Tls!OwnErrno /\ Tls!ErrnoIsOwn(u) /\ Tls!errno_ptr(u)' = Tls!errno_ptr(u)
    BY <1>0, <1>4, Config DEF Tls!IInv, Tls!OwnCopies
  <2>2. CASE u = t
    BY <1>0, <1>1, <2>1, <2>2 DEF Tls!ErrnoIsOwn, Tls!get_errno, Tls!set_errno, Tls!TypeOK
  <2>3. CASE u # t
    <3>1. Tls!errno_ptr(u) # Tls!errno_ptr(t)
      BY <1>0, <2>1, <2>3, ErrnoApart
    <3> QED
      BY <1>0, <1>1, <2>1, <2>3, <3>1 DEF Tls!ErrnoIsOwn, Tls!get_errno, Tls!set_errno, Tls!TypeOK
  <2> QED
    BY <2>2, <2>3
<1> QED
  BY <1>0, <1>2, <1>3, <1>4, ThrownKept, TimeKept DEF Tls!IInv, Tls!OwnCopies

LEMMA CallTimeInv ==
  ASSUME TimesAreNat, Tls!IInv, NEW t \in Users, Tls!gmtime(t) \/ Tls!localtime(t)
  PROVE  Tls!IInv'
<1>0. t \in threads /\ t \in Users /\ step[t] = "idle" /\ UNCHANGED <<Tls!config, Tls!data, failed, result, thrown>>
  BY DEF Tls!gmtime, Tls!localtime, Tls!CallTime, Tls!Use, Tls!At
<1>1. Tls!TypeOK /\ Tls!TimeItem(t) \in Tls!Places
  BY Item DEF Tls!TimeItem, Tls!IInv
<1>2. Tls!TypeOK'
  <2>1. shown' \in [Users -> {<<>>} \cup (Nat \X BOOLEAN)]
    BY <1>1 DEF Tls!TypeOK, Tls!gmtime, Tls!localtime, Tls!CallTime
  <2>2. arg' \in [Users -> Nat]
    BY <1>1 DEF TimesAreNat, Tls!TypeOK, Tls!gmtime, Tls!localtime, Tls!CallTime
  <2>3. ptr' \in [Users -> Tls!Places]
    BY <1>1 DEF Tls!TypeOK, Tls!gmtime, Tls!localtime, Tls!CallTime
  <2>4. /\ step' = [step EXCEPT ![t] = "date"] \/ step' = [step EXCEPT ![t] = "local_date"]
        /\ {"date", "local_date"} \subseteq Tls!Steps
    BY DEF Tls!gmtime, Tls!localtime, Tls!CallTime, Tls!Goto, Tls!Steps, Tls!TimeSteps
  <2>5. step' \in [Users -> Tls!Steps]
    BY <1>1, <2>4 DEF Tls!TypeOK
  <2> QED
    BY <1>0, <1>1, <2>1, <2>2, <2>3, <2>5 DEF Tls!TypeOK, Tls!config, Tls!data
<1>3. ASSUME NEW u \in threads'
      PROVE /\ Tls!PtrInv(u)' /\ (Tls!Own("gmtime_temp")' => Tls!FillInv(u)')
            /\ Tls!Own("gmtime_temp")' => Tls!TimeIsOwn(u)'
  <2>1. /\ u \in threads /\ Tls!PtrInv(u) /\ (Tls!Own("gmtime_temp")' => Tls!FillInv(u) /\ Tls!TimeIsOwn(u))
        /\ Tls!errno_ptr(u)' = Tls!errno_ptr(u) /\ Tls!TimeItem(u)' = Tls!TimeItem(u)
    BY <1>0, <1>3, Config DEF Tls!IInv, Tls!OwnCopies
  <2>2. Tls!PtrInv(u)' /\ (Tls!FillInv(u) => Tls!FillInv(u)')
    BY <1>0, <1>1, <2>1 DEF Tls!PtrInv, Tls!FillInv, Tls!TypeOK, Tls!gmtime, Tls!localtime, Tls!CallTime, Tls!Goto, Tls!TimeSteps, Tls!data
  <2>3. Tls!TimeIsOwn(u) => Tls!TimeIsOwn(u)'
    BY <1>0, <1>1, <2>1 DEF Tls!TimeIsOwn, Tls!TypeOK, Tls!gmtime, Tls!localtime, Tls!CallTime, Tls!data
  <2> QED
    BY <2>1, <2>2, <2>3
<1> QED
  BY <1>0, <1>2, <1>3, ErrnoKept, ThrownKept DEF Tls!IInv, Tls!OwnCopies, Tls!data

(* The steps that fill an item touch the item of their own thread only. *)
LEMMA ItemFilled ==
  ASSUME Tls!IInv, NEW t \in threads, step[t] \in Tls!TimeSteps,
         UNCHANGED <<Tls!config, arg, ptr, Tls!ghosts>>,
         \A u \in Users \ {t} : step'[u] = step[u],
         \A p \in Tls!Places \ {ptr[t]} : tm'[p] = tm[p]
  PROVE  \A u \in threads \ {t} :
           /\ Tls!PtrInv(u)' /\ (Tls!Own("gmtime_temp")' => Tls!FillInv(u)')
           /\ Tls!Own("gmtime_temp")' => Tls!TimeIsOwn(u)'
<1>1. Tls!TypeOK /\ ptr[t] = Tls!TimeItem(t)
  BY DEF Tls!IInv, Tls!PtrInv
<1> SUFFICES ASSUME NEW u \in threads \ {t}
    PROVE /\ Tls!PtrInv(u)' /\ (Tls!Own("gmtime_temp")' => Tls!FillInv(u)')
          /\ Tls!Own("gmtime_temp")' => Tls!TimeIsOwn(u)'
  OBVIOUS
<1>2. /\ Tls!PtrInv(u) /\ (Tls!Own("gmtime_temp")' => Tls!Own("gmtime_temp") /\ Tls!FillInv(u) /\ Tls!TimeIsOwn(u))
      /\ Tls!errno_ptr(u)' = Tls!errno_ptr(u) /\ Tls!TimeItem(u)' = Tls!TimeItem(u) /\ u \in Users
      /\ Tls!TimeItem(u) \in Tls!Places
  BY <1>1, Config, Item DEF Tls!IInv, Tls!OwnCopies, Tls!TypeOK, Tls!TimeItem
<1>3. Tls!Own("gmtime_temp") => tm'[Tls!TimeItem(u)] = tm[Tls!TimeItem(u)]
  BY <1>1, <1>2, Apart DEF Tls!TimeItem
<1> QED
  BY <1>2, <1>3 DEF Tls!PtrInv, Tls!FillInv, Tls!TimeIsOwn, Tls!ghosts

(* What a step of filling an item has to show for its own thread. *)
LEMMA FillingInv ==
  ASSUME Tls!IInv, NEW t \in threads, step[t] \in Tls!TimeSteps,
         UNCHANGED <<Tls!config, errno, eh, arg, ptr, Tls!ghosts>>,
         step' \in [Users -> Tls!Steps], step'[t] \in Tls!TimeSteps,
         \A u \in Users \ {t} : step'[u] = step[u],
         tm' \in [Tls!Places -> Tls!Tm],
         \A p \in Tls!Places \ {ptr[t]} : tm'[p] = tm[p],
         Tls!Own("gmtime_temp") => Tls!FillInv(t)'
  PROVE  Tls!IInv'
<1>1. Tls!TypeOK /\ t \in Users /\ Tls!PtrInv(t)
  BY DEF Tls!IInv, Tls!TypeOK
<1>2. Tls!TypeOK'
  BY <1>1 DEF Tls!TypeOK, Tls!config, Tls!ghosts
<1>3. Tls!PtrInv(t)' /\ (Tls!Own("gmtime_temp")' => Tls!FillInv(t)' /\ Tls!TimeIsOwn(t)')
  BY <1>1, Config DEF Tls!PtrInv, Tls!TimeIsOwn, Tls!TimeSteps, Tls!ghosts
<1> QED
  BY <1>2, <1>3, ItemFilled, ErrnoKept, ThrownKept, Config DEF Tls!IInv, Tls!OwnCopies, Tls!ghosts

LEMMA FillDateInv ==
  ASSUME Tls!IInv, NEW t \in Users,
         Tls!FillDate(t, "date", "hour") \/ Tls!FillDate(t, "local_date", "local_hour")
  PROVE  Tls!IInv'
<1>1. /\ t \in threads /\ step[t] \in {"date", "local_date"} /\ Tls!TypeOK /\ Tls!PtrInv(t)
      /\ UNCHANGED <<Tls!config, errno, eh, arg, ptr, Tls!ghosts>>
      /\ tm' = [tm EXCEPT ![ptr[t]].date = arg[t], ![ptr[t]].isdst = FALSE]
      /\ step' = [step EXCEPT ![t] = IF step[t] = "date" THEN "hour" ELSE "local_hour"]
  BY DEF Tls!FillDate, Tls!At, Tls!Goto, Tls!IInv
<1>2. ptr[t] = Tls!TimeItem(t) /\ ptr[t] \in Tls!Places /\ tm[ptr[t]] \in Tls!Tm /\ arg[t] \in Nat
  BY <1>1 DEF Tls!PtrInv, Tls!TypeOK, Tls!TimeSteps
<1>3. tm' \in [Tls!Places -> Tls!Tm] /\ \A p \in Tls!Places \ {ptr[t]} : tm'[p] = tm[p]
  BY <1>1, <1>2 DEF Tls!TypeOK, Tls!Tm
<1>4. tm'[ptr[t]].date = arg[t] /\ tm'[ptr[t]].isdst = FALSE
  BY <1>1, <1>2 DEF Tls!TypeOK, Tls!Tm
<1>5. /\ step' \in [Users -> Tls!Steps] /\ step'[t] \in {"hour", "local_hour"}
      /\ \A u \in Users \ {t} : step'[u] = step[u]
  BY <1>1 DEF Tls!TypeOK, Tls!Steps, Tls!TimeSteps
<1>6. Tls!FillInv(t)'
  BY <1>1, <1>2, <1>4, <1>5, Config DEF Tls!FillInv, Tls!TimeSteps
<1> QED
  BY <1>1, <1>3, <1>5, <1>6, FillingInv DEF Tls!TimeSteps

LEMMA FillHourInv ==
  ASSUME Tls!IInv, NEW t \in Users,
         Tls!FillHour(t, "hour", "returngm") \/ Tls!FillHour(t, "local_hour", "decide")
  PROVE  Tls!IInv'
<1>1. /\ t \in threads /\ step[t] \in {"hour", "local_hour"} /\ Tls!TypeOK /\ Tls!PtrInv(t)
      /\ UNCHANGED <<Tls!config, errno, eh, arg, ptr, Tls!ghosts>>
      /\ tm' = [tm EXCEPT ![ptr[t]].hour = arg[t]]
      /\ step' = [step EXCEPT ![t] = IF step[t] = "hour" THEN "returngm" ELSE "decide"]
  BY DEF Tls!FillHour, Tls!At, Tls!Goto, Tls!IInv
<1>2. ptr[t] = Tls!TimeItem(t) /\ ptr[t] \in Tls!Places /\ tm[ptr[t]] \in Tls!Tm /\ arg[t] \in Nat
  BY <1>1 DEF Tls!PtrInv, Tls!TypeOK, Tls!TimeSteps
<1>3. tm' \in [Tls!Places -> Tls!Tm] /\ \A p \in Tls!Places \ {ptr[t]} : tm'[p] = tm[p]
  BY <1>1, <1>2 DEF Tls!TypeOK, Tls!Tm
<1>4. /\ tm'[ptr[t]].hour = arg[t] /\ tm'[ptr[t]].date = tm[ptr[t]].date
      /\ tm'[ptr[t]].isdst = tm[ptr[t]].isdst
  BY <1>1, <1>2 DEF Tls!TypeOK, Tls!Tm
<1>5. /\ step' \in [Users -> Tls!Steps] /\ step'[t] \in {"returngm", "decide"}
      /\ \A u \in Users \ {t} : step'[u] = step[u]
  BY <1>1 DEF Tls!TypeOK, Tls!Steps, Tls!TimeSteps
<1>6. Tls!Own("gmtime_temp") => Tls!FillInv(t)'
  <2>1. Tls!Own("gmtime_temp") => tm[ptr[t]].date = arg[t] /\ tm[ptr[t]].isdst = FALSE
    BY <1>1, <1>2 DEF Tls!IInv, Tls!FillInv, Tls!TimeSteps
  <2> QED
    BY <1>1, <1>2, <1>4, <1>5, <2>1, Config DEF Tls!FillInv, Tls!TimeSteps
<1> QED
  BY <1>1, <1>3, <1>5, <1>6, FillingInv DEF Tls!TimeSteps

LEMMA DecideInv ==
  ASSUME Tls!IInv, NEW t \in Users, Tls!Decide(t)
  PROVE  Tls!IInv'
<1>1. /\ t \in threads /\ step[t] = "decide" /\ Tls!TypeOK /\ Tls!PtrInv(t)
      /\ UNCHANGED <<Tls!config, Tls!data, arg, ptr, Tls!ghosts>>
      /\ step' = [step EXCEPT ![t] = IF tm[ptr[t]].date \in Summer THEN "summer" ELSE "return"]
  BY DEF Tls!Decide, Tls!At, Tls!Goto, Tls!IInv
<1>2. ptr[t] = Tls!TimeItem(t) /\ ptr[t] \in Tls!Places /\ tm[ptr[t]] \in Tls!Tm
  BY <1>1 DEF Tls!PtrInv, Tls!TypeOK, Tls!TimeSteps
<1>3. tm' = tm /\ errno' = errno /\ eh' = eh
  BY <1>1 DEF Tls!data
<1>4. /\ step' \in [Users -> Tls!Steps] /\ step'[t] \in {"summer", "return"}
      /\ step'[t] = IF tm[ptr[t]].date \in Summer THEN "summer" ELSE "return"
      /\ \A u \in Users \ {t} : step'[u] = step[u]
  BY <1>1 DEF Tls!TypeOK, Tls!Steps, Tls!TimeSteps
<1>5. Tls!Own("gmtime_temp") => Tls!FillInv(t)'
  <2> SUFFICES ASSUME Tls!Own("gmtime_temp") PROVE Tls!FillInv(t)'
    OBVIOUS
  <2>1. tm[ptr[t]].date = arg[t] /\ tm[ptr[t]].hour = arg[t] /\ tm[ptr[t]].isdst = FALSE
    BY <1>1, <1>2 DEF Tls!IInv, Tls!FillInv, Tls!TimeSteps
  <2>2. arg[t] \notin Summer => tm[ptr[t]] = Tls!Answer(arg[t], arg[t] \in Summer)
    BY <1>2, <2>1 DEF Tls!Answer, Tls!Tm
  <2> QED
    BY <1>1, <1>2, <1>3, <1>4, <2>1, <2>2, Config DEF Tls!FillInv, Tls!TimeSteps
<1> QED
  BY <1>1, <1>3, <1>4, <1>5, FillingInv DEF Tls!TimeSteps, Tls!TypeOK

LEMMA SetDstInv ==
  ASSUME Tls!IInv, NEW t \in Users, Tls!SetDst(t)
  PROVE  Tls!IInv'
<1>1. /\ t \in threads /\ step[t] = "summer" /\ Tls!TypeOK /\ Tls!PtrInv(t)
      /\ UNCHANGED <<Tls!config, errno, eh, arg, ptr, Tls!ghosts>>
      /\ tm' = [tm EXCEPT ![ptr[t]].hour = arg[t] + 1, ![ptr[t]].isdst = TRUE]
      /\ step' = [step EXCEPT ![t] = "return"]
  BY DEF Tls!SetDst, Tls!At, Tls!Goto, Tls!IInv
<1>2. ptr[t] = Tls!TimeItem(t) /\ ptr[t] \in Tls!Places /\ tm[ptr[t]] \in Tls!Tm /\ arg[t] \in Nat
  BY <1>1 DEF Tls!PtrInv, Tls!TypeOK, Tls!TimeSteps
<1>3. tm' \in [Tls!Places -> Tls!Tm] /\ \A p \in Tls!Places \ {ptr[t]} : tm'[p] = tm[p]
  <2>1. arg[t] + 1 \in Nat /\ TRUE \in BOOLEAN
    BY <1>2
  <2>2. [[tm[ptr[t]] EXCEPT !.hour = arg[t] + 1] EXCEPT !.isdst = TRUE] \in Tls!Tm
    BY <1>2, <2>1 DEF Tls!Tm
  <2>3. tm' = [tm EXCEPT ![ptr[t]] = [[tm[ptr[t]] EXCEPT !.hour = arg[t] + 1] EXCEPT !.isdst = TRUE]]
    BY <1>1, <1>2 DEF Tls!TypeOK
  <2> QED
    BY <1>1, <1>2, <2>2, <2>3 DEF Tls!TypeOK
<1>4. /\ tm'[ptr[t]].hour = arg[t] + 1 /\ tm'[ptr[t]].date = tm[ptr[t]].date
      /\ tm'[ptr[t]].isdst = TRUE /\ tm'[ptr[t]] \in Tls!Tm
  BY <1>1, <1>2, <1>3 DEF Tls!TypeOK, Tls!Tm
<1>5. /\ step' \in [Users -> Tls!Steps] /\ step'[t] = "return"
      /\ \A u \in Users \ {t} : step'[u] = step[u]
  BY <1>1 DEF Tls!TypeOK, Tls!Steps, Tls!TimeSteps
<1>6. Tls!Own("gmtime_temp") => Tls!FillInv(t)'
  <2> SUFFICES ASSUME Tls!Own("gmtime_temp") PROVE Tls!FillInv(t)'
    OBVIOUS
  <2>1. tm[ptr[t]].date = arg[t] /\ arg[t] \in Summer
    BY <1>1, <1>2 DEF Tls!IInv, Tls!FillInv, Tls!TimeSteps
  <2>2. tm'[ptr[t]] = Tls!Answer(arg[t], arg[t] \in Summer)
    BY <1>2, <1>4, <2>1 DEF Tls!Answer, Tls!Tm
  <2>3. tm'[ptr[t]].date = arg[t]
    BY <1>4, <2>1
  <2> QED
    BY <1>1, <1>2, <1>5, <2>2, <2>3, Config DEF Tls!FillInv, Tls!TimeSteps
<1> QED
  BY <1>1, <1>3, <1>5, <1>6, FillingInv DEF Tls!TimeSteps

LEMMA ReturnTimeInv ==
  ASSUME Tls!IInv, NEW t \in Users,
         Tls!ReturnTime(t, "returngm", FALSE) \/ Tls!ReturnTime(t, "return", arg[t] \in Summer)
  PROVE  Tls!IInv'
<1>1. /\ t \in threads /\ t \in Users /\ step[t] \in {"returngm", "return"} /\ Tls!TypeOK /\ Tls!PtrInv(t)
      /\ UNCHANGED <<Tls!config, Tls!data, arg, ptr, failed, thrown>>
      /\ step' = [step EXCEPT ![t] = "idle"] /\ result' = [result EXCEPT ![t] = ptr[t]]
  BY DEF Tls!ReturnTime, Tls!At, Tls!Goto, Tls!IInv
<1> DEFINE moved == step[t] = "return" /\ arg[t] \in Summer
<1>2. shown' = [shown EXCEPT ![t] = <<arg[t], moved>>]
  <2>1. CASE Tls!ReturnTime(t, "returngm", FALSE)
    <3>1. moved = FALSE
      BY <2>1 DEF Tls!ReturnTime, Tls!At
    <3> QED
      BY <2>1, <3>1 DEF Tls!ReturnTime
  <2>2. CASE Tls!ReturnTime(t, "return", arg[t] \in Summer)
    <3>1. moved = (arg[t] \in Summer)
      BY <2>2 DEF Tls!ReturnTime, Tls!At
    <3> QED
      BY <2>2, <3>1 DEF Tls!ReturnTime
  <2> QED
    BY <2>1, <2>2
<1>3. ptr[t] = Tls!TimeItem(t) /\ ptr[t] \in Tls!Places /\ tm[ptr[t]] \in Tls!Tm /\ arg[t] \in Nat
      /\ moved \in BOOLEAN
  BY <1>1 DEF Tls!PtrInv, Tls!TypeOK, Tls!TimeSteps
<1>4. Tls!TypeOK'
  <2>1. shown' \in [Users -> {<<>>} \cup (Nat \X BOOLEAN)]
    BY <1>1, <1>2, <1>3 DEF Tls!TypeOK
  <2>2. step' \in [Users -> Tls!Steps] /\ result' \in [Users -> Tls!Places]
    BY <1>1, <1>3 DEF Tls!TypeOK, Tls!Steps
  <2> QED
    BY <1>1, <2>1, <2>2 DEF Tls!TypeOK, Tls!config, Tls!data
<1>5. ASSUME NEW u \in threads'
      PROVE /\ Tls!PtrInv(u)' /\ (Tls!Own("gmtime_temp")' => Tls!FillInv(u)')
            /\ Tls!Own("gmtime_temp")' => Tls!TimeIsOwn(u)'
  <2>1. /\ u \in threads /\ u \in Users /\ Tls!PtrInv(u)
        /\ Tls!Own("gmtime_temp")' => Tls!Own("gmtime_temp") /\ Tls!FillInv(u) /\ Tls!TimeIsOwn(u)
        /\ Tls!errno_ptr(u)' = Tls!errno_ptr(u) /\ Tls!TimeItem(u)' = Tls!TimeItem(u)
    BY <1>1, <1>5, Config DEF Tls!IInv, Tls!OwnCopies, Tls!TypeOK
  <2>2. CASE u # t
    BY <1>1, <1>2, <2>1, <2>2 DEF Tls!PtrInv, Tls!FillInv, Tls!TimeIsOwn, Tls!TypeOK, Tls!data
  <2>3. CASE u = t
    <3>1. step'[t] = "idle" /\ result'[t] = Tls!TimeItem(t)
      BY <1>1, <1>3 DEF Tls!TypeOK
    <3>2. Tls!PtrInv(t)' /\ Tls!FillInv(t)'
      BY <2>1, <2>3, <3>1 DEF Tls!PtrInv, Tls!FillInv, Tls!TimeSteps
    <3>3. Tls!Own("gmtime_temp") => tm[ptr[t]] = Tls!Answer(arg[t], moved)
      BY <1>1, <1>3, <2>1, <2>3 DEF Tls!IInv, Tls!FillInv, Tls!TimeSteps, Tls!Answer, Tls!Tm
    <3>4. shown'[t][1] = arg[t] /\ shown'[t][2] = moved /\ tm' = tm
      BY <1>1, <1>2 DEF Tls!TypeOK, Tls!data
    <3>5. Tls!Own("gmtime_temp") => Tls!TimeIsOwn(t)'
      BY <1>3, <3>1, <3>3, <3>4 DEF Tls!TimeIsOwn, Tls!Answer
    <3> QED
      BY <2>1, <2>3, <3>2, <3>5
  <2> QED
    BY <2>2, <2>3
<1> QED
  BY <1>1, <1>4, <1>5, ErrnoKept, ThrownKept DEF Tls!IInv, Tls!OwnCopies, Tls!data

LEMMA OwnInit == Tls!Init => Tls!IInv
<1> SUFFICES ASSUME Tls!Init PROVE Tls!IInv
  OBVIOUS
<1>1. <<>> \in Seq(Users)
  BY EmptySeq
<1>2. /\ errno \in [Tls!Places -> Nat] /\ eh \in [Tls!Places -> Seq(Users)] /\ tm \in [Tls!Places -> Tls!Tm]
      /\ step \in [Users -> Tls!Steps] /\ arg \in [Users -> Nat] /\ ptr \in [Users -> Tls!Places]
      /\ failed \in [Users -> Nat] /\ result \in [Users -> Tls!Places] /\ threads \subseteq Users
      /\ thrown \in [Users -> Seq(Users)]
  BY <1>1 DEF Tls!Init, Tls!Places, Tls!Tm, Tls!Steps
<1>3. shown \in [Users -> {<<>>} \cup (Nat \X BOOLEAN)]
  BY DEF Tls!Init
<1>4. Tls!TypeOK
  BY <1>2, <1>3 DEF Tls!TypeOK
<1>5. \A t \in threads : Tls!PtrInv(t) /\ Tls!FillInv(t) /\ Tls!TimeIsOwn(t)
  BY <1>2 DEF Tls!Init, Tls!PtrInv, Tls!FillInv, Tls!TimeIsOwn, Tls!TimeSteps
<1>6. \A t \in threads : Tls!ErrnoIsOwn(t) /\ Tls!ThrownIsOwn(t)
  BY <1>2, Item DEF Tls!Init, Tls!ErrnoIsOwn, Tls!ThrownIsOwn, Tls!get_errno, Tls!errno_ptr, Tls!get_eh_globals, Tls!Places
<1> QED
  BY <1>4, <1>5, <1>6 DEF Tls!IInv, Tls!OwnCopies

LEMMA OwnNext ==
  ASSUME TimesAreNat, Tls!IInv, [Tls!Next]_(Tls!vars)
  PROVE  Tls!IInv'
<1>1. CASE UNCHANGED Tls!vars
  <2>1. UNCHANGED <<Tls!config, Tls!data, step, arg, ptr, Tls!ghosts>>
    BY <1>1 DEF Tls!vars
  <2>2. Tls!TypeOK'
    BY <2>1 DEF Tls!IInv, Tls!TypeOK, Tls!config, Tls!data, Tls!ghosts
  <2> QED
    BY <2>1, <2>2, ErrnoKept, ThrownKept, TimeKept, CallKept DEF Tls!IInv, Tls!OwnCopies, Tls!data, Tls!ghosts
<1>2. CASE Tls!Next
  <2> SUFFICES ASSUME NEW t \in Users,
               Tls!Fail(t) \/ Tls!set_errno(t) \/ Tls!Time(t) \/ Tls!Throw(t) \/ Tls!Catch(t)
      PROVE Tls!IInv'
    BY <1>2 DEF Tls!Next
  <2>1. Tls!Time(t) => Tls!IInv'
    BY CallTimeInv, FillDateInv, FillHourInv, DecideInv, SetDstInv, ReturnTimeInv DEF Tls!Time
  <2> QED
    BY <2>1, FailInv, SetErrnoInv, ThrowInv, CatchInv
<1> QED
  BY <1>1, <1>2

(* A thread finds what it has left in its own errno, its own result of     *)
(* gmtime and localtime and its own chain of exceptions, whatever the      *)
(* others call between any two of its steps.                               *)
THEOREM ThreadOwnCopies ==
  ASSUME TimesAreNat
  PROVE  Tls!Spec => []Tls!OwnCopies
<1>1. Tls!IInv => Tls!OwnCopies
  BY DEF Tls!IInv
<1>2. Tls!IInv /\ [Tls!Next]_(Tls!vars) => Tls!IInv'
  BY OwnNext
<1> QED
  BY <1>1, <1>2, OwnInit, PTL DEF Tls!Spec
-----------------------------------------------------------------------------
(* One service at a time: a step of the whole is a step of the one that    *)
(* runs, or changes nothing of it.                                         *)

LEMMA OnlySampling ==
  ASSUME [AllNext]_all, which = "sampling"
  PROVE  [Prf!Next]_(Prf!vars) /\ which' = "sampling"
  BY DEF AllNext, all, prf, Prf!vars, Prf!timer, Prf!route

LEMMA OnlyTls ==
  ASSUME [AllNext]_all, which = "tls"
  PROVE  [Tls!Next]_(Tls!vars) /\ which' = "tls"
  BY DEF AllNext, all, tls, Tls!vars, Tls!config, Tls!data, Tls!ghosts

(* The same among the other services: the samples of ind_manprf.c, where   *)
(* an interrupt between the load of the count for the flush at exit and    *)
(* its reset (ind_manprf.c:140 to 142) may lose its own sample or make     *)
(* others go twice, and no other sample is lost.                           *)
THEOREM ServicesSampling ==
  ASSUME BufferAssumption
  PROVE  AllSpec => []SamplingExact
<1> DEFINE I == which = "sampling" => Prf!IInv
<1>1. AllInit => I
  BY SamplingInit DEF AllInit
<1>2. I /\ [AllNext]_all => I'
  <2> SUFFICES ASSUME I, [AllNext]_all, which' = "sampling" PROVE Prf!IInv'
    OBVIOUS
  <2>1. which = "sampling"
    BY DEF AllNext, all
  <2> QED
    BY <2>1, OnlySampling, SamplingNext
<1>3. I => SamplingExact
  BY SamplingHolds DEF SamplingExact
<1> QED
  BY <1>1, <1>2, <1>3, PTL DEF AllSpec

(* Each thread has its own errno, time and exceptions.                     *)
THEOREM ServicesOwnCopies ==
  ASSUME TimesAreNat
  PROVE  AllSpec => []OwnCopies
<1> DEFINE I == which = "tls" => Tls!IInv
<1>1. AllInit => I
  BY OwnInit DEF AllInit
<1>2. I /\ [AllNext]_all => I'
  <2> SUFFICES ASSUME I, [AllNext]_all, which' = "tls" PROVE Tls!IInv'
    OBVIOUS
  <2>1. which = "tls"
    BY DEF AllNext, all
  <2> QED
    BY <2>1, OnlyTls, OwnNext
<1>3. I => OwnCopies
  BY DEF OwnCopies, Tls!IInv
<1> QED
  BY <1>1, <1>2, <1>3, PTL DEF AllSpec
-----------------------------------------------------------------------------
(***************************************************************************)
(* The demonstration program (main.c).                                     *)
(***************************************************************************)

(* The crystal of the board and a PLL that stays below twice its target.   *)
BoardAssumption == Crystal = 8 /\ Overshoot \in {0, 1, 2}
(* The counts that are told apart include those where a channel has an edge. *)
TicksAssumption == Ticks \subseteq Nat /\ {250, 500, 999} \subseteq Ticks

Statements == 27
Plain == (1 .. Statements) \ {2, 3, 4}

(* The statements of main, in order. *)
LEMMA MainText ==
  /\ Len(App!main) = Statements
  /\ App!main[1] = <<"ESYNCR1", "CLKCFG", 7>> /\ App!main[2] = <<"SYNCR", "R", App!FirstWord>>
  /\ App!main[3] = <<"SYNSR", "LOCK", 1>> /\ App!main[4] = <<"SYNCR", "R", App!RunWord>>
  /\ App!main[5] = <<"MCR", "GPRE", 63>> /\ App!main[6] = <<"MCR", "ETB", 0>>
  /\ App!main[7] = <<"MCR", "GPREN", 1>> /\ App!main[8] = <<"MCR", "GTBE", 1>>
  /\ App!main[9] = <<"MCR", "FRZ", 1>>
  /\ App!main[10] = <<"CH23", "CADR", 999>> /\ App!main[11] = <<"CH23", "MODE", 80>>
  /\ App!main[12] = <<"CH23", "BSL", 3>> /\ App!main[13] = <<"CH23", "UCPRE", 0>>
  /\ App!main[14] = <<"CH23", "FREN", 1>> /\ App!main[15] = <<"CH23", "UCPREN", 1>>
  /\ App!main[16] = <<"CH0", "CADR", 250>> /\ App!main[17] = <<"CH0", "CBDR", 500>>
  /\ App!main[18] = <<"CH0", "BSL", 0>> /\ App!main[19] = <<"CH0", "EDPOL", 1>>
  /\ App!main[20] = <<"CH0", "MODE", 96>> /\ App!main[21] = <<"PCR", "179", 3584>>
  /\ App!main[22] = <<"CH2", "CADR", 500>> /\ App!main[23] = <<"CH2", "CBDR", 999>>
  /\ App!main[24] = <<"CH2", "BSL", 0>> /\ App!main[25] = <<"CH2", "EDPOL", 1>>
  /\ App!main[26] = <<"CH2", "MODE", 96>> /\ App!main[27] = <<"PCR", "181", 3584>>
  BY DEF App!main, App!initSysclk, App!initEMIOS, App!initEMIOSch23, App!initEMIOSch0,
         App!initEMIOSch2, Statements

LEMMA MainHeads ==
  App!main[2][1] = "SYNCR" /\ App!main[3][1] = "SYNSR" /\ App!main[4][1] = "SYNCR"
  BY MainText

LEMMA MainKinds ==
  /\ \A k \in Plain : App!main[k][1] \notin {"SYNCR", "SYNSR"} /\ App!main[k][3] \in Nat
  /\ \A k \in Plain : App!Field(k) # <<"SYNCR", "R">> /\ App!Field(k) \in App!Fields
  /\ \A j, k \in Plain : App!Field(j) = App!Field(k) => j = k
  BY MainText DEF App!Field, Plain, Statements, App!Fields, App!PllFields, App!UnitFields,
     App!ChannelFields, App!PadFields, App!Outputs

(* What has been written has its value and the rest is still zero. *)
Written ==
  /\ \A k \in Plain : reg[App!Field(k)] = IF k < stmt THEN App!main[k][3] ELSE 0
  /\ App!SYNCR = IF stmt <= 2 THEN 0 ELSE IF stmt <= 4 THEN App!LockWord ELSE App!RunWord

(* The PLL once it is locked, on its way, or not chosen yet. *)
Clocked ==
  /\ locked = TRUE \/ locked = FALSE
  /\ stmt <= 2 => locked = FALSE /\ vco = Crystal
  /\ stmt > 3 => locked = TRUE
  /\ stmt \in {3, 4} => vco \in {0, 64, Overshoot * 64}
  /\ locked = TRUE => vco = 64

(* A pulse is high between its edges only. *)
Pulsed ==
  /\ out["CH0"] = 1 => stmt > 20 /\ 250 <= count /\ count < 500
  /\ out["CH2"] = 1 => stmt > 26 /\ 500 <= count /\ count < 999

AppInv ==
  /\ stmt \in 1 .. Statements + 1
  /\ reg \in [App!Fields -> Nat] /\ out \in [App!Outputs -> {0, 1}] /\ count \in Nat
  /\ Written /\ Pulsed


(* The fields of the two words, and the frequency the loop is set to. *)
LEMMA Words ==
  /\ App!RFD(0) = 0 /\ App!RFD(App!LockWord) = 1 /\ App!RFD(App!RunWord) = 0
  /\ ~App!SameLoop(0, App!LockWord) /\ App!SameLoop(App!LockWord, App!RunWord)
  /\ App!LockWord \in Nat \ {0} /\ App!RunWord \in Nat \ {0}
  /\ App!FirstWord = App!LockWord
<1>1. App!PREDIV(0) = 0 /\ App!PREDIV(App!LockWord) = 1 /\ App!PREDIV(App!RunWord) = 1
  BY SMT DEF App!PREDIV, App!LockWord, App!RunWord
<1>2. App!MFD(App!LockWord) = 12 /\ App!MFD(App!RunWord) = 12
  BY SMT DEF App!MFD, App!LockWord, App!RunWord
<1>3. App!RFD(0) = 0 /\ App!RFD(App!LockWord) = 1 /\ App!RFD(App!RunWord) = 0
  BY SMT DEF App!RFD, App!LockWord, App!RunWord
<1> QED
  BY <1>1, <1>2, <1>3, SMT DEF App!SameLoop, App!LockWord, App!RunWord, App!FirstWord

LEMMA Targets ==
  ASSUME BoardAssumption
  PROVE  App!Target(App!LockWord) = 64 /\ App!Target(App!RunWord) = 64
<1>1. App!PREDIV(App!LockWord) = 1 /\ App!PREDIV(App!RunWord) = 1
  BY SMT DEF App!PREDIV, App!LockWord, App!RunWord
<1>2. App!MFD(App!LockWord) = 12 /\ App!MFD(App!RunWord) = 12
  BY SMT DEF App!MFD, App!LockWord, App!RunWord
<1> QED
  BY <1>1, <1>2, SMT DEF App!Target, BoardAssumption

(* Where the program has got to decides what the peripherals can do. *)
LEMMA Chosen ==
  ASSUME AppInv
  PROVE  /\ App!PllChosen <=> stmt > 1
         /\ App!PllChosen /\ App!SYNCR # 0 <=> stmt > 2
<1>1. reg[<<"ESYNCR1", "CLKCFG">>] = IF 1 < stmt THEN 7 ELSE 0
  BY MainText DEF AppInv, Written, Plain, Statements, App!Field
<1>2. stmt \in Nat
  BY DEF AppInv, Statements
<1>3. App!SYNCR # 0 <=> stmt > 2
  BY <1>2, Words DEF AppInv, Written
<1> QED
  BY <1>1, <1>2, <1>3 DEF App!PllChosen

LEMMA CountsLate ==
  ASSUME AppInv, App!Counting
  PROVE  /\ stmt > 15 /\ reg[<<"CH23", "CADR">>] = 999
         /\ reg[<<"MCR", "GPRE">>] = 63 /\ reg[<<"CH23", "UCPRE">>] = 0
<1>1. stmt \in Nat
  BY DEF AppInv, Statements
<1>2. stmt > 15
  <2>1. reg[<<"CH23", "UCPREN">>] = IF 15 < stmt THEN 1 ELSE 0
    BY MainText DEF AppInv, Written, Plain, Statements, App!Field
  <2> QED
    BY <1>1, <2>1 DEF App!Counting
<1>3. /\ reg[<<"CH23", "CADR">>] = (IF 10 < stmt THEN 999 ELSE 0)
      /\ reg[<<"MCR", "GPRE">>] = (IF 5 < stmt THEN 63 ELSE 0)
      /\ reg[<<"CH23", "UCPRE">>] = (IF 13 < stmt THEN 0 ELSE 0)
  BY MainText DEF AppInv, Written, Plain, Statements, App!Field
<1> QED
  BY <1>1, <1>2, <1>3

(* The settings of the two channels. *)
LEMMA Channels ==
  ASSUME AppInv
  PROVE  /\ reg[<<"CH0", "MODE">>] = 96 =>
              /\ stmt > 20 /\ reg[<<"CH0", "CADR">>] = 250
              /\ reg[<<"CH0", "CBDR">>] = 500 /\ reg[<<"CH0", "EDPOL">>] = 1
         /\ reg[<<"CH2", "MODE">>] = 96 =>
              /\ stmt > 26 /\ reg[<<"CH2", "CADR">>] = 500
              /\ reg[<<"CH2", "CBDR">>] = 999 /\ reg[<<"CH2", "EDPOL">>] = 1
         /\ stmt > 20 => reg[<<"CH0", "MODE">>] = 96 /\ reg[<<"CH0", "BSL">>] = 0
         /\ stmt > 26 => reg[<<"CH2", "MODE">>] = 96 /\ reg[<<"CH2", "BSL">>] = 0
<1>1. stmt \in Nat
  BY DEF AppInv, Statements
<1>2. /\ reg[<<"CH0", "CADR">>] = (IF 16 < stmt THEN 250 ELSE 0)
      /\ reg[<<"CH0", "CBDR">>] = (IF 17 < stmt THEN 500 ELSE 0)
      /\ reg[<<"CH0", "BSL">>] = (IF 18 < stmt THEN 0 ELSE 0)
      /\ reg[<<"CH0", "EDPOL">>] = (IF 19 < stmt THEN 1 ELSE 0)
      /\ reg[<<"CH0", "MODE">>] = (IF 20 < stmt THEN 96 ELSE 0)
  BY MainText DEF AppInv, Written, Plain, Statements, App!Field
<1>3. /\ reg[<<"CH2", "CADR">>] = (IF 22 < stmt THEN 500 ELSE 0)
      /\ reg[<<"CH2", "CBDR">>] = (IF 23 < stmt THEN 999 ELSE 0)
      /\ reg[<<"CH2", "BSL">>] = (IF 24 < stmt THEN 0 ELSE 0)
      /\ reg[<<"CH2", "EDPOL">>] = (IF 25 < stmt THEN 1 ELSE 0)
      /\ reg[<<"CH2", "MODE">>] = (IF 26 < stmt THEN 96 ELSE 0)
  BY MainText DEF AppInv, Written, Plain, Statements, App!Field
<1> QED
  BY <1>1, <1>2, <1>3

(* A write of one field. *)
LEMMA FieldStep ==
  ASSUME AppInv, App!WriteField
  PROVE  AppInv' /\ stmt' = stmt + 1 /\ stmt \in Plain
<1>1. /\ stmt \in 1 .. Statements /\ stmt' = stmt + 1 /\ App!main[stmt][1] \notin {"SYNCR", "SYNSR"}
      /\ reg' = [reg EXCEPT ![App!Field(stmt)] = App!main[stmt][3]]
      /\ UNCHANGED <<locked, vco, count, out>>
  BY MainText DEF App!WriteField, App!Advance, App!Set, AppInv, Statements
<1>2. stmt \in Plain
  BY <1>1, MainText DEF Plain, Statements
<1>3. /\ App!Field(stmt) \in App!Fields /\ App!Field(stmt) # <<"SYNCR", "R">>
      /\ App!main[stmt][3] \in Nat
      /\ \A k \in Plain : App!Field(k) \in App!Fields
      /\ \A k \in Plain : k # stmt => App!Field(k) # App!Field(stmt)
  BY <1>2, MainKinds
<1>4. /\ reg' \in [App!Fields -> Nat] /\ reg'[App!Field(stmt)] = App!main[stmt][3]
      /\ \A f \in App!Fields : f # App!Field(stmt) => reg'[f] = reg[f]
  BY <1>1, <1>3 DEF AppInv
<1>5. ASSUME NEW k \in Plain
      PROVE  reg'[App!Field(k)] = IF k < stmt' THEN App!main[k][3] ELSE 0
  <2>1. k \in Nat /\ stmt \in Nat
    BY <1>2 DEF Plain, Statements
  <2>2. reg[App!Field(k)] = IF k < stmt THEN App!main[k][3] ELSE 0
    BY DEF AppInv, Written
  <2> QED
    BY <1>1, <1>3, <1>4, <2>1, <2>2
<1>6. App!SYNCR' = App!SYNCR
  <2>1. <<"SYNCR", "R">> \in App!Fields
    BY DEF App!Fields, App!PllFields
  <2> QED
    BY <1>3, <1>4, <2>1 DEF App!SYNCR
<1>7. Written'
  <2>1. \A k \in Plain : (App!Field(k))' = App!Field(k) /\ (App!main[k][3])' = App!main[k][3]
    BY DEF App!Field, App!main, App!initSysclk, App!initEMIOS, App!initEMIOSch23, App!initEMIOSch0,
         App!initEMIOSch2
  <2>2. App!SYNCR' = IF stmt' <= 2 THEN 0 ELSE IF stmt' <= 4 THEN App!LockWord ELSE App!RunWord
    BY <1>1, <1>2, <1>6 DEF AppInv, Written, Plain, Statements
  <2> QED
    BY <1>5, <2>2 DEF Written
<1>8. Pulsed'
  BY <1>1 DEF AppInv, Pulsed, Statements
<1> QED
  BY <1>1, <1>2, <1>4, <1>7, <1>8 DEF AppInv, Statements

(* A write of the PLL's register. *)
LEMMA WordStep ==
  ASSUME AppInv, App!WriteSYNCR
  PROVE  AppInv' /\ stmt \in {2, 4} /\ stmt' = stmt + 1 /\ App!main[stmt][3] = App!SYNCR'
<1>1. /\ stmt \in 1 .. Statements /\ stmt' = stmt + 1 /\ App!main[stmt][1] = "SYNCR"
      /\ reg' = [reg EXCEPT ![App!Field(stmt)] = App!main[stmt][3]]
      /\ UNCHANGED <<count, out>>
  BY MainText DEF App!WriteSYNCR, App!Advance, App!Set, AppInv, Statements
<1>2. stmt \in {2, 4}
  <2>1. stmt \notin Plain
    BY <1>1, MainKinds
  <2>2. stmt # 3
    BY <1>1, MainHeads
  <2> QED
    BY <1>1, <2>1, <2>2 DEF Plain
<1>3. /\ App!Field(stmt) = <<"SYNCR", "R">>
      /\ App!main[stmt][3] = IF stmt = 2 THEN App!LockWord ELSE App!RunWord
  <2>1. CASE stmt = 2
    BY <2>1, MainText, Words DEF App!Field
  <2>2. CASE stmt = 4
    BY <2>2, MainText, Words DEF App!Field
  <2> QED
    BY <1>2, <2>1, <2>2, Words
<1>4. App!main[stmt][3] \in Nat /\ <<"SYNCR", "R">> \in App!Fields
  BY <1>2, <1>3, Words DEF App!Fields, App!PllFields
<1>5. /\ reg' \in [App!Fields -> Nat] /\ App!SYNCR' = App!main[stmt][3]
      /\ \A f \in App!Fields : f # <<"SYNCR", "R">> => reg'[f] = reg[f]
  BY <1>1, <1>3, <1>4 DEF AppInv, App!SYNCR
<1>6. ASSUME NEW k \in Plain
      PROVE  reg'[App!Field(k)] = IF k < stmt' THEN App!main[k][3] ELSE 0
  <2>1. k \in Nat /\ k # stmt
    BY <1>2 DEF Plain, Statements
  <2>2. reg'[App!Field(k)] = reg[App!Field(k)]
    BY <1>5, MainKinds
  <2>3. reg[App!Field(k)] = IF k < stmt THEN App!main[k][3] ELSE 0
    BY DEF AppInv, Written
  <2> QED
    BY <1>1, <1>2, <2>1, <2>2, <2>3
<1>7. Written'
  <2>1. App!SYNCR' = IF stmt' <= 2 THEN 0 ELSE IF stmt' <= 4 THEN App!LockWord ELSE App!RunWord
    BY <1>1, <1>2, <1>3, <1>5
  <2> QED
    BY <1>6, <2>1 DEF Written
<1>8. Pulsed'
  BY <1>1, <1>2 DEF AppInv, Pulsed, Statements
<1> QED
  BY <1>1, <1>2, <1>5, <1>7, <1>8 DEF AppInv, Statements

LEMMA WaitStep ==
  ASSUME AppInv, App!WaitLock
  PROVE  AppInv' /\ stmt = 3 /\ stmt' = 4 /\ locked
<1>1. /\ stmt \in 1 .. Statements /\ stmt' = stmt + 1 /\ App!main[stmt][1] = "SYNSR" /\ locked
      /\ UNCHANGED <<reg, locked, vco, count, out>>
  BY MainText DEF App!WaitLock, App!Advance, AppInv, Statements
<1>2. stmt = 3
  <2>1. stmt \notin Plain
    BY <1>1, MainKinds
  <2>2. stmt # 2 /\ stmt # 4
    BY <1>1, MainHeads
  <2> QED
    BY <1>1, <2>1, <2>2 DEF Plain
<1>3. Written'
  <2>1. \A k \in Plain : k < stmt' <=> k < stmt
    BY <1>1, <1>2 DEF Plain, Statements
  <2>2. App!SYNCR' = App!SYNCR
    BY <1>1 DEF App!SYNCR
  <2>3. \A k \in Plain : reg'[App!Field(k)] = IF k < stmt' THEN App!main[k][3] ELSE 0
    BY <1>1, <2>1 DEF AppInv, Written
  <2>4. App!SYNCR' = IF stmt' <= 2 THEN 0 ELSE IF stmt' <= 4 THEN App!LockWord ELSE App!RunWord
    BY <1>1, <1>2, <2>2 DEF AppInv, Written
  <2> QED
    BY <2>3, <2>4 DEF Written
<1>4. Pulsed'
  BY <1>1, <1>2 DEF AppInv, Pulsed
<1> QED
  BY <1>1, <1>2, <1>3, <1>4 DEF AppInv, Statements

(* The steps of the PLL. *)
LEMMA PllStep ==
  ASSUME AppInv, UNCHANGED <<stmt, reg, count, out>>
  PROVE  AppInv'
<1>1. Written'
  BY DEF AppInv, Written, App!SYNCR
<1> QED
  BY <1>1 DEF AppInv, Pulsed

(* The least element of a set of numbers. *)
LEMMA Least ==
  ASSUME NEW T \in SUBSET Nat, T # {}
  PROVE  \E x \in T : \A y \in T : x <= y
<1> DEFINE R == OpToRel(<, Nat)
<1>1. IsWellFoundedOn(R, Nat)
  BY NatLessThanWellFounded
<1>2. \A x, y \in Nat : <<x, y>> \in R <=> x < y
  BY DEF OpToRel
<1> HIDE DEF R
<1>3. PICK x \in T : \A y \in T : <<y, x>> \notin R
  BY <1>1, WFMin
<1>4. ASSUME NEW y \in T PROVE x <= y
  <2>1. x \in Nat /\ y \in Nat /\ ~(y < x)
    BY <1>2, <1>3
  <2> QED
    BY <2>1
<1> QED
  BY <1>4


(* The counter does not step over an edge. *)
LEMMA NextIs ==
  ASSUME TicksAssumption, AppInv, App!Counting
  PROVE  /\ App!NextCount \in Nat
         /\ \A k \in {250, 500, 999} : count < k => count < App!NextCount /\ App!NextCount <= k
<1>1. reg[<<"CH23", "CADR">>] = 999 /\ count \in Nat
  BY CountsLate DEF AppInv
<1> DEFINE later == {k \in Ticks : k > count /\ k <= 999}
<1>2. App!NextCount = IF later = {} THEN 0 ELSE CHOOSE k \in later : \A j \in later : k <= j
  BY <1>1 DEF App!NextCount
<1>3. later \in SUBSET Nat
  <2>1. Ticks \subseteq Nat
    BY DEF TicksAssumption
  <2>2. later \subseteq Ticks
    OBVIOUS
  <2> QED
    BY <2>1, <2>2, Zenon
<1>4. later # {} => App!NextCount \in later /\ \A j \in later : App!NextCount <= j
  <2> HIDE DEF later
  <2>1. later # {} => \E k \in later : \A j \in later : k <= j
    BY <1>3, Least
  <2> QED
    BY <1>2, <2>1
<1>5. \A k \in {250, 500, 999} : count < k => k \in later
  BY <1>1 DEF TicksAssumption
<1>6. App!NextCount \in Nat
  BY <1>2, <1>3, <1>4
<1>7. ASSUME NEW k \in {250, 500, 999}, count < k
      PROVE  count < App!NextCount /\ App!NextCount <= k
  <2>1. k \in later
    BY <1>5, <1>7
  <2> QED
    BY <1>4, <2>1
<1> QED
  BY <1>6, <1>7

LEMMA TickStep ==
  ASSUME TicksAssumption, AppInv, App!Tick
  PROVE  AppInv'
<1>1. /\ App!Counting /\ count' = App!NextCount
      /\ out' = [c \in App!Outputs |-> App!Edge(c)]
      /\ UNCHANGED <<stmt, reg, locked, vco>>
  BY DEF App!Tick
<1>2. /\ App!NextCount \in Nat /\ count \in Nat
      /\ \A k \in {250, 500, 999} : count < k => count < App!NextCount /\ App!NextCount <= k
  BY <1>1, NextIs DEF AppInv
<1> DEFINE n == App!NextCount
<1> HIDE DEF n
<1>3. /\ out["CH0"] = 1 => stmt > 20 /\ 250 <= count /\ count < 500
      /\ out["CH2"] = 1 => stmt > 26 /\ 500 <= count /\ count < 999
      /\ out["CH0"] \in {0, 1} /\ out["CH2"] \in {0, 1}
  BY DEF AppInv, Pulsed, App!Outputs
<1>4. out'["CH0"] \in {0, 1} /\ (out'["CH0"] = 1 => stmt > 20 /\ 250 <= n /\ n < 500)
  <2>1. out'["CH0"] = App!Edge("CH0")
    BY <1>1 DEF App!Outputs
  <2>2. CASE reg[<<"CH0", "MODE">>] # 96 \/ reg[<<"CH0", "BSL">>] # 0
    <3>1. App!Edge("CH0") = out["CH0"] /\ ~(stmt > 20)
      BY <2>2, Channels DEF App!Edge
    <3> QED
      BY <1>3, <2>1, <3>1
  <2>3. CASE reg[<<"CH0", "MODE">>] = 96 /\ reg[<<"CH0", "BSL">>] = 0
    <3>1. /\ stmt > 20 /\ reg[<<"CH0", "CADR">>] = 250
          /\ reg[<<"CH0", "CBDR">>] = 500 /\ reg[<<"CH0", "EDPOL">>] = 1
      BY <2>3, Channels
    <3>2. App!Edge("CH0") = IF n = 500 THEN 0 ELSE IF n = 250 THEN 1 ELSE out["CH0"]
      BY <2>3, <3>1 DEF App!Edge, n
    <3>3. n \in Nat /\ (250 <= count /\ count < 500 => count < n /\ n <= 500)
      BY <1>2 DEF n
    <3> QED
      BY <1>2, <1>3, <2>1, <3>1, <3>2, <3>3
  <2> QED
    BY <2>2, <2>3
<1>5. out'["CH2"] \in {0, 1} /\ (out'["CH2"] = 1 => stmt > 26 /\ 500 <= n /\ n < 999)
  <2>1. out'["CH2"] = App!Edge("CH2")
    BY <1>1 DEF App!Outputs
  <2>2. CASE reg[<<"CH2", "MODE">>] # 96 \/ reg[<<"CH2", "BSL">>] # 0
    <3>1. App!Edge("CH2") = out["CH2"] /\ ~(stmt > 26)
      BY <2>2, Channels DEF App!Edge
    <3> QED
      BY <1>3, <2>1, <3>1
  <2>3. CASE reg[<<"CH2", "MODE">>] = 96 /\ reg[<<"CH2", "BSL">>] = 0
    <3>1. /\ stmt > 26 /\ reg[<<"CH2", "CADR">>] = 500
          /\ reg[<<"CH2", "CBDR">>] = 999 /\ reg[<<"CH2", "EDPOL">>] = 1
      BY <2>3, Channels
    <3>2. App!Edge("CH2") = IF n = 999 THEN 0 ELSE IF n = 500 THEN 1 ELSE out["CH2"]
      BY <2>3, <3>1 DEF App!Edge, n
    <3>3. n \in Nat /\ (500 <= count /\ count < 999 => count < n /\ n <= 999)
      BY <1>2 DEF n
    <3> QED
      BY <1>2, <1>3, <2>1, <3>1, <3>2, <3>3
  <2> QED
    BY <2>2, <2>3
<1>6. Pulsed' /\ out' \in [App!Outputs -> {0, 1}]
  <2>1. count' = n /\ out' = [c \in App!Outputs |-> out'[c]]
    BY <1>1 DEF n
  <2> QED
    BY <1>1, <1>4, <1>5, <2>1 DEF Pulsed, App!Outputs
<1>7. Written'
  BY <1>1 DEF AppInv, Written, App!SYNCR
<1> QED
  BY <1>1, <1>2, <1>6, <1>7 DEF AppInv

LEMMA AppStart ==
  ASSUME App!Init
  PROVE  AppInv
<1>1. /\ stmt = 1 /\ reg = [f \in App!Fields |-> 0] /\ count = 0
      /\ out = [c \in App!Outputs |-> 0]
  BY DEF App!Init
<1>2. \A k \in Plain : reg[App!Field(k)] = 0 /\ ~(k < 1)
  BY <1>1, MainKinds DEF Plain, Statements
<1>3. App!SYNCR = 0
  BY <1>1 DEF App!SYNCR, App!Fields, App!PllFields
<1>4. Written
  BY <1>1, <1>2, <1>3 DEF Written
<1> QED
  BY <1>1, <1>4 DEF AppInv, Pulsed, Statements, App!Outputs

LEMMA AppNext ==
  ASSUME TicksAssumption, AppInv, [App!Next]_(App!vars)
  PROVE  AppInv'
<1>1. CASE UNCHANGED App!vars
  BY <1>1, PllStep DEF App!vars
<1>2. CASE App!Program
  BY <1>2, FieldStep, WordStep, WaitStep DEF App!Program
<1>3. CASE App!Hunt \/ App!Lock
  BY <1>3, PllStep DEF App!Hunt, App!Lock
<1>4. CASE App!Tick
  BY <1>4, TickStep
<1> QED
  BY <1>1, <1>2, <1>3, <1>4 DEF App!Next

(* The PLL, for this crystal. *)
LEMMA ClockStart ==
  ASSUME App!Init
  PROVE  Clocked
  BY DEF App!Init, Clocked

LEMMA ClockNext ==
  ASSUME BoardAssumption, AppInv, Clocked, [App!Next]_(App!vars)
  PROVE  Clocked'
<1>1. stmt \in Nat /\ Crystal = 8
  BY DEF AppInv, Statements, BoardAssumption
<1>2. CASE UNCHANGED App!vars \/ App!Tick
  <2>1. UNCHANGED <<stmt, locked, vco>>
    BY <1>2 DEF App!vars, App!Tick
  <2> QED
    BY <2>1 DEF Clocked
<1>3. CASE App!WriteField
  <2>1. stmt' = stmt + 1 /\ stmt \in Plain /\ UNCHANGED <<locked, vco>>
    BY <1>3, FieldStep DEF App!WriteField
  <2>2. stmt = 1 \/ stmt > 4
    BY <2>1 DEF Plain, Statements
  <2> QED
    BY <1>1, <2>1, <2>2 DEF Clocked
<1>4. CASE App!WaitLock
  <2>1. stmt = 3 /\ stmt' = 4 /\ locked /\ UNCHANGED <<locked, vco>>
    BY <1>4, WaitStep DEF App!WaitLock
  <2> QED
    BY <2>1 DEF Clocked
<1>5. CASE App!WriteSYNCR
  <2>1. /\ stmt \in {2, 4} /\ stmt' = stmt + 1
        /\ App!SYNCR' = App!main[stmt][3] /\ AppInv'
    BY <1>5, WordStep
  <2>2. /\ locked' = (locked /\ App!SameLoop(App!SYNCR, App!main[stmt][3]))
        /\ vco' = IF App!SameLoop(App!SYNCR, App!main[stmt][3]) THEN vco
                                                               ELSE App!Target(App!main[stmt][3])
    BY <1>5 DEF App!WriteSYNCR
  <2>3. CASE stmt = 2
    <3>1. App!SYNCR = 0 /\ App!main[stmt][3] = App!LockWord
      BY <2>3, MainText, Words DEF AppInv, Written
    <3>2. locked' = FALSE /\ vco' = 64
      BY <2>2, <3>1, Words, Targets
    <3> QED
      BY <2>1, <2>3, <3>2 DEF Clocked
  <2>4. CASE stmt = 4
    <3>1. App!SYNCR = App!LockWord /\ App!main[stmt][3] = App!RunWord
      BY <2>4, MainText DEF AppInv, Written
    <3>2. locked = TRUE /\ vco = 64
      BY <2>4 DEF Clocked
    <3>3. locked' = TRUE /\ vco' = vco
      BY <2>2, <3>1, <3>2, Words
    <3> QED
      BY <2>1, <2>4, <3>2, <3>3 DEF Clocked
  <2> QED
    BY <2>1, <2>3, <2>4
<1>6. CASE App!Hunt \/ App!Lock
  <2>1. stmt > 2 /\ ~locked /\ UNCHANGED <<stmt, reg>>
    BY <1>6, Chosen DEF App!Hunt, App!Lock
  <2>2. stmt = 3
    BY <1>1, <2>1 DEF Clocked
  <2>3. App!Target(App!SYNCR) = 64
    BY <2>2, Targets DEF AppInv, Written
  <2>4. /\ vco' \in {0, 64, Overshoot * 64}
        /\ locked' = FALSE \/ (locked' = TRUE /\ vco' = 64)
    <3>1. locked = FALSE
      BY <2>1 DEF Clocked
    <3> QED
      BY <1>6, <2>3, <3>1 DEF App!Hunt, App!Lock
  <2> QED
    BY <2>1, <2>2, <2>4 DEF Clocked
<1> QED
  BY <1>2, <1>3, <1>4, <1>5, <1>6 DEF App!Next, App!Program

LEMMA ClockHolds ==
  ASSUME BoardAssumption, AppInv, Clocked
  PROVE  App!ClockBounded
<1>1. stmt \in Nat /\ Crystal = 8 /\ Overshoot * 64 \in {0, 64, 128}
  BY DEF AppInv, Statements, BoardAssumption
<1>2. App!RFD(App!SYNCR) = IF stmt \in {3, 4} THEN 1 ELSE 0
  BY <1>1, Words DEF AppInv, Written
<1>3. 2^0 = 1 /\ 2^1 = 2
  OBVIOUS
<1>4. App!Sysclk = IF stmt <= 1 THEN 8 ELSE IF stmt \in {3, 4} THEN vco \div 2 ELSE vco \div 1
  BY <1>1, <1>2, <1>3, Chosen DEF App!Sysclk
<1>5. App!Sysclk <= 64
  <2>1. CASE stmt <= 2
    BY <1>1, <1>4, <2>1 DEF Clocked
  <2>2. CASE stmt \in {3, 4}
    <3>1. vco \in {0, 64, 128}
      BY <1>1, <2>2 DEF Clocked
    <3> QED
      BY <1>4, <2>2, <3>1
  <2>3. CASE stmt > 4
    BY <1>1, <1>4, <2>3 DEF Clocked
  <2> QED
    BY <1>1, <2>1, <2>2, <2>3
<1>6. ASSUME App!Counting
      PROVE  App!Sysclk = (reg[<<"MCR", "GPRE">>] + 1) * (reg[<<"CH23", "UCPRE">>] + 1)
  <2>1. stmt > 15 /\ reg[<<"MCR", "GPRE">>] = 63 /\ reg[<<"CH23", "UCPRE">>] = 0
    BY <1>6, CountsLate
  <2>2. App!Sysclk = 64
    BY <1>1, <1>4, <2>1 DEF Clocked
  <2> QED
    BY <2>1, <2>2
<1> QED
  BY <1>5, <1>6 DEF App!ClockBounded

LEMMA OnlyApp ==
  ASSUME [AllNext]_all, which = "application"
  PROVE  [App!Next]_(App!vars) /\ which' = "application"
  BY DEF AllNext, all, app, App!vars

(* The two pulses are never high at once, also while main sets up the      *)
(* channels of a counter that runs.                                        *)
THEOREM ServicesPulses ==
  ASSUME TicksAssumption
  PROVE  AllSpec => []PulsesApart
<1> DEFINE I == which = "application" => AppInv
<1>1. AllInit => I
  BY AppStart DEF AllInit
<1>2. I /\ [AllNext]_all => I'
  <2> SUFFICES ASSUME I, [AllNext]_all, which' = "application" PROVE AppInv'
    OBVIOUS
  <2>1. which = "application"
    BY DEF AllNext, all
  <2> QED
    BY <2>1, OnlyApp, AppNext
<1>3. I => PulsesApart
  BY DEF PulsesApart, App!PulsesApart, App!High, AppInv, Pulsed
<1> QED
  BY <1>1, <1>2, <1>3, PTL DEF AllSpec

(* The clock stays within its 64 MHz and the counter counts at 1 MHz,      *)
(* whatever the PLL does until it locks.                                   *)
THEOREM ServicesClock ==
  ASSUME BoardAssumption, TicksAssumption
  PROVE  AllSpec => []ClockBounded
<1> DEFINE I == which = "application" => AppInv /\ Clocked
<1>1. AllInit => I
  BY AppStart, ClockStart DEF AllInit
<1>2. I /\ [AllNext]_all => I'
  <2> SUFFICES ASSUME I, [AllNext]_all, which' = "application" PROVE AppInv' /\ Clocked'
    OBVIOUS
  <2>1. which = "application"
    BY DEF AllNext, all
  <2>2. [App!Next]_(App!vars)
    BY <2>1, OnlyApp
  <2>3. AppInv /\ Clocked
    BY <2>1
  <2> QED
    BY <2>2, <2>3, AppNext, ClockNext
<1>3. I => ClockBounded
  BY ClockHolds DEF ClockBounded
<1> QED
  BY <1>1, <1>2, <1>3, PTL DEF AllSpec
-----------------------------------------------------------------------------
(***************************************************************************)
(* Block coverage (ind_bcnt.c).                                            *)
(***************************************************************************)

(* A program has finitely many functions, and a null pointer is none.      *)
RoutineAssumption ==
  /\ IsFiniteSet(Routine) /\ Cov!Null \notin Routine /\ Cov!Null \notin Thread
  /\ MaxCount \in Nat

InSection == {"inserted", "setfunc", "atexit", "insert", "next", "head", "unlock"}
Exiting   == {"creat", "write", "end"}

(* The functions on the list: inserted is set before the links are.        *)
Joined == inserted \ {routinfo[t] : t \in {u \in Thread : pc[u] \in {"next", "head"}}}

CovType ==
  /\ pc \in [Thread -> {"idle", "lock", "body"} \cup InSection \cup Exiting]
  /\ routinfo \in [Thread -> Routine \cup {Cov!Null}]
  /\ cnt \in [Routine -> [Cov!Block -> Nat]]
  /\ inserted \subseteq Routine /\ executed \subseteq Routine
  /\ next \in [Routine -> Routine \cup {Cov!Null}]
  /\ file \in [must : SUBSET Routine, has : [Routine -> Nat], failed : BOOLEAN, closed : BOOLEAN]

(* Who is where: the section has one thread, the dump another.             *)
Where(t) ==
  /\ pc[t] \in InSection => profiling = t
  /\ pc[t] \in Exiting => exiting = t
  /\ pc[t] \in InSection \cup {"lock", "body"} => routinfo[t] \in Routine
  /\ pc[t] \in {"setfunc", "atexit", "insert"} => routinfo[t] \notin inserted
  /\ pc[t] \in {"next", "head"} => routinfo[t] \in inserted
  /\ pc[t] = "head" => next[routinfo[t]] = blocklisthead
  /\ pc[t] \in {"unlock", "body"} => routinfo[t] \in Joined
  /\ pc[t] = "setfunc" => func = "none"
  /\ pc[t] \in {"insert", "next", "head"} => func = "pushed"

(* Nothing is on the list before the dump is on the exit list.             *)
Registered ==
  /\ func \in {"none", "set", "pushed"}
  /\ func = "set" => \E t \in Thread : pc[t] = "atexit"
  /\ inserted # {} => func = "pushed"

(* The list as a sequence: the oldest function first, so that a new one     *)
(* moves none of the others.                                                *)
Chain(R) ==
  /\ R \in Seq(Routine) /\ \A i, j \in 1 .. Len(R) : R[i] = R[j] => i = j
  /\ Joined = {R[i] : i \in 1 .. Len(R)}
  /\ \A i \in 1 .. Len(R) : next[R[i]] = IF i = 1 THEN Cov!Null ELSE R[i - 1]
  /\ blocklisthead = IF Len(R) = 0 THEN Cov!Null ELSE R[Len(R)]

(* A walk has still to come to the first j of them.                        *)
Ahead(R, j) ==
  /\ test = IF j = 0 THEN Cov!Null ELSE R[j]
  /\ \A r \in Routine : file.has[r] <= 1
  /\ \A i \in 1 .. j : file.has[R[i]] = 0
  /\ \A r \in file.must : \/ file.has[r] = 1
                          \/ Cov!HasCounted(r) /\ \E i \in 1 .. j : R[i] = r
Walked(R) == \A t \in Thread : pc[t] = "write" => \E j \in 0 .. Len(R) : Ahead(R, j)

Counted == executed \subseteq Joined /\ \A r \in executed : Cov!HasCounted(r)

CovInv ==
  /\ CovType /\ Registered /\ Counted /\ Cov!CoverageComplete
  /\ \A t \in Thread : Where(t)
  /\ \E R : Chain(R) /\ Walked(R)

(* Steps that leave a list and a thread as they are. *)
LEMMA OthersOwn ==
  ASSUME NEW u, Where(u), pc'[u] = pc[u], routinfo'[u] = routinfo[u], Joined \subseteq Joined',
         pc[u] \in Exiting => exiting' = exiting,
         pc[u] \in InSection =>
           UNCHANGED <<profiling, inserted, next, blocklisthead, func>>
  PROVE  Where(u)'
<1>1. CASE pc[u] \in InSection
  BY <1>1 DEF Where
<1>2. CASE pc[u] \notin InSection
  BY <1>2 DEF Where, InSection
<1> QED
  BY <1>1, <1>2

LEMMA ChainKept ==
  ASSUME NEW R, Chain(R), Joined' = Joined, blocklisthead' = blocklisthead,
         \A r \in Joined : next'[r] = next[r]
  PROVE  Chain(R)'
  BY DEF Chain

LEMMA AheadKept ==
  ASSUME NEW R, NEW j, Ahead(R, j), UNCHANGED <<test, file>>,
         \A r \in file.must : Cov!HasCounted(r) => Cov!HasCounted(r)'
  PROVE  Ahead(R, j)'
  BY DEF Ahead

LEMMA WalkedKept ==
  ASSUME NEW R, Walked(R), UNCHANGED <<test, file>>,
         \A r \in file.must : Cov!HasCounted(r) => Cov!HasCounted(r)',
         \A t \in Thread : pc'[t] = "write" => pc[t] = "write"
  PROVE  Walked(R)'
<1> SUFFICES ASSUME NEW t \in Thread, pc[t] = "write" PROVE \E j \in 0 .. Len(R) : Ahead(R, j)'
  BY DEF Walked
<1>1. PICK j \in 0 .. Len(R) : Ahead(R, j)
  BY DEF Walked
<1> QED
  BY <1>1, AheadKept

LEMMA CountedKept ==
  ASSUME Counted, UNCHANGED <<executed, cnt>>, Joined \subseteq Joined'
  PROVE  Counted' /\ \A r : Cov!HasCounted(r) => Cov!HasCounted(r)'
  BY DEF Counted, Cov!HasCounted

LEMMA FileKept ==
  ASSUME UNCHANGED file, Cov!CoverageComplete
  PROVE  Cov!CoverageComplete'
  BY DEF Cov!CoverageComplete

(* Steps that touch neither the list nor the counts, but for one thread.   *)
LEMMA QuietStep ==
  ASSUME CovInv, NEW t \in Thread,
         UNCHANGED <<inserted, next, blocklisthead, cnt, executed, test, file>>,
         \A u \in Thread \ {t} : pc'[u] = pc[u] /\ routinfo'[u] = routinfo[u],
         pc'[t] # "write", pc'[t] \notin {"next", "head"}, pc[t] \notin {"next", "head"},
         CovType', Registered', Where(t)', 
         \A u \in Thread \ {t} : /\ pc[u] \in Exiting => exiting' = exiting
                                 /\ pc[u] \in InSection => UNCHANGED <<profiling, func>>
  PROVE  CovInv'
<1>1. Joined' = Joined
  BY DEF Joined
<1>2. \A u \in Thread : Where(u)'
  <2> SUFFICES ASSUME NEW u \in Thread \ {t} PROVE Where(u)'
    OBVIOUS
  <2>1. Where(u) /\ Joined \subseteq Joined'
    BY <1>1 DEF CovInv
  <2> QED
    BY <2>1, OthersOwn
<1>3. PICK R : Chain(R) /\ Walked(R)
  BY DEF CovInv
<1>4. Chain(R)'
  BY <1>1, <1>3, ChainKept
<1>5. Counted' /\ \A r : Cov!HasCounted(r) => Cov!HasCounted(r)'
  BY <1>1, CountedKept DEF CovInv
<1>6. \A u \in Thread : pc'[u] = "write" => pc[u] = "write"
  OBVIOUS
<1>7. Walked(R)'
  BY <1>3, <1>5, <1>6, WalkedKept
<1>8. Cov!CoverageComplete'
  BY FileKept DEF CovInv
<1> QED
  BY <1>2, <1>4, <1>5, <1>7, <1>8 DEF CovInv

LEMMA EnterCov ==
  ASSUME CovInv, NEW t \in Thread, Cov!Enter(t)
  PROVE  CovInv'
<1>1. PICK r \in Routine :
        /\ pc[t] = "idle" /\ routinfo' = [routinfo EXCEPT ![t] = r] /\ pc' = [pc EXCEPT ![t] = "lock"]
        /\ UNCHANGED <<inserted, next, blocklisthead, cnt, executed, test, file, profiling,
                       exiting, func>>
  BY DEF Cov!Enter, Cov!At, Cov!Goto, Cov!list, Cov!locks, Cov!Walk
<1>2. CovType /\ Where(t) /\ Registered
  BY DEF CovInv
<1>3. pc'[t] = "lock" /\ routinfo'[t] = r /\ \A u \in Thread \ {t} : pc'[u] = pc[u] /\ routinfo'[u] = routinfo[u]
  BY <1>1, <1>2 DEF CovType
<1>4. CovType'
  BY <1>1, <1>2 DEF CovType
<1>5. Where(t)'
  BY <1>3 DEF Where, InSection, Exiting
<1>6. Registered'
  BY <1>1, <1>2, <1>3 DEF Registered
<1> QED
  BY <1>1, <1>3, <1>4, <1>5, <1>6, QuietStep

(* A thread that has the section has it alone. *)
LEMMA OneInSection ==
  ASSUME RoutineAssumption, CovInv, NEW t \in Thread, pc[t] \in InSection \/ profiling = Cov!Null
  PROVE  \A u \in Thread \ {t} : pc[u] \notin InSection
<1>1. \A u \in Thread : pc[u] \in InSection => profiling = u
  BY DEF CovInv, Where
<1>2. Cov!Null \notin Thread
  BY DEF RoutineAssumption
<1> QED
  BY <1>1, <1>2

LEMMA LockCov ==
  ASSUME RoutineAssumption, CovInv, NEW t \in Thread, Cov!ProfileLock(t)
  PROVE  CovInv'
<1>1. /\ pc[t] = "lock" /\ profiling = Cov!Null /\ profiling' = t /\ pc' = [pc EXCEPT ![t] = "inserted"]
      /\ UNCHANGED <<inserted, next, blocklisthead, cnt, executed, test, file, routinfo,
                     exiting, func>>
  BY DEF Cov!ProfileLock, Cov!LockFree, Cov!At, Cov!Goto, Cov!list, Cov!locks, Cov!Walk
<1>2. CovType /\ Where(t) /\ Registered
  BY DEF CovInv
<1>3. pc'[t] = "inserted" /\ \A u \in Thread \ {t} : pc'[u] = pc[u] /\ routinfo'[u] = routinfo[u]
  BY <1>1, <1>2 DEF CovType
<1>4. CovType'
  BY <1>1, <1>2 DEF CovType, InSection
<1>5. Where(t)'
  BY <1>1, <1>2, <1>3 DEF Where, InSection, Exiting
<1>6. Registered'
  BY <1>1, <1>2, <1>3 DEF Registered
<1>7. \A u \in Thread \ {t} : pc[u] \notin InSection
  BY <1>1, OneInSection
<1> QED
  BY <1>1, <1>3, <1>4, <1>5, <1>6, <1>7, QuietStep

LEMMA TestCov ==
  ASSUME RoutineAssumption, CovInv, NEW t \in Thread, Cov!TestInserted(t)
  PROVE  CovInv'
<1>1. /\ pc[t] = "inserted"
      /\ UNCHANGED <<inserted, next, blocklisthead, cnt, executed, test, file, routinfo,
                     profiling, exiting, func>>
  BY DEF Cov!TestInserted, Cov!At, Cov!list, Cov!locks, Cov!Walk
<1>2. CovType /\ Where(t) /\ Registered
  BY DEF CovInv
<1>3. pc[t] \in InSection /\ \A u \in Thread \ {t} : pc[u] \notin InSection
  BY <1>1, OneInSection DEF InSection
<1>4. PICK to \in {"unlock", "setfunc", "insert"} :
        /\ pc' = [pc EXCEPT ![t] = to]
        /\ to = "unlock" <=> routinfo[t] \in inserted
        /\ to = "setfunc" <=> routinfo[t] \notin inserted /\ blocklisthead = Cov!Null /\ func = "none"
  <2>1. CASE routinfo[t] \in inserted
    BY <2>1 DEF Cov!TestInserted, Cov!Goto
  <2>2. CASE routinfo[t] \notin inserted /\ blocklisthead = Cov!Null /\ func = "none"
    BY <2>2 DEF Cov!TestInserted, Cov!Goto
  <2>3. CASE routinfo[t] \notin inserted /\ ~(blocklisthead = Cov!Null /\ func = "none")
    BY <2>3 DEF Cov!TestInserted, Cov!Goto
  <2> QED
    BY <2>1, <2>2, <2>3
<1>5. pc'[t] = to /\ \A u \in Thread \ {t} : pc'[u] = pc[u] /\ routinfo'[u] = routinfo[u]
  BY <1>1, <1>2, <1>4 DEF CovType
<1>6. CovType'
  <2>1. to \in InSection
    BY DEF InSection
  <2> QED
    BY <1>1, <1>2, <1>4, <2>1 DEF CovType
<1>7. Joined = inserted /\ Joined' = Joined
  BY <1>1, <1>3, <1>5 DEF Joined, InSection
<1>8. to = "insert" => func = "pushed"
  <2> SUFFICES ASSUME to = "insert", func # "pushed" PROVE FALSE
    OBVIOUS
  <2>1. inserted = {}
    BY <1>2 DEF Registered
  <2>2. blocklisthead = Cov!Null
    <3>1. PICK R : Chain(R)
      BY DEF CovInv
    <3>2. Len(R) = 0
      <4>1. Len(R) \in Nat /\ \A i \in 1 .. Len(R) : R[i] \in Joined
        BY <3>1, LenProperties DEF Chain
      <4> QED
        BY <1>7, <2>1, <4>1
    <3> QED
      BY <3>1, <3>2 DEF Chain
  <2>3. func = "none"
    <3>1. \A u \in Thread : pc[u] # "atexit"
      BY <1>1, <1>3 DEF InSection
    <3> QED
      BY <1>2, <3>1 DEF Registered
  <2> QED
    BY <1>4, <2>1, <2>2, <2>3
<1>9. Where(t)'
  <2>1. /\ profiling' = t /\ routinfo'[t] \in Routine
        /\ to \notin Exiting /\ to \notin {"next", "head", "body", "atexit"}
    BY <1>1, <1>2, <1>3 DEF Where, Exiting
  <2>2. to = "unlock" => routinfo'[t] \in Joined'
    BY <1>1, <1>4, <1>7
  <2> QED
    BY <1>1, <1>4, <1>5, <1>8, <2>1, <2>2 DEF Where
<1>10. Registered'
  BY <1>1, <1>2, <1>3, <1>5 DEF Registered
<1> QED
  BY <1>1, <1>3, <1>5, <1>6, <1>9, <1>10, QuietStep

LEMMA FuncCov ==
  ASSUME RoutineAssumption, CovInv, NEW t \in Thread, Cov!SetFunc(t) \/ Cov!AtExit(t)
  PROVE  CovInv'
<1>1. /\ pc[t] \in {"setfunc", "atexit"}
      /\ \/ pc[t] = "setfunc" /\ func' = "set" /\ pc' = [pc EXCEPT ![t] = "atexit"]
         \/ pc[t] = "atexit" /\ func' = "pushed" /\ pc' = [pc EXCEPT ![t] = "insert"]
      /\ UNCHANGED <<inserted, next, blocklisthead, cnt, executed, test, file, routinfo,
                     profiling, exiting>>
  BY DEF Cov!SetFunc, Cov!AtExit, Cov!At, Cov!Goto, Cov!list, Cov!locks, Cov!Walk
<1>2. CovType /\ Where(t) /\ Registered
  BY DEF CovInv
<1>3. pc[t] \in InSection /\ \A u \in Thread \ {t} : pc[u] \notin InSection
  BY <1>1, OneInSection DEF InSection
<1>4. PICK to \in {"atexit", "insert"} :
        /\ pc' = [pc EXCEPT ![t] = to]
        /\ to = "atexit" => pc[t] = "setfunc" /\ func' = "set"
        /\ to = "insert" => pc[t] = "atexit" /\ func' = "pushed"
  BY <1>1
<1>5. pc'[t] = to /\ \A u \in Thread \ {t} : pc'[u] = pc[u] /\ routinfo'[u] = routinfo[u]
  BY <1>1, <1>2, <1>4 DEF CovType
<1>6. CovType'
  <2>1. to \in InSection
    BY DEF InSection
  <2> QED
    BY <1>1, <1>2, <1>4, <2>1 DEF CovType
<1>7. Where(t)'
  <2>1. /\ profiling' = t /\ routinfo'[t] \in Routine /\ routinfo'[t] \notin inserted'
        /\ to \notin Exiting /\ to \notin {"next", "head", "body", "unlock", "setfunc"}
    BY <1>1, <1>2, <1>3 DEF Where, Exiting
  <2> QED
    BY <1>4, <1>5, <2>1 DEF Where
<1>8. Registered'
  <2>1. inserted # {} => func = "pushed"
    BY <1>2 DEF Registered
  <2>2. pc[t] = "setfunc" => func = "none"
    BY <1>2 DEF Where
  <2> QED
    BY <1>1, <1>4, <1>5, <2>1, <2>2 DEF Registered
<1> QED
  BY <1>1, <1>3, <1>4, <1>5, <1>6, <1>7, <1>8, QuietStep

LEMMA UnlockCov ==
  ASSUME RoutineAssumption, CovInv, NEW t \in Thread, Cov!ProfileUnlock(t)
  PROVE  CovInv'
<1>1. /\ pc[t] = "unlock" /\ pc' = [pc EXCEPT ![t] = "body"]
      /\ UNCHANGED <<inserted, next, blocklisthead, cnt, executed, test, file, routinfo,
                     exiting, func>>
  BY DEF Cov!ProfileUnlock, Cov!At, Cov!Goto, Cov!list, Cov!locks, Cov!Walk
<1>2. CovType /\ Where(t) /\ Registered
  BY DEF CovInv
<1>3. pc[t] \in InSection /\ \A u \in Thread \ {t} : pc[u] \notin InSection
  BY <1>1, OneInSection DEF InSection
<1>4. pc'[t] = "body" /\ \A u \in Thread \ {t} : pc'[u] = pc[u] /\ routinfo'[u] = routinfo[u]
  BY <1>1, <1>2 DEF CovType
<1>5. CovType'
  BY <1>1, <1>2 DEF CovType
<1>6. Joined' = Joined
  BY <1>1, <1>4 DEF Joined
<1>7. Where(t)'
  BY <1>1, <1>2, <1>4, <1>6 DEF Where, InSection, Exiting
<1>8. Registered'
  BY <1>1, <1>2, <1>4 DEF Registered
<1> QED
  BY <1>1, <1>3, <1>4, <1>5, <1>7, <1>8, QuietStep

LEMMA ReturnCov ==
  ASSUME CovInv, NEW t \in Thread, Cov!Return(t)
  PROVE  CovInv'
<1>1. /\ pc[t] = "body" /\ pc' = [pc EXCEPT ![t] = "idle"]
      /\ UNCHANGED <<inserted, next, blocklisthead, cnt, executed, test, file, routinfo,
                     profiling, exiting, func>>
  BY DEF Cov!Return, Cov!At, Cov!Goto, Cov!list, Cov!locks, Cov!Walk
<1>2. CovType /\ Where(t) /\ Registered
  BY DEF CovInv
<1>3. pc'[t] = "idle" /\ \A u \in Thread \ {t} : pc'[u] = pc[u] /\ routinfo'[u] = routinfo[u]
  BY <1>1, <1>2 DEF CovType
<1>4. CovType'
  BY <1>1, <1>2 DEF CovType
<1>5. Where(t)'
  BY <1>3 DEF Where, InSection, Exiting
<1>6. Registered'
  BY <1>1, <1>2, <1>3 DEF Registered
<1> QED
  BY <1>1, <1>3, <1>4, <1>5, <1>6, QuietStep

(* The stores of an insertion. *)
LEMMA InsertCov ==
  ASSUME RoutineAssumption, CovInv, NEW t \in Thread, Cov!Insert(t)
  PROVE  CovInv'
<1>1. /\ pc[t] = "insert" /\ pc' = [pc EXCEPT ![t] = "next"]
      /\ inserted' = inserted \cup {routinfo[t]}
      /\ UNCHANGED <<next, blocklisthead, cnt, executed, test, file, routinfo,
                     profiling, exiting, func>>
  BY DEF Cov!Insert, Cov!At, Cov!Goto, Cov!list, Cov!locks, Cov!Walk
<1>2. CovType /\ Where(t) /\ Registered
  BY DEF CovInv
<1>3. pc[t] \in InSection /\ \A u \in Thread \ {t} : pc[u] \notin InSection
  BY <1>1, OneInSection DEF InSection
<1>4. pc'[t] = "next" /\ \A u \in Thread \ {t} : pc'[u] = pc[u] /\ routinfo'[u] = routinfo[u]
  BY <1>1, <1>2 DEF CovType
<1>5. routinfo[t] \in Routine /\ routinfo[t] \notin inserted /\ func = "pushed" /\ profiling = t
  BY <1>1, <1>2, <1>3 DEF Where
<1>6. CovType'
  BY <1>1, <1>2, <1>5 DEF CovType, InSection
<1>7. Joined = inserted /\ Joined' = Joined
  <2>1. {u \in Thread : pc[u] \in {"next", "head"}} = {}
    BY <1>1, <1>3 DEF InSection
  <2>2. {u \in Thread : pc'[u] \in {"next", "head"}} = {t}
    BY <1>1, <1>3, <1>4 DEF InSection
  <2> QED
    BY <1>1, <1>5, <2>1, <2>2 DEF Joined
<1>8. \A u \in Thread : Where(u)'
  <2>1. Where(t)'
    BY <1>1, <1>3, <1>4, <1>5 DEF Where, Exiting
  <2>2. ASSUME NEW u \in Thread \ {t} PROVE Where(u)'
    <3>1. Where(u) /\ Joined \subseteq Joined' /\ pc[u] \notin InSection
      BY <1>3, <1>7 DEF CovInv
    <3> QED
      BY <1>1, <1>4, <3>1, OthersOwn
  <2> QED
    BY <2>1, <2>2
<1>9. PICK R : Chain(R) /\ Walked(R)
  BY DEF CovInv
<1>10. Chain(R)'
  BY <1>1, <1>7, <1>9, ChainKept
<1>11. Counted' /\ \A r : Cov!HasCounted(r) => Cov!HasCounted(r)'
  BY <1>1, <1>7, CountedKept DEF CovInv
<1>12. \A u \in Thread : pc'[u] = "write" => pc[u] = "write"
  BY <1>4
<1>13. Walked(R)'
  BY <1>1, <1>9, <1>11, <1>12, WalkedKept
<1>14. Cov!CoverageComplete'
  BY <1>1, FileKept DEF CovInv
<1>15. Registered'
  BY <1>1, <1>2, <1>4, <1>5 DEF Registered
<1> QED
  BY <1>6, <1>8, <1>10, <1>11, <1>13, <1>14, <1>15 DEF CovInv

LEMMA NextCov ==
  ASSUME RoutineAssumption, CovInv, NEW t \in Thread, Cov!SetNext(t)
  PROVE  CovInv'
<1>1. /\ pc[t] = "next" /\ pc' = [pc EXCEPT ![t] = "head"]
      /\ next' = [next EXCEPT ![routinfo[t]] = blocklisthead]
      /\ UNCHANGED <<inserted, blocklisthead, cnt, executed, test, file, routinfo,
                     profiling, exiting, func>>
  BY DEF Cov!SetNext, Cov!At, Cov!Goto, Cov!locks, Cov!Walk
<1>2. CovType /\ Where(t) /\ Registered
  BY DEF CovInv
<1>3. pc[t] \in InSection /\ \A u \in Thread \ {t} : pc[u] \notin InSection
  BY <1>1, OneInSection DEF InSection
<1>4. pc'[t] = "head" /\ \A u \in Thread \ {t} : pc'[u] = pc[u] /\ routinfo'[u] = routinfo[u]
  BY <1>1, <1>2 DEF CovType
<1>5. routinfo[t] \in Routine /\ routinfo[t] \in inserted /\ func = "pushed" /\ profiling = t
  BY <1>1, <1>2, <1>3 DEF Where
<1>6. PICK R : Chain(R) /\ Walked(R)
  BY DEF CovInv
<1>7. blocklisthead \in Routine \cup {Cov!Null}
  BY <1>6, LenProperties DEF Chain
<1>8. CovType'
  BY <1>1, <1>2, <1>7 DEF CovType, InSection
<1>9. Joined' = Joined /\ routinfo[t] \notin Joined
  <2>1. {u \in Thread : pc'[u] \in {"next", "head"}} = {u \in Thread : pc[u] \in {"next", "head"}}
    BY <1>1, <1>4
  <2> QED
    BY <1>1, <2>1 DEF Joined
<1>10. next'[routinfo[t]] = blocklisthead /\ \A r \in Joined : next'[r] = next[r]
  BY <1>1, <1>2, <1>5, <1>9 DEF CovType, Joined
<1>11. \A u \in Thread : Where(u)'
  <2>1. Where(t)'
    BY <1>1, <1>3, <1>4, <1>5, <1>10 DEF Where, Exiting
  <2>2. ASSUME NEW u \in Thread \ {t} PROVE Where(u)'
    <3>1. Where(u) /\ Joined \subseteq Joined' /\ pc[u] \notin InSection
      BY <1>3, <1>9 DEF CovInv
    <3> QED
      BY <1>1, <1>4, <3>1, OthersOwn
  <2> QED
    BY <2>1, <2>2
<1>12. Chain(R)'
  BY <1>1, <1>6, <1>9, <1>10, ChainKept
<1>13. Counted' /\ \A r : Cov!HasCounted(r) => Cov!HasCounted(r)'
  BY <1>1, <1>9, CountedKept DEF CovInv
<1>14. \A u \in Thread : pc'[u] = "write" => pc[u] = "write"
  BY <1>4
<1>15. Walked(R)'
  BY <1>1, <1>6, <1>13, <1>14, WalkedKept
<1>16. Cov!CoverageComplete'
  BY <1>1, FileKept DEF CovInv
<1>17. Registered'
  BY <1>1, <1>2, <1>4, <1>5 DEF Registered
<1> QED
  BY <1>8, <1>11, <1>12, <1>13, <1>15, <1>16, <1>17 DEF CovInv

LEMMA HeadCov ==
  ASSUME RoutineAssumption, CovInv, NEW t \in Thread, Cov!SetHead(t)
  PROVE  CovInv'
<1>1. /\ pc[t] = "head" /\ pc' = [pc EXCEPT ![t] = "unlock"]
      /\ blocklisthead' = routinfo[t]
      /\ UNCHANGED <<inserted, next, cnt, executed, test, file, routinfo,
                     profiling, exiting, func>>
  BY DEF Cov!SetHead, Cov!At, Cov!Goto, Cov!locks, Cov!Walk
<1>2. CovType /\ Where(t) /\ Registered
  BY DEF CovInv
<1>3. pc[t] \in InSection /\ \A u \in Thread \ {t} : pc[u] \notin InSection
  BY <1>1, OneInSection DEF InSection
<1>4. pc'[t] = "unlock" /\ \A u \in Thread \ {t} : pc'[u] = pc[u] /\ routinfo'[u] = routinfo[u]
  BY <1>1, <1>2 DEF CovType
<1>5. PICK r \in Routine : r = routinfo[t]
  BY <1>3, <1>2 DEF Where
<1>6. r \in inserted /\ func = "pushed" /\ profiling = t /\ next[r] = blocklisthead
  BY <1>1, <1>2, <1>3, <1>5 DEF Where
<1>7. CovType'
  BY <1>1, <1>2 DEF CovType, InSection
<1>8. Joined' = Joined \cup {r} /\ r \notin Joined
  <2>1. {u \in Thread : pc[u] \in {"next", "head"}} = {t}
    BY <1>1, <1>3 DEF InSection
  <2>2. {u \in Thread : pc'[u] \in {"next", "head"}} = {}
    BY <1>1, <1>3, <1>4 DEF InSection
  <2> QED
    BY <1>1, <1>5, <1>6, <2>1, <2>2 DEF Joined
<1>9. \A u \in Thread : Where(u)'
  <2>1. Where(t)'
    BY <1>1, <1>3, <1>4, <1>5, <1>6, <1>8 DEF Where, Exiting
  <2>2. ASSUME NEW u \in Thread \ {t} PROVE Where(u)'
    <3>1. Where(u) /\ Joined \subseteq Joined' /\ pc[u] \notin InSection
      BY <1>3, <1>8 DEF CovInv
    <3> QED
      BY <1>1, <1>4, <3>1, OthersOwn
  <2> QED
    BY <2>1, <2>2
<1>10. PICK R : Chain(R) /\ Walked(R)
  BY DEF CovInv
<1>11. R \in Seq(Routine) /\ Len(R) \in Nat
  BY <1>10, LenProperties DEF Chain
<1> DEFINE A == Append(R, r)
<1>12. /\ A \in Seq(Routine) /\ Len(A) = Len(R) + 1 /\ A[Len(R) + 1] = r
       /\ \A i \in 1 .. Len(R) : A[i] = R[i]
  BY <1>11, AppendProperties
<1> HIDE DEF A
<1>13. 1 .. Len(A) = (1 .. Len(R)) \cup {Len(R) + 1}
  BY <1>11, <1>12
<1>14. \A i \in 1 .. Len(R) : R[i] \in Joined
  BY <1>10 DEF Chain
<1>15. Chain(A)'
  <2>1. \A i, j \in 1 .. Len(A) : A[i] = A[j] => i = j
    <3>1. \A i \in 1 .. Len(R) : A[i] # r
      BY <1>8, <1>12, <1>14
    <3>2. \A i, j \in 1 .. Len(R) : R[i] = R[j] => i = j
      BY <1>10 DEF Chain
    <3> QED
      BY <1>12, <1>13, <3>1, <3>2
  <2>2. Joined' = {A[i] : i \in 1 .. Len(A)}
    <3>1. Joined = {R[i] : i \in 1 .. Len(R)}
      BY <1>10 DEF Chain
    <3> QED
      BY <1>8, <1>12, <1>13, <3>1
  <2>3. \A i \in 1 .. Len(A) : next[A[i]] = IF i = 1 THEN Cov!Null ELSE A[i - 1]
    <3>1. ASSUME NEW i \in 1 .. Len(R) PROVE next[A[i]] = IF i = 1 THEN Cov!Null ELSE A[i - 1]
      <4>1. next[R[i]] = IF i = 1 THEN Cov!Null ELSE R[i - 1]
        BY <1>10 DEF Chain
      <4>2. i # 1 => i - 1 \in 1 .. Len(R)
        BY <1>11
      <4> QED
        BY <1>12, <4>1, <4>2
    <3>2. next[r] = IF Len(R) + 1 = 1 THEN Cov!Null ELSE A[Len(R) + 1 - 1]
      <4>1. blocklisthead = IF Len(R) = 0 THEN Cov!Null ELSE R[Len(R)]
        BY <1>10 DEF Chain
      <4>2. Len(R) # 0 => Len(R) \in 1 .. Len(R)
        BY <1>11
      <4> QED
        BY <1>6, <1>11, <1>12, <4>1, <4>2
    <3> QED
      BY <1>12, <1>13, <3>1, <3>2
  <2>4. blocklisthead' = IF Len(A) = 0 THEN Cov!Null ELSE A[Len(A)]
    BY <1>1, <1>5, <1>11, <1>12
  <2> QED
    BY <1>1, <1>12, <2>1, <2>2, <2>3, <2>4 DEF Chain
<1>16. Counted' /\ \A q : Cov!HasCounted(q) => Cov!HasCounted(q)'
  BY <1>1, <1>8, CountedKept DEF CovInv
<1>17. Walked(A)'
  <2> SUFFICES ASSUME NEW u \in Thread, pc'[u] = "write"
               PROVE  \E j \in 0 .. Len(A) : Ahead(A, j)'
    BY DEF Walked
  <2>1. pc[u] = "write"
    BY <1>4
  <2>2. PICK j \in 0 .. Len(R) : Ahead(R, j)
    BY <1>10, <2>1 DEF Walked
  <2>3. \A i \in 1 .. j : A[i] = R[i]
    BY <1>11, <1>12
  <2>4. Ahead(A, j)
    <3>1. j # 0 => j \in 1 .. j
      BY <1>11
    <3> QED
      BY <2>2, <2>3, <3>1 DEF Ahead
  <2>5. Ahead(A, j)'
    BY <1>1, <1>16, <2>4, AheadKept
  <2>6. j \in 0 .. Len(A)
    BY <1>11, <1>12
  <2> QED
    BY <2>5, <2>6
<1>18. Cov!CoverageComplete'
  BY <1>1, FileKept DEF CovInv
<1>19. Registered'
  BY <1>1, <1>2, <1>4, <1>6 DEF Registered
<1> QED
  BY <1>7, <1>9, <1>15, <1>16, <1>17, <1>18, <1>19 DEF CovInv

(* The dump of _Exit.  What a step of it has to show. *)
LEMMA DumpStep ==
  ASSUME RoutineAssumption, CovInv, NEW t \in Thread,
         UNCHANGED <<inserted, next, blocklisthead, cnt, executed, routinfo, profiling, func>>,
         NEW to \in {"creat", "write", "end"},
         pc' = [pc EXCEPT ![t] = to], pc[t] = "idle" \/ pc[t] \in Exiting,
         exiting' = t, pc[t] = "idle" => exiting = Cov!Null, pc[t] # "idle" => exiting = t,
         file' \in [must : SUBSET Routine, has : [Routine -> Nat], failed : BOOLEAN, closed : BOOLEAN],
         Cov!CoverageComplete',
         NEW R, Chain(R), to = "write" => \E j \in 0 .. Len(R) : Ahead(R, j)'
  PROVE  CovInv'
<1>1. CovType /\ Where(t) /\ Registered
  BY DEF CovInv
<1>2. pc'[t] = to /\ \A u \in Thread \ {t} : pc'[u] = pc[u] /\ routinfo'[u] = routinfo[u]
  BY <1>1 DEF CovType
<1>3. CovType'
  BY <1>1 DEF CovType, Exiting
<1>4. pc[t] \notin {"next", "head", "atexit"} /\ to \notin {"next", "head"}
  BY DEF Exiting
<1>5. Joined' = Joined
  <2>1. {u \in Thread : pc'[u] \in {"next", "head"}} = {u \in Thread : pc[u] \in {"next", "head"}}
    BY <1>2, <1>4
  <2> QED
    BY <2>1 DEF Joined
<1>6. \A u \in Thread \ {t} : pc[u] \notin Exiting
  <2>1. \A u \in Thread : pc[u] \in Exiting => exiting = u
    BY DEF CovInv, Where
  <2> QED
    BY <2>1 DEF RoutineAssumption
<1>7. \A u \in Thread : Where(u)'
  <2>1. Where(t)'
    BY <1>2 DEF Where, InSection, Exiting
  <2>2. ASSUME NEW u \in Thread \ {t} PROVE Where(u)'
    <3>1. Where(u) /\ Joined \subseteq Joined' /\ pc[u] \notin Exiting
      BY <1>5, <1>6 DEF CovInv
    <3> QED
      BY <1>2, <3>1, OthersOwn
  <2> QED
    BY <2>1, <2>2
<1>8. Chain(R)'
  BY <1>5, ChainKept
<1>9. Counted'
  BY <1>5, CountedKept DEF CovInv
<1>10. Walked(R)'
  <2>1. \A u \in Thread : pc'[u] = "write" => u = t /\ to = "write"
    BY <1>2, <1>6 DEF Exiting
  <2> QED
    BY <2>1 DEF Walked
<1>11. Registered'
  BY <1>1, <1>2, <1>4 DEF Registered
<1> QED
  BY <1>3, <1>7, <1>8, <1>9, <1>10, <1>11 DEF CovInv

LEMMA ZeroOnce ==
  /\ Cov!Unwritten \in [Routine -> Nat] /\ \A r \in Routine : Cov!Unwritten[r] = 0
  BY DEF Cov!Unwritten

LEMMA ExitCov ==
  ASSUME RoutineAssumption, CovInv, NEW t \in Thread, Cov!Exit(t)
  PROVE  CovInv'
<1>1. /\ pc[t] = "idle" /\ exiting = Cov!Null /\ exiting' = t
      /\ UNCHANGED <<inserted, next, blocklisthead, cnt, executed, routinfo, profiling, func>>
  BY DEF Cov!Exit, Cov!At, Cov!list
<1>2. PICK R : Chain(R) /\ Walked(R)
  BY DEF CovInv
<1>3. CovType /\ Registered /\ Counted
  BY DEF CovInv
<1>4. CASE func = "pushed"
  <2>1. pc' = [pc EXCEPT ![t] = "creat"] /\ file' = file
    BY <1>4 DEF Cov!Exit, Cov!Goto
  <2>2. Cov!CoverageComplete'
    BY <2>1, FileKept DEF CovInv
  <2>3. file' \in [must : SUBSET Routine, has : [Routine -> Nat], failed : BOOLEAN, closed : BOOLEAN]
    BY <1>3, <2>1 DEF CovType
  <2> QED
    BY <1>1, <1>2, <2>1, <2>2, <2>3, DumpStep
<1>5. CASE func # "pushed"
  <2>1. /\ pc' = [pc EXCEPT ![t] = "end"]
        /\ file' = [must |-> executed, has |-> Cov!Unwritten, failed |-> FALSE, closed |-> TRUE]
    BY <1>5 DEF Cov!Exit, Cov!Goto
  <2>2. executed = {}
    BY <1>3, <1>5 DEF Registered, Counted, Joined
  <2>3. Cov!CoverageComplete'
    BY <2>1, <2>2, ZeroOnce DEF Cov!CoverageComplete
  <2>4. file' \in [must : SUBSET Routine, has : [Routine -> Nat], failed : BOOLEAN, closed : BOOLEAN]
    BY <2>1, <2>2, ZeroOnce
  <2> QED
    BY <1>1, <1>2, <2>1, <2>3, <2>4, DumpStep
<1> QED
  BY <1>4, <1>5

(* The walk starts at the head, with all that has counted ahead of it. *)
LEMMA CreatCov ==
  ASSUME RoutineAssumption, CovInv, NEW t \in Thread, Cov!Creat(t)
  PROVE  CovInv'
<1>1. PICK fails \in BOOLEAN :
        /\ file' = [must |-> executed, has |-> Cov!Unwritten, failed |-> fails, closed |-> fails]
        /\ pc' = [pc EXCEPT ![t] = IF fails THEN "end" ELSE "write"]
  BY DEF Cov!Creat, Cov!Goto
<1>2. /\ pc[t] = "creat" /\ test' = blocklisthead
      /\ UNCHANGED <<inserted, next, blocklisthead, cnt, executed, routinfo, profiling, exiting,
                     func>>
  BY DEF Cov!Creat, Cov!At, Cov!list, Cov!locks
<1>3. CovType /\ Where(t) /\ Counted
  BY DEF CovInv
<1>4. pc[t] \in Exiting /\ pc[t] # "idle" /\ exiting = t
  BY <1>2, <1>3 DEF Where, Exiting
<1>5. PICK R : Chain(R) /\ Walked(R)
  BY DEF CovInv
<1>6. file' \in [must : SUBSET Routine, has : [Routine -> Nat], failed : BOOLEAN, closed : BOOLEAN]
  <2>1. executed \in SUBSET Routine
    BY <1>3 DEF CovType
  <2> QED
    BY <1>1, <2>1, ZeroOnce
<1>7. CASE fails
  <2>1. pc' = [pc EXCEPT ![t] = "end"] /\ file'.failed = TRUE
    BY <1>1, <1>7
  <2>2. Cov!CoverageComplete'
    BY <2>1 DEF Cov!CoverageComplete
  <2> QED
    BY <1>2, <1>4, <1>5, <1>6, <2>1, <2>2, DumpStep
<1>8. CASE ~fails
  <2>1. /\ pc' = [pc EXCEPT ![t] = "write"] /\ file'.closed = FALSE
        /\ file'.must = executed /\ file'.has = Cov!Unwritten
    BY <1>1, <1>8
  <2>2. Cov!CoverageComplete'
    BY <2>1 DEF Cov!CoverageComplete
  <2>3. Len(R) \in 0 .. Len(R) /\ Len(R) \in Nat
    BY <1>5, LenProperties DEF Chain
  <2>4. Ahead(R, Len(R))'
    <3>1. test' = IF Len(R) = 0 THEN Cov!Null ELSE R[Len(R)]
      BY <1>2, <1>5 DEF Chain
    <3>2. \A i \in 1 .. Len(R) : R[i] \in Routine
      BY <1>5 DEF Chain
    <3>3. ASSUME NEW r \in executed
          PROVE  Cov!HasCounted(r)' /\ \E i \in 1 .. Len(R) : R[i] = r
      <4>1. Cov!HasCounted(r) /\ r \in Joined
        BY <1>3 DEF Counted
      <4>2. Cov!HasCounted(r)'
        BY <1>2, <4>1 DEF Cov!HasCounted
      <4> QED
        BY <1>5, <4>1, <4>2 DEF Chain
    <3> QED
      BY <2>1, <3>1, <3>2, <3>3, ZeroOnce DEF Ahead
  <2>5. \E j \in 0 .. Len(R) : Ahead(R, j)'
    BY <2>3, <2>4
  <2> QED
    BY <1>2, <1>4, <1>5, <1>6, <2>1, <2>2, <2>5, DumpStep
<1> QED
  BY <1>7, <1>8

LEMMA WrittenOnce ==
  ASSUME NEW f, NEW r, f.has[r] = 0
  PROVE  [f EXCEPT !.has[r] = @ + 1] = [f EXCEPT !.has = [f.has EXCEPT ![r] = 1]]
<1>1. f.has[r] + 1 = 1
  OBVIOUS
<1> QED
  BY <1>1

LEMMA WriteCov ==
  ASSUME RoutineAssumption, CovInv, NEW t \in Thread, Cov!Write(t)
  PROVE  CovInv'
<1>1. /\ pc[t] = "write" /\ test # Cov!Null
      /\ UNCHANGED <<inserted, next, blocklisthead, cnt, executed, routinfo, profiling, exiting,
                     func>>
  BY DEF Cov!Write, Cov!At, Cov!list, Cov!locks
<1>2. CovType /\ Where(t)
  BY DEF CovInv
<1>3. pc[t] \in Exiting /\ pc[t] # "idle" /\ exiting = t
  BY <1>1, <1>2 DEF Where, Exiting
<1>4. PICK R : Chain(R) /\ Walked(R)
  BY DEF CovInv
<1>5. PICK j \in 0 .. Len(R) : Ahead(R, j)
  BY <1>1, <1>4 DEF Walked
<1>6. /\ R \in Seq(Routine) /\ Len(R) \in Nat /\ j \in 1 .. Len(R) /\ test = R[j]
      /\ R[j] \in Routine /\ j - 1 \in 0 .. Len(R)
  BY <1>1, <1>4, <1>5, LenProperties DEF Chain, Ahead
<1>7. /\ \A i \in 1 .. j - 1 : i \in 1 .. j /\ R[i] # R[j] /\ R[i] \in Routine
      /\ next[R[j]] = IF j - 1 = 0 THEN Cov!Null ELSE R[j - 1]
      /\ \A i \in 1 .. j : i \in 1 .. j - 1 \/ i = j
  <2>1. \A i, k \in 1 .. Len(R) : R[i] = R[k] => i = k
    BY <1>4 DEF Chain
  <2>2. next[R[j]] = IF j = 1 THEN Cov!Null ELSE R[j - 1]
    BY <1>4, <1>6 DEF Chain
  <2> QED
    BY <1>6, <2>1, <2>2
<1>8. file \in [must : SUBSET Routine, has : [Routine -> Nat], failed : BOOLEAN, closed : BOOLEAN]
  BY <1>2 DEF CovType
<1>9. file.has[R[j]] = 0 /\ Cov!CoverageComplete
  BY <1>5, <1>6 DEF Ahead, CovInv
<1>10. \A r : Cov!HasCounted(r)' <=> Cov!HasCounted(r)
  BY <1>1 DEF Cov!HasCounted
<1>11. CASE Cov!HasCounted(test) /\ file' = [file EXCEPT !.has[test] = @ + 1]
              /\ test' = next[test] /\ pc' = pc
  <2> DEFINE h == [file.has EXCEPT ![R[j]] = 1]
  <2>1. h \in [Routine -> Nat] /\ h[R[j]] = 1 /\ \A r \in Routine : r # R[j] => h[r] = file.has[r]
    BY <1>6, <1>8
  <2>2. file' = [file EXCEPT !.has = h]
    <3>1. file' = [file EXCEPT !.has[R[j]] = @ + 1]
      BY <1>6, <1>11
    <3> QED
      BY <1>9, <3>1, WrittenOnce
  <2> HIDE DEF h
  <2>3. /\ file' \in [must : SUBSET Routine, has : [Routine -> Nat], failed : BOOLEAN, closed : BOOLEAN]
        /\ file'.must = file.must /\ file'.has = h /\ file'.closed = file.closed
        /\ file'.failed = file.failed
    BY <1>8, <2>1, <2>2
  <2>4. Ahead(R, j - 1)'
    <3>1. test' = IF j - 1 = 0 THEN Cov!Null ELSE R[j - 1]
      BY <1>6, <1>7, <1>11
    <3>2. \A r \in Routine : h[r] <= 1
      BY <1>5, <2>1 DEF Ahead
    <3>3. \A i \in 1 .. j - 1 : h[R[i]] = 0
      BY <1>5, <1>7, <2>1 DEF Ahead
    <3>4. ASSUME NEW r \in file.must
          PROVE  h[r] = 1 \/ (Cov!HasCounted(r) /\ \E i \in 1 .. j - 1 : R[i] = r)
      <4>1. r \in Routine
        BY <1>8
      <4>2. file.has[r] = 1 \/ (Cov!HasCounted(r) /\ \E i \in 1 .. j : R[i] = r)
        BY <1>5 DEF Ahead
      <4> QED
        BY <1>7, <2>1, <4>1, <4>2
    <3> QED
      BY <1>10, <2>3, <3>1, <3>2, <3>3, <3>4 DEF Ahead
  <2>5. Cov!CoverageComplete'
    <3>1. \A r \in Routine : h[r] <= 1 /\ (r \in file.must /\ file.closed /\ ~file.failed => h[r] = 1)
      BY <1>5, <1>9, <2>1 DEF Ahead, Cov!CoverageComplete
    <3> QED
      BY <2>3, <3>1 DEF Cov!CoverageComplete
  <2>6. pc' = [pc EXCEPT ![t] = "write"]
    BY <1>1, <1>2, <1>11 DEF CovType
  <2>7. \E k \in 0 .. Len(R) : Ahead(R, k)'
    BY <1>6, <2>4
  <2> QED
    BY <1>1, <1>3, <1>4, <2>3, <2>5, <2>6, <2>7, DumpStep
<1>12. CASE ~Cov!HasCounted(test) /\ test' = next[test] /\ UNCHANGED <<pc, file>>
  <2>1. Ahead(R, j - 1)'
    <3>1. test' = IF j - 1 = 0 THEN Cov!Null ELSE R[j - 1]
      BY <1>6, <1>7, <1>12
    <3>2. ASSUME NEW r \in file.must
          PROVE  file.has[r] = 1 \/ (Cov!HasCounted(r) /\ \E i \in 1 .. j - 1 : R[i] = r)
      <4>1. file.has[r] = 1 \/ (Cov!HasCounted(r) /\ \E i \in 1 .. j : R[i] = r)
        BY <1>5 DEF Ahead
      <4> QED
        BY <1>6, <1>7, <1>12, <4>1
    <3>3. /\ \A r \in Routine : file.has[r] <= 1
          /\ \A i \in 1 .. j - 1 : file.has[R[i]] = 0
      BY <1>5, <1>7 DEF Ahead
    <3> QED
      BY <1>10, <1>12, <3>1, <3>2, <3>3 DEF Ahead
  <2>2. pc' = [pc EXCEPT ![t] = "write"]
    BY <1>1, <1>2, <1>12 DEF CovType
  <2>3. \E k \in 0 .. Len(R) : Ahead(R, k)'
    BY <1>6, <2>1
  <2>4. Cov!CoverageComplete' /\ file' = file
    BY <1>9, <1>12, FileKept
  <2> QED
    BY <1>1, <1>3, <1>4, <1>8, <2>2, <2>3, <2>4, DumpStep
<1>13. CASE /\ file' = [file EXCEPT !.failed = TRUE, !.closed = TRUE]
            /\ pc' = [pc EXCEPT ![t] = "end"]
  <2>1. /\ file' \in [must : SUBSET Routine, has : [Routine -> Nat], failed : BOOLEAN, closed : BOOLEAN]
        /\ file'.failed = TRUE
    BY <1>8, <1>13
  <2>2. Cov!CoverageComplete'
    BY <2>1 DEF Cov!CoverageComplete
  <2> QED
    BY <1>1, <1>3, <1>4, <1>13, <2>1, <2>2, DumpStep
<1> QED
  BY <1>11, <1>12, <1>13 DEF Cov!Write, Cov!Goto

LEMMA CloseCov ==
  ASSUME RoutineAssumption, CovInv, NEW t \in Thread, Cov!Close(t)
  PROVE  CovInv'
<1>1. /\ pc[t] = "write" /\ test = Cov!Null
      /\ file' = [file EXCEPT !.closed = TRUE] /\ pc' = [pc EXCEPT ![t] = "end"]
      /\ UNCHANGED <<inserted, next, blocklisthead, cnt, executed, routinfo, profiling, exiting,
                     func>>
  BY DEF Cov!Close, Cov!At, Cov!Goto, Cov!list, Cov!locks
<1>2. CovType /\ Where(t)
  BY DEF CovInv
<1>3. pc[t] \in Exiting /\ pc[t] # "idle" /\ exiting = t
  BY <1>1, <1>2 DEF Where, Exiting
<1>4. PICK R : Chain(R) /\ Walked(R)
  BY DEF CovInv
<1>5. PICK j \in 0 .. Len(R) : Ahead(R, j)
  BY <1>1, <1>4 DEF Walked
<1>6. file \in [must : SUBSET Routine, has : [Routine -> Nat], failed : BOOLEAN, closed : BOOLEAN]
  BY <1>2 DEF CovType
<1>7. /\ file' \in [must : SUBSET Routine, has : [Routine -> Nat], failed : BOOLEAN, closed : BOOLEAN]
      /\ file'.has = file.has /\ file'.must = file.must
  BY <1>1, <1>6
<1>8. j = 0
  <2> SUFFICES ASSUME j # 0 PROVE FALSE
    OBVIOUS
  <2>1. R[j] \in Routine /\ test = R[j]
    BY <1>4, <1>5, LenProperties DEF Chain, Ahead
  <2> QED
    BY <1>1, <2>1 DEF RoutineAssumption
<1>9. Cov!CoverageComplete'
  <2>1. \A r \in Routine : file.has[r] <= 1 /\ (r \in file.must => file.has[r] = 1)
    BY <1>5, <1>8 DEF Ahead
  <2> QED
    BY <1>7, <2>1 DEF Cov!CoverageComplete
<1> QED
  BY <1>1, <1>3, <1>4, <1>7, <1>9, DumpStep

LEMMA EndCov ==
  ASSUME RoutineAssumption, CovInv, NEW t \in Thread, Cov!End(t)
  PROVE  CovInv'
<1>1. /\ pc[t] = "end" /\ pc' = pc /\ file' = file
      /\ UNCHANGED <<inserted, next, blocklisthead, cnt, executed, routinfo, profiling, exiting,
                     func>>
  BY DEF Cov!End, Cov!At, Cov!list, Cov!locks
<1>2. CovType /\ Where(t)
  BY DEF CovInv
<1>3. pc[t] \in Exiting /\ pc[t] # "idle" /\ exiting = t
  BY <1>1, <1>2 DEF Where, Exiting
<1>4. PICK R : Chain(R) /\ Walked(R)
  BY DEF CovInv
<1>5. pc' = [pc EXCEPT ![t] = "end"]
  BY <1>1, <1>2 DEF CovType
<1>6. /\ Cov!CoverageComplete'
      /\ file' \in [must : SUBSET Routine, has : [Routine -> Nat], failed : BOOLEAN, closed : BOOLEAN]
  BY <1>1, <1>2, FileKept DEF CovInv, CovType
<1> QED
  BY <1>1, <1>3, <1>4, <1>5, <1>6, DumpStep

(* A block that has counted goes on having counted, until a clear.         *)
LEMMA CountCov ==
  ASSUME RoutineAssumption, CovInv, NEW t \in Thread, Cov!Count(t)
  PROVE  CovInv'
<1>1. PICK b \in Cov!Block :
        /\ pc[t] = "body" /\ cnt[routinfo[t]][b] < MaxCount
        /\ cnt' = [cnt EXCEPT ![routinfo[t]][b] = @ + 1]
        /\ executed' = executed \cup {routinfo[t]}
        /\ UNCHANGED <<inserted, next, blocklisthead, pc, test, file, routinfo, profiling,
                       exiting, func>>
  BY DEF Cov!Count, Cov!At, Cov!list, Cov!locks
<1>2. CovType /\ Where(t) /\ Registered /\ Counted
  BY DEF CovInv
<1>3. routinfo[t] \in Joined /\ Joined \subseteq Routine /\ Joined' = Joined
  BY <1>1, <1>2 DEF Where, Joined, CovType
<1>4. PICK r \in Routine : r = routinfo[t]
  BY <1>3
<1>5. /\ cnt' \in [Routine -> [Cov!Block -> Nat]] /\ cnt'[r][b] = cnt[r][b] + 1
      /\ cnt[r][b] \in Nat /\ cnt[r][b] < MaxCount
      /\ \A q \in Routine : q # r => cnt'[q] = cnt[q]
      /\ \A c \in Cov!Block : c # b => cnt'[r][c] = cnt[r][c]
  <2>1. cnt \in [Routine -> [Cov!Block -> Nat]] /\ cnt' = [cnt EXCEPT ![r][b] = cnt[r][b] + 1]
    BY <1>1, <1>2, <1>4 DEF CovType
  <2> QED
    BY <1>1, <1>4, <2>1
<1>6. cnt'[r][b] # 0 /\ cnt'[r][b] # Cov!Marker
  BY <1>5 DEF Cov!Marker, RoutineAssumption
<1>7. Cov!HasCounted(r)'
  BY <1>6 DEF Cov!HasCounted, Cov!Marker
<1>8. ASSUME NEW q \in Routine, Cov!HasCounted(q) PROVE Cov!HasCounted(q)'
  BY <1>5, <1>7, <1>8 DEF Cov!HasCounted, Cov!Marker
<1>9. CovType'
  BY <1>1, <1>2, <1>3, <1>5 DEF CovType
<1>10. \A u \in Thread : Where(u)'
  <2> SUFFICES ASSUME NEW u \in Thread PROVE Where(u)'
    OBVIOUS
  <2>1. Where(u) /\ Joined \subseteq Joined'
    BY <1>3 DEF CovInv
  <2> QED
    BY <1>1, <2>1, OthersOwn
<1>11. PICK R : Chain(R) /\ Walked(R)
  BY DEF CovInv
<1>12. Chain(R)'
  BY <1>1, <1>3, <1>11, ChainKept
<1>13. Walked(R)'
  <2>1. \A q \in file.must : Cov!HasCounted(q) => Cov!HasCounted(q)'
    BY <1>2, <1>8 DEF CovType
  <2>2. \A u \in Thread : pc'[u] = "write" => pc[u] = "write"
    BY <1>1
  <2> QED
    BY <1>1, <1>11, <2>1, <2>2, WalkedKept
<1>14. Counted'
  <2>1. executed' \subseteq Joined'
    BY <1>1, <1>2, <1>3 DEF Counted
  <2>2. \A q \in executed' : Cov!HasCounted(q)'
    <3>1. \A q \in executed : q \in Routine /\ Cov!HasCounted(q)
      BY <1>2, <1>3 DEF Counted
    <3> QED
      BY <1>1, <1>4, <1>7, <1>8, <3>1
  <2> QED
    BY <2>1, <2>2 DEF Counted
<1>15. Registered' /\ Cov!CoverageComplete'
  BY <1>1, <1>2, FileKept DEF Registered, CovInv
<1> QED
  BY <1>9, <1>10, <1>12, <1>13, <1>14, <1>15 DEF CovInv

(* The debugger: nothing but the counts and the file changes.              *)
LEMMA DebuggerStep ==
  ASSUME CovInv,
         UNCHANGED <<inserted, next, blocklisthead, pc, test, routinfo, profiling, exiting, func>>,
         cnt' \in [Routine -> [Cov!Block -> Nat]], executed' \subseteq Routine,
         file' \in [must : SUBSET Routine, has : [Routine -> Nat], failed : BOOLEAN, closed : BOOLEAN],
         Cov!CoverageComplete', Counted', NEW R, Chain(R), Walked(R)'
  PROVE  CovInv'
<1>1. CovType /\ Registered
  BY DEF CovInv
<1>2. Joined' = Joined
  BY DEF Joined
<1>3. \A u \in Thread : Where(u)'
  <2> SUFFICES ASSUME NEW u \in Thread PROVE Where(u)'
    OBVIOUS
  <2>1. Where(u) /\ Joined \subseteq Joined'
    BY <1>2 DEF CovInv
  <2> QED
    BY <2>1, OthersOwn
<1>4. Chain(R)'
  BY <1>2, ChainKept
<1>5. CovType' /\ Registered'
  BY <1>1 DEF CovType, Registered
<1> QED
  BY <1>3, <1>4, <1>5 DEF CovInv

LEMMA ClearCov ==
  ASSUME RoutineAssumption, CovInv, Cov!Clear
  PROVE  CovInv'
<1>1. /\ executed' = {} /\ file' = [file EXCEPT !.must = {}]
      /\ \E L : cnt' = [r \in Routine |-> IF r \in L THEN Cov!ClearOf(r) ELSE cnt[r]]
      /\ UNCHANGED <<inserted, next, blocklisthead, pc, test, routinfo, profiling, exiting, func>>
  <2>1. cnt' = [r \in Routine |-> IF r \in {q \in Routine : \E k \in DOMAIN Cov!Listed : Cov!Listed[k] = q}
                                  THEN Cov!ClearOf(r) ELSE cnt[r]]
    BY DEF Cov!Clear
  <2> QED
    BY <2>1 DEF Cov!Clear, Cov!list, Cov!locks
<1>2. CovType
  BY DEF CovInv
<1>3. cnt' \in [Routine -> [Cov!Block -> Nat]]
  <2>1. PICK L : cnt' = [r \in Routine |-> IF r \in L THEN Cov!ClearOf(r) ELSE cnt[r]]
    BY <1>1
  <2>2. \A r \in Routine : Cov!ClearOf(r) \in [Cov!Block -> Nat]
    BY DEF Cov!ClearOf, Cov!Marker, RoutineAssumption
  <2> QED
    BY <1>2, <2>1, <2>2 DEF CovType
<1>4. /\ file' \in [must : SUBSET Routine, has : [Routine -> Nat], failed : BOOLEAN, closed : BOOLEAN]
      /\ file'.must = {} /\ file'.has = file.has /\ file'.closed = file.closed
      /\ file'.failed = file.failed
  BY <1>1, <1>2 DEF CovType
<1>5. Cov!CoverageComplete' /\ Counted'
  BY <1>1, <1>4 DEF CovInv, Cov!CoverageComplete, Counted
<1>6. PICK R : Chain(R) /\ Walked(R)
  BY DEF CovInv
<1>7. Walked(R)'
  BY <1>1, <1>4, <1>6 DEF Walked, Ahead
<1> QED
  BY <1>1, <1>3, <1>4, <1>5, <1>6, <1>7, DebuggerStep


LEMMA CountsUp ==
  ASSUME NEW T \in SUBSET Nat, 0 \in T, \A n \in T : n + 1 \in T
  PROVE  T = Nat
<1>1. SUFFICES ASSUME Nat \ T # {} PROVE FALSE
  OBVIOUS
<1>2. PICK x \in Nat \ T : \A y \in Nat \ T : x <= y
  BY <1>1, Least
<1>3. x \in Nat /\ x # 0 /\ x - 1 \in Nat
  BY <1>2
<1>4. x - 1 \in T
  BY <1>2, <1>3
<1> QED
  BY <1>2, <1>3, <1>4

(* Following the links from the head gives the list, the newest first.     *)
LEMMA NthIs ==
  ASSUME RoutineAssumption, CovInv, NEW R, Chain(R), NEW k \in Nat
  PROVE  Cov!Nth[k] = IF k < Len(R) THEN R[Len(R) - k] ELSE Cov!Null
<1> DEFINE g == [i \in Nat |-> IF i < Len(R) THEN R[Len(R) - i] ELSE Cov!Null]
           Eq(f) == f = [i \in Nat |-> IF i = 0 THEN blocklisthead
                                       ELSE IF f[i - 1] = Cov!Null THEN Cov!Null ELSE next[f[i - 1]]]
<1>1. Len(R) \in Nat /\ \A i \in 1 .. Len(R) : R[i] \in Routine /\ R[i] # Cov!Null
  BY LenProperties DEF Chain, RoutineAssumption
<1>2. g[0] = blocklisthead
  BY <1>1 DEF Chain
<1>3. ASSUME NEW i \in Nat, i # 0
      PROVE  g[i] = IF g[i - 1] = Cov!Null THEN Cov!Null ELSE next[g[i - 1]]
  <2>1. CASE i - 1 < Len(R)
    <3>1. Len(R) - (i - 1) \in 1 .. Len(R) /\ g[i - 1] = R[Len(R) - (i - 1)]
      BY <1>1, <1>3, <2>1
    <3> DEFINE m == Len(R) - (i - 1)
    <3>2. m \in 1 .. Len(R) /\ m - 1 = Len(R) - i /\ (i < Len(R) <=> m # 1)
      BY <1>1, <1>3, <3>1
    <3>3. next[R[m]] = IF m = 1 THEN Cov!Null ELSE R[m - 1]
      BY <3>2 DEF Chain
    <3> QED
      BY <1>1, <3>1, <3>2, <3>3
  <2>2. CASE ~(i - 1 < Len(R))
    <3>1. g[i - 1] = Cov!Null /\ g[i] = Cov!Null
      BY <1>1, <1>3, <2>2
    <3> QED
      BY <3>1
  <2> QED
    BY <2>1, <2>2
<1>4. Eq(g)
  <2> DEFINE h == [i \in Nat |-> IF i = 0 THEN blocklisthead
                                 ELSE IF g[i - 1] = Cov!Null THEN Cov!Null ELSE next[g[i - 1]]]
  <2>1. \A i \in Nat : g[i] = h[i]
    <3> HIDE DEF g
    <3> QED
      BY <1>2, <1>3
  <2>2. g = [i \in Nat |-> g[i]] /\ h = [i \in Nat |-> h[i]]
    OBVIOUS
  <2>3. g = h
    <3> HIDE DEF g, h
    <3> QED
      BY <2>1, <2>2
  <2> QED
    BY <2>3
<1>5. Eq(Cov!Nth)
  <2>1. Cov!Nth = CHOOSE f : Eq(f)
    BY DEF Cov!Nth
  <2> HIDE DEF Eq
  <2> QED
    BY <1>4, <2>1
<1>6. \A i \in Nat : Cov!Nth[i] = g[i]
  <2> DEFINE T == {i \in Nat : Cov!Nth[i] = g[i]}
  <2>1. Cov!Nth[0] = blocklisthead
    BY <1>5
  <2>2. ASSUME NEW i \in Nat
        PROVE  Cov!Nth[i + 1] = IF Cov!Nth[i] = Cov!Null THEN Cov!Null ELSE next[Cov!Nth[i]]
    <3>1. i + 1 \in Nat /\ i + 1 # 0 /\ i + 1 - 1 = i
      OBVIOUS
    <3> QED
      BY <1>5, <3>1
  <2>3. 0 \in T
    BY <1>2, <2>1
  <2>4. ASSUME NEW i \in T PROVE i + 1 \in T
    <3>1. i + 1 \in Nat /\ i + 1 # 0 /\ i + 1 - 1 = i
      OBVIOUS
    <3>2. g[i + 1] = IF g[i] = Cov!Null THEN Cov!Null ELSE next[g[i]]
      <4> HIDE DEF g
      <4>1. \A m \in Nat : m # 0 => g[m] = IF g[m - 1] = Cov!Null THEN Cov!Null ELSE next[g[m - 1]]
        BY <1>3
      <4> QED
        BY <3>1, <4>1
    <3>3. Cov!Nth[i] = g[i]
      OBVIOUS
    <3> HIDE DEF g
    <3> QED
      BY <2>2, <3>1, <3>2, <3>3
  <2>5. T = Nat
    <3> HIDE DEF T
    <3> QED
      BY <2>3, <2>4, CountsUp DEF T
  <2> QED
    BY <2>5
<1> QED
  BY <1>6

LEMMA CovCardinality ==
  ASSUME NEW S
  PROVE  Cov!Cardinality(S) = Cardinality(S)
  BY DEF Cov!Cardinality, Cardinality

LEMMA CardinalityTo ==
  ASSUME NEW n \in Nat
  PROVE  IsFiniteSet(1 .. n) /\ Cardinality(1 .. n) = n
  BY FS_Interval

(* The list has each function once, and all of them.                       *)
LEMMA ListedIs ==
  ASSUME RoutineAssumption, CovInv, NEW R, Chain(R)
  PROVE  /\ DOMAIN Cov!Listed = 1 .. Len(R) /\ Len(R) <= Cardinality(Routine)
         /\ \A k \in 1 .. Len(R) : Cov!Listed[k] = R[Len(R) - k + 1]
<1>1. Len(R) \in Nat /\ \A i \in 1 .. Len(R) : R[i] \in Routine /\ R[i] # Cov!Null
  BY LenProperties DEF Chain, RoutineAssumption
<1>2. Len(R) <= Cardinality(Routine) /\ Cardinality(Routine) \in Nat
  <2> DEFINE f == [i \in 1 .. Len(R) |-> R[i]]
  <2>1. IsFiniteSet(1 .. Len(R)) /\ Cardinality(1 .. Len(R)) = Len(R)
    BY <1>1, CardinalityTo
  <2>2. f \in Injection(1 .. Len(R), Routine)
    <3>1. \A i, j \in 1 .. Len(R) : R[i] = R[j] => i = j
      BY DEF Chain
    <3>2. f \in [1 .. Len(R) -> Routine]
      BY <1>1
    <3> QED
      BY <3>1, <3>2 DEF Injection, IsInjective
  <2>3. IsFiniteSet(Routine)
    BY DEF RoutineAssumption
  <2> HIDE DEF f
  <2>4. Cardinality(1 .. Len(R)) <= Cardinality(Routine)
    BY <2>2, <2>3, FS_Injection
  <2> QED
    BY <2>1, <2>3, <2>4, FS_CardinalityType
<1>3. \A k \in 1 .. Cardinality(Routine) : k - 1 \in Nat /\ (k - 1 < Len(R) <=> k \in 1 .. Len(R))
  BY <1>1, <1>2
<1>4. \A k \in 1 .. Cardinality(Routine) :
        Cov!Nth[k - 1] = IF k \in 1 .. Len(R) THEN R[Len(R) - (k - 1)] ELSE Cov!Null
  BY <1>3, NthIs
<1>5. \A k \in 1 .. Len(R) : /\ k \in 1 .. Cardinality(Routine)
                             /\ Len(R) - (k - 1) = Len(R) - k + 1 /\ Len(R) - k + 1 \in 1 .. Len(R)
  BY <1>1, <1>2
<1>6. {k \in 1 .. Cardinality(Routine) : Cov!Nth[k - 1] # Cov!Null} = 1 .. Len(R)
  BY <1>1, <1>4, <1>5
<1>7. Cov!Listed = [k \in 1 .. Len(R) |-> Cov!Nth[k - 1]]
  BY <1>6, CovCardinality DEF Cov!Listed
<1> QED
  BY <1>2, <1>4, <1>5, <1>7

LEMMA DebuggerCov ==
  ASSUME RoutineAssumption, CovInv, Cov!DebuggerDump
  PROVE  CovInv'
<1>1. PICK fails \in BOOLEAN, n \in 0 .. Cardinality(Routine) :
        /\ ~fails => n = Cardinality(Routine)
        /\ file' = [must |-> executed, has |-> Cov!Dumped(n), failed |-> fails, closed |-> TRUE]
  BY CovCardinality DEF Cov!DebuggerDump
<1>2. /\ exiting = Cov!Null
      /\ UNCHANGED <<inserted, next, blocklisthead, cnt, executed, pc, test, routinfo, profiling,
                     exiting, func>>
  BY DEF Cov!DebuggerDump, Cov!list, Cov!locks
<1>3. CovType /\ Counted
  BY DEF CovInv
<1>4. PICK R : Chain(R) /\ Walked(R)
  BY DEF CovInv
<1>5. /\ Len(R) \in Nat /\ \A i \in 1 .. Len(R) : R[i] \in Routine
      /\ \A i, j \in 1 .. Len(R) : R[i] = R[j] => i = j
      /\ Joined = {R[i] : i \in 1 .. Len(R)}
  BY <1>4, LenProperties DEF Chain
<1>6. /\ DOMAIN Cov!Listed = 1 .. Len(R) /\ Len(R) <= Cardinality(Routine)
      /\ \A k \in 1 .. Len(R) : Cov!Listed[k] = R[Len(R) - k + 1]
  BY <1>4, ListedIs
<1> DEFINE K(r) == {k \in DOMAIN Cov!Listed : k <= n /\ Cov!Listed[k] = r /\ Cov!HasCounted(r)}
<1>7. ASSUME NEW r \in Routine
      PROVE  /\ Cardinality(K(r)) \in Nat /\ Cardinality(K(r)) <= 1
             /\ n = Cardinality(Routine) /\ r \in executed => Cardinality(K(r)) = 1
  <2>1. \A j, k \in K(r) : j = k
    <3> SUFFICES ASSUME NEW j \in K(r), NEW k \in K(r) PROVE j = k
      OBVIOUS
    <3>1. j \in 1 .. Len(R) /\ k \in 1 .. Len(R) /\ R[Len(R) - j + 1] = R[Len(R) - k + 1]
      BY <1>6
    <3>2. Len(R) - j + 1 \in 1 .. Len(R) /\ Len(R) - k + 1 \in 1 .. Len(R)
      BY <1>5, <3>1
    <3>3. Len(R) - j + 1 = Len(R) - k + 1
      BY <1>5, <3>1, <3>2
    <3> QED
      BY <1>5, <3>1, <3>3
  <2>2. n = Cardinality(Routine) /\ r \in executed => K(r) # {}
    <3> SUFFICES ASSUME n = Cardinality(Routine), r \in executed PROVE K(r) # {}
      OBVIOUS
    <3>1. Cov!HasCounted(r) /\ r \in Joined
      BY <1>3 DEF Counted
    <3>2. PICK i \in 1 .. Len(R) : R[i] = r
      BY <1>5, <3>1
    <3> DEFINE k == Len(R) - i + 1
    <3>3. k \in 1 .. Len(R) /\ Len(R) - k + 1 = i /\ k <= n
      BY <1>5, <1>6, <3>2
    <3>4. k \in DOMAIN Cov!Listed /\ Cov!Listed[k] = r
      BY <1>6, <3>2, <3>3
    <3>5. k \in K(r)
      BY <3>1, <3>3, <3>4
    <3> QED
      BY <3>5
  <2>3. K(r) = {} \/ \E k \in K(r) : K(r) = {k}
    <3> HIDE DEF K
    <3> QED
      BY <2>1
  <2> HIDE DEF K
  <2>4. Cardinality({}) = 0 /\ \A k \in K(r) : Cardinality({k}) = 1
    BY FS_EmptySet, FS_Singleton
  <2> QED
    BY <2>2, <2>3, <2>4
<1>8. Cov!Dumped(n) = [r \in Routine |-> Cardinality(K(r))]
  BY CovCardinality DEF Cov!Dumped
<1> HIDE DEF K
<1>9. /\ Cov!Dumped(n) \in [Routine -> Nat]
      /\ \A r \in Routine : Cov!Dumped(n)[r] = Cardinality(K(r))
  BY <1>7, <1>8
<1>10. /\ file' \in [must : SUBSET Routine, has : [Routine -> Nat], failed : BOOLEAN, closed : BOOLEAN]
       /\ file'.must = executed /\ file'.has = Cov!Dumped(n) /\ file'.failed = fails
  <2>1. executed \in SUBSET Routine
    BY <1>3 DEF CovType
  <2> QED
    BY <1>1, <1>9, <2>1
<1>11. Cov!CoverageComplete'
  BY <1>1, <1>7, <1>9, <1>10 DEF Cov!CoverageComplete
<1>12. Counted'
  <2>1. Joined \subseteq Joined'
    BY <1>2 DEF Joined
  <2> QED
    BY <1>2, <1>3, <2>1, CountedKept
<1>13. Walked(R)'
  <2>1. \A t \in Thread : pc[t] \in Exiting => exiting = t
    BY DEF CovInv, Where
  <2>2. \A t \in Thread : pc[t] # "write"
    BY <1>2, <2>1 DEF Exiting, RoutineAssumption
  <2> QED
    BY <1>2, <2>2 DEF Walked
<1>14. cnt' \in [Routine -> [Cov!Block -> Nat]] /\ executed' \subseteq Routine
  BY <1>2, <1>3 DEF CovType
<1> QED
  BY <1>2, <1>4, <1>10, <1>11, <1>12, <1>13, <1>14, DebuggerStep

LEMMA CovStart ==
  ASSUME RoutineAssumption, Cov!Init
  PROVE  CovInv
<1>1. /\ blocklisthead = Cov!Null /\ inserted = {} /\ next = [r \in Routine |-> Cov!Null]
      /\ cnt = [r \in Routine |-> Cov!Fresh(r)] /\ func = "none" /\ executed = {}
      /\ pc = [t \in Thread |-> "idle"] /\ routinfo = [t \in Thread |-> Cov!Null]
      /\ file = [must |-> {}, has |-> Cov!Unwritten, failed |-> FALSE, closed |-> FALSE]
  BY DEF Cov!Init
<1>2. CovType
  <2>1. \A r \in Routine : Cov!Fresh(r) \in [Cov!Block -> Nat]
    BY DEF Cov!Fresh, Cov!Marker, RoutineAssumption
  <2>2. cnt \in [Routine -> [Cov!Block -> Nat]]
    BY <1>1, <2>1
  <2>3. file \in [must : SUBSET Routine, has : [Routine -> Nat], failed : BOOLEAN, closed : BOOLEAN]
    BY <1>1, ZeroOnce
  <2> QED
    BY <1>1, <2>2, <2>3 DEF CovType
<1>3. Registered /\ Counted /\ Cov!CoverageComplete
  BY <1>1 DEF Registered, Counted, Cov!CoverageComplete
<1>4. \A t \in Thread : Where(t)
  BY <1>1 DEF Where, InSection, Exiting
<1>5. Chain(<<>>) /\ Walked(<<>>)
  <2>1. <<>> \in Seq(Routine) /\ Len(<<>>) = 0
    OBVIOUS
  <2>2. Joined = {}
    BY <1>1 DEF Joined
  <2> QED
    BY <1>1, <2>1, <2>2 DEF Chain, Walked
<1> QED
  BY <1>2, <1>3, <1>4, <1>5 DEF CovInv

LEMMA CovIdle ==
  ASSUME CovInv, UNCHANGED Cov!vars
  PROVE  CovInv'
<1>1. UNCHANGED <<inserted, next, blocklisthead, cnt, executed, pc, test, routinfo, profiling,
                  exiting, func, file>>
  BY DEF Cov!vars, Cov!list, Cov!locks
<1>2. CovType /\ Counted
  BY DEF CovInv
<1>3. PICK R : Chain(R) /\ Walked(R)
  BY DEF CovInv
<1>4. /\ cnt' \in [Routine -> [Cov!Block -> Nat]] /\ executed' \subseteq Routine
      /\ file' \in [must : SUBSET Routine, has : [Routine -> Nat], failed : BOOLEAN, closed : BOOLEAN]
  BY <1>1, <1>2 DEF CovType
<1>5. Joined \subseteq Joined'
  BY <1>1 DEF Joined
<1>6. Counted' /\ \A r : Cov!HasCounted(r) => Cov!HasCounted(r)'
  BY <1>1, <1>2, <1>5, CountedKept
<1>7. Walked(R)'
  BY <1>1, <1>3, <1>6, WalkedKept
<1>8. Cov!CoverageComplete'
  BY <1>1, FileKept DEF CovInv
<1> QED
  BY <1>1, <1>3, <1>4, <1>6, <1>7, <1>8, DebuggerStep

LEMMA CovNext ==
  ASSUME RoutineAssumption, CovInv, [Cov!Next]_(Cov!vars)
  PROVE  CovInv'
<1>1. CASE UNCHANGED Cov!vars
  BY <1>1, CovIdle
<1>2. ASSUME NEW t \in Thread, Cov!Step(t)
      PROVE  CovInv'
  BY <1>2, EnterCov, LockCov, TestCov, FuncCov, InsertCov, NextCov, HeadCov, UnlockCov, CountCov,
     ReturnCov, ExitCov, CreatCov, WriteCov, CloseCov, EndCov DEF Cov!Step
<1>3. CASE Cov!Clear \/ Cov!DebuggerDump
  BY <1>3, ClearCov, DebuggerCov
<1> QED
  BY <1>1, <1>2, <1>3 DEF Cov!Next

LEMMA OnlyCov ==
  ASSUME [AllNext]_all, which = "coverage"
  PROVE  [Cov!Next]_(Cov!vars) /\ which' = "coverage"
  BY DEF AllNext, all, cov, Cov!vars, Cov!list, Cov!locks

(* A dump that met no failure has each function that counted once, in      *)
(* whatever order threads join the list and dump it (ind_bcnt.c).          *)
THEOREM ServicesCoverage ==
  ASSUME RoutineAssumption
  PROVE  AllSpec => []CoverageComplete
<1> DEFINE I == which = "coverage" => CovInv
<1>1. AllInit => I
  BY CovStart DEF AllInit
<1>2. I /\ [AllNext]_all => I'
  <2> SUFFICES ASSUME I, [AllNext]_all, which' = "coverage" PROVE CovInv'
    OBVIOUS
  <2>1. which = "coverage"
    BY DEF AllNext, all
  <2> QED
    BY <2>1, OnlyCov, CovNext
<1>3. I => CoverageComplete
  BY DEF CoverageComplete, CovInv
<1> QED
  BY <1>1, <1>2, <1>3, PTL DEF AllSpec
-----------------------------------------------------------------------------
(***************************************************************************)
(* truncate (ind_trnc.c).                                                  *)
(***************************************************************************)

(* One caller: with two the exactness is lost, the temporary name being    *)
(* chosen before its file is made.  Every caller's file exists, and has a  *)
(* name tmpnam does not make.                                              *)
CallerAssumption ==
  /\ \A s, t \in Threads : s = t
  /\ Lengths \subseteq Nat /\ LBUFSIZ \in Nat \ {0}
  /\ Bytes \in [DOMAIN Bytes -> Seq(Nat)] /\ DOMAIN Bytes \subseteq Int
  /\ \A t \in Threads : Path[t] \in DOMAIN Bytes /\ Path[t] <= 0
  /\ \E b \in DOMAIN Bytes : \A x \in DOMAIN Bytes : x <= b

(* An activation, member by member. *)
TrncFrame(f) ==
  /\ DOMAIN f = {"pc", "length", "tmp", "inf", "pos", "of", "put", "count", "buf", "ret", "asked"}
  /\ f.length \in Nat /\ f.tmp \in Nat /\ f.inf \in Int /\ f.pos \in Nat
  /\ f.of \in Int /\ f.put \in Nat /\ f.count \in Int /\ f.asked \in Nat

(* A directory d and the inodes a: one name for each inode.                *)
Disk(d, a) ==
  /\ a \in [DOMAIN a -> Seq(Nat)] /\ DOMAIN a \subseteq Int
  /\ d \in [DOMAIN d -> DOMAIN a]
  /\ \A x, y \in DOMAIN d : d[x] = d[y] => x = y
  /\ \E b \in DOMAIN a : \A x \in DOMAIN a : x <= b

Holds(d, a, name, s) == name \in DOMAIN d /\ a[d[name]] = s

Original(t) == Bytes[Path[t]]
First(s, n) == SubSeq(s, 1, n)
Asked(t, f) == First(Original(t), Trnc!Min({f.asked, Len(Original(t))}))

(* A loop that copies s has put the first bytes of it, and read the next.  *)
Copying(f, a, s) ==
  /\ f.put <= Len(s) /\ a[f.of] = First(s, f.put)
Reading(f, s, bound) == 
  /\ f.count \in 1 .. bound /\ f.put + f.count <= Len(s)
  /\ f.buf = SubSeq(s, f.put + 1, f.put + f.count)

(* What an activation f of truncate knows in each part of the code.        *)
Before(t, f, d, a) ==
  /\ Holds(d, a, Path[t], Original(t)) /\ f.length = f.asked /\ f.count = 0
  /\ f.pc # "tmpnam" => f.tmp > 0
  /\ f.pc = "creat" => f.length > 0 /\ f.inf = d[Path[t]] /\ f.pos = 0
Out(t, f, d, a) ==
  /\ Holds(d, a, Path[t], Original(t)) /\ f.inf = d[Path[t]]
  /\ f.tmp > 0 /\ f.tmp \in DOMAIN d /\ f.of = d[f.tmp]
  /\ f.put + f.length = f.asked
  /\ f.pc # "copied" \/ f.length = 0 => Copying(f, a, Original(t))
  /\ f.pc = "read" /\ f.length > 0 => f.pos = f.put
  /\ f.pc = "write" => /\ Reading(f, Original(t), f.length)
                       /\ f.count < f.length => f.pos = f.put + f.count
  /\ f.pc = "copied" => \/ f.length = 0 /\ f.count >= 0
                        \/ f.length > 0 /\ f.count = -1
                        \/ f.length > 0 /\ f.count = 0 /\ Len(Original(t)) <= f.asked
  /\ f.pc = "read" => f.count >= 0
Ready(t, f, d, a) ==
  /\ f.tmp > 0 /\ f.length = 0 /\ Holds(d, a, f.tmp, Asked(t, f))
  /\ f.pc = "recreat" => f.inf = d[f.tmp] /\ f.pos = 0
Back(t, f, d, a) ==
  /\ f.tmp > 0 /\ f.length = 0 /\ Holds(d, a, f.tmp, Asked(t, f)) /\ f.inf = d[f.tmp]
  /\ Path[t] \in DOMAIN d /\ f.of = d[Path[t]] /\ Copying(f, a, Asked(t, f))
  /\ f.pc = "readback" => f.pos = f.put
  /\ f.pc = "writeback" => /\ Reading(f, Asked(t, f), LBUFSIZ)
                           /\ f.pos = f.put + f.count
Over(t, f, d, a) ==
  /\ f.tmp > 0 /\ f.count \in {0, -1}
  /\ f.length > 0 => /\ Holds(d, a, Path[t], Original(t))
                     /\ f.count = 0 => Len(Original(t)) <= f.asked
  /\ f.length = 0 /\ f.count = 0 => Holds(d, a, Path[t], Asked(t, f))
Done(t, f, d, a) ==
  /\ f.ret = 0 => Holds(d, a, Path[t], Asked(t, f))
  /\ \/ f.count = -1 /\ f.length = 0
     \/ Holds(d, a, Path[t], Original(t))
     \/ Holds(d, a, Path[t], Asked(t, f))
     \/ Holds(d, a, f.tmp, Asked(t, f))

Stage(t, f, d, a) ==
  \/ f.pc \in {"tmpnam", "open", "creat"} /\ Before(t, f, d, a)
  \/ f.pc \in {"read", "write", "copied"} /\ Out(t, f, d, a)
  \/ f.pc \in {"rename", "unlink", "rename2", "reopen", "recreat"} /\ Ready(t, f, d, a)
  \/ f.pc \in {"readback", "writeback"} /\ Back(t, f, d, a)
  \/ f.pc = "unlinktmp" /\ Over(t, f, d, a)
  \/ f.pc = "done" /\ Done(t, f, d, a)

(* What a read of s and a write of w over s make of an activation.         *)
Reads(f, g, s, most, write, end) ==
  \E n, m : 
    /\ n = Trnc!Min({LBUFSIZ, Len(s) - f.pos}) /\ m = Trnc!Min({n, most})
    /\ \/ /\ n > 0
          /\ g = Trnc!Update(f, [buf |-> SubSeq(s, f.pos + 1, f.pos + m), pos |-> f.pos + n,
                                 count |-> m, pc |-> write])
       \/ n <= 0 /\ g = Trnc!Update(f, [count |-> 0, pc |-> end])
       \/ g = Trnc!Update(f, [count |-> -1, pc |-> end])
Writes(f, g, s, w, left, read, end) ==
  \/ /\ g = Trnc!Update(f, [put |-> f.put + f.count, length |-> left, pc |-> read])
     /\ w = Trnc!Overlay(s, f.put, SubSeq(f.buf, 1, f.count))
  \/ g = Trnc!Update(f, [count |-> -1, pc |-> end])

TrncInv ==
  /\ Disk(dir, data) /\ DOMAIN frame = Threads
  /\ \A t \in Threads : TrncFrame(frame[t]) /\ Stage(t, frame[t], dir, data)

(* The two bytes counts the code compares. *)
LEMMA MinIs ==
  ASSUME NEW m \in Int, NEW n \in Int
  PROVE  /\ Trnc!Min({m, n}) = IF m <= n THEN m ELSE n
         /\ Trnc!Max({m, n}) = IF m <= n THEN n ELSE m
<1>1. /\ \E x \in {m, n} : \A y \in {m, n} : x <= y
      /\ \E x \in {m, n} : \A y \in {m, n} : x >= y
  OBVIOUS
<1>2. /\ Trnc!Min({m, n}) \in {m, n} /\ \A y \in {m, n} : Trnc!Min({m, n}) <= y
      /\ Trnc!Max({m, n}) \in {m, n} /\ \A y \in {m, n} : Trnc!Max({m, n}) >= y
  BY <1>1 DEF Trnc!Min, Trnc!Max
<1> QED
  BY <1>2

LEMMA FirstIs ==
  ASSUME NEW s \in Seq(Nat), NEW n \in Nat, n <= Len(s)
  PROVE  /\ First(s, n) \in Seq(Nat) /\ Len(First(s, n)) = n
         /\ \A k \in 1 .. n : First(s, n)[k] = s[k]
  BY DEF First

LEMMA FirstNone ==
  ASSUME NEW s \in Seq(Nat)
  PROVE  First(s, 0) = <<>>
<1>1. Len(s) \in Nat /\ 0 <= Len(s)
  OBVIOUS
<1>2. First(s, 0) \in Seq(Nat) /\ Len(First(s, 0)) = 0
  BY <1>1, FirstIs
<1> QED
  BY <1>2

(* Writing what was read behind what was written continues the copy. *)
LEMMA CopyGrows ==
  ASSUME NEW s \in Seq(Nat), NEW p \in Nat, NEW c \in Nat \ {0}, p + c <= Len(s)
  PROVE  Trnc!Overlay(First(s, p), p, SubSeq(SubSeq(s, p + 1, p + c), 1, c)) = First(s, p + c)
<1> DEFINE new == SubSeq(SubSeq(s, p + 1, p + c), 1, c)
<1>1. new \in Seq(Nat) /\ Len(new) = c /\ \A k \in 1 .. c : new[k] = s[p + k]
  OBVIOUS
<1>2. Trnc!Max({Len(First(s, p)), p + Len(new)}) = p + c
  <2>1. Len(First(s, p)) = p
    BY FirstIs
  <2> HIDE DEF new
  <2>2. PICK q \in Nat : q = p + c
    OBVIOUS
  <2>3. Trnc!Max({p, q}) = q
    <3>1. p <= q
      BY <2>2
    <3>2. p \in Int /\ q \in Int
      OBVIOUS
    <3>3. Trnc!Max({p, q}) = IF p <= q THEN q ELSE p
      BY <3>2, MinIs, Zenon
    <3> QED
      BY <3>1, <3>3
  <2> QED
    BY <1>1, <2>1, <2>2, <2>3
<1> HIDE DEF new
<1>3. Trnc!Overlay(First(s, p), p, new)
        = [k \in 1 .. p + c |->
             CASE k \in p+1..p+Len(new) -> new[k - p]
               [] k \notin p+1..p+Len(new) /\ k <= Len(First(s, p)) -> First(s, p)[k]
               [] OTHER -> 0]
  BY <1>2 DEF Trnc!Overlay
<1>4. ASSUME NEW k \in 1 .. p + c
      PROVE  (CASE k \in p+1..p+Len(new) -> new[k - p]
                [] k \notin p+1..p+Len(new) /\ k <= Len(First(s, p)) -> First(s, p)[k]
                [] OTHER -> 0) = s[k]
  <2>1. CASE k \in p + 1 .. p + c
    BY <1>1, <2>1
  <2>2. CASE k \notin p + 1 .. p + c
    <3>1. k <= p /\ k \notin p + 1 .. p + Len(new)
      BY <1>1, <2>2
    <3>2. Len(First(s, p)) = p /\ First(s, p)[k] = s[k]
      BY <3>1, FirstIs
    <3> QED
      BY <3>1, <3>2
  <2> QED
    BY <2>1, <2>2
<1>5. First(s, p + c) = [k \in 1 .. p + c |-> s[k]]
  BY DEF First
<1>6. Trnc!Overlay(First(s, p), p, new) = [k \in 1 .. p + c |-> s[k]]
  BY <1>3, <1>4, Zenon
<1> QED
  BY <1>5, <1>6 DEF new

LEMMA OverlayType ==
  ASSUME NEW s \in Seq(Nat), NEW p \in Nat, NEW new \in Seq(Nat)
  PROVE  Trnc!Overlay(s, p, new) \in Seq(Nat)
<1>1. PICK a \in Nat, b \in Nat : a = Len(s) /\ b = p + Len(new)
  OBVIOUS
<1>2. PICK n \in Nat : n = Trnc!Max({Len(s), p + Len(new)})
  <2>1. a \in Int /\ b \in Int
    OBVIOUS
  <2>2. Trnc!Max({a, b}) = IF a <= b THEN b ELSE a
    BY <2>1, MinIs, Zenon
  <2> QED
    BY <1>1, <2>2
<1>3. ASSUME NEW k \in 1 .. n
      PROVE  (CASE k \in p+1..p+Len(new) -> new[k - p]
                [] k \notin p+1..p+Len(new) /\ k <= Len(s) -> s[k]
                [] OTHER -> 0) \in Nat
  BY SMTT(30)
<1>4. Trnc!Overlay(s, p, new) \in [1 .. n -> Nat]
  BY <1>2, <1>3 DEF Trnc!Overlay
<1> QED
  BY <1>4

LEMMA BufferIs ==
  ASSUME NEW f, NEW s \in Seq(Nat), f.put \in Nat, NEW bound \in Nat, Reading(f, s, bound)
  PROVE  f.count \in Nat /\ f.buf \in Seq(Nat) /\ Len(f.buf) = f.count
<1>1. PICK p \in Nat, c \in Nat \ {0} : p = f.put /\ c = f.count /\ p + c <= Len(s)
  BY DEF Reading
<1>2. f.buf = SubSeq(s, p + 1, p + c)
  BY <1>1 DEF Reading
<1>3. SubSeq(s, p + 1, p + c) \in Seq(Nat) /\ Len(SubSeq(s, p + 1, p + c)) = c
  <2>1. p + c <= Len(s)
    BY <1>1
  <2> QED
    BY <2>1
<1> QED
  BY <1>1, <1>2, <1>3

(* The new inode is none of those there are. *)
LEMMA InodeIsNew ==
  ASSUME NEW d, NEW a, Disk(d, a)
  PROVE  /\ 1 + Trnc!Max(DOMAIN a) \in Int \ DOMAIN a
         /\ \A x \in DOMAIN a : x <= 1 + Trnc!Max(DOMAIN a)
<1>1. \E b \in DOMAIN a : \A x \in DOMAIN a : b >= x
  BY DEF Disk
<1>2. Trnc!Max(DOMAIN a) \in DOMAIN a /\ \A x \in DOMAIN a : Trnc!Max(DOMAIN a) >= x
  BY <1>1 DEF Trnc!Max
<1> QED
  BY <1>2 DEF Disk

(* creat: the name stands for an empty file, the other names for what they *)
(* stood for.                                                              *)
Creates(d, a, e, b, name, i) ==
  /\ i = IF name \in DOMAIN d THEN d[name] ELSE 1 + Trnc!Max(DOMAIN a)
  /\ name \in DOMAIN d => b = [a EXCEPT ![i] = <<>>] /\ e = d
  /\ name \notin DOMAIN d => b = Trnc!Set(a, i, <<>>) /\ e = Trnc!Set(d, name, i)

LEMMA CreatDisk ==
  ASSUME NEW d, NEW a, Disk(d, a), NEW e, NEW b, NEW name, NEW i, Creates(d, a, e, b, name, i)
  PROVE  /\ Disk(e, b) /\ name \in DOMAIN e /\ e[name] = i /\ b[i] = <<>>
         /\ \A x \in DOMAIN d \ {name} : x \in DOMAIN e /\ e[x] = d[x] /\ b[e[x]] = a[d[x]]
<1>0. <<>> \in Seq(Nat)
  OBVIOUS
<1>1. CASE name \in DOMAIN d
  BY <1>0, <1>1 DEF Disk, Creates
<1>2. CASE name \notin DOMAIN d
  <2>1. i \in Int \ DOMAIN a /\ \A x \in DOMAIN a : x <= i
    BY <1>2, InodeIsNew DEF Creates
  <2>2. /\ DOMAIN b = DOMAIN a \cup {i} /\ b[i] = <<>>
        /\ \A x \in DOMAIN a : b[x] = a[x]
        /\ b \in [DOMAIN b -> Seq(Nat)]
    BY <1>0, <1>2, <2>1 DEF Disk, Creates, Trnc!Set
  <2>3. /\ DOMAIN e = DOMAIN d \cup {name} /\ e[name] = i
        /\ \A x \in DOMAIN d : e[x] = d[x]
        /\ e \in [DOMAIN e -> DOMAIN a \cup {i}]
    BY <1>2, <2>1 DEF Disk, Creates, Trnc!Set
  <2>4. \A x, y \in DOMAIN e : e[x] = e[y] => x = y
    BY <2>1, <2>3 DEF Disk
  <2>5. \E m \in DOMAIN b : \A x \in DOMAIN b : x <= m
    BY <2>1, <2>2
  <2>6. DOMAIN b \subseteq Int
    BY <2>1, <2>2 DEF Disk
  <2>7. Disk(e, b)
    BY <2>2, <2>3, <2>4, <2>5, <2>6 DEF Disk
  <2>8. \A x \in DOMAIN d : d[x] \in DOMAIN a
    BY DEF Disk
  <2> QED
    BY <2>2, <2>3, <2>7, <2>8
<1> QED
  BY <1>1, <1>2

LEMMA CreatIs ==
  ASSUME Disk(dir, data), NEW name
  PROVE  /\ Trnc!Created(name) \in Int
         /\ Trnc!Creat(name) =>
              /\ Disk(dir', data') /\ name \in DOMAIN dir'
              /\ dir'[name] = Trnc!Created(name) /\ data'[Trnc!Created(name)] = <<>>
              /\ \A x \in DOMAIN dir \ {name} :
                   /\ x \in DOMAIN dir' /\ dir'[x] = dir[x]
                   /\ data'[dir'[x]] = data[dir[x]]
<1>1. PICK d, a, e, b, i : /\ d = dir /\ a = data /\ e = dir' /\ b = data'
                           /\ i = Trnc!Created(name)
  OBVIOUS
<1>2. Disk(d, a) /\ i = IF name \in DOMAIN d THEN d[name] ELSE 1 + Trnc!Max(DOMAIN a)
  BY <1>1 DEF Trnc!Created, Trnc!Exists, Trnc!NewInode
<1>3. i \in Int
  BY <1>2, InodeIsNew DEF Disk
<1>4. ASSUME Trnc!Creat(name)
      PROVE  /\ Disk(e, b) /\ name \in DOMAIN e /\ e[name] = i /\ b[i] = <<>>
             /\ \A x \in DOMAIN d \ {name} : x \in DOMAIN e /\ e[x] = d[x] /\ b[e[x]] = a[d[x]]
  <2>1. Creates(d, a, e, b, name, i)
    BY <1>1, <1>2, <1>4 DEF Creates, Trnc!Creat, Trnc!Exists, Trnc!NewInode
  <2> QED
    BY <1>2, <2>1, CreatDisk
<1> QED
  BY <1>1, <1>3, <1>4

Replaced(a, b, i, s) == b = [a EXCEPT ![i] = s]

LEMMA RenameDisk ==
  ASSUME NEW d, NEW a, Disk(d, a), NEW old \in DOMAIN d, NEW new, old # new, NEW e,
         e = Trnc!Without(Trnc!Set(d, new, d[old]), old)
  PROVE  Disk(e, a) /\ new \in DOMAIN e /\ e[new] = d[old]
<1>1. PICK m : m = Trnc!Set(d, new, d[old])
  OBVIOUS
<1>2. /\ DOMAIN m = DOMAIN d \cup {new} /\ m[new] = d[old]
      /\ \A x \in DOMAIN d \ {new} : m[x] = d[x]
  BY <1>1 DEF Trnc!Set
<1>3. /\ DOMAIN e = (DOMAIN d \cup {new}) \ {old} /\ e[new] = d[old]
      /\ \A x \in DOMAIN d \ {new, old} : e[x] = d[x]
      /\ e = [x \in DOMAIN e |-> e[x]]
  BY <1>1, <1>2 DEF Trnc!Without
<1>4. \A x, y \in DOMAIN e : e[x] = e[y] => x = y
  BY <1>3 DEF Disk
<1>5. e \in [DOMAIN e -> DOMAIN a]
  <2>1. \A x \in DOMAIN e : e[x] \in DOMAIN a
    BY <1>3 DEF Disk
  <2> QED
    BY <1>3, <2>1
<1> QED
  BY <1>3, <1>4, <1>5 DEF Disk

LEMMA UnlinkDisk ==
  ASSUME NEW d, NEW a, Disk(d, a), NEW name, NEW e, e = Trnc!Without(d, name)
  PROVE  Disk(e, a) /\ \A x \in DOMAIN d \ {name} : x \in DOMAIN e /\ e[x] = d[x]
<1>1. DOMAIN e = DOMAIN d \ {name} /\ \A x \in DOMAIN e : e[x] = d[x]
  BY DEF Trnc!Without
<1>2. e = [x \in DOMAIN e |-> e[x]]
  BY <1>1 DEF Trnc!Without
<1>3. e \in [DOMAIN e -> DOMAIN a] /\ \A x, y \in DOMAIN e : e[x] = e[y] => x = y
  BY <1>1, <1>2 DEF Disk
<1> QED
  BY <1>1, <1>3 DEF Disk

(* The parts of the code, one by one. *)
LEMMA StageIs ==
  ASSUME NEW t, NEW f, NEW d, NEW a, Stage(t, f, d, a)
  PROVE  /\ f.pc \in {"tmpnam", "open", "creat"} => Before(t, f, d, a)
         /\ f.pc \in {"read", "write", "copied"} => Out(t, f, d, a)
         /\ f.pc \in {"rename", "unlink", "rename2", "reopen", "recreat"} => Ready(t, f, d, a)
         /\ f.pc \in {"readback", "writeback"} => Back(t, f, d, a)
         /\ f.pc = "unlinktmp" => Over(t, f, d, a)
  BY DEF Stage

LEMMA TmpnamStep ==
  ASSUME NEW t, NEW f, TrncFrame(f), NEW d, NEW a, Stage(t, f, d, a), f.pc = "tmpnam", NEW g,
         \/ g = Trnc!Update(f, [tmp |-> f.tmp + 1])
         \/ g = Trnc!Update(f, [tmp |-> f.tmp + 1, pc |-> "open"])
  PROVE  TrncFrame(g) /\ Stage(t, g, d, a)
<1>1. Before(t, f, d, a)
  BY StageIs
<1>2. /\ g.pc \in {"tmpnam", "open"} /\ g.length = f.length /\ g.asked = f.asked
      /\ g.tmp = f.tmp + 1 /\ g.count = f.count
  BY DEF Trnc!Update, TrncFrame
<1>3. TrncFrame(g)
  BY DEF Trnc!Update, TrncFrame
<1> QED
  BY <1>1, <1>2, <1>3 DEF Before, Stage, TrncFrame

(* What was asked for does not change, and nothing longer was.             *)
LEMMA AskedIs ==
  ASSUME CallerAssumption, NEW t \in Threads, NEW f, TrncFrame(f)
  PROVE  /\ Original(t) \in Seq(Nat) /\ Asked(t, f) \in Seq(Nat)
         /\ f.asked <= Len(Original(t)) => Asked(t, f) = First(Original(t), f.asked)
         /\ f.asked >= Len(Original(t)) => Asked(t, f) = Original(t)
         /\ f.asked = 0 => Asked(t, f) = <<>>
<1>1. Original(t) \in Seq(Nat)
  BY DEF CallerAssumption, Original
<1>2. PICK n \in Nat : n = f.asked
  BY DEF TrncFrame
<1>3. PICK l \in Nat : l = Len(Original(t))
  BY <1>1
<1>4. n \in Int /\ l \in Int
  OBVIOUS
<1>5. Trnc!Min({n, l}) = IF n <= l THEN n ELSE l
  BY <1>4, MinIs, Zenon
<1>6. Asked(t, f) = IF n <= l THEN First(Original(t), n) ELSE First(Original(t), l)
  BY <1>2, <1>3, <1>5 DEF Asked
<1>7. First(Original(t), l) = Original(t)
  BY <1>1, <1>3 DEF First
<1>8. \A k \in Nat : k <= l => First(Original(t), k) \in Seq(Nat) /\ Len(First(Original(t), k)) = k
  BY <1>1, <1>3, FirstIs
<1>9. n = 0 => Asked(t, f) = <<>>
  BY <1>6, <1>8
<1> QED
  BY <1>1, <1>2, <1>3, <1>6, <1>7, <1>8, <1>9

(* The temporary file is never the original. *)
LEMMA NotTmp ==
  ASSUME CallerAssumption, NEW t \in Threads, NEW f, TrncFrame(f), f.tmp > 0
  PROVE  Path[t] # f.tmp
  BY DEF CallerAssumption, TrncFrame

LEMMA AskedSame ==
  ASSUME NEW t, NEW f, NEW g, g.asked = f.asked
  PROVE  Asked(t, g) = Asked(t, f)
  BY DEF Asked

(* open with length 0: creat is all there is to do.                        *)
LEMMA EmptyStep ==
  ASSUME CallerAssumption, NEW t \in Threads, NEW f, TrncFrame(f), NEW d, NEW a, Disk(d, a),
         Stage(t, f, d, a), f.pc = "open", f.length = 0, NEW g, NEW e, NEW b,
         \/ /\ g = Trnc!Update(f, [pc |-> "done", ret |-> 0]) /\ Disk(e, b)
            /\ Path[t] \in DOMAIN e /\ b[e[Path[t]]] = <<>>
         \/ g = Trnc!Update(f, [pc |-> "done", ret |-> -1]) /\ e = d /\ b = a
  PROVE  TrncFrame(g) /\ Stage(t, g, e, b)
<1>1. Before(t, f, d, a) /\ f.asked = 0
  BY StageIs DEF Before
<1>2. g.pc = "done" /\ g.asked = f.asked /\ g.ret \in {0, -1}
  BY DEF Trnc!Update, TrncFrame
<1>3. TrncFrame(g)
  BY DEF Trnc!Update, TrncFrame
<1>4. Asked(t, f) = <<>> /\ Asked(t, g) = Asked(t, f)
  BY <1>1, <1>2, AskedIs, AskedSame
<1>5. \/ Holds(e, b, Path[t], <<>>)
      \/ g.ret = -1 /\ Holds(e, b, Path[t], Original(t))
  BY <1>1 DEF Holds, Before, Trnc!Update, TrncFrame
<1> QED
  BY <1>2, <1>3, <1>4, <1>5 DEF Stage, Done

(* open of the file, then creat of the temporary one.                      *)
LEMMA OpenPathStep ==
  ASSUME CallerAssumption, NEW t \in Threads, NEW f, TrncFrame(f), NEW d, NEW a, Disk(d, a),
         Stage(t, f, d, a), f.pc = "open", f.length > 0, NEW g,
         \/ /\ g = Trnc!Update(f, [inf |-> d[Path[t]], pos |-> 0, pc |-> "creat"])
            /\ Path[t] \in DOMAIN d
         \/ g = Trnc!Update(f, [pc |-> "done", ret |-> -1])
  PROVE  TrncFrame(g) /\ Stage(t, g, d, a)
<1>1. Before(t, f, d, a)
  BY StageIs
<1>2. CASE g = Trnc!Update(f, [pc |-> "done", ret |-> -1])
  <2>1. g.pc = "done" /\ g.ret = -1 /\ TrncFrame(g)
    BY <1>2 DEF Trnc!Update, TrncFrame
  <2> QED
    BY <1>1, <2>1 DEF Before, Stage, Done
<1>3. CASE /\ g = Trnc!Update(f, [inf |-> d[Path[t]], pos |-> 0, pc |-> "creat"])
           /\ Path[t] \in DOMAIN d
  <2>1. PICK i \in Int : i = d[Path[t]]
    BY <1>3 DEF Disk
  <2>2. /\ g.pc = "creat" /\ g.inf = i /\ g.pos = 0 /\ g.length = f.length
        /\ g.asked = f.asked /\ g.tmp = f.tmp /\ g.count = f.count
    BY <1>3, <2>1 DEF Trnc!Update, TrncFrame
  <2>3. TrncFrame(g)
    BY <1>3, <2>1 DEF Trnc!Update, TrncFrame
  <2> QED
    BY <1>1, <2>1, <2>2, <2>3 DEF Before, Stage
<1> QED
  BY <1>2, <1>3

LEMMA CreatTmpStep ==
  ASSUME CallerAssumption, NEW t \in Threads, NEW f, TrncFrame(f), NEW d, NEW a, Disk(d, a),
         Stage(t, f, d, a), f.pc = "creat", NEW g, NEW e, NEW b, NEW i \in Int,
         \/ /\ g = Trnc!Update(f, [of |-> i, put |-> 0, pc |-> "read"]) 
            /\ f.tmp \in DOMAIN e /\ e[f.tmp] = i /\ b[i] = <<>>
            /\ \A x \in DOMAIN d \ {f.tmp} : x \in DOMAIN e /\ e[x] = d[x] /\ b[e[x]] = a[d[x]]
         \/ g = Trnc!Update(f, [pc |-> "done", ret |-> -1]) /\ e = d /\ b = a
  PROVE  TrncFrame(g) /\ Stage(t, g, e, b)
<1>1. Before(t, f, d, a) /\ f.tmp > 0
  BY StageIs DEF Before
<1>2. CASE g = Trnc!Update(f, [pc |-> "done", ret |-> -1]) /\ e = d /\ b = a
  <2>1. g.pc = "done" /\ g.ret = -1 /\ TrncFrame(g)
    BY <1>2 DEF Trnc!Update, TrncFrame
  <2> QED
    BY <1>1, <1>2, <2>1 DEF Before, Stage, Done
<1>3. CASE /\ g = Trnc!Update(f, [of |-> i, put |-> 0, pc |-> "read"]) 
           /\ f.tmp \in DOMAIN e /\ e[f.tmp] = i /\ b[i] = <<>>
           /\ \A x \in DOMAIN d \ {f.tmp} : x \in DOMAIN e /\ e[x] = d[x] /\ b[e[x]] = a[d[x]]
  <2>1. /\ g.pc = "read" /\ g.of = i /\ g.put = 0 /\ g.length = f.length /\ g.pos = f.pos
        /\ g.asked = f.asked /\ g.tmp = f.tmp /\ g.count = f.count /\ g.inf = f.inf
    BY <1>3 DEF Trnc!Update, TrncFrame
  <2>2. TrncFrame(g)
    BY <1>3 DEF Trnc!Update, TrncFrame
  <2>3. Path[t] # f.tmp /\ Path[t] \in DOMAIN d
    BY <1>1 DEF CallerAssumption, Before, Holds, TrncFrame
  <2>4. Holds(e, b, Path[t], Original(t)) /\ g.inf = e[Path[t]]
    BY <1>1, <1>3, <2>1, <2>3 DEF Before, Holds
  <2>5. Copying(g, b, Original(t))
    <3>1. Original(t) \in Seq(Nat)
      BY AskedIs
    <3>2. First(Original(t), 0) = <<>>
      BY <3>1, FirstNone
    <3> QED
      BY <1>3, <2>1, <3>1, <3>2 DEF Copying
  <2>6. Out(t, g, e, b)
    BY <1>1, <1>3, <2>1, <2>4, <2>5 DEF Before, Out, TrncFrame
  <2> QED
    BY <2>1, <2>2, <2>6 DEF Stage
<1> QED
  BY <1>2, <1>3

(* The loop that copies the original: read, and what ends it.              *)
LEMMA ReadOutStep ==
  ASSUME CallerAssumption, NEW t \in Threads, NEW f, TrncFrame(f), NEW d, NEW a, Disk(d, a),
         Stage(t, f, d, a), f.pc = "read", f.length > 0, NEW g,
         Reads(f, g, a[f.inf], f.length, "write", "copied")
  PROVE  TrncFrame(g) /\ Stage(t, g, d, a)
<1>0. PICK n, m :
        /\ n = Trnc!Min({LBUFSIZ, Len(a[f.inf]) - f.pos}) /\ m = Trnc!Min({n, f.length})
        /\ \/ /\ n > 0
              /\ g = Trnc!Update(f, [buf |-> SubSeq(a[f.inf], f.pos + 1, f.pos + m),
                                     pos |-> f.pos + n, count |-> m, pc |-> "write"])
           \/ n <= 0 /\ g = Trnc!Update(f, [count |-> 0, pc |-> "copied"])
           \/ g = Trnc!Update(f, [count |-> -1, pc |-> "copied"])
  BY DEF Reads
<1>1. Out(t, f, d, a)
  BY StageIs
<1>2. PICK s : s = Original(t) /\ s \in Seq(Nat)
  BY AskedIs
<1>3. PICK l \in Nat : l = Len(s)
  BY <1>2
<1>4. /\ a[f.inf] = s /\ f.pos = f.put /\ f.put <= l /\ f.put + f.length = f.asked
      /\ f.put \in Nat /\ f.length \in Nat
  BY <1>1, <1>2, <1>3 DEF Out, Holds, Copying, TrncFrame
<1>5. /\ n = IF LBUFSIZ <= l - f.put THEN LBUFSIZ ELSE l - f.put
      /\ m = IF n <= f.length THEN n ELSE f.length
  <2>1. LBUFSIZ \in Int /\ l - f.put \in Int /\ f.length \in Int
    BY <1>4 DEF CallerAssumption
  <2>2. n = Trnc!Min({LBUFSIZ, l - f.put})
    BY <1>0, <1>3, <1>4
  <2>3. n = IF LBUFSIZ <= l - f.put THEN LBUFSIZ ELSE l - f.put
    BY <2>1, <2>2, MinIs, Zenon
  <2>4. n \in Int
    BY <2>1, <2>3
  <2>5. m = IF n <= f.length THEN n ELSE f.length
    BY <1>0, <2>1, <2>4, MinIs, Zenon
  <2> QED
    BY <2>3, <2>5
<1>6. /\ n > 0 => /\ n \in Nat /\ f.put + n \in Nat /\ f.put + n <= l
                  /\ m \in 1 .. f.length /\ m <= n /\ (m < f.length => m = n)
      /\ n <= 0 => l = f.put
  <2>1. PICK p \in Nat, z \in Nat, x \in Nat \ {0} : p = f.put /\ z = f.length /\ x = LBUFSIZ
    BY <1>4 DEF CallerAssumption
  <2>2. n = (IF x <= l - p THEN x ELSE l - p) /\ m = (IF n <= z THEN n ELSE z) /\ p <= l /\ z > 0
    BY <1>4, <1>5, <2>1
  <2>3. /\ n > 0 => /\ n \in Nat /\ p + n \in Nat /\ p + n <= l
                    /\ m \in 1 .. z /\ m <= n /\ (m < z => m = n)
        /\ n <= 0 => l = p
    BY <2>2
  <2> QED
    BY <2>1, <2>3
<1>7. CASE n > 0 /\ g = Trnc!Update(f, [buf |-> SubSeq(a[f.inf], f.pos + 1, f.pos + m),
                                         pos |-> f.pos + n, count |-> m, pc |-> "write"])
  <2>1. /\ g.buf = SubSeq(a[f.inf], f.pos + 1, f.pos + m) /\ g.pos = f.pos + n /\ g.count = m
        /\ g.pc = "write" /\ g.length = f.length /\ g.asked = f.asked /\ g.tmp = f.tmp
        /\ g.put = f.put /\ g.of = f.of /\ g.inf = f.inf /\ DOMAIN g = DOMAIN f
    BY <1>7 DEF Trnc!Update, TrncFrame
  <2>0. g.pos = f.put + n /\ g.buf = SubSeq(s, f.put + 1, f.put + m)
    BY <1>4, <2>1
  <2>2. TrncFrame(g)
    <3>1. f.put + n \in Nat /\ m \in Int
      BY <1>6, <1>7
    <3> QED
      BY <2>0, <2>1, <3>1 DEF TrncFrame
  <2>3. Reading(g, s, g.length) /\ (g.count < g.length => g.pos = g.put + g.count)
    <3>1. m \in 1 .. f.length /\ f.put + m <= Len(s) /\ (m < f.length => m = n)
      BY <1>3, <1>4, <1>6, <1>7
    <3> QED
      BY <2>0, <2>1, <3>1 DEF Reading
  <2>4. Copying(g, a, s)
    BY <1>1, <1>2, <2>1 DEF Out, Copying
  <2>5. Out(t, g, d, a)
    BY <1>1, <1>2, <2>1, <2>3, <2>4 DEF Out
  <2> QED
    BY <2>1, <2>2, <2>5 DEF Stage
<1>8. CASE n <= 0 /\ g = Trnc!Update(f, [count |-> 0, pc |-> "copied"])
  <2>1. /\ g.count = 0 /\ g.pc = "copied" /\ g.length = f.length /\ g.asked = f.asked
        /\ g.tmp = f.tmp /\ g.put = f.put /\ g.of = f.of /\ g.inf = f.inf
    BY <1>8 DEF Trnc!Update, TrncFrame
  <2>2. TrncFrame(g)
    BY <1>8 DEF Trnc!Update, TrncFrame
  <2>3. Len(s) <= g.asked
    BY <1>3, <1>4, <1>6, <1>8, <2>1
  <2>4. Out(t, g, d, a)
    BY <1>1, <1>2, <2>1, <2>3 DEF Out
  <2> QED
    BY <2>1, <2>2, <2>4 DEF Stage
<1>9. CASE g = Trnc!Update(f, [count |-> -1, pc |-> "copied"])
  <2>1. /\ g.count = -1 /\ g.pc = "copied" /\ g.length = f.length /\ g.asked = f.asked
        /\ g.tmp = f.tmp /\ g.put = f.put /\ g.of = f.of /\ g.inf = f.inf
    BY <1>9 DEF Trnc!Update, TrncFrame
  <2>2. TrncFrame(g)
    BY <1>9 DEF Trnc!Update, TrncFrame
  <2>4. Out(t, g, d, a)
    BY <1>1, <2>1 DEF Out
  <2> QED
    BY <2>1, <2>2, <2>4 DEF Stage
<1> QED
  BY <1>0, <1>7, <1>8, <1>9

LEMMA OutFullStep ==
  ASSUME CallerAssumption, NEW t \in Threads, NEW f, TrncFrame(f), NEW d, NEW a,
         Stage(t, f, d, a), f.pc = "read", f.length = 0, NEW g, 
         g = Trnc!Update(f, [pc |-> "copied"])
  PROVE  TrncFrame(g) /\ Stage(t, g, d, a)
<1>1. Out(t, f, d, a)
  BY StageIs
<1>2. /\ g.count = f.count /\ g.pc = "copied" /\ g.length = f.length /\ g.asked = f.asked
      /\ g.tmp = f.tmp /\ g.put = f.put /\ g.of = f.of /\ g.inf = f.inf
  BY DEF Trnc!Update, TrncFrame
<1>3. TrncFrame(g)
  BY DEF Trnc!Update, TrncFrame
<1>4. Out(t, g, d, a)
  BY <1>1, <1>2 DEF Out, Copying
<1> QED
  BY <1>2, <1>3, <1>4 DEF Stage

(* write: the copy grows by what was read, or the loop ends with -1.       *)
LEMMA WriteOutStep ==
  ASSUME CallerAssumption, NEW t \in Threads, NEW f, TrncFrame(f), NEW d, NEW a, Disk(d, a),
         Stage(t, f, d, a), f.pc = "write", NEW g, NEW b, NEW w \in Seq(Nat), Disk(d, b),
         b[f.of] = w, \A x \in DOMAIN d : d[x] # f.of => b[d[x]] = a[d[x]],
         Writes(f, g, a[f.of], w, f.length - f.count, "read", "copied")
  PROVE  TrncFrame(g) /\ Stage(t, g, d, b)
<1>1. Out(t, f, d, a)
  BY StageIs
<1>2. PICK s : s = Original(t) /\ s \in Seq(Nat)
  BY AskedIs
<1>3. /\ f.of = d[f.tmp] /\ f.tmp \in DOMAIN d /\ a[f.of] = First(s, f.put) /\ f.put <= Len(s)
      /\ f.put + f.length = f.asked /\ f.put \in Nat /\ f.length \in Nat /\ f.asked \in Nat
      /\ f.count \in 1 .. f.length /\ f.put + f.count <= Len(s)
      /\ f.buf = SubSeq(s, f.put + 1, f.put + f.count)
      /\ f.count < f.length => f.pos = f.put + f.count
  BY <1>1, <1>2 DEF Out, Copying, Reading, TrncFrame
<1>4. PICK c \in Nat \ {0} : c = f.count
  BY <1>3
<1>13. PICK p \in Nat, l \in Nat, q \in Nat : p = f.put /\ l = f.length /\ q = f.asked
  BY <1>3
<1>14. p + c <= Len(s) /\ f.buf = SubSeq(s, p + 1, p + c)
  BY <1>3, <1>4, <1>13
<1>15. p + l = q /\ c <= l /\ (c < l => f.pos = p + c)
  BY <1>3, <1>4, <1>13
<1>10. Holds(d, b, Path[t], Original(t)) /\ f.inf = d[Path[t]]
  <2>1. Path[t] # f.tmp
    BY <1>1, NotTmp DEF Out
  <2>2. d[Path[t]] # f.of
    BY <1>1, <1>3, <2>1 DEF Out, Holds, Disk
  <2> QED
    BY <1>1, <2>2 DEF Out, Holds
<1>11. CASE /\ g = Trnc!Update(f, [put |-> f.put + f.count, length |-> f.length - f.count,
                                   pc |-> "read"])
            /\ w = Trnc!Overlay(a[f.of], f.put, SubSeq(f.buf, 1, f.count))
  <2>1. /\ g.put = p + c /\ g.length = l - c /\ g.count = c /\ g.pos = f.pos
        /\ g.pc = "read" /\ g.asked = q /\ g.tmp = f.tmp /\ g.of = f.of /\ g.inf = f.inf
        /\ DOMAIN g = DOMAIN f
    BY <1>4, <1>11, <1>13 DEF Trnc!Update, TrncFrame
  <2>2. TrncFrame(g)
    <3>1. p + c \in Nat /\ l - c \in Nat
      BY <1>15
    <3> QED
      BY <2>1, <3>1 DEF TrncFrame
  <2>3. w = First(s, p + c)
    <3>1. w = Trnc!Overlay(First(s, p), p, SubSeq(SubSeq(s, p + 1, p + c), 1, c))
      BY <1>3, <1>4, <1>11, <1>13, <1>14
    <3> QED
      BY <1>2, <1>14, <3>1, CopyGrows
  <2>4. Copying(g, b, Original(t))
    BY <1>2, <1>14, <2>1, <2>3 DEF Copying
  <2>5. /\ g.put + g.length = g.asked
        /\ g.length > 0 => g.pos = g.put
        /\ g.count >= 0
    <3>1. l - c > 0 => c < l
      OBVIOUS
    <3>2. p + c + (l - c) = q
      BY <1>15
    <3> QED
      BY <1>15, <2>1, <3>1, <3>2
  <2>6. Out(t, g, d, b)
    BY <1>1, <1>10, <2>1, <2>4, <2>5 DEF Out
  <2> QED
    BY <2>1, <2>2, <2>6 DEF Stage
<1>12. CASE g = Trnc!Update(f, [count |-> -1, pc |-> "copied"])
  <2>1. /\ g.count = -1 /\ g.pc = "copied" /\ g.length = f.length /\ g.asked = f.asked
        /\ g.tmp = f.tmp /\ g.put = f.put /\ g.of = f.of /\ g.inf = f.inf
    BY <1>12 DEF Trnc!Update, TrncFrame
  <2>2. TrncFrame(g)
    BY <1>12 DEF Trnc!Update, TrncFrame
  <2>3. g.length > 0
    BY <1>4, <1>13, <1>15, <2>1
  <2>4. Out(t, g, d, b)
    BY <1>1, <1>10, <2>1, <2>3 DEF Out
  <2> QED
    BY <2>1, <2>2, <2>4 DEF Stage
<1> QED
  BY <1>11, <1>12 DEF Writes

(* Only a complete copy takes the place of the original.                   *)
LEMMA CopiedStep ==
  ASSUME CallerAssumption, NEW t \in Threads, NEW f, TrncFrame(f), NEW d, NEW a, Disk(d, a),
         Stage(t, f, d, a), f.pc = "copied", NEW g,
         g = Trnc!Update(f, [pc |-> IF f.length = 0 /\ f.count >= 0 THEN "rename" ELSE "unlinktmp"])
  PROVE  TrncFrame(g) /\ Stage(t, g, d, a)
<1>1. Out(t, f, d, a)
  BY StageIs
<1>2. /\ g.count = f.count /\ g.length = f.length /\ g.asked = f.asked /\ g.tmp = f.tmp
      /\ g.put = f.put /\ g.of = f.of /\ g.inf = f.inf
  BY DEF Trnc!Update, TrncFrame
<1>3. TrncFrame(g) /\ g.pc = IF f.length = 0 /\ f.count >= 0 THEN "rename" ELSE "unlinktmp"
  BY DEF Trnc!Update, TrncFrame
<1>4. CASE f.length = 0 /\ f.count >= 0
  <2>1. f.put = f.asked /\ Copying(f, a, Original(t))
    BY <1>1, <1>4 DEF Out, TrncFrame
  <2>2. Asked(t, f) = First(Original(t), f.asked)
    BY <2>1, AskedIs DEF Copying
  <2>3. Holds(d, a, g.tmp, Asked(t, g))
    BY <1>1, <1>2, <2>1, <2>2, AskedSame DEF Out, Copying, Holds
  <2> QED
    BY <1>1, <1>2, <1>3, <1>4, <2>3 DEF Out, Ready, Stage
<1>5. CASE ~(f.length = 0 /\ f.count >= 0)
  <2>1. Over(t, g, d, a)
    BY <1>1, <1>2, <1>5 DEF Out, Over, TrncFrame
  <2> QED
    BY <1>3, <1>5, <2>1 DEF Stage
<1> QED
  BY <1>4, <1>5

(* The temporary file takes the name, or both stay.                        *)
LEMMA RenameStep ==
  ASSUME CallerAssumption, NEW t \in Threads, NEW f, TrncFrame(f), NEW d, NEW a, Disk(d, a),
         Stage(t, f, d, a), f.pc \in {"rename", "rename2"}, NEW g, NEW e,
         \/ /\ g = Trnc!Update(f, [pc |-> "done", ret |-> 0])
            /\ Path[t] \in DOMAIN e /\ e[Path[t]] = d[f.tmp]
         \/ e = d /\ f.pc = "rename"  /\ g = Trnc!Update(f, [pc |-> "unlink"])
         \/ e = d /\ f.pc = "rename2" /\ g = Trnc!Update(f, [pc |-> "reopen"])
  PROVE  TrncFrame(g) /\ Stage(t, g, e, a)
<1>1. Ready(t, f, d, a)
  BY StageIs
<1>2. /\ g.tmp = f.tmp /\ g.length = f.length /\ g.asked = f.asked
      /\ \/ g.pc = "done" /\ Path[t] \in DOMAIN e /\ e[Path[t]] = d[f.tmp]
         \/ g.pc \in {"unlink", "reopen"} /\ e = d
  BY DEF Trnc!Update, TrncFrame
<1>3. TrncFrame(g)
  BY DEF Trnc!Update, TrncFrame
<1>4. Asked(t, g) = Asked(t, f)
  BY <1>2, AskedSame
<1>5. CASE g.pc = "done" /\ Path[t] \in DOMAIN e /\ e[Path[t]] = d[f.tmp]
  <2>1. Holds(e, a, Path[t], Asked(t, g))
    BY <1>1, <1>4, <1>5 DEF Ready, Holds
  <2> QED
    BY <1>3, <1>5, <2>1 DEF Stage, Done
<1>6. CASE g.pc \in {"unlink", "reopen"} /\ e = d
  BY <1>1, <1>2, <1>3, <1>4, <1>6 DEF Ready, Holds, Stage
<1> QED
  BY <1>2, <1>5, <1>6

LEMMA UnlinkPathStep ==
  ASSUME CallerAssumption, NEW t \in Threads, NEW f, TrncFrame(f), NEW d, NEW a, 
         Stage(t, f, d, a), f.pc = "unlink", NEW g, NEW e,
         g = Trnc!Update(f, [pc |-> "rename2"]),
         \A x \in DOMAIN d \ {Path[t]} : x \in DOMAIN e /\ e[x] = d[x]
  PROVE  TrncFrame(g) /\ Stage(t, g, e, a)
<1>1. Ready(t, f, d, a)
  BY StageIs
<1>2. g.pc = "rename2" /\ g.tmp = f.tmp /\ g.length = f.length /\ g.asked = f.asked
  BY DEF Trnc!Update, TrncFrame
<1>3. TrncFrame(g)
  BY DEF Trnc!Update, TrncFrame
<1>4. Path[t] # f.tmp
  BY <1>1, NotTmp DEF Ready
<1> QED
  BY <1>1, <1>2, <1>3, <1>4, AskedSame DEF Ready, Holds, Stage

(* The copy back: open of the copy, creat of the original.                 *)
LEMMA OpenTmpStep ==
  ASSUME CallerAssumption, NEW t \in Threads, NEW f, TrncFrame(f), NEW d, NEW a, Disk(d, a),
         Stage(t, f, d, a), f.pc = "reopen", NEW g,
         \/ g = Trnc!Update(f, [inf |-> d[f.tmp], pos |-> 0, pc |-> "recreat"])
         \/ g = Trnc!Update(f, [pc |-> "done", ret |-> -1])
  PROVE  TrncFrame(g) /\ Stage(t, g, d, a)
<1>1. Ready(t, f, d, a)
  BY StageIs
<1>2. PICK i \in Int : i = d[f.tmp]
  BY <1>1 DEF Ready, Holds, Disk
<1>3. /\ g.tmp = f.tmp /\ g.length = f.length /\ g.asked = f.asked
      /\ \/ g.pc = "recreat" /\ g.inf = i /\ g.pos = 0
         \/ g.pc = "done" /\ g.ret = -1
  BY <1>2 DEF Trnc!Update, TrncFrame
<1>4. TrncFrame(g)
  BY <1>2 DEF Trnc!Update, TrncFrame
<1>5. Asked(t, g) = Asked(t, f)
  BY <1>3, AskedSame
<1> QED
  BY <1>1, <1>2, <1>3, <1>4, <1>5 DEF Ready, Stage, Done

LEMMA CreatPathStep ==
  ASSUME CallerAssumption, NEW t \in Threads, NEW f, TrncFrame(f), NEW d, NEW a, Disk(d, a),
         Stage(t, f, d, a), f.pc = "recreat",
         NEW g, NEW e, NEW b, NEW i \in Int,
         \/ /\ g = Trnc!Update(f, [of |-> i, put |-> 0, pc |-> "readback"])
            /\ Path[t] \in DOMAIN e /\ e[Path[t]] = i /\ b[i] = <<>>
            /\ \A x \in DOMAIN d \ {Path[t]} : x \in DOMAIN e /\ e[x] = d[x] /\ b[e[x]] = a[d[x]]
         \/ g = Trnc!Update(f, [pc |-> "done", ret |-> -1]) /\ e = d /\ b = a
  PROVE  TrncFrame(g) /\ Stage(t, g, e, b)
<1>1. Ready(t, f, d, a)
  BY StageIs
<1>2. CASE g = Trnc!Update(f, [pc |-> "done", ret |-> -1]) /\ e = d /\ b = a
  <2>1. g.pc = "done" /\ g.ret = -1 /\ g.tmp = f.tmp /\ g.asked = f.asked /\ TrncFrame(g)
    BY <1>2 DEF Trnc!Update, TrncFrame
  <2>2. Asked(t, g) = Asked(t, f)
    BY <2>1, AskedSame
  <2> QED
    BY <1>1, <1>2, <2>1, <2>2 DEF Ready, Stage, Done
<1>3. CASE /\ g = Trnc!Update(f, [of |-> i, put |-> 0, pc |-> "readback"])
           /\ Path[t] \in DOMAIN e /\ e[Path[t]] = i /\ b[i] = <<>>
           /\ \A x \in DOMAIN d \ {Path[t]} : x \in DOMAIN e /\ e[x] = d[x] /\ b[e[x]] = a[d[x]]
  <2>1. /\ g.pc = "readback" /\ g.of = i /\ g.put = 0 /\ g.length = f.length /\ g.pos = f.pos
        /\ g.asked = f.asked /\ g.tmp = f.tmp /\ g.inf = f.inf
    BY <1>3 DEF Trnc!Update, TrncFrame
  <2>2. TrncFrame(g)
    BY <1>3 DEF Trnc!Update, TrncFrame
  <2>3. Path[t] # f.tmp
    BY <1>1, NotTmp DEF Ready
  <2>4. Asked(t, g) = Asked(t, f)
    BY <2>1, AskedSame
  <2>5. Holds(e, b, g.tmp, Asked(t, g)) /\ g.inf = e[g.tmp]
    BY <1>1, <1>3, <2>1, <2>3, <2>4 DEF Ready, Holds
  <2>6. Copying(g, b, Asked(t, g))
    <3>1. Asked(t, g) \in Seq(Nat)
      BY <2>2, AskedIs
    <3>2. First(Asked(t, g), 0) = <<>>
      BY <3>1, FirstNone
    <3> QED
      BY <1>3, <2>1, <3>1, <3>2 DEF Copying
  <2>7. Back(t, g, e, b)
    BY <1>1, <1>3, <2>1, <2>5, <2>6 DEF Ready, Back
  <2> QED
    BY <2>1, <2>2, <2>7 DEF Stage
<1> QED
  BY <1>2, <1>3

LEMMA ReadBackStep ==
  ASSUME CallerAssumption, NEW t \in Threads, NEW f, TrncFrame(f), NEW d, NEW a, Disk(d, a),
         Stage(t, f, d, a), f.pc = "readback", NEW g,
         Reads(f, g, a[f.inf], LBUFSIZ, "writeback", "unlinktmp")
  PROVE  TrncFrame(g) /\ Stage(t, g, d, a)
<1>0. PICK n, m :
        /\ n = Trnc!Min({LBUFSIZ, Len(a[f.inf]) - f.pos}) /\ m = Trnc!Min({n, LBUFSIZ})
        /\ \/ /\ n > 0
              /\ g = Trnc!Update(f, [buf |-> SubSeq(a[f.inf], f.pos + 1, f.pos + m),
                                     pos |-> f.pos + n, count |-> m, pc |-> "writeback"])
           \/ n <= 0 /\ g = Trnc!Update(f, [count |-> 0, pc |-> "unlinktmp"])
           \/ g = Trnc!Update(f, [count |-> -1, pc |-> "unlinktmp"])
  BY DEF Reads
<1>1. Back(t, f, d, a)
  BY StageIs
<1>2. PICK s : s = Asked(t, f) /\ s \in Seq(Nat)
  BY AskedIs
<1>3. PICK l \in Nat : l = Len(s)
  BY <1>2
<1>4. a[f.inf] = s /\ f.pos = f.put /\ f.put <= l /\ f.put \in Nat
  BY <1>1, <1>2, <1>3 DEF Back, Holds, Copying, TrncFrame
<1>5. PICK p \in Nat, x \in Nat \ {0} : p = f.put /\ x = LBUFSIZ
  BY <1>4 DEF CallerAssumption
<1>6. n = (IF x <= l - p THEN x ELSE l - p) /\ m = n /\ n \in Int
  <2>1. x \in Int /\ l - p \in Int
    OBVIOUS
  <2>2. n = Trnc!Min({x, l - p})
    BY <1>0, <1>3, <1>4, <1>5
  <2>3. n = IF x <= l - p THEN x ELSE l - p
    BY <2>1, <2>2, MinIs, Zenon
  <2>4. n \in Int /\ n <= x
    BY <2>1, <2>3
  <2>5. m = Trnc!Min({n, x})
    BY <1>0, <1>5
  <2>6. m = IF n <= x THEN n ELSE x
    BY <2>1, <2>4, <2>5, MinIs, Zenon
  <2> QED
    BY <2>3, <2>4, <2>6
<1>7. /\ n > 0 => n \in 1 .. x /\ p + n \in Nat /\ p + n <= l
      /\ n <= 0 => l = p
  <2>1. p <= l
    BY <1>4, <1>5
  <2> QED
    BY <1>6, <2>1
<1>8. CASE n > 0 /\ g = Trnc!Update(f, [buf |-> SubSeq(a[f.inf], f.pos + 1, f.pos + m),
                                         pos |-> f.pos + n, count |-> m, pc |-> "writeback"])
  <2>1. /\ g.buf = SubSeq(s, p + 1, p + n) /\ g.pos = p + n /\ g.count = n
        /\ g.pc = "writeback" /\ g.length = f.length /\ g.asked = f.asked /\ g.tmp = f.tmp
        /\ g.put = p /\ g.of = f.of /\ g.inf = f.inf /\ DOMAIN g = DOMAIN f
    <3>1. /\ g.buf = SubSeq(a[f.inf], f.pos + 1, f.pos + m) /\ g.pos = f.pos + n /\ g.count = m
          /\ g.pc = "writeback" /\ g.length = f.length /\ g.asked = f.asked /\ g.tmp = f.tmp
          /\ g.put = f.put /\ g.of = f.of /\ g.inf = f.inf /\ DOMAIN g = DOMAIN f
      BY <1>8 DEF Trnc!Update, TrncFrame
    <3> QED
      BY <1>4, <1>5, <1>6, <3>1
  <2>2. TrncFrame(g)
    BY <1>6, <1>7, <1>8, <2>1, ZenonT(60) DEF TrncFrame
  <2>3. Asked(t, g) = s
    BY <1>2, <2>1, AskedSame
  <2>4. Reading(g, s, LBUFSIZ) /\ g.pos = g.put + g.count
    BY <1>3, <1>5, <1>7, <1>8, <2>1 DEF Reading
  <2>5. Copying(g, a, s)
    BY <1>1, <1>2, <1>5, <2>1 DEF Back, Copying
  <2>6. Back(t, g, d, a)
    BY <1>1, <1>2, <2>1, <2>3, <2>4, <2>5 DEF Back
  <2> QED
    BY <2>1, <2>2, <2>6 DEF Stage
<1>9. CASE n <= 0 /\ g = Trnc!Update(f, [count |-> 0, pc |-> "unlinktmp"])
  <2>1. /\ g.count = 0 /\ g.pc = "unlinktmp" /\ g.length = f.length /\ g.asked = f.asked
        /\ g.tmp = f.tmp
    BY <1>9 DEF Trnc!Update, TrncFrame
  <2>2. TrncFrame(g)
    BY <1>9 DEF Trnc!Update, TrncFrame
  <2>3. First(s, l) = s
    BY <1>2, <1>3 DEF First
  <2>4. Holds(d, a, Path[t], s)
    BY <1>1, <1>2, <1>3, <1>5, <1>7, <1>9, <2>3 DEF Back, Copying, Holds
  <2>5. Asked(t, g) = s
    BY <1>2, <2>1, AskedSame
  <2>6. Over(t, g, d, a)
    BY <1>1, <2>1, <2>4, <2>5 DEF Back, Over
  <2> QED
    BY <2>1, <2>2, <2>6 DEF Stage
<1>10. CASE g = Trnc!Update(f, [count |-> -1, pc |-> "unlinktmp"])
  <2>1. /\ g.count = -1 /\ g.pc = "unlinktmp" /\ g.length = f.length /\ g.tmp = f.tmp
    BY <1>10 DEF Trnc!Update, TrncFrame
  <2>2. TrncFrame(g)
    BY <1>10 DEF Trnc!Update, TrncFrame
  <2>3. Over(t, g, d, a)
    BY <1>1, <2>1 DEF Back, Over
  <2> QED
    BY <2>1, <2>2, <2>3 DEF Stage
<1> QED
  BY <1>0, <1>8, <1>9, <1>10

LEMMA WriteBackStep ==
  ASSUME CallerAssumption, NEW t \in Threads, NEW f, TrncFrame(f), NEW d, NEW a, Disk(d, a),
         Stage(t, f, d, a), f.pc = "writeback", NEW g, NEW b, NEW w \in Seq(Nat), Disk(d, b),
         b[f.of] = w, \A x \in DOMAIN d : d[x] # f.of => b[d[x]] = a[d[x]],
         Writes(f, g, a[f.of], w, f.length, "readback", "unlinktmp")
  PROVE  TrncFrame(g) /\ Stage(t, g, d, b)
<1>1. Back(t, f, d, a)
  BY StageIs
<1>2. PICK s : s = Asked(t, f) /\ s \in Seq(Nat)
  BY AskedIs
<1>3. /\ f.of = d[Path[t]] /\ a[f.of] = First(s, f.put) /\ f.put <= Len(s) /\ f.put \in Nat
      /\ f.count \in 1 .. LBUFSIZ /\ f.put + f.count <= Len(s)
      /\ f.buf = SubSeq(s, f.put + 1, f.put + f.count) /\ f.pos = f.put + f.count
      /\ f.length = 0 /\ f.tmp > 0
  BY <1>1, <1>2 DEF Back, Copying, Reading, TrncFrame
<1>4. PICK p \in Nat, c \in Nat \ {0} : p = f.put /\ c = f.count
  BY <1>3 DEF CallerAssumption
<1>5. p + c <= Len(s) /\ f.buf = SubSeq(s, p + 1, p + c) /\ f.pos = p + c
  BY <1>3, <1>4
<1>6. Holds(d, b, f.tmp, Asked(t, f))
  <2>1. Path[t] # f.tmp
    BY <1>3, NotTmp
  <2>2. d[f.tmp] # f.of
    BY <1>1, <1>3, <2>1 DEF Back, Holds, Disk
  <2> QED
    BY <1>1, <2>2 DEF Back, Holds
<1>7. CASE /\ g = Trnc!Update(f, [put |-> f.put + f.count, length |-> f.length,
                                  pc |-> "readback"])
           /\ w = Trnc!Overlay(a[f.of], f.put, SubSeq(f.buf, 1, f.count))
  <2>1. /\ g.put = p + c /\ g.length = f.length /\ g.count = f.count /\ g.pos = f.pos
        /\ g.pc = "readback" /\ g.asked = f.asked /\ g.tmp = f.tmp /\ g.of = f.of
        /\ g.inf = f.inf /\ DOMAIN g = DOMAIN f
    BY <1>4, <1>7 DEF Trnc!Update, TrncFrame
  <2>2. TrncFrame(g)
    <3>1. p + c \in Nat
      OBVIOUS
    <3> QED
      BY <2>1, <3>1 DEF TrncFrame
  <2>3. w = First(s, p + c)
    <3>1. w = Trnc!Overlay(First(s, p), p, SubSeq(SubSeq(s, p + 1, p + c), 1, c))
      BY <1>3, <1>4, <1>5, <1>7
    <3> QED
      BY <1>2, <1>5, <3>1, CopyGrows
  <2>4. Asked(t, g) = s
    BY <1>2, <2>1, AskedSame
  <2>5. Copying(g, b, s)
    BY <1>5, <2>1, <2>3 DEF Copying
  <2>6. Back(t, g, d, b)
    BY <1>1, <1>2, <1>5, <1>6, <2>1, <2>4, <2>5 DEF Back
  <2> QED
    BY <2>1, <2>2, <2>6 DEF Stage
<1>8. CASE g = Trnc!Update(f, [count |-> -1, pc |-> "unlinktmp"])
  <2>1. /\ g.count = -1 /\ g.pc = "unlinktmp" /\ g.length = f.length /\ g.tmp = f.tmp
    BY <1>8 DEF Trnc!Update, TrncFrame
  <2>2. TrncFrame(g)
    BY <1>8 DEF Trnc!Update, TrncFrame
  <2>3. Over(t, g, d, b)
    BY <1>3, <2>1 DEF Over
  <2> QED
    BY <2>1, <2>2, <2>3 DEF Stage
<1> QED
  BY <1>7, <1>8 DEF Writes

LEMMA UnlinkTmpStep ==
  ASSUME CallerAssumption, NEW t \in Threads, NEW f, TrncFrame(f), NEW d, NEW a,
         Stage(t, f, d, a), f.pc = "unlinktmp", NEW g, NEW e,
         g = Trnc!Update(f, [pc |-> "done", ret |-> f.count]),
         \A x \in DOMAIN d \ {f.tmp} : x \in DOMAIN e /\ e[x] = d[x]
  PROVE  TrncFrame(g) /\ Stage(t, g, e, a)
<1>1. Over(t, f, d, a)
  BY StageIs
<1>2. /\ g.pc = "done" /\ g.ret = f.count /\ g.tmp = f.tmp /\ g.length = f.length
      /\ g.asked = f.asked /\ g.count = f.count
  BY DEF Trnc!Update, TrncFrame
<1>3. TrncFrame(g)
  BY DEF Trnc!Update, TrncFrame
<1>4. Path[t] # f.tmp
  BY <1>1, NotTmp DEF Over
<1>5. Asked(t, g) = Asked(t, f)
  BY <1>2, AskedSame
<1>6. \A s : Holds(d, a, Path[t], s) => Holds(e, a, Path[t], s)
  BY <1>4 DEF Holds
<1>7. CASE f.length > 0
  <2>1. Holds(e, a, Path[t], Original(t))
    BY <1>1, <1>6, <1>7 DEF Over
  <2>2. g.ret = 0 => Asked(t, f) = Original(t)
    BY <1>1, <1>2, <1>7, AskedIs DEF Over
  <2> QED
    BY <1>2, <1>3, <1>5, <2>1, <2>2 DEF Stage, Done
<1>8. CASE f.length = 0
  BY <1>1, <1>2, <1>3, <1>5, <1>6, <1>8 DEF Over, Stage, Done
<1> QED
  BY <1>7, <1>8 DEF TrncFrame

(* One caller only: a step is a step of its activation.                    *)
LEMMA CallerStep ==
  ASSUME CallerAssumption, TrncInv, NEW t \in Threads, DOMAIN frame' = Threads,
         Disk(dir', data'), TrncFrame(frame'[t]), Stage(t, frame'[t], dir', data')
  PROVE  TrncInv'
<1> SUFFICES ASSUME NEW u \in Threads
             PROVE  TrncFrame(frame'[u]) /\ Stage(u, frame'[u], dir', data')
  BY DEF TrncInv
<1>1. u = t
  BY DEF CallerAssumption
<1> QED
  BY <1>1

LEMMA TrncGoes ==
  ASSUME TrncInv, NEW t \in Threads, NEW r, Trnc!Go(t, r)
  PROVE  DOMAIN frame' = Threads /\ frame'[t] = Trnc!Update(frame[t], r)
  BY DEF TrncInv, Trnc!Go

LEMMA TrncHere ==
  ASSUME TrncInv, NEW t \in Threads
  PROVE  Disk(dir, data) /\ TrncFrame(frame[t]) /\ Stage(t, frame[t], dir, data)
  BY DEF TrncInv

LEMMA TrncBefore ==
  ASSUME CallerAssumption, TrncInv, NEW t \in Threads,
         Trnc!Tmpnam(t) \/ Trnc!Empty(t) \/ Trnc!OpenPath(t) \/ Trnc!CreatTmp(t)
  PROVE  TrncInv'
<1>1. Disk(dir, data) /\ TrncFrame(frame[t]) /\ Stage(t, frame[t], dir, data)
  BY TrncHere
<1>2. CASE Trnc!Tmpnam(t)
  <2>1. /\ frame[t].pc = "tmpnam" /\ dir' = dir /\ data' = data
        /\ \/ Trnc!Go(t, [tmp |-> frame[t].tmp + 1])
           \/ Trnc!Go(t, [tmp |-> frame[t].tmp + 1, pc |-> "open"])
    BY <1>2 DEF Trnc!Tmpnam, Trnc!At, Trnc!NoChange
  <2>2. /\ DOMAIN frame' = Threads
        /\ \/ frame'[t] = Trnc!Update(frame[t], [tmp |-> frame[t].tmp + 1])
           \/ frame'[t] = Trnc!Update(frame[t], [tmp |-> frame[t].tmp + 1, pc |-> "open"])
    BY <2>1, TrncGoes
  <2>3. TrncFrame(frame'[t]) /\ Stage(t, frame'[t], dir, data)
    BY <1>1, <2>1, <2>2, TmpnamStep
  <2> QED
    BY <1>1, <2>1, <2>2, <2>3, CallerStep
<1>3. CASE Trnc!Empty(t)
  <2>1. /\ frame[t].pc = "open" /\ frame[t].length = 0
        /\ \/ Trnc!Creat(Path[t]) /\ Trnc!Go(t, [pc |-> "done", ret |-> 0])
           \/ dir' = dir /\ data' = data /\ Trnc!Go(t, [pc |-> "done", ret |-> -1])
    BY <1>3 DEF Trnc!Empty, Trnc!At, Trnc!NoChange, Trnc!Return
  <2>2. /\ DOMAIN frame' = Threads
        /\ \/ /\ Trnc!Creat(Path[t])
              /\ frame'[t] = Trnc!Update(frame[t], [pc |-> "done", ret |-> 0])
           \/ /\ dir' = dir /\ data' = data
              /\ frame'[t] = Trnc!Update(frame[t], [pc |-> "done", ret |-> -1])
    BY <2>1, TrncGoes
  <2>3. ASSUME Trnc!Creat(Path[t])
        PROVE  /\ Disk(dir', data') /\ Path[t] \in DOMAIN dir'
               /\ data'[dir'[Path[t]]] = <<>>
    BY <1>1, <2>3, CreatIs
  <2>4. Disk(dir', data')
    BY <1>1, <2>2, <2>3
  <2>5. TrncFrame(frame'[t]) /\ Stage(t, frame'[t], dir', data')
    BY <1>1, <2>1, <2>2, <2>3, EmptyStep
  <2> QED
    BY <2>2, <2>4, <2>5, CallerStep
<1>4. CASE Trnc!OpenPath(t)
  <2>1. /\ frame[t].pc = "open" /\ frame[t].length > 0 /\ dir' = dir /\ data' = data
        /\ \/ /\ Path[t] \in DOMAIN dir
              /\ Trnc!Go(t, [inf |-> dir[Path[t]], pos |-> 0, pc |-> "creat"])
           \/ Trnc!Go(t, [pc |-> "done", ret |-> -1])
    BY <1>4 DEF Trnc!OpenPath, Trnc!Open, Trnc!At, Trnc!NoChange, Trnc!Return, Trnc!Exists
  <2>2. /\ DOMAIN frame' = Threads
        /\ \/ /\ Path[t] \in DOMAIN dir
              /\ frame'[t] = Trnc!Update(frame[t], [inf |-> dir[Path[t]], pos |-> 0, pc |-> "creat"])
           \/ frame'[t] = Trnc!Update(frame[t], [pc |-> "done", ret |-> -1])
    BY <2>1, TrncGoes
  <2>3. TrncFrame(frame'[t]) /\ Stage(t, frame'[t], dir, data)
    BY <1>1, <2>1, <2>2, OpenPathStep
  <2> QED
    BY <1>1, <2>1, <2>2, <2>3, CallerStep
<1>5. CASE Trnc!CreatTmp(t)
  <2>1. /\ frame[t].pc = "creat"
        /\ \/ /\ Trnc!Creat(frame[t].tmp)
              /\ Trnc!Go(t, [of |-> Trnc!Created(frame[t].tmp), put |-> 0, pc |-> "read"])
           \/ dir' = dir /\ data' = data /\ Trnc!Go(t, [pc |-> "done", ret |-> -1])
    BY <1>5 DEF Trnc!CreatTmp, Trnc!OpenForWriting, Trnc!At, Trnc!NoChange, Trnc!Return
  <2>2. /\ DOMAIN frame' = Threads
        /\ \/ /\ Trnc!Creat(frame[t].tmp)
              /\ frame'[t] = Trnc!Update(frame[t],
                   [of |-> Trnc!Created(frame[t].tmp), put |-> 0, pc |-> "read"])
           \/ /\ dir' = dir /\ data' = data
              /\ frame'[t] = Trnc!Update(frame[t], [pc |-> "done", ret |-> -1])
    BY <2>1, TrncGoes
  <2>3. PICK i \in Int : i = Trnc!Created(frame[t].tmp)
    BY <1>1, CreatIs
  <2>4. ASSUME Trnc!Creat(frame[t].tmp)
        PROVE  /\ Disk(dir', data') /\ frame[t].tmp \in DOMAIN dir'
               /\ dir'[frame[t].tmp] = i /\ data'[i] = <<>>
               /\ \A x \in DOMAIN dir \ {frame[t].tmp} :
                    /\ x \in DOMAIN dir' /\ dir'[x] = dir[x]
                    /\ data'[dir'[x]] = data[dir[x]]
    BY <1>1, <2>3, <2>4, CreatIs
  <2>5. Disk(dir', data')
    BY <1>1, <2>2, <2>4
  <2>6. TrncFrame(frame'[t]) /\ Stage(t, frame'[t], dir', data')
    <3>1. PICK f, g, d, a, e, b : /\ f = frame[t] /\ g = frame'[t] /\ d = dir /\ a = data
                                  /\ e = dir' /\ b = data'
      OBVIOUS
    <3>2. TrncFrame(f) /\ Disk(d, a) /\ Stage(t, f, d, a) /\ f.pc = "creat"
      BY <1>1, <2>1, <3>1
    <3>3. \/ /\ g = Trnc!Update(f, [of |-> i, put |-> 0, pc |-> "read"])
             /\ f.tmp \in DOMAIN e /\ e[f.tmp] = i /\ b[i] = <<>>
             /\ \A x \in DOMAIN d \ {f.tmp} : x \in DOMAIN e /\ e[x] = d[x] /\ b[e[x]] = a[d[x]]
          \/ g = Trnc!Update(f, [pc |-> "done", ret |-> -1]) /\ e = d /\ b = a
      BY <2>2, <2>3, <2>4, <3>1
    <3>4. TrncFrame(g) /\ Stage(t, g, e, b)
      BY <3>2, <3>3, CreatTmpStep
    <3> QED
      BY <3>1, <3>4
  <2> QED
    BY <2>2, <2>5, <2>6, CallerStep
<1> QED
  BY <1>2, <1>3, <1>4, <1>5

(* write puts some of the buffer behind what was put, all of it if it      *)
(* says so.                                                                *)
LEMMA WriteIs ==
  ASSUME TrncInv, NEW t \in Threads, NEW here, NEW read, NEW end, NEW left,
         Trnc!Write(t, here, read, end, left), NEW name \in DOMAIN dir,
         frame[t].of = dir[name], NEW c \in Nat, frame[t].count = c,
         frame[t].buf \in Seq(Nat), Len(frame[t].buf) = c
  PROVE  /\ dir' = dir /\ DOMAIN frame' = Threads
         /\ \E w \in Seq(Nat) :
              /\ Disk(dir, data') /\ data'[frame[t].of] = w
              /\ \A x \in DOMAIN dir : dir[x] # frame[t].of => data'[dir[x]] = data[dir[x]]
              /\ Writes(frame[t], frame'[t], data[frame[t].of], w, left, read, end)
<1>1. PICK f, d, a, b, i, s : /\ f = frame[t] /\ d = dir /\ a = data /\ b = data' /\ i = frame[t].of
                              /\ s = a[i]
  OBVIOUS
<1>2. Disk(d, a) /\ i = d[name] /\ name \in DOMAIN d /\ TrncFrame(f) /\ f.count = c
      /\ f.buf \in Seq(Nat) /\ Len(f.buf) = c /\ i = f.of
  BY <1>1 DEF TrncInv
<1>3. s \in Seq(Nat)
  BY <1>1, <1>2 DEF Disk
<1>4. \A k \in Nat : k <= c => SubSeq(f.buf, 1, k) \in Seq(Nat)
  BY <1>2
<1>5. \A k \in Nat : k <= c => Trnc!Overlay(s, f.put, SubSeq(f.buf, 1, k)) \in Seq(Nat)
  BY <1>2, <1>3, <1>4, OverlayType DEF TrncFrame
<1>6. dir' = dir
  BY DEF Trnc!Write
<1>9. ASSUME NEW w \in Seq(Nat), Replaced(a, b, i, w)
      PROVE  Disk(d, b) /\ b[i] = w /\ \A x \in DOMAIN d \ {name} : b[d[x]] = a[d[x]]
  BY <1>2, <1>9 DEF Disk, Replaced
<1>7. CASE /\ b = [a EXCEPT ![i] = Trnc!Overlay(a[i], f.put, SubSeq(f.buf, 1, f.count))]
           /\ Trnc!Go(t, [put |-> f.put + f.count, length |-> left, pc |-> read])
  <2>1. PICK w \in Seq(Nat) : w = Trnc!Overlay(s, f.put, SubSeq(f.buf, 1, f.count))
    BY <1>2, <1>5
  <2>2. Replaced(a, b, i, w)
    BY <1>1, <1>7, <2>1 DEF Replaced
  <2>3. Disk(d, b) /\ b[i] = w /\ \A x \in DOMAIN d \ {name} : b[d[x]] = a[d[x]]
    BY <1>9, <2>2
  <2>4. /\ DOMAIN frame' = Threads
        /\ frame'[t] = Trnc!Update(f, [put |-> f.put + f.count, length |-> left, pc |-> read])
    BY <1>1, <1>7, TrncGoes
  <2>5. Writes(f, frame'[t], s, w, left, read, end)
    BY <2>1, <2>4 DEF Writes
  <2> QED
    BY <1>1, <1>2, <1>6, <2>3, <2>4, <2>5
<1>8. CASE /\ \E k \in 0 .. f.count - 1 :
                b = [a EXCEPT ![i] = Trnc!Overlay(a[i], f.put, SubSeq(f.buf, 1, k))]
           /\ Trnc!Go(t, [count |-> -1, pc |-> end])
  <2>1. PICK k \in 0 .. c - 1 :
          b = [a EXCEPT ![i] = Trnc!Overlay(a[i], f.put, SubSeq(f.buf, 1, k))]
    BY <1>2, <1>8
  <2>2. PICK w \in Seq(Nat) : w = Trnc!Overlay(s, f.put, SubSeq(f.buf, 1, k))
    BY <1>5
  <2>3. Replaced(a, b, i, w)
    BY <1>1, <2>1, <2>2 DEF Replaced
  <2>4. Disk(d, b) /\ b[i] = w /\ \A x \in DOMAIN d \ {name} : b[d[x]] = a[d[x]]
    BY <1>9, <2>3
  <2>5. /\ DOMAIN frame' = Threads
        /\ frame'[t] = Trnc!Update(f, [count |-> -1, pc |-> end])
    BY <1>1, <1>8, TrncGoes
  <2>6. Writes(f, frame'[t], s, w, left, read, end)
    BY <2>5 DEF Writes
  <2> QED
    BY <1>1, <1>2, <1>6, <2>4, <2>5, <2>6
<1> QED
  BY <1>1, <1>7, <1>8 DEF Trnc!Write

LEMMA ReadIs ==
  ASSUME TrncInv, NEW t \in Threads, NEW here, NEW write, NEW end, NEW most,
         Trnc!Read(t, here, write, end, most)
  PROVE  /\ dir' = dir /\ data' = data /\ DOMAIN frame' = Threads
         /\ Reads(frame[t], frame'[t], data[frame[t].inf], most, write, end)
<1>1. PICK f, s, n, m : /\ f = frame[t] /\ s = data[f.inf] /\ n = Trnc!Min({LBUFSIZ, Len(s) - f.pos})
                        /\ m = Trnc!Min({n, most})
  OBVIOUS
<1>2. /\ dir' = dir /\ data' = data
      /\ \/ /\ n > 0
            /\ Trnc!Go(t, [buf |-> SubSeq(s, f.pos + 1, f.pos + m),
                           pos |-> f.pos + n, count |-> m, pc |-> write])
         \/ n <= 0 /\ Trnc!Go(t, [count |-> 0, pc |-> end])
         \/ Trnc!Go(t, [count |-> -1, pc |-> end])
  BY <1>1 DEF Trnc!Read, Trnc!NoChange
<1>3. /\ DOMAIN frame' = Threads
      /\ \/ /\ n > 0
            /\ frame'[t] = Trnc!Update(f, [buf |-> SubSeq(s, f.pos + 1, f.pos + m),
                           pos |-> f.pos + n, count |-> m, pc |-> write])
         \/ n <= 0 /\ frame'[t] = Trnc!Update(f, [count |-> 0, pc |-> end])
         \/ frame'[t] = Trnc!Update(f, [count |-> -1, pc |-> end])
  BY <1>1, <1>2, TrncGoes
<1> QED
  BY <1>1, <1>2, <1>3 DEF Reads

LEMMA TrncOut ==
  ASSUME CallerAssumption, TrncInv, NEW t \in Threads,
         Trnc!ReadOut(t) \/ Trnc!OutFull(t) \/ Trnc!WriteOut(t) \/ Trnc!Copied(t)
  PROVE  TrncInv'
<1>1. Disk(dir, data) /\ TrncFrame(frame[t]) /\ Stage(t, frame[t], dir, data)
  BY TrncHere
<1>2. CASE Trnc!ReadOut(t)
  <2>1. Trnc!Read(t, "read", "write", "copied", frame[t].length) /\ frame[t].length > 0
    BY <1>2 DEF Trnc!ReadOut
  <2>2. frame[t].pc = "read"
    BY <2>1 DEF Trnc!Read, Trnc!At
  <2>3. /\ dir' = dir /\ data' = data /\ DOMAIN frame' = Threads
        /\ Reads(frame[t], frame'[t], data[frame[t].inf], frame[t].length, "write", "copied")
    BY <2>1, ReadIs
  <2>4. TrncFrame(frame'[t]) /\ Stage(t, frame'[t], dir, data)
    BY <1>1, <2>1, <2>2, <2>3, ReadOutStep
  <2> QED
    BY <1>1, <2>3, <2>4, CallerStep
<1>3. CASE Trnc!OutFull(t)
  <2>1. /\ frame[t].pc = "read" /\ frame[t].length = 0 /\ dir' = dir /\ data' = data
        /\ Trnc!Go(t, [pc |-> "copied"])
    BY <1>3 DEF Trnc!OutFull, Trnc!At, Trnc!NoChange
  <2>2. DOMAIN frame' = Threads /\ frame'[t] = Trnc!Update(frame[t], [pc |-> "copied"])
    BY <2>1, TrncGoes
  <2>3. TrncFrame(frame'[t]) /\ Stage(t, frame'[t], dir, data)
    BY <1>1, <2>1, <2>2, OutFullStep
  <2> QED
    BY <1>1, <2>1, <2>2, <2>3, CallerStep
<1>4. CASE Trnc!WriteOut(t)
  <2>1. Trnc!Write(t, "write", "read", "copied", frame[t].length - frame[t].count)
    BY <1>4 DEF Trnc!WriteOut
  <2>2. frame[t].pc = "write"
    BY <2>1 DEF Trnc!Write, Trnc!At
  <2>3. Out(t, frame[t], dir, data) /\ Original(t) \in Seq(Nat)
    BY <1>1, <2>2, StageIs, AskedIs
  <2>4. PICK c \in Nat : c = frame[t].count /\ frame[t].buf \in Seq(Nat) /\ Len(frame[t].buf) = c
    <3>1. Reading(frame[t], Original(t), frame[t].length)
      BY <2>2, <2>3 DEF Out
    <3> QED
      BY <1>1, <2>3, <3>1, BufferIs DEF TrncFrame
  <2>5. frame[t].tmp \in DOMAIN dir /\ frame[t].of = dir[frame[t].tmp]
    BY <2>3 DEF Out
  <2>6. /\ dir' = dir /\ DOMAIN frame' = Threads
        /\ \E w \in Seq(Nat) :
             /\ Disk(dir, data') /\ data'[frame[t].of] = w
             /\ \A x \in DOMAIN dir : dir[x] # frame[t].of => data'[dir[x]] = data[dir[x]]
             /\ Writes(frame[t], frame'[t], data[frame[t].of], w,
                       frame[t].length - frame[t].count, "read", "copied")
    BY <2>1, <2>4, <2>5, WriteIs
  <2>7. Disk(dir, data') /\ TrncFrame(frame'[t]) /\ Stage(t, frame'[t], dir, data')
    <3>1. PICK f, g, d, a, b : f = frame[t] /\ g = frame'[t] /\ d = dir /\ a = data /\ b = data'
      OBVIOUS
    <3>2. PICK w \in Seq(Nat) :
            /\ Disk(d, b) /\ b[f.of] = w
            /\ \A x \in DOMAIN d : d[x] # f.of => b[d[x]] = a[d[x]]
            /\ Writes(f, g, a[f.of], w, f.length - f.count, "read", "copied")
      BY <2>6, <3>1
    <3>3. TrncFrame(f) /\ Disk(d, a) /\ Stage(t, f, d, a) /\ f.pc = "write"
      BY <1>1, <2>2, <3>1
    <3>4. TrncFrame(g) /\ Stage(t, g, d, b)
      BY <3>2, <3>3, WriteOutStep
    <3> QED
      BY <3>1, <3>2, <3>4
  <2> QED
    BY <2>6, <2>7, CallerStep
<1>5. CASE Trnc!Copied(t)
  <2>1. /\ frame[t].pc = "copied" /\ dir' = dir /\ data' = data
        /\ Trnc!Go(t, [pc |-> IF frame[t].length = 0 /\ frame[t].count >= 0 THEN "rename" ELSE "unlinktmp"])
    BY <1>5 DEF Trnc!Copied, Trnc!At, Trnc!NoChange, Trnc!Complete
  <2>2. /\ DOMAIN frame' = Threads
        /\ frame'[t] = Trnc!Update(frame[t],
             [pc |-> IF frame[t].length = 0 /\ frame[t].count >= 0 THEN "rename" ELSE "unlinktmp"])
    BY <2>1, TrncGoes
  <2>3. TrncFrame(frame'[t]) /\ Stage(t, frame'[t], dir, data)
    BY <1>1, <2>1, <2>2, CopiedStep
  <2> QED
    BY <1>1, <2>1, <2>2, <2>3, CallerStep
<1> QED
  BY <1>2, <1>3, <1>4, <1>5

LEMMA TrncReady ==
  ASSUME CallerAssumption, TrncInv, NEW t \in Threads,
         \/ Trnc!FirstRename(t) \/ Trnc!UnlinkPath(t) \/ Trnc!SecondRename(t)
         \/ Trnc!OpenTmp(t) \/ Trnc!CreatPath(t)
  PROVE  TrncInv'
<1>1. Disk(dir, data) /\ TrncFrame(frame[t]) /\ Stage(t, frame[t], dir, data)
  BY TrncHere
<1>2. PICK f, d, a : f = frame[t] /\ d = dir /\ a = data
  OBVIOUS
<1>3. Disk(d, a) /\ TrncFrame(f) /\ Stage(t, f, d, a)
  BY <1>1, <1>2
<1>4. ASSUME NEW pc0, NEW pc1, Trnc!RenameTmp(t, pc0, pc1),
             \/ pc0 = "rename" /\ pc1 = "unlink"
             \/ pc0 = "rename2" /\ pc1 = "reopen"
      PROVE  TrncInv'
  <2>1. /\ f.pc = pc0 /\ data' = data
        /\ \/ /\ f.tmp \in DOMAIN d
              /\ dir' = Trnc!Without(Trnc!Set(d, Path[t], d[f.tmp]), f.tmp)
              /\ Trnc!Go(t, [pc |-> "done", ret |-> 0])
           \/ dir' = dir /\ Trnc!Go(t, [pc |-> pc1])
    BY <1>2, <1>4 DEF Trnc!RenameTmp, Trnc!At, Trnc!NoChange, Trnc!Return, Trnc!Exists, Trnc!Rename
  <2>2. /\ DOMAIN frame' = Threads
        /\ \/ /\ f.tmp \in DOMAIN d
              /\ dir' = Trnc!Without(Trnc!Set(d, Path[t], d[f.tmp]), f.tmp)
              /\ frame'[t] = Trnc!Update(f, [pc |-> "done", ret |-> 0])
           \/ dir' = dir /\ frame'[t] = Trnc!Update(f, [pc |-> pc1])
    BY <1>2, <2>1, TrncGoes
  <2>3. Path[t] # f.tmp
    BY <1>3, <1>4, <2>1, StageIs, NotTmp DEF Ready
  <2>4. /\ Disk(dir', a)
        /\ dir' = dir \/ (Path[t] \in DOMAIN dir' /\ dir'[Path[t]] = d[f.tmp])
    BY <1>2, <1>3, <2>2, <2>3, RenameDisk
  <2>5. PICK e, g : e = dir' /\ g = frame'[t]
    OBVIOUS
  <2>6. CASE /\ f.tmp \in DOMAIN d
             /\ dir' = Trnc!Without(Trnc!Set(d, Path[t], d[f.tmp]), f.tmp)
             /\ frame'[t] = Trnc!Update(f, [pc |-> "done", ret |-> 0])
    <3>1. Path[t] \in DOMAIN e /\ e[Path[t]] = d[f.tmp]
      BY <1>3, <2>3, <2>5, <2>6, RenameDisk
    <3>2. g = Trnc!Update(f, [pc |-> "done", ret |-> 0])
      BY <2>5, <2>6
    <3>3. f.pc \in {"rename", "rename2"}
      BY <1>4, <2>1
    <3>4. TrncFrame(g) /\ Stage(t, g, e, a)
      BY <1>3, <3>1, <3>2, <3>3, RenameStep
    <3> QED
      BY <1>2, <2>1, <2>2, <2>4, <2>5, <3>4, CallerStep
  <2>7. CASE dir' = dir /\ frame'[t] = Trnc!Update(f, [pc |-> pc1])
    <3>1. \/ e = d /\ f.pc = "rename"  /\ g = Trnc!Update(f, [pc |-> "unlink"])
          \/ e = d /\ f.pc = "rename2" /\ g = Trnc!Update(f, [pc |-> "reopen"])
      BY <1>2, <1>4, <2>1, <2>5, <2>7
    <3>2. TrncFrame(g) /\ Stage(t, g, e, a)
      BY <1>3, <3>1, RenameStep
    <3> QED
      BY <1>2, <2>1, <2>2, <2>4, <2>5, <3>2, CallerStep
  <2> QED
    BY <2>2, <2>6, <2>7
<1>5. CASE Trnc!FirstRename(t)
  BY <1>4, <1>5 DEF Trnc!FirstRename
<1>6. CASE Trnc!SecondRename(t)
  BY <1>4, <1>6 DEF Trnc!SecondRename
<1>7. CASE Trnc!UnlinkPath(t)
  <2>1. /\ f.pc = "unlink" /\ data' = data
        /\ dir' = dir \/ dir' = Trnc!Without(d, Path[t])
        /\ Trnc!Go(t, [pc |-> "rename2"])
    BY <1>2, <1>7 DEF Trnc!UnlinkPath, Trnc!Unlink, Trnc!At
  <2>2. DOMAIN frame' = Threads /\ frame'[t] = Trnc!Update(f, [pc |-> "rename2"])
    BY <1>2, <2>1, TrncGoes
  <2>3. /\ Disk(dir', a)
        /\ \A x \in DOMAIN d \ {Path[t]} : x \in DOMAIN dir' /\ dir'[x] = d[x]
    BY <1>2, <1>3, <2>1, UnlinkDisk
  <2>4. TrncFrame(frame'[t]) /\ Stage(t, frame'[t], dir', a)
    BY <1>3, <2>1, <2>2, <2>3, UnlinkPathStep
  <2> QED
    BY <1>2, <2>1, <2>2, <2>3, <2>4, CallerStep
<1>8. CASE Trnc!OpenTmp(t)
  <2>1. /\ f.pc = "reopen" /\ dir' = dir /\ data' = data
        /\ \/ Trnc!Go(t, [inf |-> d[f.tmp], pos |-> 0, pc |-> "recreat"])
           \/ Trnc!Go(t, [pc |-> "done", ret |-> -1])
    BY <1>2, <1>8 DEF Trnc!OpenTmp, Trnc!Open, Trnc!At, Trnc!NoChange, Trnc!Return
  <2>2. /\ DOMAIN frame' = Threads
        /\ \/ frame'[t] = Trnc!Update(f, [inf |-> d[f.tmp], pos |-> 0, pc |-> "recreat"])
           \/ frame'[t] = Trnc!Update(f, [pc |-> "done", ret |-> -1])
    BY <1>2, <2>1, TrncGoes
  <2>3. TrncFrame(frame'[t]) /\ Stage(t, frame'[t], d, a)
    BY <1>3, <2>1, <2>2, OpenTmpStep
  <2> QED
    BY <1>1, <1>2, <2>1, <2>2, <2>3, CallerStep
<1>9. CASE Trnc!CreatPath(t)
  <2>1. /\ f.pc = "recreat"
        /\ \/ /\ Trnc!Creat(Path[t])
              /\ Trnc!Go(t, [of |-> Trnc!Created(Path[t]), put |-> 0, pc |-> "readback"])
           \/ dir' = dir /\ data' = data /\ Trnc!Go(t, [pc |-> "done", ret |-> -1])
    BY <1>2, <1>9 DEF Trnc!CreatPath, Trnc!OpenForWriting, Trnc!At, Trnc!NoChange, Trnc!Return
  <2>2. /\ DOMAIN frame' = Threads
        /\ \/ /\ Trnc!Creat(Path[t])
              /\ frame'[t] = Trnc!Update(f, [of |-> Trnc!Created(Path[t]), put |-> 0, pc |-> "readback"])
           \/ /\ dir' = dir /\ data' = data
              /\ frame'[t] = Trnc!Update(f, [pc |-> "done", ret |-> -1])
    BY <1>2, <2>1, TrncGoes
  <2>3. PICK i \in Int : i = Trnc!Created(Path[t])
    BY <1>1, CreatIs
  <2>4. ASSUME Trnc!Creat(Path[t])
        PROVE  /\ Disk(dir', data') /\ Path[t] \in DOMAIN dir'
               /\ dir'[Path[t]] = i /\ data'[i] = <<>>
               /\ \A x \in DOMAIN dir \ {Path[t]} :
                    /\ x \in DOMAIN dir' /\ dir'[x] = dir[x]
                    /\ data'[dir'[x]] = data[dir[x]]
    BY <1>1, <2>3, <2>4, CreatIs
  <2>5. Disk(dir', data')
    BY <1>1, <2>2, <2>4
  <2>6. TrncFrame(frame'[t]) /\ Stage(t, frame'[t], dir', data')
    <3>1. PICK g, e, b : g = frame'[t] /\ e = dir' /\ b = data'
      OBVIOUS
    <3>2. \/ /\ g = Trnc!Update(f, [of |-> i, put |-> 0, pc |-> "readback"])
             /\ Path[t] \in DOMAIN e /\ e[Path[t]] = i /\ b[i] = <<>>
             /\ \A x \in DOMAIN d \ {Path[t]} : x \in DOMAIN e /\ e[x] = d[x] /\ b[e[x]] = a[d[x]]
          \/ g = Trnc!Update(f, [pc |-> "done", ret |-> -1]) /\ e = d /\ b = a
      BY <1>2, <2>2, <2>3, <2>4, <3>1
    <3>3. TrncFrame(g) /\ Stage(t, g, e, b)
      BY <1>3, <2>1, <3>2, CreatPathStep
    <3> QED
      BY <3>1, <3>3
  <2> QED
    BY <2>2, <2>5, <2>6, CallerStep
<1> QED
  BY <1>5, <1>6, <1>7, <1>8, <1>9

LEMMA TrncBack ==
  ASSUME CallerAssumption, TrncInv, NEW t \in Threads,
         Trnc!ReadBack(t) \/ Trnc!WriteBack(t) \/ Trnc!UnlinkTmp(t)
  PROVE  TrncInv'
<1>1. Disk(dir, data) /\ TrncFrame(frame[t]) /\ Stage(t, frame[t], dir, data)
  BY TrncHere
<1>2. PICK f, d, a : f = frame[t] /\ d = dir /\ a = data
  OBVIOUS
<1>3. Disk(d, a) /\ TrncFrame(f) /\ Stage(t, f, d, a)
  BY <1>1, <1>2
<1>4. CASE Trnc!ReadBack(t)
  <2>1. Trnc!Read(t, "readback", "writeback", "unlinktmp", LBUFSIZ)
    BY <1>4 DEF Trnc!ReadBack
  <2>2. f.pc = "readback"
    BY <1>2, <2>1 DEF Trnc!Read, Trnc!At
  <2>3. /\ dir' = dir /\ data' = data /\ DOMAIN frame' = Threads
        /\ Reads(f, frame'[t], a[f.inf], LBUFSIZ, "writeback", "unlinktmp")
    BY <1>2, <2>1, ReadIs
  <2>4. TrncFrame(frame'[t]) /\ Stage(t, frame'[t], d, a)
    BY <1>3, <2>2, <2>3, ReadBackStep
  <2> QED
    BY <1>1, <1>2, <2>3, <2>4, CallerStep
<1>5. CASE Trnc!WriteBack(t)
  <2>1. Trnc!Write(t, "writeback", "readback", "unlinktmp", frame[t].length)
    BY <1>5 DEF Trnc!WriteBack
  <2>2. f.pc = "writeback"
    BY <1>2, <2>1 DEF Trnc!Write, Trnc!At
  <2>3. Back(t, f, d, a) /\ Asked(t, f) \in Seq(Nat)
    BY <1>3, <2>2, StageIs, AskedIs
  <2>4. PICK c \in Nat : c = frame[t].count /\ frame[t].buf \in Seq(Nat) /\ Len(frame[t].buf) = c
    <3>1. Reading(f, Asked(t, f), LBUFSIZ) /\ f.put \in Nat /\ LBUFSIZ \in Nat
      BY <1>3, <2>2, <2>3 DEF Back, TrncFrame, CallerAssumption
    <3> QED
      BY <1>2, <2>3, <3>1, BufferIs
  <2>5. Path[t] \in DOMAIN dir /\ frame[t].of = dir[Path[t]]
    BY <1>2, <2>3 DEF Back
  <2>6. /\ dir' = dir /\ DOMAIN frame' = Threads
        /\ \E w \in Seq(Nat) :
             /\ Disk(dir, data') /\ data'[frame[t].of] = w
             /\ \A x \in DOMAIN dir : dir[x] # frame[t].of => data'[dir[x]] = data[dir[x]]
             /\ Writes(frame[t], frame'[t], data[frame[t].of], w, frame[t].length, "readback", "unlinktmp")
    BY <2>1, <2>4, <2>5, WriteIs
  <2>7. Disk(dir, data') /\ TrncFrame(frame'[t]) /\ Stage(t, frame'[t], dir, data')
    <3>1. PICK g, b : g = frame'[t] /\ b = data'
      OBVIOUS
    <3>2. PICK w \in Seq(Nat) :
            /\ Disk(d, b) /\ b[f.of] = w
            /\ \A x \in DOMAIN d : d[x] # f.of => b[d[x]] = a[d[x]]
            /\ Writes(f, g, a[f.of], w, f.length, "readback", "unlinktmp")
      BY <1>2, <2>6, <3>1
    <3>3. TrncFrame(g) /\ Stage(t, g, d, b)
      BY <1>3, <2>2, <3>2, WriteBackStep
    <3> QED
      BY <1>2, <3>1, <3>2, <3>3
  <2> QED
    BY <2>6, <2>7, CallerStep
<1>6. CASE Trnc!UnlinkTmp(t)
  <2>1. /\ f.pc = "unlinktmp" /\ data' = data
        /\ dir' = dir \/ dir' = Trnc!Without(d, f.tmp)
        /\ Trnc!Go(t, [pc |-> "done", ret |-> f.count])
    BY <1>2, <1>6 DEF Trnc!UnlinkTmp, Trnc!Unlink, Trnc!At, Trnc!Return
  <2>2. DOMAIN frame' = Threads /\ frame'[t] = Trnc!Update(f, [pc |-> "done", ret |-> f.count])
    BY <1>2, <2>1, TrncGoes
  <2>3. /\ Disk(dir', a)
        /\ \A x \in DOMAIN d \ {f.tmp} : x \in DOMAIN dir' /\ dir'[x] = d[x]
    BY <1>2, <1>3, <2>1, UnlinkDisk
  <2>4. TrncFrame(frame'[t]) /\ Stage(t, frame'[t], dir', a)
    BY <1>3, <2>1, <2>2, <2>3, UnlinkTmpStep
  <2> QED
    BY <1>2, <2>1, <2>2, <2>3, <2>4, CallerStep
<1> QED
  BY <1>4, <1>5, <1>6

(* The other services leave the files alone.                               *)
LEMMA TrncNext ==
  ASSUME CallerAssumption, TrncInv, Trnc!Next \/ UNCHANGED trnc
  PROVE  TrncInv'
<1>1. CASE Trnc!Next
  <2>1. PICK t \in Threads : Trnc!Step(t)
    BY <1>1 DEF Trnc!Next
  <2> QED
    BY <2>1, TrncBefore, TrncOut, TrncReady, TrncBack DEF Trnc!Step
<1>2. CASE UNCHANGED trnc
  BY <1>2 DEF trnc, TrncInv
<1> QED
  BY <1>1, <1>2

LEMMA TrncInit ==
  ASSUME CallerAssumption, Trnc!Init
  PROVE  TrncInv
<1>1. /\ dir = [name \in DOMAIN Bytes |-> name] /\ data = Bytes
      /\ frame \in [Threads -> {[Trnc!Frame EXCEPT !.length = l, !.asked = l] : l \in Lengths}]
  BY DEF Trnc!Init
<1>2. Disk(dir, data)
  BY <1>1 DEF Disk, CallerAssumption
<1>3. ASSUME NEW t \in Threads
      PROVE  TrncFrame(frame[t]) /\ Stage(t, frame[t], dir, data)
  <2>0. PICK l \in Lengths : frame[t] = [Trnc!Frame EXCEPT !.length = l, !.asked = l]
    BY <1>1
  <2>1. l \in Nat
    BY DEF CallerAssumption
  <2>2. /\ DOMAIN frame[t] = {"pc", "length", "tmp", "inf", "pos", "of", "put", "count", "buf", "ret", "asked"}
        /\ frame[t].pc = "tmpnam" /\ frame[t].length = l /\ frame[t].asked = l
        /\ frame[t].tmp = 0 /\ frame[t].inf = 0 /\ frame[t].pos = 0 /\ frame[t].of = 0
        /\ frame[t].put = 0 /\ frame[t].count = 0
    BY <2>0 DEF Trnc!Frame
  <2>3. Holds(dir, data, Path[t], Original(t))
    BY <1>1 DEF Holds, Original, CallerAssumption
  <2> QED
    BY <2>1, <2>2, <2>3 DEF TrncFrame, Stage, Before
<1>4. DOMAIN frame = Threads
  BY <1>1
<1> QED
  BY <1>2, <1>3, <1>4 DEF TrncInv

OnlyTrnc == which = "truncate" => TrncInv

LEMMA OnlyTrncInit == ASSUME CallerAssumption, AllInit PROVE OnlyTrnc
<1> SUFFICES ASSUME which = "truncate" PROVE TrncInv
  BY DEF OnlyTrnc
<1>1. Trnc!Init
  BY DEF AllInit
<1> QED
  BY <1>1, TrncInit

LEMMA OnlyTrncNext == ASSUME CallerAssumption, OnlyTrnc, [AllNext]_all PROVE OnlyTrnc'
<1> SUFFICES ASSUME which' = "truncate" PROVE TrncInv'
  BY DEF OnlyTrnc
<1>1. which = "truncate" /\ (Trnc!Next \/ UNCHANGED trnc)
  BY DEF AllNext, all
<1> QED
  BY <1>1, TrncNext DEF OnlyTrnc

LEMMA TrncHolds ==
  ASSUME CallerAssumption, TrncInv
  PROVE  Trnc!TruncateExact /\ Trnc!BytesKept
<1> SUFFICES ASSUME NEW t \in Threads
             PROVE  /\ Trnc!At(t, "done") /\ frame[t].ret = 0
                         => Trnc!Exists(Path[t]) /\ Trnc!Content(Path[t]) = Trnc!Wanted(t)
                    /\ \/ Trnc!CopyBackFailed(t)
                       \/ \E name \in {Path[t], frame[t].tmp} \cap DOMAIN dir :
                            Trnc!IsPrefix(Trnc!Wanted(t), Trnc!Content(name))
  BY DEF Trnc!TruncateExact, Trnc!BytesKept
<1>1. Disk(dir, data) /\ TrncFrame(frame[t]) /\ Stage(t, frame[t], dir, data)
  BY TrncHere
<1>2. Trnc!Wanted(t) = Asked(t, frame[t])
  BY DEF Trnc!Wanted, Asked, First, Original
<1>3. Trnc!At(t, "done") /\ frame[t].ret = 0
        => Trnc!Exists(Path[t]) /\ Trnc!Content(Path[t]) = Trnc!Wanted(t)
  BY <1>1, <1>2 DEF Trnc!At, Trnc!Exists, Trnc!Content, Stage, Done, Holds
<1>4. PICK w, o : w = Asked(t, frame[t]) /\ o = Original(t) /\ w \in Seq(Nat) /\ o \in Seq(Nat)
  BY <1>1, AskedIs
<1>5. Trnc!IsPrefix(w, w) /\ Trnc!IsPrefix(w, o)
  <2>1. PICK n \in Nat : n <= Len(o) /\ w = First(o, n)
    <3>1. PICK q \in Nat : q = frame[t].asked
      BY <1>1 DEF TrncFrame
    <3>2. First(o, Len(o)) = o
      BY <1>4 DEF First
    <3>3. (q <= Len(o) => w = First(o, q)) /\ (q >= Len(o) => w = o)
      BY <1>1, <1>4, <3>1, AskedIs
    <3>4. Len(o) \in Nat
      BY <1>4
    <3> QED
      BY <3>2, <3>3, <3>4
  <2>2. Len(w) = n
    BY <1>4, <2>1, FirstIs
  <2>3. SubSeq(w, 1, n) = w
    BY <1>4, <2>2
  <2> QED
    BY <1>4, <2>1, <2>2, <2>3 DEF Trnc!IsPrefix, First
<1>6. \/ frame[t].pc \in {"unlinktmp", "done"} /\ frame[t].count = -1 /\ frame[t].length = 0
      \/ Holds(dir, data, Path[t], o) \/ Holds(dir, data, Path[t], w)
      \/ Holds(dir, data, frame[t].tmp, w)
  BY <1>1, <1>4 DEF TrncFrame, Stage, Before, Out, Ready, Back, Over, Done
<1>7. \/ Trnc!CopyBackFailed(t)
      \/ \E name \in {Path[t], frame[t].tmp} \cap DOMAIN dir :
           Trnc!IsPrefix(Trnc!Wanted(t), Trnc!Content(name))
  BY <1>2, <1>4, <1>5, <1>6 DEF Trnc!CopyBackFailed, Trnc!Content, Holds
<1> QED
  BY <1>3, <1>7

(* A truncate that answers 0 has left exactly the bytes asked for under    *)
(* the name, whichever calls to the host failed (ind_trnc.c).              *)
THEOREM ServicesTruncate ==
  ASSUME CallerAssumption PROVE AllSpec => []TruncateExact
<1>1. AllInit => OnlyTrnc
  BY OnlyTrncInit
<1>2. OnlyTrnc /\ [AllNext]_all => OnlyTrnc'
  BY OnlyTrncNext
<1>3. OnlyTrnc => TruncateExact
  BY TrncHolds DEF OnlyTrnc, TruncateExact
<1> QED
  BY <1>1, <1>2, <1>3, PTL DEF AllSpec

(* The bytes asked for are never lost before the copy back itself fails.   *)
THEOREM ServicesBytesKept ==
  ASSUME CallerAssumption PROVE AllSpec => []BytesKept
<1>1. AllInit => OnlyTrnc
  BY OnlyTrncInit
<1>2. OnlyTrnc /\ [AllNext]_all => OnlyTrnc'
  BY OnlyTrncNext
<1>3. OnlyTrnc => BytesKept
  BY TrncHolds DEF OnlyTrnc, BytesKept
<1> QED
  BY <1>1, <1>2, <1>3, PTL DEF AllSpec
=============================================================================
