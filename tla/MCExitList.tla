----------------------------- MODULE MCExitList -----------------------------
(* Three threads and three nodes.  Running "counts" joins "graph": mon.out is
   written with functions that are compiled for the call graph. *)
EXTENDS ExitList

MCHandler == {"counts", "graph", "blocks"}

CONSTANTS t1, t2, t3
MCThread == {t1, t2, t3}

(* One thread is the first to need each node, and "graph" is needed only when
   "counts" runs. *)
OneEach == [h \in MCHandler |-> CASE h = "counts" -> {t1} [] h = "blocks" -> {t2}
                               [] OTHER -> {}]

MCLate  == [h \in MCHandler |-> IF h = "counts" THEN "graph" ELSE Null]

ASSUME OneFirst
=============================================================================
