----------------------------- MODULE MCCallCount -----------------------------
(* Two threads and three functions. *)
EXTENDS CallCount

CONSTANTS t1, t2, f1, f2, f3
MCThread == {t1, t2}
MCFunc   == {f1, f2, f3}
ByOne    == [f \in MCFunc |-> IF f = f3 THEN {t2} ELSE {t1}]
=============================================================================
