----------------------------- MODULE MCCallGraph -----------------------------
(* Two call sites that share an index of the hash table, one with an index of
   its own and one outside the profiled text. *)
EXTENDS CallGraph

MCTails   == {1, 2, 3, 4}
MCBuckets == {0, 1}
MCHashOf  == [t \in MCTails |-> CASE t \in {1, 2} -> 0 [] t = 3 -> 1 [] OTHER -> 9]
=============================================================================
