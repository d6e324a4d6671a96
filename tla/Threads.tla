------------------------------ MODULE Threads ------------------------------
(***************************************************************************)
(* The threads that meet at the locks of ind_lockcpp.c, and the identity   *)
(* that none of them has (THREAD_ID_NIL, where the system has one).        *)
(***************************************************************************)

CONSTANTS Thread, NoThread

ASSUME ThreadAssumption == NoThread \notin Thread
=============================================================================
