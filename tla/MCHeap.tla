------------------------------- MODULE MCHeap -------------------------------
(* Two threads on a heap of nine bytes that starts at an odd address. *)
EXTENDS Heap

ASSUME RequestsFit
=============================================================================
