------------------------------ MODULE MCVTimer ------------------------------
(* VTimer with up to three timers and one descriptor. *)
EXTENDS VTimer

CONSTANTS t1, t2, t3, f1
=============================================================================
