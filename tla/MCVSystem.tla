------------------------------ MODULE MCVSystem -----------------------------
(* VSystem with two commands. *)
EXTENDS VSystem

CONSTANTS c1, c2
=============================================================================
