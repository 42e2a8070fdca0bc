----------------------------- MODULE MCVTndText -----------------------------
(* VTndText with two names, which modules and commands share. *)
EXTENDS VTndText, TLC

CONSTANTS a, b, c1, c2

Symmetry == Permutations({a, b}) \cup Permutations({c1, c2})
=============================================================================
