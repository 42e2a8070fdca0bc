------------------------------- MODULE MCVTnd -------------------------------
(* VTnd with a few requests. *)
EXTENDS VTnd
=============================================================================
