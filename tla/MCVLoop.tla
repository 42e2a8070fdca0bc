------------------------------- MODULE MCVLoop -------------------------------
(* VLoop with a few actions and descriptors. *)
EXTENDS VLoop
=============================================================================
