------------------------------- MODULE MCData -------------------------------
(***************************************************************************)
(* Five parts of the library that share no state: the pool allocator,      *)
(* logging, allocators, compressed files and the console.  A behaviour is  *)
(* one of one of them, chosen in the initial state.                        *)
(***************************************************************************)
EXTENDS VMemPool, VLog, VMem, VFs, VConsole, TLC

CONSTANTS c1, c2, n1, n2, t1, t2, p1, b1, f

(* Levels of each kind, legal and not. *)
MCValue == {-1, 5, 6, 7, 9}

(* Pools of 3 to 8 blocks.  With the thresholds of the cfg, 4 and 8 are    *)
(* obtained in fourths (extents of one and of two blocks), 5 in fifths, 6  *)
(* is large but divides by neither, 3 is too small to be split, and size 1 *)
(* keeps a pool of 4 below SplitBytes.                                     *)
MCNrElems == {3, 4, 5, 6, 8}
MCSizes == {1, 3}

(* Bound: of a pool of 8, at most MaxFree blocks are free at a time once   *)
(* its first extent is in use: all orders of release among these are       *)
(* explored, not the 8! orders of the whole pool.                          *)
MaxFree == 4
FewFree == max = 8 => Len(free) <= MaxFree

(* Bound: with a pool, one change of options and callbacks less. *)
MCChanges == changes + Cardinality({p \in Pool : life[p] # "none"}) <= MaxChanges

VARIABLE part

dataVars == <<part, listVars, vars, memVars, fsVars, consoleVars>>

DataInit ==
    /\ part \in {"pool", "log", "mem", "fs", "console"}
    /\ ListInit /\ Init /\ MemInit /\ FsInit /\ ConsoleInit

PoolPart == ListNext /\ FewFree' /\ UNCHANGED <<vars, memVars, fsVars, consoleVars>>
LogPart == Next /\ UNCHANGED <<listVars, memVars, fsVars, consoleVars>>
MemPart == MemNext /\ MCChanges' /\ UNCHANGED <<listVars, vars, fsVars, consoleVars>>
FsPart == FsNext /\ UNCHANGED <<listVars, vars, memVars, consoleVars>>
ConsolePart == ConsoleNext /\ UNCHANGED <<listVars, vars, memVars, fsVars>>

DataNext ==
    /\ UNCHANGED part
    /\ \/ part = "pool" /\ PoolPart
       \/ part = "log" /\ LogPart
       \/ part = "mem" /\ MemPart
       \/ part = "fs" /\ FsPart
       \/ part = "console" /\ ConsolePart

DataSpec == DataInit /\ [][DataNext]_dataVars

(* The log modules and their clients are interchangeable, and so are the   *)
(* threads that use allocators.                                            *)
Symmetry == Permutations({c1, c2}) \cup Permutations({n1, n2}) \cup Permutations({t1, t2})
=============================================================================
