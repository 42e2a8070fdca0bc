------------------------------ MODULE MCEvents ------------------------------
(***************************************************************************)
(* Four parts of the library that a loop is called by and that share no    *)
(* state: signals, semaphores, on-demand events and debug commands.  A     *)
(* behaviour is one of one of them, chosen in the initial state.           *)
(***************************************************************************)
EXTENDS VTndText, VSignal, VSem, VDemand

CONSTANTS a, b, c1, t1, t2, usr1, abrt, segv, w1, w2, w3

VARIABLE part

eventsVars == <<part, vars, signalVars, semVars, demandVars>>

EventsInit ==
    /\ part \in {"text", "signal", "sem", "demand"}
    /\ Init /\ SignalInit /\ SemInit /\ DemandInit

EventsNext ==
    /\ UNCHANGED part
    /\ \/ part = "text"   /\ Next       /\ UNCHANGED <<signalVars, semVars, demandVars>>
       \/ part = "signal" /\ SignalNext /\ UNCHANGED <<vars, semVars, demandVars>>
       \/ part = "sem"    /\ SemNext    /\ UNCHANGED <<vars, signalVars, demandVars>>
       \/ part = "demand" /\ DemandNext /\ UNCHANGED <<vars, signalVars, semVars>>

EventsSpec ==
    /\ EventsInit /\ [][EventsNext]_eventsVars
    /\ SignalFairness /\ SemFairness
=============================================================================
