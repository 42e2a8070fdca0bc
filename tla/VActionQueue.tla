---------------------------- MODULE VActionQueue ----------------------------
(***************************************************************************)
(* What export/vloop.h promises of actions: postponed callbacks of one     *)
(* thread run one at a time, in the order of their creation, once each,    *)
(* and a deleted action does not run.                                      *)
(***************************************************************************)
EXTENDS Integers, Sequences

CONSTANT Action

VARIABLES queue,        \* the pending actions, oldest first
          live,         \* the actions whose memory is allocated
          executing     \* an action callback is running

vars == <<queue, live, executing>>

Init == queue = <<>> /\ live = {} /\ executing = FALSE

CreateAction(a) ==
    /\ a \notin live
    /\ live' = live \cup {a}
    /\ queue' = Append(queue, a)
    /\ UNCHANGED executing

(* A pending action is taken out of the queue; one that has run only loses *)
(* its memory.                                                             *)
DeleteAction(a) ==
    /\ a \in live
    /\ live' = live \ {a}
    /\ \/ \E i \in 1..Len(queue) :
             /\ queue[i] = a
             /\ queue' = SubSeq(queue, 1, i - 1) \o SubSeq(queue, i + 1, Len(queue))
       \/ /\ \A i \in 1..Len(queue) : queue[i] # a
          /\ UNCHANGED queue
    /\ UNCHANGED executing

Run ==
    /\ ~executing
    /\ queue # <<>>
    /\ Head(queue) \in live
    /\ queue' = Tail(queue)
    /\ executing' = TRUE
    /\ UNCHANGED live

Finish ==
    /\ executing
    /\ executing' = FALSE
    /\ UNCHANGED <<queue, live>>

Next ==
    \/ \E a \in Action : CreateAction(a) \/ DeleteAction(a)
    \/ Run
    \/ Finish

Spec == Init /\ [][Next]_vars
=============================================================================
