------------------------------ MODULE VTimers -------------------------------
(***************************************************************************)
(* What export/vtimer.h promises of timers: the callback of a one-shot     *)
(* timer is called once, that of a periodic timer any number of times, one *)
(* callback at a time, and never after the timer was deleted.              *)
(***************************************************************************)
CONSTANT Timer

VARIABLES life,         \* none, periodic, oneshot or expired
          calling       \* a callback is running

vars == <<life, calling>>

Init ==
    /\ life = [t \in Timer |-> "none"]
    /\ calling = FALSE

Start(t, kind) ==
    /\ life[t] = "none"
    /\ life' = [life EXCEPT ![t] = kind]
    /\ UNCHANGED calling

Call(t) ==
    /\ ~calling
    /\ life[t] \in {"periodic", "oneshot"}
    /\ life' = [life EXCEPT ![t] = IF @ = "oneshot" THEN "expired" ELSE @]
    /\ calling' = TRUE

Return ==
    /\ calling
    /\ calling' = FALSE
    /\ UNCHANGED life

Delete(t) ==
    /\ life[t] # "none"
    /\ life' = [life EXCEPT ![t] = "none"]
    /\ UNCHANGED calling

Next ==
    \/ Return
    \/ \E t \in Timer :
          \/ \E kind \in {"periodic", "oneshot"} : Start(t, kind)
          \/ Call(t)
          \/ Delete(t)

Spec == Init /\ [][Next]_vars
=============================================================================
