-------------------------------- MODULE VSem --------------------------------
(***************************************************************************)
(* Semaphores (src/vsem.c): an eventfd that the loops of several threads   *)
(* wait for, each wait being a pending event of VEvent that may also be    *)
(* cancelled or time out.                                                  *)
(*                                                                         *)
(* A loop finds the eventfd readable in one step and calls eventfd_cb in a *)
(* later one.  Callers free a semaphore when nobody waits for it or uses   *)
(* it ("Make sure no one is waiting on it before doing that", vsem.h:36).  *)
(***************************************************************************)
EXTENDS Naturals, FiniteSets, VEvent

CONSTANTS MaxVal        \* bound: how many units a semaphore gets

ASSUME SemAssumption == MaxVal \in Nat

VARIABLES
    sem,                \* whether it is in sem_list
    val,                \* the counter of the eventfd
    waiting,            \* waits whose context exists
    added,              \* those whose libevent event is in the loop
    ready,              \* those that their loop found readable
    given,              \* history: initial value and posts
    acquired,           \* history: waits that took a unit
    reports             \* history: how often each wait's callback was called

semVars == <<sem, val, waiting, added, ready, given, acquired, reports, event>>

SemInit ==
    /\ EventInit
    /\ sem = FALSE /\ val = 0
    /\ waiting = {} /\ added = {} /\ ready = {}
    /\ given = 0 /\ acquired = {}
    /\ reports = [w \in Owner |-> 0]
-----------------------------------------------------------------------------
(* vsem_new, which may fail and then leaves nothing. *)
SemNew ==
    /\ ~sem
    /\ \E v \in 0..MaxVal :
          /\ sem' = TRUE /\ val' = v
          /\ given' = v
    /\ acquired' = {}
    /\ UNCHANGED <<waiting, added, ready, reports, event>>

SemFree ==
    /\ sem /\ waiting = {}
    /\ sem' = FALSE /\ val' = 0
    /\ UNCHANGED <<waiting, added, ready, given, acquired, reports, event>>

(* vsem_wait: what was made is freed when the rest fails. *)
SemWait(w) ==
    /\ sem /\ event[w] = "free" /\ w \notin waiting
    /\ EventNew(w)
    /\ waiting' = waiting \cup {w} /\ added' = added \cup {w}
    /\ acquired' = acquired \ {w} /\ given' = IF w \in acquired THEN given - 1 ELSE given
    /\ reports' = [reports EXCEPT ![w] = 0]
    /\ UNCHANGED <<sem, val, ready>>

SemPost ==
    /\ sem /\ given < MaxVal
    /\ val' = val + 1 /\ given' = given + 1
    /\ UNCHANGED <<sem, waiting, added, ready, acquired, reports, event>>

(* finish_sem_wait: the event leaves the loop, also where it is ready, and *)
(* the callback is called.                                                 *)
Finish(w) ==
    /\ waiting' = waiting \ {w} /\ added' = added \ {w} /\ ready' = ready \ {w}
    /\ reports' = [reports EXCEPT ![w] = @ + 1]

(* The loop of w finds the eventfd readable. *)
Readable(w) ==
    /\ w \in added \ ready
    /\ val > 0
    /\ ready' = ready \cup {w}
    /\ UNCHANGED <<sem, val, waiting, added, given, acquired, reports, event>>

(* Variant: what the read returned is not looked at. *)
TakesUnread(w) ==
    /\ val' = IF val > 0 THEN val - 1 ELSE 0
    /\ EventDelete(w) /\ Finish(w)
    /\ acquired' = acquired \cup {w}

(* Variant: the pending event is not deleted. *)
TakesKeepingEvent(w) ==
    IF val > 0
    THEN /\ val' = val - 1
         /\ Finish(w)
         /\ acquired' = acquired \cup {w}
         /\ UNCHANGED event
    ELSE ready' = ready \ {w} /\ UNCHANGED <<val, waiting, added, acquired, reports, event>>

(* Variant: the event is not persistent. *)
TakesTransient(w) ==
    IF val > 0
    THEN /\ val' = val - 1
         /\ EventDelete(w) /\ Finish(w)
         /\ acquired' = acquired \cup {w}
    ELSE /\ ready' = ready \ {w} /\ added' = added \ {w}
         /\ UNCHANGED <<val, waiting, acquired, reports, event>>

(* eventfd_cb: another loop may have been faster. *)
Takes(w) ==
    IF val > 0
    THEN /\ val' = val - 1
         /\ EventDelete(w) /\ Finish(w)
         /\ acquired' = acquired \cup {w}
    ELSE ready' = ready \ {w} /\ UNCHANGED <<val, waiting, added, acquired, reports, event>>

EventfdCb(w) == w \in ready /\ Takes(w) /\ UNCHANGED <<sem, given>>

(* The user sets a timeout or cancels. *)
SemTimeout(w) ==
    EventSetTimeout(w) /\ UNCHANGED <<sem, val, waiting, added, ready, given, acquired, reports>>
SemCancel(w) ==
    EventCancel(w) /\ UNCHANGED <<sem, val, waiting, added, ready, given, acquired, reports>>

(* sem_wait_cancel *)
SemWaitCancel(w) ==
    /\ \E reason \in {"timeout", "cancel"} : EventFires(w, reason)
    /\ Finish(w)
    /\ UNCHANGED <<sem, val, given, acquired>>

SemNext ==
    \/ SemNew \/ SemFree \/ SemPost
    \/ \E w \in Owner :
          \/ SemWait(w) \/ Readable(w) \/ EventfdCb(w)
          \/ SemTimeout(w) \/ SemCancel(w) \/ SemWaitCancel(w)

SemSpec == SemInit /\ [][SemNext]_semVars

(* Every loop polls and calls what is ready. *)
SemFairness == \A w \in Owner : WF_semVars(Readable(w)) /\ WF_semVars(EventfdCb(w))
-----------------------------------------------------------------------------
(* No unit is taken twice or lost, however many loops are woken for it and *)
(* whichever waits are cancelled meanwhile.                                *)
UnitsExact == sem => val + Cardinality(acquired) = given

(* Every wait that ended called its callback once and left no event that   *)
(* could call it again; one that did not can still be ended.               *)
EndsOnce ==
    \A w \in Owner :
        IF w \in waiting THEN reports[w] = 0 /\ event[w] # "free"
        ELSE reports[w] <= 1 /\ event[w] = "free"

(* No wait stays while units do: a loop that was too late for one is woken *)
(* for the next.                                                           *)
UnitsUsed == \A w \in Owner : (val > 0 /\ w \in waiting) ~> (val = 0 \/ w \notin waiting)
=============================================================================
