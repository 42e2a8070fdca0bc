------------------------------- MODULE VEvent -------------------------------
(***************************************************************************)
(* Registrations for pending events (src/vevent.c): a callback that is     *)
(* called when a timeout expires or when the upper layer cancels, unless   *)
(* the layer below deletes the event because what was awaited happened.    *)
(* The cancel callback is postponed by an action of the event loop.        *)
(***************************************************************************)
CONSTANT Owner          \* who creates events; each owns at most one

(* free: no memory; idle: neither timer nor action; timer: a timeout runs; *)
(* cancel: the cancel action is pending.                                   *)
EventState == {"free", "idle", "timer", "cancel"}

VARIABLE event          \* the state of each owner's event

EventInit == event = [o \in Owner |-> "free"]

(* vevent_new *)
EventNew(o) ==
    /\ event[o] = "free"
    /\ event' = [event EXCEPT ![o] = "idle"]

(* vevent_set_timeout: a running timeout is replaced; when the new timer   *)
(* cannot be created, none is left.  A cancelled event refuses.            *)
EventSetTimeout(o) ==
    \/ /\ event[o] \in {"idle", "timer"}
       /\ \E s \in {"timer", "idle"} : event' = [event EXCEPT ![o] = s]
    \/ /\ event[o] = "cancel"
       /\ UNCHANGED event

(* Variant: a running timeout is not deleted. *)
EventCancelKeepsTimer(o) ==
    \/ /\ event[o] = "idle"
       /\ \E s \in {"cancel", "idle"} : event' = [event EXCEPT ![o] = s]
    \/ /\ event[o] \in {"timer", "cancel"}
       /\ UNCHANGED event

(* vevent_cancel: the timeout is deleted, and the action created unless    *)
(* memory runs out.  A second call does nothing.                           *)
EventCancel(o) ==
    \/ /\ event[o] \in {"idle", "timer"}
       /\ \E s \in {"cancel", "idle"} : event' = [event EXCEPT ![o] = s]
    \/ /\ event[o] = "cancel"
       /\ UNCHANGED event

(* vevent_delete, for an event that may be NULL: timer and action go too.  *)
EventDelete(o) == event' = [event EXCEPT ![o] = "free"]

(* timeout_cb and action_cancel_cb: the event is deleted before its        *)
(* callback is called with the reason.                                     *)
EventFires(o, reason) ==
    /\ \/ reason = "timeout" /\ event[o] = "timer"
       \/ reason = "cancel"  /\ event[o] = "cancel"
    /\ EventDelete(o)
=============================================================================
