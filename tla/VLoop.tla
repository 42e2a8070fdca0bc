-------------------------------- MODULE VLoop --------------------------------
(***************************************************************************)
(* The event loop of one thread (src/vloop.c): event_process_loop          *)
(* alternates vloop_action_process with one pass of libevent over the file *)
(* descriptors.  All state is thread local, so the only interleaving is    *)
(* between the loop, the callback it is executing (which may call back     *)
(* into vloop) and the kernel, which makes descriptors ready.              *)
(*                                                                         *)
(* A handle of vloop_add_fd holds up to two libevent events, one for each  *)
(* direction; an event is a pair <<handle, direction>>.  Every event has a *)
(* priority: libevent runs the highest one that has active events, asks    *)
(* the kernel again without blocking while lower ones are left, and        *)
(* returns to the loop when nothing is active any more.                    *)
(***************************************************************************)
EXTENDS VList

CONSTANTS Action,       \* addresses of actions
          Handle,       \* addresses of event handles of the application
          OnDemand,     \* the handle of the on-demand event of vloop_init
          NPrio         \* number of priorities, 0 is the highest

ASSUME HandleAssumption == OnDemand \notin Handle
ASSUME NPrioAssumption == NPrio \in Nat \ {0}

Dir      == {"read", "write"}
Event    == (Handle \cup {OnDemand}) \X Dir
Priority == 0..NPrio - 1
(* event_new: the priority of an event for which none is set.              *)
DefaultPrio == NPrio \div 2
(* vloop_fd_event_t: READ, WRITE and READ_AND_WRITE *)
FdType == (SUBSET Dir) \ {{}}
EventsOf(h, type) == {h} \X type

VARIABLES
    pc,             \* where event_process_loop is
    running,        \* the callback on the stack
    nonblock,       \* EVLOOP_NONBLOCK is set in flags
    action_list,    \* vloop_info_t.action_list
    local_list,     \* the list on the stack of vloop_action_process
    live,           \* actions whose memory is allocated
    fresh,          \* history: actions created since the drain began
    handles,        \* events each handle owns ({}: handle not allocated)
    added,          \* events added to the event base
    ready,          \* added events whose condition holds
    active,         \* libevent's queues of activated events
    prio,           \* the priority of each event
    turn            \* the priority libevent is dispatching (-1: none)

loopVars   == <<pc, running, nonblock>>
actionVars == <<action_list, local_list, live, fresh>>
eventVars  == <<handles, added, ready, active, prio, turn>>
vars       == <<loopVars, actionVars, eventVars>>

queue == local_list \o action_list
-----------------------------------------------------------------------------
(* vloop_main has initialised the loop and calls vloop_app_init; vloop_init *)
(* may have failed to register the on-demand event, which it gives the     *)
(* highest priority.                                                       *)
Init ==
    /\ pc = "init"
    /\ running = "app_init"
    /\ nonblock = FALSE
    /\ action_list = <<>> /\ local_list = <<>>
    /\ live = {} /\ fresh = {}
    /\ added \in {{}, EventsOf(OnDemand, {"read"})}
    /\ handles = [h \in Handle \cup {OnDemand} |-> IF h = OnDemand THEN added ELSE {}]
    /\ prio = [e \in Event |-> IF e[1] = OnDemand THEN 0 ELSE DefaultPrio]
    /\ ready = {} /\ active = {} /\ turn = -1

Callback == running # "none"

(* Variant: the new action joins the drain in progress. *)
CreateActionInDrain(a) ==
    /\ Callback
    /\ a \notin live
    /\ live' = live \cup {a}
    /\ IF pc = "drain"
       THEN local_list' = Append(local_list, a) /\ UNCHANGED action_list
       ELSE action_list' = Append(action_list, a) /\ UNCHANGED local_list
    /\ fresh' = fresh \cup {a}
    /\ UNCHANGED <<loopVars, eventVars>>

(* vloop_action_create, for the loop's own thread. *)
CreateAction(a) ==
    /\ Callback
    /\ a \notin live
    /\ live' = live \cup {a}
    /\ action_list' = Append(action_list, a)
    /\ fresh' = fresh \cup {a}
    /\ UNCHANGED <<loopVars, local_list, eventVars>>

(* vloop_action_delete: vlist_delete takes the action out of the list it   *)
(* is in, if any.                                                          *)
DeleteAction(a) ==
    /\ Callback
    /\ a \in live
    /\ live' = live \ {a}
    /\ action_list' = Unlink(action_list, a)
    /\ local_list' = Unlink(local_list, a)
    /\ fresh' = fresh \ {a}
    /\ UNCHANGED <<loopVars, eventVars>>
-----------------------------------------------------------------------------
(* event_new and event_free: an event starts with the default priority,    *)
(* and nothing is remembered of an event that is gone.                     *)
ResetPrio(h) ==
    prio' = [e \in Event |-> IF e[1] = h THEN DefaultPrio ELSE prio[e]]

(* vloop_add_fd.  When memory runs out the parts obtained are given back.  *)
AddFd(h, type) ==
    /\ Callback
    /\ handles[h] = {}
    /\ handles' = [handles EXCEPT ![h] = EventsOf(h, type)]
    /\ ResetPrio(h)
    /\ UNCHANGED <<loopVars, actionVars, added, ready, active, turn>>

(* vloop_set_read_event_prio, vloop_set_write_event_prio: event_priority_set *)
(* refuses an event that is active and a priority that does not exist.     *)
SetPrio(e, p) ==
    /\ Callback
    /\ e \in handles[e[1]]
    /\ e \notin active
    /\ prio' = [prio EXCEPT ![e] = p]
    /\ UNCHANGED <<loopVars, actionVars, handles, added, ready, active, turn>>

(* event_del: the event is not watched and not activated any more. *)
EventDel(E) ==
    /\ added' = added \ E
    /\ ready' = ready \ E
    /\ active' = active \ E

(* vloop_enable_cb.  If the second event_add fails, the first is undone.   *)
EnableCb(h, type) ==
    /\ Callback
    /\ EventsOf(h, type) \subseteq handles[h]
    /\ added' = added \cup EventsOf(h, type)
    /\ UNCHANGED <<loopVars, actionVars, handles, ready, active, prio, turn>>

EnableCbFails(h) ==
    /\ Callback
    /\ EventsOf(h, Dir) \subseteq handles[h]
    /\ EventDel({<<h, "read">>})
    /\ UNCHANGED <<loopVars, actionVars, handles, prio, turn>>

(* vloop_disable_cb; with a direction the handle lacks it changes nothing, *)
(* since READ_AND_WRITE is checked first.                                  *)
DisableCb(h, type) ==
    /\ Callback
    /\ EventsOf(h, type) \subseteq handles[h]
    /\ EventDel(EventsOf(h, type))
    /\ UNCHANGED <<loopVars, actionVars, handles, prio, turn>>

(* Variant: only the read event is deleted. *)
RemoveFdKeepsWrite(h) ==
    /\ Callback
    /\ handles[h] # {}
    /\ EventDel(EventsOf(h, {"read"}))
    /\ handles' = [handles EXCEPT ![h] = {}]
    /\ ResetPrio(h)
    /\ UNCHANGED <<loopVars, actionVars, turn>>

(* vloop_remove_fd *)
RemoveFd(h) ==
    /\ Callback
    /\ handles[h] # {}
    /\ EventDel(handles[h])
    /\ handles' = [handles EXCEPT ![h] = {}]
    /\ ResetPrio(h)
    /\ UNCHANGED <<loopVars, actionVars, turn>>

(* The callback, or vloop_app_init, returns to the loop. *)
Return ==
    /\ Callback
    /\ running' = "none"
    /\ pc' = IF pc = "init" THEN "process" ELSE pc
    /\ UNCHANGED <<nonblock, actionVars, eventVars>>

(* vloop_app_init does not return VAPI_SUCCESS. *)
InitFails ==
    /\ pc = "init"
    /\ pc' = "exit"
    /\ running' = "none"
    /\ UNCHANGED <<nonblock, actionVars, eventVars>>
-----------------------------------------------------------------------------
(* vloop_action_process: the whole list moves to the stack, or there is    *)
(* nothing to do.                                                          *)
Process ==
    /\ pc = "process"
    /\ fresh' = {}
    /\ \/ /\ action_list = <<>>
          /\ pc' = "poll"
          /\ nonblock' = FALSE
          /\ UNCHANGED <<action_list, local_list>>
       \/ /\ action_list # <<>>
          /\ pc' = "drain"
          /\ local_list' = action_list
          /\ action_list' = <<>>
          /\ UNCHANGED nonblock
    /\ UNCHANGED <<running, live, eventVars>>

(* Variant: the youngest action is taken. *)
RunYoungest ==
    /\ pc = "drain"
    /\ running = "none"
    /\ local_list # <<>>
    /\ local_list' = Front(local_list)
    /\ running' = "action"
    /\ UNCHANGED <<pc, nonblock, action_list, live, fresh, eventVars>>

(* The head is unlinked before its callback runs. *)
RunAction ==
    /\ pc = "drain"
    /\ running = "none"
    /\ local_list # <<>>
    /\ local_list' = Tail(local_list)
    /\ running' = "action"
    /\ UNCHANGED <<pc, nonblock, action_list, live, fresh, eventVars>>

(* Variants: actions created by actions do not keep the loop awake; they   *)
(* are all run before libevent is asked.                                   *)
DrainedMayBlock ==
    /\ pc = "drain"
    /\ running = "none"
    /\ local_list = <<>>
    /\ pc' = "poll"
    /\ nonblock' = FALSE
    /\ UNCHANGED <<running, actionVars, eventVars>>

DrainedAgain ==
    /\ pc = "drain"
    /\ running = "none"
    /\ local_list = <<>>
    /\ pc' = IF action_list = <<>> THEN "poll" ELSE "process"
    /\ UNCHANGED <<running, nonblock, actionVars, eventVars>>

(* The return value decides whether libevent may block. *)
Drained ==
    /\ pc = "drain"
    /\ running = "none"
    /\ local_list = <<>>
    /\ pc' = "poll"
    /\ nonblock' = (action_list # <<>>)
    /\ UNCHANGED <<running, actionVars, eventVars>>

(* event_base_loop(EVLOOP_ONCE) collects what is ready: without NONBLOCK   *)
(* it waits until something is, unless events are left from before.  The   *)
(* highest priority that has active events gets its turn.                  *)
Poll ==
    /\ pc = "poll"
    /\ added # {}
    /\ ready # {} \/ active # {} \/ nonblock
    /\ pc' = "dispatch"
    /\ active' = active \cup ready
    /\ ready' = {}
    /\ \/ active' = {} /\ turn' = -1
       \/ \E e \in active' : /\ \A f \in active' : prio[e] <= prio[f]
                            /\ turn' = prio[e]
    /\ UNCHANGED <<running, nonblock, actionVars, handles, added, prio>>

(* event_base_loop returns 1: no event is registered at all. *)
PollEmpty ==
    /\ pc = "poll"
    /\ added = {}
    /\ pc' = "exit"
    /\ UNCHANGED <<running, nonblock, actionVars, eventVars>>

(* event_base_loop returns -1: the backend failed. *)
PollFails ==
    /\ pc = "poll"
    /\ pc' = "exit"
    /\ UNCHANGED <<running, nonblock, actionVars, eventVars>>

(* vloop_cb invokes the callback of an active event whose turn it is.      *)
Dispatch(e) ==
    /\ pc = "dispatch"
    /\ running = "none"
    /\ e \in active
    /\ prio[e] = turn
    /\ active' = active \ {e}
    /\ running' = "event"
    /\ UNCHANGED <<pc, nonblock, actionVars, handles, added, ready, prio, turn>>

(* The turn of a priority is over: libevent polls again if events of lower *)
(* ones are active, else event_base_loop returns 0 and the loop goes round. *)
Dispatched ==
    /\ pc = "dispatch"
    /\ running = "none"
    /\ \A e \in active : prio[e] # turn
    /\ pc' = IF active = {} THEN "process" ELSE "poll"
    /\ turn' = -1
    /\ UNCHANGED <<running, nonblock, actionVars, handles, added, ready, active, prio>>

(* The kernel: the condition of a watched event becomes true; for the      *)
(* on-demand event, another thread has written to its pipe.                *)
FdReady(e) ==
    /\ pc # "exit"
    /\ e \in added \ ready
    /\ ready' = ready \cup {e}
    /\ UNCHANGED <<loopVars, actionVars, handles, added, active, prio, turn>>
-----------------------------------------------------------------------------
CallbackStep ==
    \/ \E a \in Action : CreateAction(a) \/ DeleteAction(a)
    \/ \E h \in Handle : \/ \E type \in FdType : \/ AddFd(h, type)
                                                 \/ EnableCb(h, type)
                                                 \/ DisableCb(h, type)
                         \/ EnableCbFails(h)
                         \/ RemoveFd(h)
                         \/ \E d \in Dir, p \in Priority : SetPrio(<<h, d>>, p)

LoopStep ==
    \/ Return
    \/ Process
    \/ RunAction
    \/ Drained
    \/ Poll
    \/ PollEmpty
    \/ \E e \in Event : Dispatch(e)
    \/ Dispatched

Environment ==
    \/ InitFails
    \/ PollFails
    \/ \E e \in Event : FdReady(e)

Next == CallbackStep \/ LoopStep \/ Environment

Spec == Init /\ [][Next]_vars

(* Callbacks return and the thread runs its loop; nothing is assumed of    *)
(* the kernel, of other threads or of what callbacks call.                 *)
FairSpec == Spec /\ WF_vars(LoopStep)
-----------------------------------------------------------------------------
TypeOK ==
    /\ pc \in {"init", "process", "drain", "poll", "dispatch", "exit"}
    /\ running \in {"none", "app_init", "action", "event"}
    /\ nonblock \in BOOLEAN
    /\ action_list \in Seq(Action) /\ local_list \in Seq(Action)
    /\ live \in SUBSET Action /\ fresh \in SUBSET Action
    /\ handles \in [Handle \cup {OnDemand} -> SUBSET Event]
    /\ added \in SUBSET Event /\ ready \in SUBSET Event /\ active \in SUBSET Event
    /\ prio \in [Event -> Priority] /\ turn \in Priority \cup {-1}

(* Both lists together hold an action at most once, and only actions whose *)
(* memory is allocated: vloop_action_delete (208-215) leaves no freed node *)
(* behind, in whichever list the action was when it was deleted.           *)
QueueSound ==
    /\ \A i, j \in 1..Len(queue) : queue[i] = queue[j] => i = j
    /\ ToSet(queue) \subseteq live

(* The loop blocks only when no action is pending (542-547); while events  *)
(* of a lower priority are left libevent does not block.                   *)
NoSleepWithWork ==
    pc = "poll" /\ ~nonblock /\ active = {} => queue = <<>>

(* Only what belongs to an allocated handle and is enabled is watched or   *)
(* activated: no callback runs for a removed or disabled descriptor, even  *)
(* when that happens in the pass that had already activated it (494-523).  *)
NoStaleEvent ==
    /\ ready \subseteq added
    /\ active \subseteq added
    /\ \A e \in added : e \in handles[e[1]]

(* No event waits behind one of a lower priority: the turn belongs to the  *)
(* highest priority that is active, whatever priorities the callbacks of   *)
(* that turn set (334-342).                                                *)
HighestFirst ==
    pc = "dispatch" => \A e \in active : turn <= prio[e]

(* Which callback can be on the stack at which point of the loop, and      *)
(* which actions a drain still has to run.                                 *)
Control ==
    /\ running = "app_init" <=> pc = "init"
    /\ running = "action" => pc = "drain"
    /\ running = "event" => pc = "dispatch"
    /\ pc # "drain" => local_list = <<>>
    /\ fresh \cap ToSet(local_list) = {}

(* The inductive invariant.                                                *)
IInv ==
    /\ TypeOK /\ Control
    /\ QueueSound /\ NoSleepWithWork
    /\ NoStaleEvent /\ HighestFirst

(* "called once before executing the next cycle" (vloop.h:256) and not in  *)
(* the drain in which it was created (226-229): an action that starts is   *)
(* older than the drain.                                                   *)
OldActionsOnly == running' = "action" /\ running = "none" => Head(local_list) \notin fresh
NextCycle == [][OldActionsOnly]_vars

Queue == INSTANCE VActionQueue WITH executing <- (running = "action")

(* The two lists implement one first-in first-out queue of actions.        *)
QueueSpec == Queue!Spec

(* libevent polls again while events are left, and an event of a higher    *)
(* priority than one of them is ready: it overtakes that one.              *)
Overtaken ==
    /\ pc = "poll"
    /\ \E e \in ready, f \in active : prio[e] < prio[f]

(* Every pending action is run or deleted, even if no descriptor becomes   *)
(* ready any more, unless the loop ends or events of a higher priority     *)
(* overtake others for ever, which keeps the loop in libevent.             *)
ActionsServed ==
    <>[]~Overtaken =>
    \A a \in Action : a \in ToSet(queue) ~> (a \notin ToSet(queue) \/ pc = "exit")

(* Actions that keep creating actions do not starve the descriptors: what  *)
(* is ready is dispatched, or its event is deleted, unless overtaking goes *)
(* on for ever; an event of the highest priority is dispatched in any case. *)
EventsServed ==
    /\ \A e \in Event :
          /\ e \in ready ~> (e \notin ready \/ pc = "exit")
          /\ e \in active /\ prio[e] = 0 ~> (e \notin active \/ pc = "exit")
    /\ <>[]~Overtaken =>
       \A e \in Event : e \in active ~> (e \notin active \/ pc = "exit")
=============================================================================
