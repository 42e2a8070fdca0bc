-------------------------------- MODULE VTnd --------------------------------
(***************************************************************************)
(* The queue of debug commands (src/vtnd.c).  The console and command      *)
(* files write requests to one end of a pair of bufferevents; the read     *)
(* callback at the other end executes them.  A command may take its        *)
(* context (vtnd_get_context) and be finished later, by the client or by   *)
(* the overall timeout; until then reading is disabled.                    *)
(*                                                                         *)
(* All runs in the thread of one event loop (VLoop): in the phase          *)
(* "actions" the actions of the drain run, in the phase "events" libevent  *)
(* runs callbacks, among them the read callback, which libevent defers.    *)
(***************************************************************************)
EXTENDS FiniteSets, SequencesExt

CONSTANTS Request,          \* debug commands
          LateAnswers,      \* clients also answer after the overall timeout
          EnqueueAnywhere   \* clients enqueue in actions and in commands too

NoRequest == "none"

ASSUME TndAssumption ==
    /\ LateAnswers \in BOOLEAN /\ EnqueueAnywhere \in BOOLEAN
    /\ NoRequest \notin Request

VARIABLES
    phase,      \* what the event loop is doing
    helper,     \* buffer_event_cb_read_helper is on the stack
    output,     \* output buffer of vdbg_bev[0]
    input,      \* input buffer of vdbg_bev[1]
    reading,    \* EV_READ of vdbg_bev[1] is enabled
    readcb,     \* the read callback is deferred and pending
    action,     \* action_pending: none, new (next drain) or due (this drain)
    async,      \* commands whose context was taken and not finished
    held,       \* contexts that clients hold and will finish
    timers,     \* requests whose overall timeout runs
    timer,      \* the request of overall_timeout_timer
    enqueued,   \* history: the requests in the order of vtnd_req_enqueue
    started,    \* history: the requests in the order of their execution
    touched,    \* history: a context was used after its memory was freed
    oom         \* history: an allocation has failed

queueVars   == <<output, input, reading, readcb>>
contextVars == <<async, held, timers, timer, touched>>
history     == <<enqueued, started>>
tndVars        == <<phase, helper, queueVars, action, contextVars, history, oom>>
-----------------------------------------------------------------------------
(* vtnd_req_queue_init, before the loop runs. *)
TndInit ==
    /\ phase = "events" /\ helper = FALSE
    /\ output = <<>> /\ input = <<>> /\ reading = TRUE /\ readcb = FALSE
    /\ action = "none"
    /\ async = {} /\ held = {} /\ timers = {} /\ timer = NoRequest
    /\ enqueued = <<>> /\ started = <<>>
    /\ touched = FALSE /\ oom = FALSE

(* libevent moves what was written to the other end if that end reads, and *)
(* schedules its read callback.                                            *)
Transfer(out, enabled) ==
    IF enabled /\ out # <<>>
    THEN output' = <<>> /\ input' = input \o out /\ readcb' = TRUE
    ELSE output' = out /\ UNCHANGED <<input, readcb>>

(* vtnd_req_enqueue, from the read callback of the console or vtnd_file.   *)
Enqueue(r) ==
    /\ r \notin ToSet(enqueued)
    /\ EnqueueAnywhere \/ (phase = "events" /\ ~helper)
    /\ Transfer(Append(output, r), reading)
    /\ enqueued' = Append(enqueued, r)
    /\ UNCHANGED <<phase, helper, reading, action, contextVars, started, oom>>

(* Variant: the pending action survives. *)
ReadKeepsAction ==
    /\ phase = "events" /\ ~helper
    /\ readcb
    /\ readcb' = FALSE
    /\ helper' = TRUE
    /\ UNCHANGED <<phase, output, input, reading, action, contextVars, history, oom>>

(* buffer_event_cb_read: the pending action is cancelled. *)
Read ==
    /\ phase = "events" /\ ~helper
    /\ readcb
    /\ readcb' = FALSE
    /\ action' = "none"
    /\ helper' = TRUE
    /\ UNCHANGED <<phase, output, input, reading, contextVars, history, oom>>

(* proceed_next_cmd *)
Proceed ==
    /\ phase = "actions" /\ ~helper
    /\ action = "due"
    /\ action' = "none"
    /\ helper' = TRUE
    /\ UNCHANGED <<phase, queueVars, contextVars, history, oom>>
-----------------------------------------------------------------------------
(* buffer_event_cb_read_helper, one round of its loop each: nothing is     *)
(* left to read; no memory for the request, which stays in the buffer; a   *)
(* command that completes; a command that takes its context.               *)
HelperReturns ==
    /\ helper
    /\ \/ input = <<>> /\ UNCHANGED oom
       \/ oom' = TRUE
    /\ helper' = FALSE
    /\ UNCHANGED <<phase, queueVars, action, contextVars, history>>

ReadRequest ==
    /\ helper
    /\ input # <<>>
    /\ input' = Tail(input)
    /\ started' = Append(started, Head(input))

SyncCommand ==
    /\ ReadRequest
    /\ UNCHANGED <<phase, helper, output, reading, readcb, action, contextVars,
                   enqueued, oom>>

(* vtnd_get_context: reading stops and the overall timeout starts, unless  *)
(* its timer cannot be created.                                            *)
AsyncCommand ==
    /\ ReadRequest
    /\ LET r == Head(input) IN
          /\ async' = async \cup {r}
          /\ held' = held \cup {r}
          /\ \/ timer' = r /\ timers' = timers \cup {r} /\ UNCHANGED oom
             \/ timer' = NoRequest /\ oom' = TRUE /\ UNCHANGED timers
    /\ reading' = FALSE
    /\ helper' = FALSE
    /\ UNCHANGED <<phase, output, readcb, action, touched, enqueued>>
-----------------------------------------------------------------------------
(* Variants: reading is enabled but nobody looks at the buffer; the timer  *)
(* is left running.                                                        *)
FinishNoAction(r, running, t) ==
    /\ touched' = (touched \/ r \notin async)
    /\ async' = async \ {r}
    /\ reading' = TRUE
    /\ Transfer(output, TRUE)
    /\ timers' = running \ {t}
    /\ timer' = NoRequest
    /\ UNCHANGED <<action, oom>>

FinishKeepsTimer(r, running, t) ==
    /\ touched' = (touched \/ r \notin async)
    /\ async' = async \ {r}
    /\ reading' = TRUE
    /\ Transfer(output, TRUE)
    /\ timers' = running
    /\ timer' = NoRequest
    /\ action' = IF action = "none" THEN "new" ELSE action
    /\ UNCHANGED oom

(* vtnd_finish_context of a context whose memory is r, when the timers     *)
(* running are running and overall_timeout_timer is t.                     *)
FinishContext(r, running, t) ==
    /\ touched' = (touched \/ r \notin async)
    /\ async' = async \ {r}
    /\ reading' = TRUE
    /\ Transfer(output, TRUE)
    /\ timers' = running \ {t}
    /\ timer' = NoRequest
    /\ \/ action' = (IF action = "none" THEN "new" ELSE action) /\ UNCHANGED oom
       \/ action = "none" /\ UNCHANGED action /\ oom' = TRUE

(* The client finishes a command in some callback of its own. *)
ClientFinishes(r) ==
    /\ ~helper
    /\ r \in held
    /\ LateAnswers \/ r \in async
    /\ held' = held \ {r}
    /\ FinishContext(r, timers, timer)
    /\ UNCHANGED <<phase, helper, history>>

(* overall_timeout *)
OverallTimeout(r) ==
    /\ phase = "events" /\ ~helper
    /\ r \in timers
    /\ FinishContext(r, timers \ {r}, NoRequest)
    /\ UNCHANGED <<phase, helper, held, history>>
-----------------------------------------------------------------------------
(* The loop (event_process_loop): the drain ends when the actions that     *)
(* were due have run, and libevent returns when no callback is pending.    *)
EndOfActions ==
    /\ phase = "actions" /\ ~helper
    /\ action # "due"
    /\ phase' = "events"
    /\ UNCHANGED <<helper, queueVars, action, contextVars, history, oom>>

EndOfEvents ==
    /\ phase = "events" /\ ~helper
    /\ ~readcb
    /\ phase' = "actions"
    /\ action' = IF action = "new" THEN "due" ELSE action
    /\ UNCHANGED <<helper, queueVars, contextVars, history, oom>>

LoopStep ==
    \/ Read \/ Proceed
    \/ HelperReturns \/ SyncCommand \/ AsyncCommand
    \/ EndOfActions \/ EndOfEvents

TndNext ==
    \/ LoopStep
    \/ \E r \in Request : Enqueue(r) \/ ClientFinishes(r) \/ OverallTimeout(r)

TndSpec == TndInit /\ [][TndNext]_tndVars

(* The loop runs, and a timer that runs fires.                             *)
TndFairness ==
    /\ WF_tndVars(LoopStep)
    /\ \A r \in Request : SF_tndVars(OverallTimeout(r))

TndFairSpec == TndSpec /\ TndFairness
-----------------------------------------------------------------------------
(* The values of the variables. *)
TndTypeOK ==
    /\ phase \in {"actions", "events"} /\ helper \in BOOLEAN
    /\ output \in Seq(Request) /\ input \in Seq(Request)
    /\ reading \in BOOLEAN /\ readcb \in BOOLEAN
    /\ action \in {"none", "new", "due"}
    /\ async \in SUBSET Request /\ held \in SUBSET Request
    /\ timers \in SUBSET Request /\ timer \in Request \cup {NoRequest}
    /\ enqueued \in Seq(Request) /\ started \in Seq(Request)
    /\ touched \in BOOLEAN /\ oom \in BOOLEAN

(* Requests are executed once each, in the order in which they were        *)
(* enqueued, and none is lost between the two bufferevents.                *)
ServedInOrder == started \o input \o output = enqueued

(* "only 1 command is processed at the same time" (vtnd.c:636-639), "all   *)
(* additional input will be suspended until the vtnd_finish_context        *)
(* operation is called" (vtnd.h:171-172).                                  *)
OneCommand == started' # started => async = {}
InputSuspended == [][OneCommand]_tndVars

(* A request that can be read has somebody who will read it: the deferred  *)
(* callback, the action of vtnd_finish_context or the loop already going   *)
(* on (557-560), unless memory ran out.                                    *)
NoLostWakeup ==
    /\ input # <<>> /\ async = {} => helper \/ readcb \/ action # "none" \/ oom
    /\ async = {} => reading /\ output = <<>>

(* Every context is finished once: vtnd_finish_context never works on a    *)
(* request whose memory has been given back.                               *)
ContextsAlive == ~touched

(* The overall timeout guards the command in progress and nothing else.    *)
TimersGuard == timers \subseteq async /\ timers = {timer} \ {NoRequest}

(* While a command is in progress nobody reads, and whoever reads does so  *)
(* alone: the read callback has cancelled the action, and an action that   *)
(* is due runs before libevent can call the read callback.                 *)
OneReader ==
    /\ async # {} => /\ \E r \in Request : async = {r}
                     /\ ~reading /\ ~readcb /\ ~helper /\ action = "none"
    /\ helper => ~readcb /\ action = "none"
    /\ action = "due" => phase = "actions" /\ ~readcb

(* All of it together is inductive, with the clients the header allows.    *)
TndInv ==
    /\ TndTypeOK /\ ServedInOrder /\ NoLostWakeup /\ ContextsAlive /\ TimersGuard
    /\ OneReader

(* Every request is executed, even if clients never finish a command: the  *)
(* overall timeout does, as long as memory suffices.                       *)
AllServed ==
    \A r \in Request : r \in ToSet(enqueued) ~> (r \in ToSet(started) \/ oom)
=============================================================================
