------------------------------ MODULE VSignal ------------------------------
(***************************************************************************)
(* Signals (src/vsignal.c): callbacks of threads for non-fatal signals,    *)
(* called by way of the self-pipe and the loops of the threads, the        *)
(* default callback that ends the process, fatal signals and abort.        *)
(*                                                                         *)
(* Each thread runs a loop; Main called vsignal_init and reads the pipe.   *)
(* The critical sections of mtx are one step each.                         *)
(***************************************************************************)
EXTENDS Naturals, Sequences

CONSTANTS SigThread, Main,
          Signal,       \* non-fatal signals whose default ends a process
          Defaulted,    \* those that vsignal_init registers itself
          Fatal,        \* fatal signals
          SIGABRT,
          PipeLen,      \* how many siginfo_t the pipe holds
          MaxCalls      \* bound: events that wait in a thread's loop

ASSUME SignalAssumption ==
    /\ Main \in SigThread /\ SIGABRT \in Fatal /\ Defaulted \subseteq Signal
    /\ PipeLen \in Nat \ {0} /\ MaxCalls \in Nat \ {0}

NoUser == [cb |-> "NULL", ctxt |-> Main, evbase |-> Main]
Killer == "log_error_and_call_system_default_handler"

VARIABLES
    users,              \* the registration of each signal
    handler,            \* how the system handles each signal
    selfpipe,           \* the signals in the pipe, and if it is the one followed
    calls,              \* per thread, the events in its loop
    pending,            \* per thread, what it does between two steps
    abort_expected,
    records,            \* error records were printed
    children,           \* child processes run
    process,            \* running, or how it ended
    owed                \* history: what became of one signal that is followed

signalVars == <<users, handler, selfpipe, calls, pending, abort_expected,
                records, children, process, owed>>

None == [what |-> "none"]
Settled == [what |-> "settled"]
Owed(s, t) == [what |-> "owed", s |-> s, t |-> t]

SignalInit ==
    /\ users = [s \in Signal |->
           IF s \in Defaulted THEN [cb |-> Killer, ctxt |-> Main, evbase |-> Main]
           ELSE NoUser]
    /\ handler = [s \in Signal \cup Fatal |->
           IF s \in Defaulted \cup Fatal THEN "ours" ELSE "default"]
    /\ selfpipe = <<>>
    /\ calls = [t \in SigThread |-> <<>>]
    /\ pending = [t \in SigThread |-> None]
    /\ abort_expected = FALSE /\ records = FALSE /\ children = TRUE
    /\ process = "running"
    /\ owed = None

Does(t, p) == pending' = [pending EXCEPT ![t] = p]
-----------------------------------------------------------------------------
(* Variant: the default callback does without our handler. *)
RegistersUsers(t, s, cb) ==
    /\ users' = [users EXCEPT ![s] = [cb |-> cb, ctxt |-> t, evbase |-> t]]
    /\ handler' = IF cb = Killer THEN handler ELSE [handler EXCEPT ![s] = "ours"]

(* vsignal_register, where no callback is registered. *)
Registers(t, s, cb) ==
    /\ users' = [users EXCEPT ![s] = [cb |-> cb, ctxt |-> t, evbase |-> t]]
    /\ handler' = [handler EXCEPT ![s] = "ours"]

Register(t, s) ==
    /\ pending[t] = None
    /\ users[s].cb = "NULL"
    /\ Registers(t, s, "user")
    /\ UNCHANGED <<selfpipe, calls, pending, abort_expected, records, children, process, owed>>

(* History: nobody waits for it any more. *)
Settles(s) == owed' = IF owed.what = "owed" /\ owed.s = s THEN Settled ELSE owed

(* vsignal_deregister: the system's handler stays. *)
Deregister(t, s) ==
    /\ pending[t] = None
    /\ users' = [users EXCEPT ![s] = NoUser]
    /\ Settles(s)
    /\ UNCHANGED <<handler, selfpipe, calls, pending, abort_expected, records, children, process>>

(* vsignal_reset_default: deregister, then register, which may fail. *)
ResetDefault(t, s) ==
    /\ pending[t] = None
    /\ users' = [users EXCEPT ![s] = NoUser]
    /\ Settles(s)
    /\ Does(t, [what |-> "reset", s |-> s])
    /\ UNCHANGED <<handler, selfpipe, calls, abort_expected, records, children, process>>

ResetRegisters(t) ==
    /\ pending[t].what = "reset"
    /\ IF users[pending[t].s].cb = "NULL"
       THEN Registers(t, pending[t].s, Killer)
       ELSE UNCHANGED <<users, handler>>
    /\ Does(t, None)
    /\ UNCHANGED <<selfpipe, calls, abort_expected, records, children, process, owed>>
-----------------------------------------------------------------------------
(* A signal that is raised: nonfatal_signal_handler writes it to the pipe, *)
(* unless that is full.  One signal of a behaviour is followed.            *)
Raised(s, end, followed) ==
    IF handler[s] = "default"
    THEN /\ process' = end
         /\ UNCHANGED <<selfpipe, records, owed>>
    ELSE IF Len(selfpipe) < PipeLen
    THEN /\ selfpipe' = Append(selfpipe, <<s, followed>>)
         /\ owed' = IF followed THEN Owed(s, users[s].ctxt) ELSE owed
         /\ UNCHANGED <<process, records>>
    ELSE /\ records' = TRUE
         /\ UNCHANGED <<selfpipe, process, owed>>

(* ... from anywhere, or by vsignal_raise. *)
Raise(s) ==
    /\ \E followed \in {FALSE, owed = None /\ users[s].cb = "user"} : Raised(s, "ended", followed)
    /\ UNCHANGED <<users, handler, calls, pending, abort_expected, children>>

(* Variant: the event goes to the loop that reads the pipe. *)
BaseOfReader(user) == Main

BaseOf(user) == user.evbase

(* Variant: the pipe is read empty. *)
NothingLeft(q) == <<>>

LeftInPipe(q) == Tail(q)

(* selfpipe_cb and send_signal_event: an event for the registered callback *)
(* in the loop of its thread, with the callback and its context.           *)
SelfPipe ==
    /\ pending[Main] = None
    /\ selfpipe # <<>>
    /\ LET s == Head(selfpipe)[1]  user == users[s]
       IN  IF user.cb = "NULL" THEN UNCHANGED calls
           ELSE /\ Len(calls[BaseOf(user)]) < MaxCalls
                /\ calls' = [calls EXCEPT ![BaseOf(user)] =
                       Append(@, [s |-> s, cb |-> user.cb, ctxt |-> user.ctxt,
                               followed |-> Head(selfpipe)[2]])]
    /\ selfpipe' = LeftInPipe(selfpipe)
    /\ UNCHANGED <<users, handler, pending, abort_expected, records, children, process, owed>>

(* signal_cb: the default callback stops the children, writes an error     *)
(* record and restores the system's handler ...                            *)
SignalCb(t) ==
    /\ pending[t] = None
    /\ calls[t] # <<>>
    /\ calls' = [calls EXCEPT ![t] = Tail(@)]
    /\ LET c == Head(calls[t])
       IN  IF c.cb = Killer
           THEN /\ children' = FALSE /\ records' = TRUE
                /\ handler' = [handler EXCEPT ![c.s] = "default"]
                /\ Does(t, [what |-> "raise", s |-> c.s])
                /\ UNCHANGED owed
           ELSE /\ owed' = IF c.followed THEN Settled ELSE owed
                /\ UNCHANGED <<children, records, handler, pending>>
    /\ UNCHANGED <<users, selfpipe, abort_expected, process>>

(* ... and raises the signal again. *)
RaiseAgain(t) ==
    /\ pending[t].what = "raise"
    /\ Raised(pending[t].s, "ended by handler", FALSE)
    /\ Does(t, None)
    /\ UNCHANGED <<users, handler, calls, abort_expected, children>>
-----------------------------------------------------------------------------
(* vsignal_abort and abort *)
Abort(t) ==
    /\ pending[t] = None
    /\ abort_expected' = TRUE /\ records' = TRUE
    /\ Does(t, [what |-> "fatal", s |-> SIGABRT])
    /\ UNCHANGED <<users, handler, selfpipe, calls, children, process, owed>>

(* A thread gets a fatal signal. *)
Faults(t, f) ==
    /\ pending[t].what \in {"none", "reset", "raise"}
    /\ Does(t, [what |-> "fatal", s |-> f])
    /\ UNCHANGED <<users, handler, selfpipe, calls, abort_expected, records, children, process, owed>>

(* Variant: every SIGABRT is taken for an expected one. *)
AnyAbort(f) == f = SIGABRT

Expected(f) == f = SIGABRT /\ abort_expected

(* fatal_signal_handler, which SA_RESETHAND runs once per signal: the      *)
(* record, the children, and the signal again.  A second thread with the   *)
(* same signal ends the process in between.                                *)
FatalHandler(t) ==
    /\ pending[t].what = "fatal"
    /\ LET f == pending[t].s
       IN  IF handler[f] = "default"
           THEN /\ process' = "ended"
                /\ UNCHANGED <<handler, records, children, pending, owed>>
           ELSE /\ handler' = [handler EXCEPT ![f] = "default"]
                /\ records' = (records \/ ~Expected(f))
                /\ Does(t, [what |-> "stop", s |-> f])
                /\ UNCHANGED <<children, process, owed>>
    /\ UNCHANGED <<users, selfpipe, calls, abort_expected>>

FatalStops(t) ==
    /\ pending[t].what = "stop"
    /\ children' = FALSE
    /\ process' = "ended by handler"
    /\ UNCHANGED <<users, handler, selfpipe, calls, pending, abort_expected, records, owed>>

SignalNext ==
    /\ process = "running"
    /\ \/ \E s \in Signal : Raise(s) \/ \E t \in SigThread :
             Register(t, s) \/ Deregister(t, s) \/ ResetDefault(t, s)
       \/ SelfPipe
       \/ \E t \in SigThread :
             \/ ResetRegisters(t) \/ SignalCb(t) \/ RaiseAgain(t)
             \/ Abort(t) \/ FatalHandler(t) \/ FatalStops(t)
             \/ \E f \in Fatal : Faults(t, f)

(* A thread goes on with what it has begun, and each cycle of its loop     *)
(* comes to the events that are due, whatever else the thread does.        *)
SignalFairness ==
    /\ SF_signalVars(process = "running" /\ SelfPipe)
    /\ \A t \in SigThread :
          /\ SF_signalVars(process = "running" /\ SignalCb(t))
          /\ WF_signalVars(process = "running" /\
                 (ResetRegisters(t) \/ RaiseAgain(t) \/ FatalHandler(t) \/ FatalStops(t)))

SignalSpec == SignalInit /\ [][SignalNext]_signalVars
-----------------------------------------------------------------------------
(* Whoever restores the system's handler to end the process: as long as    *)
(* nobody is about to, a signal that has a callback has our handler.       *)
HandlerReady ==
    \A s \in Signal : users[s].cb # "NULL" =>
        \/ handler[s] = "ours"
        \/ process # "running"
        \/ \E t \in SigThread : \/ pending[t].what \in {"fatal", "stop"}
                                \/ pending[t] = [what |-> "raise", s |-> s]

(* "The user callback is called in the context of the event loop of the    *)
(* thread that registered the callback" (60), also when another thread has *)
(* registered one since.                                                   *)
CalledAtHome ==
    \A t \in SigThread : \A i \in 1..Len(calls[t]) : calls[t][i].ctxt = t

(* "An error record is generated inside the signal handler, unless the     *)
(* signal was expected" (51), and no children are left.                    *)
EndIsOrderly == process = "ended by handler" => records /\ ~children

(* A signal that comes while a thread's callback is registered is followed *)
(* by a call, unless it is deregistered or the pipe is full.               *)
SignalsServed ==
    owed.what = "owed" ~> owed = Settled \/ process # "running"
=============================================================================
