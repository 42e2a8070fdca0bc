------------------------------ MODULE VSystem -------------------------------
(***************************************************************************)
(* Commands run in child processes (src/vsystem.c).  The kernel announces  *)
(* the end of children with SIGCHLD, which reaches the event loop through  *)
(* the self-pipe of src/vsignal.c; the handler then asks about every       *)
(* command of g_commands.  Each command owns an event (VEvent), handed to  *)
(* the client to set a timeout or cancel, that kills the child.            *)
(*                                                                         *)
(* Commands are started, and all callbacks run, in the thread of one event *)
(* loop; children, the kernel and the signal handler run at any moment.    *)
(***************************************************************************)
EXTENDS Naturals, VList, VEvent

CONSTANTS Extended,     \* commands started by vsystem_exec_extend
          WithOutput,   \* commands with a callback for their output
          PipeCap,      \* signals the self-pipe holds
          UseUntilTold  \* clients use the event until on_terminate is called

ASSUME SystemAssumption ==
    /\ Extended \subseteq Owner /\ WithOutput \subseteq Owner
    /\ PipeCap \in Nat \ {0}
    /\ UseUntilTold \in BOOLEAN
    /\ "none" \notin Owner

Cmd == Owner
NoCmd == "none"
Code == {"exit", "notrun", "signal"}    \* main returned, exec failed, killed

VARIABLES
    proc,       \* none, running, zombie, reaped or stolen
    code,       \* how the process ended
    commands,   \* g_commands
    data_event, \* the read event of the pipe exists
    event_reason, told,
    sigchld,    \* SIGCHLD is pending in the kernel
    selfpipe,   \* signals in the self-pipe
    posted,     \* events of send_signal_event for _sigchld_handler
    stack,      \* loop, reap (_sigchld_handler) or client (its callbacks)
    todo,       \* commands _sigchld_handler has not visited
    current,    \* the command in _terminate
    asked, dropped, dangling    \* history

procVars   == <<proc, code>>
cmdVars    == <<commands, data_event, event_reason, told>>
signalVars == <<sigchld, selfpipe, posted, dropped>>
stackVars  == <<stack, todo, current>>
vars == <<procVars, cmdVars, signalVars, stackVars, event, asked, dangling>>
-----------------------------------------------------------------------------
(* vsystem_init *)
Init ==
    /\ proc = [c \in Cmd |-> "none"]
    /\ code = [c \in Cmd |-> "exit"]
    /\ commands = <<>>
    /\ data_event = [c \in Cmd |-> FALSE]
    /\ event_reason = [c \in Cmd |-> "occured"]
    /\ told = [c \in Cmd |-> "nothing"]
    /\ sigchld = FALSE /\ selfpipe = <<>> /\ posted = 0 /\ dropped = FALSE
    /\ stack = "loop" /\ todo = <<>> /\ current = NoCmd
    /\ EventInit
    /\ asked = [c \in Cmd |-> "nothing"]
    /\ dangling = FALSE

InCallback == stack \in {"loop", "client"}

(* vsystem_exec1 and vsystem_exec_extend.                                  *)
(* From a callback of _sigchld_handler the new command is visited in the   *)
(* same pass, unless the handler is at the last one: vlist_foreach has     *)
(* already fetched the next node.                                          *)
Exec(c) ==
    /\ InCallback
    /\ proc[c] = "none"
    /\ proc' = [proc EXCEPT ![c] = "running"]
    /\ data_event' = [data_event EXCEPT ![c] = c \in WithOutput]
    /\ EventNew(c)
    /\ commands' = Append(commands, c)
    /\ todo' = IF Len(todo) > 1 THEN Append(todo, c) ELSE todo
    /\ UNCHANGED <<code, event_reason, told, signalVars, stack, current, asked,
                   dangling>>

(* The client uses the handle vsystem_exec returned.  Its memory may be    *)
(* gone already.                                                           *)
MayUse(c) ==
    /\ InCallback
    /\ proc[c] # "none"
    /\ event[c] # "free" \/ (UseUntilTold /\ told[c] = "nothing")

Use(c, what, Operation) ==
    /\ MayUse(c)
    /\ IF event[c] = "free"
       THEN dangling' = TRUE /\ UNCHANGED event
       ELSE Operation /\ UNCHANGED dangling
    /\ asked' = [asked EXCEPT ![c] = IF event[c] = "cancel" THEN @ ELSE what]
    /\ UNCHANGED <<procVars, cmdVars, signalVars, stackVars>>

SetTimeout(c) == Use(c, "timeout", EventSetTimeout(c))
Cancel(c)     == Use(c, "cancel", EventCancel(c))

(* _timeout_handler, as the callback of the event: the child is killed     *)
(* (KillEnds) and its end will be reported with this reason.               *)
TimeoutHandler(c, reason) ==
    /\ stack = "loop"
    /\ EventFires(c, reason)
    /\ event_reason' = [event_reason EXCEPT ![c] = reason]
    /\ UNCHANGED <<procVars, commands, data_event, told, signalVars, stackVars,
                   asked, dangling>>

(* _data_handler at the end of file, which a child may reach before it     *)
(* ends: the read event is freed.  (Reading output changes nothing but the *)
(* output.)                                                                *)
DataHandler(c) ==
    /\ stack = "loop"
    /\ data_event[c]
    /\ data_event' = [data_event EXCEPT ![c] = FALSE]
    /\ UNCHANGED <<procVars, commands, event_reason, told, signalVars, stackVars,
                   event, asked, dangling>>
-----------------------------------------------------------------------------
(* The child and the kernel. *)
ChildEnds(c, k) ==
    /\ proc[c] = "running"
    /\ proc' = [proc EXCEPT ![c] = "zombie"]
    /\ code' = [code EXCEPT ![c] = k]
    /\ sigchld' = TRUE
    /\ UNCHANGED <<cmdVars, selfpipe, posted, dropped, stackVars, event, asked,
                   dangling>>

(* The SIGKILL of _timeout_handler. *)
KillEnds(c) == event_reason[c] # "occured" /\ ChildEnds(c, "signal")

(* Other code of the process waits for any child. *)
Stolen(c) ==
    /\ proc[c] = "zombie"
    /\ proc' = [proc EXCEPT ![c] = "stolen"]
    /\ code' = [code EXCEPT ![c] = "exit"]
    /\ UNCHANGED <<cmdVars, signalVars, stackVars, event, asked, dangling>>

(* nonfatal_signal_handler: a signal that finds the pipe full is dropped.  *)
(* That matters when no other notice of ended children is in the pipe, and *)
(* until the next one.                                                     *)
Chld == "SIGCHLD"
Signalled == Chld \in ToSet(selfpipe) \/ posted > 0

SignalHandler ==
    /\ sigchld
    /\ sigchld' = FALSE
    /\ \/ /\ Len(selfpipe) < PipeCap
          /\ selfpipe' = Append(selfpipe, Chld)
          /\ dropped' = FALSE
       \/ /\ Len(selfpipe) = PipeCap
          /\ dropped' = (dropped \/ Chld \notin ToSet(selfpipe))
          /\ UNCHANGED selfpipe
    /\ UNCHANGED <<procVars, cmdVars, posted, stackVars, event, asked, dangling>>

OtherSignal ==
    /\ Len(selfpipe) < PipeCap
    /\ selfpipe' = Append(selfpipe, "other")
    /\ UNCHANGED <<procVars, cmdVars, sigchld, posted, dropped, stackVars, event,
                   asked, dangling>>
-----------------------------------------------------------------------------
(* selfpipe_cb reads one signal and posts an event to the loop. *)
SelfpipeCb ==
    /\ stack = "loop"
    /\ selfpipe # <<>>
    /\ selfpipe' = Tail(selfpipe)
    /\ posted' = IF Head(selfpipe) = Chld THEN posted + 1 ELSE posted
    /\ UNCHANGED <<procVars, cmdVars, sigchld, dropped, stackVars, event, asked,
                   dangling>>

(* Variant: only the first command is visited, as if one SIGCHLD stood for *)
(* one child.                                                              *)
SigchldHandlerFirst ==
    /\ stack = "loop"
    /\ posted > 0
    /\ posted' = posted - 1
    /\ stack' = "reap"
    /\ todo' = SubSeq(commands, 1, 1)
    /\ UNCHANGED <<procVars, cmdVars, sigchld, selfpipe, dropped, current, event,
                   asked, dangling>>

(* signal_cb calls _sigchld_handler. *)
SigchldHandler ==
    /\ stack = "loop"
    /\ posted > 0
    /\ posted' = posted - 1
    /\ stack' = "reap"
    /\ todo' = commands
    /\ UNCHANGED <<procVars, cmdVars, sigchld, selfpipe, dropped, current, event,
                   asked, dangling>>

(* waitpid: no change of state; no such child, the command is unlinked.    *)
WaitOther ==
    /\ stack = "reap"
    /\ todo # <<>>
    /\ LET c == Head(todo) IN
          \/ /\ proc[c] = "running"
             /\ UNCHANGED commands
          \/ /\ proc[c] = "stolen"
             /\ commands' = Unlink(commands, c)
    /\ todo' = Tail(todo)
    /\ UNCHANGED <<procVars, data_event, event_reason, told, signalVars, stack,
                   current, event, asked, dangling>>

(* The reason given to on_terminate: exit status 127 means that the        *)
(* program did not run.  The child of vsystem_exec_extend exits with errno *)
(* instead.                                                                *)
ExitReason(c) ==
    IF code[c] = "signal" \/ (code[c] = "notrun" /\ c \notin Extended)
    THEN "failure" ELSE "occured"

Reason(c) ==
    IF event_reason[c] # "occured" THEN event_reason[c] ELSE ExitReason(c)

(* Variant: the command stays in the list. *)
ReapKeepsLinked ==
    /\ stack = "reap"
    /\ todo # <<>>
    /\ LET c == Head(todo) IN
          /\ proc[c] = "zombie"
          /\ proc' = [proc EXCEPT ![c] = "reaped"]
          /\ data_event' = [data_event EXCEPT ![c] = FALSE]
          /\ told' = [told EXCEPT ![c] = Reason(c)]
          /\ current' = c
    /\ stack' = "client"
    /\ UNCHANGED <<code, commands, event_reason, signalVars, todo, event, asked,
                   dangling>>

(* The command is unlinked and _terminate reads the pipe once more, closes *)
(* it and calls on_terminate.                                              *)
Reap ==
    /\ stack = "reap"
    /\ todo # <<>>
    /\ LET c == Head(todo) IN
          /\ proc[c] = "zombie"
          /\ proc' = [proc EXCEPT ![c] = "reaped"]
          /\ commands' = Unlink(commands, c)
          /\ data_event' = [data_event EXCEPT ![c] = FALSE]
          /\ told' = [told EXCEPT ![c] = Reason(c)]
          /\ current' = c
    /\ stack' = "client"
    /\ UNCHANGED <<code, event_reason, signalVars, todo, event, asked,
                   dangling>>

(* on_terminate returns: the event and the command are freed. *)
Terminated ==
    /\ stack = "client"
    /\ EventDelete(current)
    /\ event_reason' = [event_reason EXCEPT ![current] = "occured"]
    /\ code' = [code EXCEPT ![current] = "exit"]
    /\ asked' = [asked EXCEPT ![current] = "nothing"]
    /\ stack' = "reap"
    /\ todo' = Tail(todo)
    /\ current' = NoCmd
    /\ UNCHANGED <<proc, commands, data_event, told, signalVars, dangling>>

HandlerReturns ==
    /\ stack = "reap"
    /\ todo = <<>>
    /\ stack' = "loop"
    /\ UNCHANGED <<procVars, cmdVars, signalVars, todo, current, event, asked,
                   dangling>>
-----------------------------------------------------------------------------
LoopStep ==
    \/ SelfpipeCb \/ SigchldHandler \/ WaitOther \/ Reap \/ Terminated
    \/ HandlerReturns

ClientStep(c) ==
    \/ Exec(c)
    \/ SetTimeout(c)
    \/ Cancel(c)

EventFiresStep(c) ==
    \E reason \in {"timeout", "cancel"} : TimeoutHandler(c, reason)

ChildStep(c) ==
    \/ \E k \in Code : ChildEnds(c, k)
    \/ Stolen(c)

Next ==
    \/ LoopStep
    \/ SignalHandler
    \/ OtherSignal
    \/ \E c \in Cmd : 
        \/ ClientStep(c)
        \/ EventFiresStep(c)
        \/ DataHandler(c)
        \/ ChildStep(c)
        \/ KillEnds(c)

Spec == Init /\ [][Next]_vars

(* The loop runs its callbacks, the kernel delivers signals, a timer that  *)
(* the client does not postpone for ever fires and a child that was killed *)
(* ends.  SF: other callbacks of the loop run in between.                  *)
FairSpec ==
    /\ Spec
    /\ WF_vars(SignalHandler)
    /\ SF_vars(SelfpipeCb)
    /\ SF_vars(SigchldHandler)
    /\ WF_vars(WaitOther \/ Reap \/ Terminated \/ HandlerReturns)
    /\ \A c \in Cmd :
          SF_vars(EventFiresStep(c)) /\ WF_vars(KillEnds(c))
-----------------------------------------------------------------------------
(* The values of the variables. *)
TypeOK ==
    /\ proc \in [Cmd -> {"none", "running", "zombie", "reaped", "stolen"}]
    /\ code \in [Cmd -> Code]
    /\ commands \in Seq(Cmd) /\ todo \in Seq(Cmd)
    /\ data_event \in [Cmd -> BOOLEAN]
    /\ event_reason \in [Cmd -> {"occured", "timeout", "cancel"}]
    /\ told \in [Cmd -> {"nothing", "occured", "failure", "timeout", "cancel"}]
    /\ sigchld \in BOOLEAN /\ selfpipe \in Seq({Chld, "other"})
    /\ posted \in Nat /\ dropped \in BOOLEAN
    /\ stack \in {"loop", "reap", "client"}
    /\ current \in Cmd \cup {NoCmd}
    /\ event \in [Owner -> EventState]
    /\ asked \in [Cmd -> {"nothing", "timeout", "cancel"}]
    /\ dangling \in BOOLEAN

Unreaped(c) == proc[c] \in {"running", "zombie", "stolen"}

(* Nothing that can still fire points to a command that was freed, and no  *)
(* timeout or cancellation kills a process id that waitpid has released    *)
(* (226-236), except after ECHILD, when the command is only unlinked.      *)
EventsOwned ==
    \A c \in Cmd :
        /\ event[c] # "free" => Unreaped(c) \/ c = current
        /\ data_event[c] => Unreaped(c)

(* g_commands holds exactly the children that waitpid has not released,    *)
(* and those waited for by others until the next SIGCHLD.                  *)
ListExact ==
    /\ \A i, j \in 1..Len(commands) : commands[i] = commands[j] => i = j
    /\ \A c \in Cmd : proc[c] \in {"running", "zombie"} => c \in ToSet(commands)
    /\ \A c \in ToSet(commands) : proc[c] \in {"running", "zombie", "stolen"}

(* A child that has ended is noticed although SIGCHLDs merge (135-153) and *)
(* children end while the handler is going through the list, unless other  *)
(* signals had filled the self-pipe.                                       *)
NoForgottenChild ==
    \A c \in Cmd : proc[c] = "zombie" =>
        sigchld \/ Signalled \/ dropped \/ c \in ToSet(todo)

(* The commands still to be visited are linked, whatever the callbacks do, *)
(* except the one that is being terminated.                                *)
Handling ==
    /\ stack = "loop" => todo = <<>>
    /\ stack = "client" <=> current \in Cmd
    /\ current \in Cmd =>
          /\ todo # <<>> /\ Head(todo) = current
          /\ proc[current] = "reaped"
    /\ \A i, j \in 1..Len(todo) : todo[i] = todo[j] => i = j
    /\ ToSet(todo) \subseteq ToSet(commands) \cup {current}

(* Who is not told yet has a reason only from what he asked for. *)
Reasons ==
    \A c \in Cmd :
        /\ told[c] = "nothing" <=> proc[c] # "reaped"
        /\ event_reason[c] # "occured" => event[c] = "free"
        /\ proc[c] = "none" => asked[c] = "nothing" /\ event_reason[c] = "occured"
        /\ ~UseUntilTold =>
              /\ event_reason[c] # "occured" => asked[c] = event_reason[c]
              /\ event[c] = "timer" => asked[c] = "timeout"
              /\ event[c] = "cancel" => asked[c] = "cancel"

(* All of it together is inductive. *)
IInv == TypeOK /\ Handling /\ ListExact /\ EventsOwned /\ NoForgottenChild /\ Reasons

(* The life of a command seen by its client: it is told while on_terminate *)
(* runs, and done when it has returned.                                    *)
Life == [c \in Cmd |->
    IF proc[c] \in {"none", "running"} THEN proc[c]
    ELSE IF Unreaped(c) THEN "ended"
    ELSE IF c = current THEN "told" ELSE "done"]

Command == INSTANCE VCommand WITH life <- Life

(* on_terminate is called once for a command, after it has ended.          *)
CommandSpec == Command!Spec

(* Every command that ends is reported, and so is one that the client      *)
(* timed out or cancelled, even if it would run for ever: it is killed.    *)
(* Excepted are commands waited for by others, a signal lost because the   *)
(* self-pipe was full, and an event that is idle again because memory for  *)
(* the timer or the cancel action ran out.                                 *)
Awaited(c) == proc[c] = "zombie" \/ event[c] \in {"timer", "cancel"}

AllReported ==
    \A c \in Cmd : Awaited(c) ~>
        \/ told[c] # "nothing"
        \/ proc[c] = "stolen"
        \/ proc[c] = "zombie" /\ dropped
        \/ proc[c] = "running" /\ event[c] = "idle"

(* The handle returned by vsystem_exec may be used until the termination   *)
(* callback has been called (vsystem.h:60-62, vevent.h).                   *)
HandleAlive == ~dangling
=============================================================================
