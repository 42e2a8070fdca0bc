--------------------------- MODULE VSystem_proofs ---------------------------
(***************************************************************************)
(* Proofs about commands in child processes, for any set of commands and   *)
(* any capacity of the self-pipe.                                          *)
(***************************************************************************)
EXTENDS VSystem, VSeqFacts

(* The initial state satisfies the inductive invariant. *)
LEMMA InitIInv == Init => IInv
<1> SUFFICES ASSUME Init PROVE IInv
  OBVIOUS
<1>1. <<>> \in Seq(Cmd) /\ <<>> \in Seq({Chld, "other"}) /\ Len(<<>>) = 0
  BY EmptySeq
<1>2. TypeOK
  BY <1>1 DEF Init, EventInit, TypeOK, Code, EventState, NoCmd, Cmd
<1>3. ToSet(<<>>) = {}
  BY <1>1 DEF ToSet
<1>4. Handling
  BY <1>1, <1>3, SystemAssumption DEF Init, Handling, NoCmd, Cmd
<1>5. ListExact
  BY <1>1, <1>3 DEF Init, ListExact
<1>6. EventsOwned /\ NoForgottenChild
  BY DEF Init, EventInit, EventsOwned, NoForgottenChild, Cmd
<1>7. Reasons
  BY DEF Init, EventInit, Reasons, Cmd
<1> QED
  BY <1>2, <1>4, <1>5, <1>6, <1>7 DEF IInv

(* A list without repetitions has none. *)
LEMMA ListsDistinct ==
    ASSUME IInv
    PROVE  /\ commands \in Seq(Cmd) /\ Distinct(commands)
           /\ todo \in Seq(Cmd) /\ Distinct(todo)
BY DEF IInv, TypeOK, ListExact, Handling, Distinct
-----------------------------------------------------------------------------
(* A new command joins the list and, while the handler goes through it,    *)
(* the commands to be visited.                                             *)
LEMMA ExecIInv ==
    ASSUME IInv, NEW c \in Cmd, Exec(c)
    PROVE  IInv'
<1>1. /\ stack \in {"loop", "client"} /\ proc[c] = "none"
      /\ proc' = [proc EXCEPT ![c] = "running"]
      /\ data_event' = [data_event EXCEPT ![c] = c \in WithOutput]
      /\ event' = [event EXCEPT ![c] = "idle"]
      /\ commands' = Append(commands, c)
      /\ UNCHANGED <<code, event_reason, told, signalVars, stack, current,
                     asked, dangling>>
  BY DEF Exec, EventNew, InCallback
<1>2. c \notin ToSet(commands) /\ c # current /\ c \notin ToSet(todo)
  BY <1>1 DEF IInv, ListExact, Handling
<1>3. /\ commands' \in Seq(Cmd) /\ Distinct(commands')
      /\ ToSet(commands') = ToSet(commands) \cup {c}
  BY <1>1, <1>2, ListsDistinct, AppendFacts
<1>4. /\ todo' \in Seq(Cmd) /\ Distinct(todo')
      /\ ToSet(todo) \subseteq ToSet(todo') /\ ToSet(todo') \subseteq ToSet(todo) \cup {c}
      /\ todo = <<>> => todo' = <<>>
      /\ todo # <<>> => todo' # <<>> /\ Head(todo') = Head(todo)
  <2>1. CASE todo' = todo
    BY <2>1, ListsDistinct
  <2>2. CASE Len(todo) > 1 /\ todo' = Append(todo, c)
    <3>1. todo # <<>>
      BY <2>2, EmptySeq
    <3>2. /\ todo' \in Seq(Cmd) /\ Distinct(todo')
          /\ ToSet(todo') = ToSet(todo) \cup {c}
      BY <1>2, <2>2, ListsDistinct, AppendFacts
    <3>3. Head(todo') = Head(todo) /\ todo' # <<>>
      BY <2>2, <3>1, ListsDistinct, HeadTailAppend, AppendProperties
    <3> QED
      BY <3>1, <3>2, <3>3
  <2> QED
    BY <2>1, <2>2 DEF Exec
<1>5. TypeOK'
  BY <1>1, <1>3, <1>4 DEF IInv, TypeOK, signalVars, EventState, Cmd
<1>6. Handling'
  BY <1>1, <1>2, <1>3, <1>4 DEF IInv, TypeOK, Handling, Distinct
<1>7. ListExact'
  BY <1>1, <1>3 DEF IInv, TypeOK, ListExact, Distinct
<1>8. EventsOwned'
  BY <1>1 DEF IInv, TypeOK, EventsOwned, Unreaped, Cmd
<1>9. NoForgottenChild'
  BY <1>1, <1>4 DEF IInv, TypeOK, NoForgottenChild, Signalled, signalVars
<1>10. Reasons'
  BY <1>1 DEF IInv, TypeOK, Reasons, Cmd
<1> QED
  BY <1>5, <1>6, <1>7, <1>8, <1>9, <1>10 DEF IInv

(* The client sets a timeout or cancels: the event is still there and      *)
(* changes, or nothing but its memory is touched.                          *)
LEMMA UseIInv ==
    ASSUME IInv, NEW c \in Cmd, SetTimeout(c) \/ Cancel(c)
    PROVE  IInv'
<1>1. /\ stack \in {"loop", "client"} /\ proc[c] # "none"
      /\ UNCHANGED <<procVars, cmdVars, signalVars, stackVars>>
      /\ dangling' \in BOOLEAN
      /\ \/ UNCHANGED <<event, asked>>
         \/ /\ event[c] = "free" /\ UseUntilTold /\ UNCHANGED event
            /\ \E what \in {"timeout", "cancel"} :
                  asked' = [asked EXCEPT ![c] = what]
         \/ /\ event[c] \in {"idle", "timer"}
            /\ \/ /\ asked' = [asked EXCEPT ![c] = "timeout"]
                  /\ \E s \in {"idle", "timer"} : event' = [event EXCEPT ![c] = s]
               \/ /\ asked' = [asked EXCEPT ![c] = "cancel"]
                  /\ \E s \in {"idle", "cancel"} : event' = [event EXCEPT ![c] = s]
  <2>1. event[c] \in EventState /\ dangling \in BOOLEAN
        /\ asked \in [Cmd -> {"nothing", "timeout", "cancel"}]
    BY DEF IInv, TypeOK, Cmd
  <2>2. CASE SetTimeout(c)
    BY <2>1, <2>2 DEF SetTimeout, Use, MayUse, InCallback, EventSetTimeout, EventState
  <2>3. CASE Cancel(c)
    BY <2>1, <2>3 DEF Cancel, Use, MayUse, InCallback, EventCancel, EventState
  <2> QED
    BY <2>2, <2>3
<1>2. TypeOK'
  <2>1. event' \in [Owner -> EventState]
    BY <1>1 DEF IInv, TypeOK, EventState, Cmd
  <2>2. asked' \in [Cmd -> {"nothing", "timeout", "cancel"}]
    BY <1>1 DEF IInv, TypeOK
  <2> QED
    BY <1>1, <2>1, <2>2 DEF IInv, TypeOK, procVars, cmdVars, signalVars, stackVars
<1>3. Handling' /\ ListExact'
  BY <1>1 DEF IInv, Handling, ListExact, procVars, cmdVars, stackVars
<1>4. EventsOwned'
  BY <1>1 DEF IInv, TypeOK, EventsOwned, Unreaped, Cmd, procVars, cmdVars, stackVars
<1>5. NoForgottenChild'
  BY <1>1 DEF IInv, NoForgottenChild, Signalled, procVars, signalVars, stackVars
<1>6. Reasons'
  BY <1>1 DEF IInv, TypeOK, Reasons, Cmd, procVars, cmdVars
<1> QED
  BY <1>2, <1>3, <1>4, <1>5, <1>6 DEF IInv

(* The event fires: it is gone, and the reason is what was asked for. *)
LEMMA TimeoutHandlerIInv ==
    ASSUME IInv, NEW c \in Cmd, NEW reason \in {"timeout", "cancel"},
           TimeoutHandler(c, reason)
    PROVE  IInv'
<1>1. /\ \/ reason = "timeout" /\ event[c] = "timer"
         \/ reason = "cancel" /\ event[c] = "cancel"
      /\ event' = [event EXCEPT ![c] = "free"]
      /\ event_reason' = [event_reason EXCEPT ![c] = reason]
      /\ UNCHANGED <<procVars, commands, data_event, told, signalVars, stackVars,
                     asked, dangling>>
  BY DEF TimeoutHandler, EventFires, EventDelete
<1>2. proc[c] # "none"
  BY <1>1 DEF IInv, Handling, EventsOwned, Unreaped
<1>3. TypeOK'
  BY <1>1 DEF IInv, TypeOK, EventState, Cmd, procVars, signalVars, stackVars
<1>4. Handling' /\ ListExact'
  BY <1>1 DEF IInv, Handling, ListExact, procVars, stackVars
<1>5. EventsOwned'
  BY <1>1 DEF IInv, TypeOK, EventsOwned, Unreaped, Cmd, procVars, stackVars
<1>6. NoForgottenChild'
  BY <1>1 DEF IInv, NoForgottenChild, Signalled, procVars, signalVars, stackVars
<1>7. Reasons'
  BY <1>1, <1>2 DEF IInv, TypeOK, Reasons, Cmd, procVars
<1> QED
  BY <1>3, <1>4, <1>5, <1>6, <1>7 DEF IInv

(* The end of the output: one descriptor less. *)
LEMMA DataHandlerIInv ==
    ASSUME IInv, NEW c \in Cmd, DataHandler(c)
    PROVE  IInv'
<1>1. /\ data_event' = [data_event EXCEPT ![c] = FALSE]
      /\ UNCHANGED <<procVars, commands, event_reason, told, signalVars, stackVars,
                     event, asked, dangling>>
  BY DEF DataHandler
<1>2. TypeOK'
  BY <1>1 DEF IInv, TypeOK, procVars, signalVars, stackVars
<1>3. Handling' /\ ListExact' /\ Reasons'
  BY <1>1 DEF IInv, Handling, ListExact, Reasons, procVars, stackVars
<1>4. EventsOwned'
  BY <1>1 DEF IInv, TypeOK, EventsOwned, Unreaped, procVars, stackVars
<1>5. NoForgottenChild'
  BY <1>1 DEF IInv, NoForgottenChild, Signalled, procVars, signalVars, stackVars
<1> QED
  BY <1>2, <1>3, <1>4, <1>5 DEF IInv
-----------------------------------------------------------------------------
(* A child ends and the kernel says so. *)
LEMMA ChildEndsIInv ==
    ASSUME IInv, NEW c \in Cmd, NEW k \in Code, ChildEnds(c, k)
    PROVE  IInv'
<1>1. /\ proc[c] = "running" /\ proc' = [proc EXCEPT ![c] = "zombie"]
      /\ code' = [code EXCEPT ![c] = k] /\ sigchld' = TRUE
      /\ UNCHANGED <<cmdVars, selfpipe, posted, dropped, stackVars, event, asked,
                     dangling>>
  BY DEF ChildEnds
<1>2. TypeOK'
  BY <1>1 DEF IInv, TypeOK, cmdVars, stackVars
<1>3. Handling' /\ ListExact'
  BY <1>1 DEF IInv, TypeOK, Handling, ListExact, cmdVars, stackVars
<1>4. EventsOwned' /\ NoForgottenChild'
  BY <1>1 DEF IInv, TypeOK, EventsOwned, Unreaped, NoForgottenChild, cmdVars, stackVars
<1>5. Reasons'
  BY <1>1 DEF IInv, TypeOK, Reasons, cmdVars
<1> QED
  BY <1>2, <1>3, <1>4, <1>5 DEF IInv

(* Somebody else waits for the child. *)
LEMMA StolenIInv ==
    ASSUME IInv, NEW c \in Cmd, Stolen(c)
    PROVE  IInv'
<1>1. /\ proc[c] = "zombie" /\ proc' = [proc EXCEPT ![c] = "stolen"]
      /\ code' = [code EXCEPT ![c] = "exit"]
      /\ UNCHANGED <<cmdVars, signalVars, stackVars, event, asked, dangling>>
  BY DEF Stolen
<1>2. TypeOK'
  BY <1>1 DEF IInv, TypeOK, Code, cmdVars, signalVars, stackVars
<1>3. Handling' /\ ListExact'
  BY <1>1 DEF IInv, TypeOK, Handling, ListExact, cmdVars, stackVars
<1>4. EventsOwned'
  BY <1>1 DEF IInv, TypeOK, EventsOwned, Unreaped, cmdVars, stackVars
<1>5. NoForgottenChild'
  BY <1>1 DEF IInv, TypeOK, NoForgottenChild, Signalled, signalVars, stackVars
<1>6. Reasons'
  BY <1>1 DEF IInv, TypeOK, Reasons, cmdVars
<1> QED
  BY <1>2, <1>3, <1>4, <1>5, <1>6 DEF IInv

(* What moves signals moves nothing else: it has to keep the notice.       *)
LEMMA SignalIInv ==
    ASSUME IInv,
           UNCHANGED <<procVars, cmdVars, stackVars, event, asked, dangling>>,
           sigchld' \in BOOLEAN, selfpipe' \in Seq({Chld, "other"}),
           posted' \in Nat, dropped' \in BOOLEAN,
           sigchld \/ Signalled \/ dropped => (sigchld \/ Signalled \/ dropped)'
    PROVE  IInv'
<1>1. TypeOK'
  BY DEF IInv, TypeOK, procVars, cmdVars, stackVars
<1>2. Handling' /\ ListExact'
  BY DEF IInv, Handling, ListExact, procVars, cmdVars, stackVars
<1>3. EventsOwned' /\ Reasons'
  BY DEF IInv, EventsOwned, Unreaped, Reasons, procVars, cmdVars, stackVars
<1>4. NoForgottenChild'
  BY DEF IInv, NoForgottenChild, procVars, stackVars
<1> QED
  BY <1>1, <1>2, <1>3, <1>4 DEF IInv

(* The signal handler puts SIGCHLD into the pipe, or finds it full. *)
LEMMA SignalHandlerIInv ==
    ASSUME IInv, SignalHandler
    PROVE  IInv'
<1>1. /\ selfpipe \in Seq({Chld, "other"}) /\ dropped \in BOOLEAN /\ posted \in Nat
      /\ Chld \in {Chld, "other"}
  BY DEF IInv, TypeOK
<1>2. /\ Append(selfpipe, Chld) \in Seq({Chld, "other"})
      /\ ToSet(Append(selfpipe, Chld)) = ToSet(selfpipe) \cup {Chld}
  BY <1>1, AppendFacts
<1>3. (sigchld \/ Signalled \/ dropped)'
  BY <1>2 DEF SignalHandler, Signalled
<1> QED
  BY <1>1, <1>2, <1>3, SignalIInv DEF SignalHandler

(* Other signals join the pipe behind it. *)
LEMMA OtherSignalIInv ==
    ASSUME IInv, OtherSignal
    PROVE  IInv'
<1>1. /\ selfpipe \in Seq({Chld, "other"}) /\ dropped \in BOOLEAN /\ posted \in Nat
      /\ "other" \in {Chld, "other"} /\ sigchld \in BOOLEAN
  BY DEF IInv, TypeOK
<1>2. /\ selfpipe' \in Seq({Chld, "other"})
      /\ ToSet(selfpipe') = ToSet(selfpipe) \cup {"other"}
  BY <1>1, AppendFacts DEF OtherSignal
<1>3. sigchld \/ Signalled \/ dropped => (sigchld \/ Signalled \/ dropped)'
  BY <1>2 DEF OtherSignal, Signalled
<1> QED
  BY <1>1, <1>2, <1>3, SignalIInv DEF OtherSignal

(* A SIGCHLD read from the pipe becomes an event of the loop. *)
LEMMA SelfpipeCbIInv ==
    ASSUME IInv, SelfpipeCb
    PROVE  IInv'
<1>1. /\ selfpipe \in Seq({Chld, "other"}) /\ dropped \in BOOLEAN /\ posted \in Nat
      /\ sigchld \in BOOLEAN /\ selfpipe # <<>>
  BY DEF IInv, TypeOK, SelfpipeCb
<1>2. /\ Tail(selfpipe) \in Seq({Chld, "other"})
      /\ ToSet(selfpipe) = {Head(selfpipe)} \cup ToSet(Tail(selfpipe))
  BY <1>1, HeadTailFacts
<1>3. /\ posted' \in Nat /\ posted > 0 => posted' > 0
      /\ Head(selfpipe) = Chld => posted' > 0
  BY <1>1 DEF SelfpipeCb
<1>4. sigchld \/ Signalled \/ dropped => (sigchld \/ Signalled \/ dropped)'
  BY <1>2, <1>3 DEF SelfpipeCb, Signalled
<1> QED
  BY <1>1, <1>2, <1>3, <1>4, SignalIInv DEF SelfpipeCb
-----------------------------------------------------------------------------
(* The handler visits all commands of the list, among them every child     *)
(* that has ended.                                                         *)
LEMMA SigchldHandlerIInv ==
    ASSUME IInv, SigchldHandler
    PROVE  IInv'
<1>1. /\ stack = "loop" /\ stack' = "reap" /\ todo' = commands
      /\ posted > 0 /\ posted' = posted - 1
      /\ UNCHANGED <<procVars, cmdVars, sigchld, selfpipe, dropped, current, event,
                     asked, dangling>>
  BY DEF SigchldHandler
<1>2. TypeOK'
  BY <1>1 DEF IInv, TypeOK, procVars, cmdVars
<1>3. current \notin Cmd
  BY <1>1 DEF IInv, Handling
<1>4. Handling'
  BY <1>1, <1>3 DEF IInv, Handling, ListExact, procVars, cmdVars
<1>5. ListExact' /\ EventsOwned' /\ Reasons'
  BY <1>1 DEF IInv, ListExact, EventsOwned, Unreaped, Reasons, procVars, cmdVars
<1>6. NoForgottenChild'
  BY <1>1 DEF IInv, ListExact, NoForgottenChild, procVars, cmdVars
<1> QED
  BY <1>2, <1>4, <1>5, <1>6 DEF IInv

(* A command whose child runs stays linked, one whose child others waited  *)
(* for is unlinked.                                                        *)
LEMMA WaitOtherIInv ==
    ASSUME IInv, WaitOther
    PROVE  IInv'
<1> DEFINE c == Head(todo)
<1>1. /\ stack = "reap" /\ todo # <<>> /\ todo' = Tail(todo)
      /\ \/ proc[c] = "running" /\ UNCHANGED commands
         \/ proc[c] = "stolen" /\ commands' = Unlink(commands, c)
      /\ UNCHANGED <<procVars, data_event, event_reason, told, signalVars, stack,
                     current, event, asked, dangling>>
  BY DEF WaitOther
<1>2. /\ c \in Cmd /\ c \in ToSet(todo) /\ todo' \in Seq(Cmd) /\ Distinct(todo')
      /\ ToSet(todo') = ToSet(todo) \ {c}
  BY <1>1, ListsDistinct, TailDistinct
<1> HIDE DEF c
<1>3. /\ commands' \in Seq(Cmd) /\ Distinct(commands')
      /\ \/ ToSet(commands') = ToSet(commands)
         \/ proc[c] = "stolen" /\ ToSet(commands') = ToSet(commands) \ {c}
  BY <1>1, ListsDistinct, UnlinkDistinct
<1>4. current \notin Cmd
  BY <1>1 DEF IInv, Handling
<1>5. TypeOK'
  BY <1>1, <1>2, <1>3 DEF IInv, TypeOK, procVars, signalVars
<1>6. Handling'
  BY <1>1, <1>2, <1>3, <1>4 DEF IInv, Handling, Distinct, procVars
<1>7. ListExact'
  BY <1>1, <1>3 DEF IInv, ListExact, Distinct, procVars
<1>8. EventsOwned' /\ Reasons'
  BY <1>1 DEF IInv, EventsOwned, Unreaped, Reasons, procVars
<1>9. NoForgottenChild'
  BY <1>1, <1>2 DEF IInv, NoForgottenChild, Signalled, procVars, signalVars
<1> QED
  BY <1>5, <1>6, <1>7, <1>8, <1>9 DEF IInv

(* A reason is never "nothing". *)
LEMMA ReasonFacts ==
    ASSUME TypeOK, NEW c \in Cmd
    PROVE  Reason(c) \in {"occured", "failure", "timeout", "cancel"}
BY DEF TypeOK, Reason, ExitReason

(* The command at hand is unlinked and told; it stays the next to visit    *)
(* until its callback returns.                                             *)
LEMMA ReapIInv ==
    ASSUME IInv, Reap
    PROVE  IInv'
<1> DEFINE c == Head(todo)
<1>1. /\ stack = "reap" /\ stack' = "client" /\ todo # <<>>
      /\ proc[c] = "zombie" /\ proc' = [proc EXCEPT ![c] = "reaped"]
      /\ commands' = Unlink(commands, c)
      /\ data_event' = [data_event EXCEPT ![c] = FALSE]
      /\ told' = [told EXCEPT ![c] = Reason(c)]
      /\ current' = c
      /\ UNCHANGED <<code, event_reason, signalVars, todo, event, asked, dangling>>
  BY DEF Reap
<1>2. c \in Cmd /\ c \in ToSet(todo) /\ Head(todo) = c
  BY <1>1, ListsDistinct, TailDistinct
<1> HIDE DEF c
<1>3. /\ commands' \in Seq(Cmd) /\ Distinct(commands')
      /\ ToSet(commands') = ToSet(commands) \ {c}
  BY <1>1, ListsDistinct, UnlinkDistinct
<1>4. current \notin Cmd
  BY <1>1 DEF IInv, Handling
<1>5. Reason(c) \in {"occured", "failure", "timeout", "cancel"}
  BY <1>2, ReasonFacts DEF IInv
<1>6. TypeOK'
  BY <1>1, <1>2, <1>3, <1>5 DEF IInv, TypeOK, signalVars
<1>7. Handling'
  <2>1. ToSet(todo) \subseteq ToSet(commands)
    <3>1. ToSet(todo) \subseteq Cmd
      BY ListsDistinct, InToSet, ElementOfSeq
    <3> QED
      BY <1>4, <3>1 DEF IInv, Handling
  <2>2. ToSet(todo') \subseteq ToSet(commands') \cup {current'}
    BY <1>1, <1>3, <2>1
  <2>3. proc'[c] = "reaped"
    BY <1>1, <1>2 DEF IInv, TypeOK
  <2> QED
    BY <1>1, <1>2, <2>2, <2>3 DEF IInv, Handling
<1>8. ListExact'
  BY <1>1, <1>2, <1>3 DEF IInv, TypeOK, ListExact, Distinct
<1>9. EventsOwned'
  BY <1>1, <1>2, <1>4 DEF IInv, TypeOK, EventsOwned, Unreaped
<1>10. NoForgottenChild'
  BY <1>1, <1>2 DEF IInv, TypeOK, NoForgottenChild, Signalled, signalVars
<1>11. Reasons'
  BY <1>1, <1>2, <1>5 DEF IInv, TypeOK, Reasons
<1> QED
  BY <1>6, <1>7, <1>8, <1>9, <1>10, <1>11 DEF IInv

(* The command is freed with its event. *)
LEMMA TerminatedIInv ==
    ASSUME IInv, Terminated
    PROVE  IInv'
<1>1. /\ stack = "client" /\ stack' = "reap"
      /\ event' = [event EXCEPT ![current] = "free"]
      /\ event_reason' = [event_reason EXCEPT ![current] = "occured"]
      /\ code' = [code EXCEPT ![current] = "exit"]
      /\ asked' = [asked EXCEPT ![current] = "nothing"]
      /\ todo' = Tail(todo) /\ current' = NoCmd
      /\ UNCHANGED <<proc, commands, data_event, told, signalVars, dangling>>
  BY DEF Terminated, EventDelete
<1>2. /\ current \in Cmd /\ todo # <<>> /\ Head(todo) = current
      /\ proc[current] = "reaped"
  BY <1>1 DEF IInv, Handling
<1>3. /\ todo' \in Seq(Cmd) /\ Distinct(todo')
      /\ ToSet(todo') = ToSet(todo) \ {current}
  BY <1>1, <1>2, ListsDistinct, TailDistinct
<1>4. NoCmd \notin Cmd
  BY SystemAssumption DEF NoCmd, Cmd
<1>5. TypeOK'
  BY <1>1, <1>2, <1>3 DEF IInv, TypeOK, Code, EventState, Cmd, signalVars
<1>6. Handling'
  BY <1>1, <1>3, <1>4 DEF IInv, Handling, Distinct
<1>7. ListExact'
  BY <1>1 DEF IInv, ListExact
<1>8. EventsOwned'
  BY <1>1, <1>2 DEF IInv, TypeOK, EventsOwned, Unreaped, Cmd
<1>9. NoForgottenChild'
  BY <1>1, <1>2, <1>3 DEF IInv, NoForgottenChild, Signalled, signalVars
<1>10. Reasons'
  BY <1>1, <1>2 DEF IInv, TypeOK, Reasons, Cmd
<1> QED
  BY <1>5, <1>6, <1>7, <1>8, <1>9, <1>10 DEF IInv

(* The handler is done with the list. *)
LEMMA HandlerReturnsIInv ==
    ASSUME IInv, HandlerReturns
    PROVE  IInv'
<1>1. /\ stack = "reap" /\ stack' = "loop" /\ todo = <<>>
      /\ UNCHANGED <<procVars, cmdVars, signalVars, todo, current, event, asked,
                     dangling>>
  BY DEF HandlerReturns
<1>2. TypeOK'
  BY <1>1 DEF IInv, TypeOK, procVars, cmdVars, signalVars
<1>3. Handling' /\ ListExact'
  BY <1>1 DEF IInv, Handling, ListExact, procVars, cmdVars
<1>4. EventsOwned' /\ Reasons'
  BY <1>1 DEF IInv, EventsOwned, Unreaped, Reasons, procVars, cmdVars
<1>5. NoForgottenChild'
  BY <1>1 DEF IInv, NoForgottenChild, Signalled, procVars, signalVars
<1> QED
  BY <1>2, <1>3, <1>4, <1>5 DEF IInv

(* Every step preserves the inductive invariant. *)
LEMMA NextIInv == IInv /\ [Next]_vars => IInv'
<1> SUFFICES ASSUME IInv, [Next]_vars PROVE IInv'
  OBVIOUS
<1>1. CASE UNCHANGED vars
  BY <1>1 DEF vars, procVars, cmdVars, signalVars, stackVars, IInv, TypeOK,
     Handling, ListExact, EventsOwned, Unreaped, NoForgottenChild, Signalled, Reasons
<1>2. CASE LoopStep
  BY <1>2, SelfpipeCbIInv, SigchldHandlerIInv, WaitOtherIInv, ReapIInv,
     TerminatedIInv, HandlerReturnsIInv DEF LoopStep
<1>3. CASE SignalHandler \/ OtherSignal
  BY <1>3, SignalHandlerIInv, OtherSignalIInv
<1>4. ASSUME NEW c \in Cmd, ClientStep(c) PROVE IInv'
  BY <1>4, ExecIInv, UseIInv DEF ClientStep
<1>5. ASSUME NEW c \in Cmd, EventFiresStep(c) PROVE IInv'
  BY <1>5, TimeoutHandlerIInv DEF EventFiresStep
<1>6. ASSUME NEW c \in Cmd, DataHandler(c) PROVE IInv'
  BY <1>6, DataHandlerIInv
<1>7. ASSUME NEW c \in Cmd, ChildStep(c) \/ KillEnds(c) PROVE IInv'
  BY <1>7, ChildEndsIInv, StolenIInv DEF ChildStep, KillEnds, Code
<1> QED
  BY <1>1, <1>2, <1>3, <1>4, <1>5, <1>6, <1>7 DEF Next
-----------------------------------------------------------------------------
(* The inductive invariant of commands in child processes (vsystem.c) holds *)
(* for any commands, however signals merge, get lost and interleave.       *)
THEOREM Invariance == Spec => []IInv
<1>1. Init => IInv
  BY InitIInv
<1>2. IInv /\ [Next]_vars => IInv'
  BY NextIInv
<1> QED
  BY <1>1, <1>2, PTL DEF Spec

(* Nothing that can still fire belongs to a command that was freed, and no *)
(* process id is killed that waitpid has released (89-133, 226-236).       *)
THEOREM AlwaysOwned == Spec => []EventsOwned
<1>1. IInv => EventsOwned
  BY DEF IInv
<1> QED
  BY <1>1, Invariance, PTL

(* g_commands holds exactly the children not yet waited for (154-221),     *)
(* although callbacks start commands while the handler walks the list.     *)
THEOREM ListAlwaysExact == Spec => []ListExact
<1>1. IInv => ListExact
  BY DEF IInv
<1> QED
  BY <1>1, Invariance, PTL

(* An ended child has a notice on its way or is about to be visited,       *)
(* unless its notice was dropped because the self-pipe was full.           *)
THEOREM NoChildForgotten == Spec => []NoForgottenChild
<1>1. IInv => NoForgottenChild
  BY DEF IInv
<1> QED
  BY <1>1, Invariance, PTL
-----------------------------------------------------------------------------
(* Each step is one of VCommand or changes nothing that a client sees.     *)
(* First, the start of a command.                                          *)
LEMMA ExecRefines ==
    ASSUME IInv, NEW c \in Cmd, Exec(c)
    PROVE  Command!Start(c)
<1>1. /\ proc[c] = "none" /\ proc' = [proc EXCEPT ![c] = "running"]
      /\ UNCHANGED <<current, asked, told>>
  BY DEF Exec
<1>2. Life' = [Life EXCEPT ![c] = "running"] /\ Life[c] = "none"
  BY <1>1 DEF IInv, TypeOK, Life, Unreaped
<1> QED
  BY <1>1, <1>2, Zenon DEF Command!Start

(* A timeout or a cancellation is what the client asks for.               *)
LEMMA UseRefines ==
    ASSUME ~UseUntilTold, IInv, NEW c \in Cmd, SetTimeout(c) \/ Cancel(c)
    PROVE  UNCHANGED Command!vars \/ \E what \in {"timeout", "cancel"} : Command!Ask(c, what)
<1>1. /\ proc[c] # "none" /\ event[c] # "free"
      /\ UNCHANGED <<proc, current, told>>
      /\ \/ UNCHANGED asked
         \/ \E what \in {"timeout", "cancel"} : asked' = [asked EXCEPT ![c] = what]
  <2>1. asked \in [Cmd -> {"nothing", "timeout", "cancel"}]
    BY DEF IInv, TypeOK
  <2> QED
    BY <2>1 DEF SetTimeout, Cancel, Use, MayUse, procVars, cmdVars, stackVars
<1>2. UNCHANGED Life
  BY <1>1 DEF Life, Unreaped
<1>3. Life[c] \notin {"none", "done"}
  BY <1>1 DEF IInv, EventsOwned, Life, Unreaped
<1>4. CASE UNCHANGED asked
  BY <1>1, <1>2, <1>4, Zenon DEF Command!vars
<1>5. ASSUME NEW what \in {"timeout", "cancel"}, asked' = [asked EXCEPT ![c] = what]
      PROVE  Command!Ask(c, what)
  BY <1>1, <1>2, <1>3, <1>5, Zenon DEF Command!Ask
<1> QED
  BY <1>1, <1>4, <1>5

(* The end of the process, by itself or by SIGKILL. *)
LEMMA ChildEndsRefines ==
    ASSUME IInv, NEW c \in Cmd, NEW k \in Code, ChildEnds(c, k)
    PROVE  Command!End(c)
<1>1. /\ proc[c] = "running" /\ proc' = [proc EXCEPT ![c] = "zombie"]
      /\ UNCHANGED <<current, asked, told>>
  BY DEF ChildEnds, cmdVars, stackVars
<1>2. Life' = [Life EXCEPT ![c] = "ended"] /\ Life[c] = "running"
  BY <1>1 DEF IInv, TypeOK, Life, Unreaped
<1> QED
  BY <1>1, <1>2, Zenon DEF Command!End

(* The reason is what the client asked for last, or that of the exit. *)
LEMMA ReapRefines ==
    ASSUME ~UseUntilTold, IInv, Reap
    PROVE  \E c \in Cmd, reason \in {"occured", "failure", "timeout", "cancel"} :
               Command!Tell(c, reason)
<1> DEFINE c == Head(todo)
           r == Reason(c)
<1>1. /\ stack = "reap" /\ todo # <<>>
      /\ proc[c] = "zombie" /\ proc' = [proc EXCEPT ![c] = "reaped"]
      /\ told' = [told EXCEPT ![c] = r]
      /\ current' = c /\ UNCHANGED asked
  BY DEF Reap
<1>2. c \in Cmd /\ current \notin Cmd
  BY <1>1, ListsDistinct, TailDistinct DEF IInv, Handling
<1> HIDE DEF c
<1>3. r \in {"occured", "failure", "timeout", "cancel"}
  BY <1>2, ReasonFacts DEF IInv
<1>4. r \in {"occured", "failure"} \/ r = asked[c]
  BY <1>2 DEF IInv, Reasons, Reason, ExitReason
<1>5. Life' = [Life EXCEPT ![c] = "told"] /\ Life[c] = "ended"
  BY <1>1, <1>2 DEF IInv, TypeOK, Life, Unreaped
<1> HIDE DEF r
<1>6. Command!Tell(c, r)
  BY <1>1, <1>4, <1>5, Zenon DEF Command!Tell
<1> QED
  BY <1>2, <1>3, <1>6

(* on_terminate has returned. *)
LEMMA TerminatedRefines ==
    ASSUME IInv, Terminated
    PROVE  \E c \in Cmd : Command!Return(c)
<1>1. /\ stack = "client" /\ asked' = [asked EXCEPT ![current] = "nothing"]
      /\ current' = NoCmd /\ UNCHANGED <<proc, told>>
  BY DEF Terminated
<1>2. current \in Cmd /\ proc[current] = "reaped" /\ NoCmd \notin Cmd
  BY <1>1, SystemAssumption DEF IInv, Handling, NoCmd, Cmd
<1>3. Life' = [Life EXCEPT ![current] = "done"] /\ Life[current] = "told"
  BY <1>1, <1>2 DEF Life, Unreaped
<1>4. Command!Return(current)
  BY <1>1, <1>3, Zenon DEF Command!Return
<1> QED
  BY <1>2, <1>4

(* The other steps change nothing that a client of commands sees. *)
LEMMA OthersStutter ==
    ASSUME IInv,
           \/ SelfpipeCb \/ SigchldHandler \/ WaitOther \/ HandlerReturns
           \/ SignalHandler \/ OtherSignal \/ UNCHANGED vars
           \/ \E c \in Cmd : EventFiresStep(c) \/ DataHandler(c) \/ Stolen(c)
    PROVE  UNCHANGED Command!vars
<1>1. UNCHANGED <<current, asked, told>>
  BY DEF SelfpipeCb, SigchldHandler, WaitOther, HandlerReturns, SignalHandler,
     OtherSignal, EventFiresStep, TimeoutHandler, DataHandler, Stolen, vars,
     cmdVars, stackVars
<1>2. \/ UNCHANGED proc
      \/ \E c \in Cmd : proc[c] = "zombie" /\ proc' = [proc EXCEPT ![c] = "stolen"]
  BY DEF SelfpipeCb, SigchldHandler, WaitOther, HandlerReturns, SignalHandler,
     OtherSignal, EventFiresStep, TimeoutHandler, DataHandler, Stolen, vars,
     procVars
<1>3. UNCHANGED Life
  BY <1>1, <1>2 DEF IInv, TypeOK, Life, Unreaped
<1> QED
  BY <1>1, <1>3, Zenon DEF Command!vars

(* Commands in child processes implement what vsystem.h and vevent.h       *)
(* promise: on_terminate is called exactly once for each command, after    *)
(* its process has ended (154-221), and says timeout or cancel only when   *)
(* that is the last thing its client asked for.                            *)
THEOREM CommandRefinement ==
    ASSUME ~UseUntilTold
    PROVE  Spec => CommandSpec
<1>1. ASSUME Init PROVE Command!Init
  <2>1. Life = [c \in Cmd |-> "none"]
    BY <1>1 DEF Init, Life
  <2> QED
    BY <1>1, <2>1, Zenon DEF Init, Command!Init
<1>2. ASSUME IInv, [Next]_vars PROVE [Command!Next]_(Command!vars)
  <2>1. ASSUME NEW c \in Cmd, ClientStep(c) PROVE [Command!Next]_(Command!vars)
    <3>1. CASE Exec(c)
      BY <1>2, <3>1, ExecRefines, Zenon DEF Command!Next
    <3>2. CASE SetTimeout(c) \/ Cancel(c)
      BY <1>2, <3>2, UseRefines, Zenon DEF Command!Next
    <3> QED
      BY <2>1, <3>1, <3>2 DEF ClientStep
  <2>2. ASSUME NEW c \in Cmd, NEW k \in Code, ChildEnds(c, k) PROVE Command!Next
    BY <1>2, <2>2, ChildEndsRefines, Zenon DEF Command!Next
  <2>3. CASE Reap
    BY <1>2, <2>3, ReapRefines, Zenon DEF Command!Next
  <2>4. CASE Terminated
    BY <1>2, <2>4, TerminatedRefines, Zenon DEF Command!Next
  <2>5. ASSUME \/ SelfpipeCb \/ SigchldHandler \/ WaitOther \/ HandlerReturns
               \/ SignalHandler \/ OtherSignal \/ UNCHANGED vars
               \/ \E c \in Cmd : EventFiresStep(c) \/ DataHandler(c) \/ Stolen(c)
        PROVE  UNCHANGED Command!vars
    BY <1>2, <2>5, OthersStutter
  <2>6. "signal" \in Code
    BY DEF Code
  <2> QED
    BY <1>2, <2>1, <2>2, <2>3, <2>4, <2>5, <2>6, Zenon
       DEF Next, LoopStep, ChildStep, KillEnds
<1> QED
  BY Invariance, <1>1, <1>2, PTL DEF Spec, CommandSpec, Command!Spec
=============================================================================
