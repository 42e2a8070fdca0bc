----------------------------- MODULE VTnd_proofs -----------------------------
(***************************************************************************)
(* Proofs about the debug command queue, for any set of requests and for   *)
(* clients that enqueue from the console and do not answer after the       *)
(* overall timeout; FinishedOnce is about clients that do.                 *)
(***************************************************************************)
EXTENDS VTnd, VSeqFacts

StrictClients == ~LateAnswers /\ ~EnqueueAnywhere

(* What libevent moves keeps its order and is announced. *)
LEMMA TransferFacts ==
    ASSUME output \in Seq(Request), input \in Seq(Request), readcb \in BOOLEAN,
           NEW out \in Seq(Request), NEW enabled \in BOOLEAN,
           Transfer(out, enabled)
    PROVE  /\ output' \in Seq(Request) /\ input' \in Seq(Request)
           /\ readcb' \in BOOLEAN
           /\ input' \o output' = input \o out
           /\ enabled => output' = <<>>
           /\ ~enabled => UNCHANGED <<input, readcb>>
           /\ out = <<>> => UNCHANGED <<input, readcb>>
           /\ input' # input => readcb'
           /\ readcb => readcb'
<1>1. <<>> \in Seq(Request)
  BY EmptySeq
<1>2. CASE enabled /\ out # <<>>
  <2>1. input' = input \o out /\ output' = <<>> /\ readcb' = TRUE
    BY <1>2 DEF Transfer
  <2>2. input \o out \in Seq(Request)
    BY ConcatProperties
  <2>3. (input \o out) \o <<>> = input \o out
    BY <2>2, ConcatEmptySeq
  <2> QED
    BY <1>1, <1>2, <2>1, <2>2, <2>3
<1>3. CASE ~(enabled /\ out # <<>>)
  BY <1>3 DEF Transfer
<1> QED
  BY <1>2, <1>3

(* ServedInOrder as one statement about two halves. *)
LEMMA OrderHalves ==
    ASSUME TndTypeOK
    PROVE  /\ ServedInOrder <=> started \o (input \o output) = enqueued
           /\ input \o output \in Seq(Request)
<1>1. started \in Seq(Request) /\ input \in Seq(Request) /\ output \in Seq(Request)
  BY DEF TndTypeOK
<1>2. (started \o input) \o output = started \o (input \o output)
  BY <1>1, ConcatAssociative
<1>3. input \o output \in Seq(Request)
  BY <1>1, ConcatProperties
<1>4. ServedInOrder <=> (started \o input) \o output = enqueued
  BY DEF ServedInOrder
<1> QED
  BY <1>2, <1>3, <1>4

(* A step that moves no request keeps their order. *)
LEMMA OrderKept ==
    ASSUME TndInv, UNCHANGED <<started, enqueued, input, output>>
    PROVE  ServedInOrder'
BY DEF TndInv, ServedInOrder

(* The initial state satisfies the inductive invariant. *)
LEMMA InitIInv == TndInit => TndInv
<1> SUFFICES ASSUME TndInit PROVE TndInv
  OBVIOUS
<1>1. <<>> \in Seq(Request)
  BY EmptySeq
<1>2. <<>> \o <<>> = <<>>
  BY <1>1, ConcatEmptySeq
<1>3. TndTypeOK
  BY <1>1 DEF TndInit, TndTypeOK
<1>4. ServedInOrder
  BY <1>2 DEF TndInit, ServedInOrder
<1>5. NoLostWakeup /\ ContextsAlive
  BY DEF TndInit, NoLostWakeup, ContextsAlive
<1>6. TimersGuard /\ OneReader
  BY DEF TndInit, TimersGuard, OneReader
<1> QED
  BY <1>3, <1>4, <1>5, <1>6 DEF TndInv
-----------------------------------------------------------------------------
(* A request from the console joins the end of the line and is announced   *)
(* when somebody may read it.                                              *)
LEMMA EnqueueIInv ==
    ASSUME StrictClients, TndInv, NEW r \in Request, Enqueue(r)
    PROVE  TndInv'
<1> DEFINE out == Append(output, r)
<1>1. /\ phase = "events" /\ ~helper
      /\ Transfer(out, reading)
      /\ enqueued' = Append(enqueued, r)
      /\ UNCHANGED <<phase, helper, reading, action, contextVars, started, oom>>
  BY DEF Enqueue, StrictClients
<1>2. /\ output \in Seq(Request) /\ input \in Seq(Request) /\ out \in Seq(Request)
      /\ started \in Seq(Request) /\ enqueued \in Seq(Request)
      /\ reading \in BOOLEAN /\ readcb \in BOOLEAN
  BY AppendProperties DEF TndInv, TndTypeOK
<1>3. /\ output' \in Seq(Request) /\ input' \in Seq(Request)
      /\ readcb' \in BOOLEAN
      /\ input' \o output' = input \o out
      /\ reading => output' = <<>>
      /\ ~reading => UNCHANGED <<input, readcb>>
      /\ input' # input => readcb'
      /\ readcb => readcb'
  <2> HIDE DEF out
  <2> QED
    BY <1>1, <1>2, TransferFacts
<1>4. TndTypeOK'
  BY <1>1, <1>2, <1>3, AppendProperties DEF TndInv, TndTypeOK, contextVars
<1>5. ServedInOrder'
  <2>1. input \o out = Append(input \o output, r)
    BY <1>2, ConcatAppend
  <2>2. started \o (input \o output) = enqueued /\ input \o output \in Seq(Request)
    BY OrderHalves DEF TndInv
  <2> DEFINE line == input \o output
  <2>3. started \o Append(line, r) = Append(enqueued, r)
    <3>1. line \in Seq(Request) /\ started \o line = enqueued
      BY <2>2
    <3> HIDE DEF line
    <3> QED
      BY <1>2, <3>1, ConcatAppend
  <2>4. started' = started /\ enqueued' = Append(enqueued, r)
    BY <1>1
  <2>5. started' \o (input' \o output') = enqueued'
    BY <1>3, <2>1, <2>3, <2>4
  <2>6. TndTypeOK' => (ServedInOrder' <=> (started \o (input \o output) = enqueued)')
    BY OrderHalves, PTL
  <2> QED
    BY <1>4, <2>5, <2>6
<1>6. NoLostWakeup'
  BY <1>1, <1>3 DEF TndInv, NoLostWakeup, contextVars
<1>7. ContextsAlive' /\ TimersGuard'
  BY <1>1 DEF TndInv, ContextsAlive, TimersGuard, contextVars
<1>8. OneReader'
  <2>1. async # {} => ~reading
    BY DEF TndInv, OneReader
  <2>2. action # "due"
    BY <1>1 DEF TndInv, OneReader
  <2> QED
    BY <1>1, <1>3, <2>1, <2>2 DEF TndInv, OneReader, contextVars
<1> QED
  BY <1>4, <1>5, <1>6, <1>7, <1>8 DEF TndInv

(* The reader starts from the read callback or from the action, never both. *)
LEMMA ReaderIInv ==
    ASSUME TndInv, Read \/ Proceed
    PROVE  TndInv'
<1>1. /\ helper' = TRUE /\ action' = "none" /\ ~readcb'
      /\ readcb' \in BOOLEAN /\ async = {}
      /\ UNCHANGED <<phase, output, input, reading, contextVars, history, oom>>
  <2>1. /\ async # {} => ~readcb /\ action = "none"
        /\ action = "due" => ~readcb
        /\ readcb \in BOOLEAN
    BY DEF TndInv, TndTypeOK, OneReader
  <2>2. CASE Read
    BY <2>1, <2>2 DEF Read
  <2>3. CASE Proceed
    BY <2>1, <2>3 DEF Proceed, queueVars
  <2> QED
    BY <2>2, <2>3
<1>2. TndTypeOK'
  BY <1>1 DEF TndInv, TndTypeOK, contextVars, history
<1>3. ServedInOrder'
  BY <1>1, OrderKept DEF history
<1>4. NoLostWakeup' /\ ContextsAlive'
  BY <1>1 DEF TndInv, NoLostWakeup, ContextsAlive, contextVars
<1>5. TimersGuard' /\ OneReader'
  BY <1>1 DEF TndInv, TimersGuard, OneReader, contextVars
<1> QED
  BY <1>2, <1>3, <1>4, <1>5 DEF TndInv

(* The reader returns when nothing is left to read or memory is short. *)
LEMMA HelperReturnsIInv ==
    ASSUME TndInv, HelperReturns
    PROVE  TndInv'
<1>1. /\ helper /\ helper' = FALSE /\ async = {} /\ action = "none"
      /\ UNCHANGED <<phase, queueVars, action, contextVars, history>>
      /\ (input = <<>> /\ oom' = oom) \/ oom' = TRUE
  BY DEF TndInv, OneReader, HelperReturns
<1>2. TndTypeOK'
  BY <1>1 DEF TndInv, TndTypeOK, queueVars, contextVars, history
<1>3. ServedInOrder'
  BY <1>1, OrderKept DEF queueVars, history
<1>4. NoLostWakeup' /\ ContextsAlive'
  BY <1>1 DEF TndInv, NoLostWakeup, ContextsAlive, queueVars, contextVars
<1>5. TimersGuard' /\ OneReader'
  BY <1>1 DEF TndInv, TimersGuard, OneReader, queueVars, contextVars
<1> QED
  BY <1>2, <1>3, <1>4, <1>5 DEF TndInv

(* Reading a request moves it from the input to what was executed. *)
LEMMA ReadRequestFacts ==
    ASSUME TndInv, ReadRequest, UNCHANGED <<output, enqueued>>
    PROVE  /\ helper /\ async = {} /\ action = "none" /\ ~readcb
           /\ input \in Seq(Request) /\ input # <<>> /\ Head(input) \in Request
           /\ input' \in Seq(Request) /\ started' \in Seq(Request)
           /\ ServedInOrder'
<1>1. /\ helper /\ input # <<>>
      /\ input' = Tail(input) /\ started' = Append(started, Head(input))
  BY DEF ReadRequest
<1>2. /\ input \in Seq(Request) /\ started \in Seq(Request)
  BY DEF TndInv, TndTypeOK
<1>3. Head(input) \in Request /\ Tail(input) \in Seq(Request)
  BY <1>1, <1>2, HeadTailFacts
<1>4. /\ Append(started, Head(input)) \in Seq(Request)
      /\ Append(started, Head(input)) \o Tail(input) = started \o input
  BY <1>1, <1>2, MoveHead
<1>5. ServedInOrder'
  BY <1>1, <1>4 DEF TndInv, ServedInOrder
<1>6. helper /\ async = {} /\ action = "none" /\ ~readcb
  BY <1>1 DEF TndInv, OneReader
<1> QED
  BY <1>1, <1>2, <1>3, <1>4, <1>5, <1>6

(* A command that completes at once leaves the reader to go on. *)
LEMMA SyncCommandIInv ==
    ASSUME TndInv, SyncCommand
    PROVE  TndInv'
<1>1. /\ ReadRequest
      /\ UNCHANGED <<phase, helper, output, reading, readcb, action, contextVars,
                     enqueued, oom>>
  BY DEF SyncCommand
<1>2. /\ helper /\ input' \in Seq(Request) /\ started' \in Seq(Request)
      /\ ServedInOrder'
  BY <1>1, ReadRequestFacts
<1>3. TndTypeOK'
  BY <1>1, <1>2 DEF TndInv, TndTypeOK, contextVars
<1>4. NoLostWakeup' /\ ContextsAlive'
  BY <1>1, <1>2 DEF TndInv, NoLostWakeup, ContextsAlive, contextVars
<1>5. TimersGuard' /\ OneReader'
  BY <1>1 DEF TndInv, TimersGuard, OneReader, contextVars
<1> QED
  BY <1>2, <1>3, <1>4, <1>5 DEF TndInv

(* A command that takes its context is the only one in progress, and       *)
(* nobody reads.                                                           *)
LEMMA AsyncCommandIInv ==
    ASSUME TndInv, AsyncCommand
    PROVE  TndInv'
<1> DEFINE r == Head(input)
<1>1. /\ ReadRequest
      /\ async' = async \cup {r} /\ held' = held \cup {r}
      /\ \/ timer' = r /\ timers' = timers \cup {r} /\ UNCHANGED oom
         \/ timer' = NoRequest /\ oom' = TRUE /\ UNCHANGED timers
      /\ reading' = FALSE /\ helper' = FALSE
      /\ UNCHANGED <<phase, output, readcb, action, touched, enqueued>>
  BY DEF AsyncCommand
<1>2. /\ helper /\ async = {} /\ action = "none" /\ ~readcb
      /\ r \in Request /\ input' \in Seq(Request) /\ started' \in Seq(Request)
      /\ ServedInOrder'
  BY <1>1, ReadRequestFacts
<1> HIDE DEF r
<1>3. timers = {} /\ r # NoRequest
  BY <1>2, TndAssumption DEF TndInv, TimersGuard
<1>4. TndTypeOK'
  BY <1>1, <1>2 DEF TndInv, TndTypeOK
<1>5. NoLostWakeup' /\ ContextsAlive'
  BY <1>1, <1>2 DEF TndInv, NoLostWakeup, ContextsAlive
<1>6. TimersGuard'
  BY <1>1, <1>2, <1>3 DEF TimersGuard
<1>7. OneReader'
  <2>1. async' = {r}
    BY <1>1, <1>2
  <2> QED
    BY <1>1, <1>2, <2>1 DEF TndInv, OneReader
<1> QED
  BY <1>2, <1>4, <1>5, <1>6, <1>7 DEF TndInv
-----------------------------------------------------------------------------
(* Finishing the command in progress gives way to the next one: its timer  *)
(* is gone, input is read again, and an action will look at it.            *)
LEMMA FinishIInv ==
    ASSUME TndInv, NEW r \in async, FinishContext(r, timers, timer),
           UNCHANGED <<phase, helper, history>>, held' \in SUBSET Request
    PROVE  TndInv'
<1>1. /\ async = {r} /\ ~reading /\ ~readcb /\ ~helper /\ action = "none"
      /\ timers = {timer} \ {NoRequest}
  BY DEF TndInv, OneReader, TimersGuard
<1>2. /\ touched' = (touched \/ r \notin async)
      /\ async' = async \ {r} /\ reading' = TRUE
      /\ Transfer(output, TRUE)
      /\ timers' = timers \ {timer} /\ timer' = NoRequest
      /\ \/ action' = "new" /\ UNCHANGED oom
         \/ action' = "none" /\ oom' = TRUE
  BY <1>1 DEF FinishContext
<1>3. /\ output' \in Seq(Request) /\ input' \in Seq(Request)
      /\ readcb' \in BOOLEAN
      /\ input' \o output' = input \o output
      /\ output' = <<>>
  <2>1. output \in Seq(Request) /\ input \in Seq(Request) /\ readcb \in BOOLEAN
    BY DEF TndInv, TndTypeOK
  <2> QED
    BY <1>2, <2>1, TransferFacts
<1>4. async' = {} /\ timers' = {} /\ ~touched'
  BY <1>1, <1>2 DEF TndInv, ContextsAlive
<1>5. TndTypeOK'
  BY <1>2, <1>3, <1>4 DEF TndInv, TndTypeOK, history
<1>6. ServedInOrder'
  <2>1. started \o (input \o output) = enqueued
    BY OrderHalves DEF TndInv
  <2>2. (started \o (input \o output) = enqueued)'
    BY <1>3, <2>1 DEF history
  <2>3. TndTypeOK' => (ServedInOrder' <=> (started \o (input \o output) = enqueued)')
    BY OrderHalves, PTL
  <2> QED
    BY <1>5, <2>2, <2>3
<1>7. NoLostWakeup' /\ ContextsAlive'
  BY <1>2, <1>3, <1>4 DEF TndInv, NoLostWakeup, ContextsAlive
<1>8. TimersGuard' /\ OneReader'
  BY <1>1, <1>2, <1>4 DEF TimersGuard, OneReader
<1> QED
  BY <1>5, <1>6, <1>7, <1>8 DEF TndInv

(* A client that answers in time finishes the command in progress. *)
LEMMA ClientFinishesIInv ==
    ASSUME StrictClients, TndInv, NEW r \in Request, ClientFinishes(r)
    PROVE  TndInv'
<1>1. /\ r \in async /\ FinishContext(r, timers, timer)
      /\ UNCHANGED <<phase, helper, history>> /\ held' = held \ {r}
  BY DEF ClientFinishes, StrictClients
<1>2. held' \in SUBSET Request
  BY <1>1 DEF TndInv, TndTypeOK
<1> QED
  BY <1>1, <1>2, FinishIInv

(* The overall timeout finishes the command it was started for. *)
LEMMA OverallTimeoutIInv ==
    ASSUME TndInv, NEW r \in Request, OverallTimeout(r)
    PROVE  TndInv'
<1>1. /\ r \in timers /\ FinishContext(r, timers \ {r}, NoRequest)
      /\ UNCHANGED <<phase, helper, held, history>>
  BY DEF OverallTimeout
<1>2. r \in async /\ r = timer
  BY <1>1 DEF TndInv, TimersGuard
<1>3. timers \ {timer} = (timers \ {r}) \ {NoRequest}
  BY <1>1, <1>2, TndAssumption DEF TndInv, TimersGuard
<1>4. FinishContext(r, timers, timer)
  BY <1>1, <1>3 DEF FinishContext
<1>5. held' \in SUBSET Request
  BY <1>1 DEF TndInv, TndTypeOK
<1> QED
  BY <1>1, <1>2, <1>4, <1>5, FinishIInv

(* The loop alternates between actions and events. *)
LEMMA PhaseIInv ==
    ASSUME TndInv, EndOfActions \/ EndOfEvents
    PROVE  TndInv'
<1>1. /\ phase' \in {"actions", "events"} /\ action' \in {"none", "new", "due"}
      /\ action' = "none" <=> action = "none"
      /\ action' = "due" => phase' = "actions" /\ ~readcb
      /\ UNCHANGED <<helper, queueVars, contextVars, history, oom>>
  BY DEF TndInv, TndTypeOK, OneReader, EndOfActions, EndOfEvents
<1>2. TndTypeOK'
  BY <1>1 DEF TndInv, TndTypeOK, queueVars, contextVars, history
<1>3. ServedInOrder'
  BY <1>1, OrderKept DEF queueVars, history
<1>4. NoLostWakeup' /\ ContextsAlive'
  BY <1>1 DEF TndInv, NoLostWakeup, ContextsAlive, queueVars, contextVars
<1>5. TimersGuard' /\ OneReader'
  BY <1>1 DEF TndInv, TimersGuard, OneReader, queueVars, contextVars
<1> QED
  BY <1>2, <1>3, <1>4, <1>5 DEF TndInv

(* Every step preserves the inductive invariant. *)
LEMMA NextIInv ==
    ASSUME StrictClients, TndInv, [TndNext]_tndVars
    PROVE  TndInv'
<1>1. CASE UNCHANGED tndVars
  BY <1>1 DEF tndVars, queueVars, contextVars, history, TndInv, TndTypeOK, ServedInOrder,
              NoLostWakeup, ContextsAlive, TimersGuard, OneReader
<1>2. CASE Read \/ Proceed
  BY <1>2, ReaderIInv
<1>3. CASE HelperReturns
  BY <1>3, HelperReturnsIInv
<1>4. CASE SyncCommand
  BY <1>4, SyncCommandIInv
<1>5. CASE AsyncCommand
  BY <1>5, AsyncCommandIInv
<1>6. CASE EndOfActions \/ EndOfEvents
  BY <1>6, PhaseIInv
<1>7. ASSUME NEW r \in Request, Enqueue(r) PROVE TndInv'
  BY <1>7, EnqueueIInv
<1>8. ASSUME NEW r \in Request, ClientFinishes(r) PROVE TndInv'
  BY <1>8, ClientFinishesIInv
<1>9. ASSUME NEW r \in Request, OverallTimeout(r) PROVE TndInv'
  BY <1>9, OverallTimeoutIInv
<1> QED
  BY <1>1, <1>2, <1>3, <1>4, <1>5, <1>6, <1>7, <1>8, <1>9 DEF TndNext, LoopStep
-----------------------------------------------------------------------------
(* With such clients the inductive invariant of the debug command queue    *)
(* (vtnd.c 486-680) holds for every set of requests.                       *)
THEOREM Invariance ==
    ASSUME StrictClients
    PROVE  TndSpec => []TndInv
<1>1. TndInit => TndInv
  BY InitIInv
<1>2. TndInv /\ [TndNext]_tndVars => TndInv'
  BY NextIInv
<1> QED
  BY <1>1, <1>2, PTL DEF TndSpec

(* Requests are executed once each and in order; none is lost between the  *)
(* bufferevents (603-680).                                                 *)
THEOREM AlwaysInOrder ==
    ASSUME StrictClients
    PROVE  TndSpec => []ServedInOrder
<1>1. TndInv => ServedInOrder
  BY DEF TndInv
<1> QED
  BY <1>1, Invariance, PTL

(* A request that can be read has somebody who will read it, unless memory *)
(* ran out (552-560).                                                      *)
THEOREM NoRequestForgotten ==
    ASSUME StrictClients
    PROVE  TndSpec => []NoLostWakeup
<1>1. TndInv => NoLostWakeup
  BY DEF TndInv
<1> QED
  BY <1>1, Invariance, PTL

(* What remains if clients also finish a context after the overall timeout *)
(* has: one overall timer at most runs, its request is not freed, and      *)
(* nobody reads as long as it runs.                                        *)
GuardInv ==
    /\ output \in Seq(Request) /\ input \in Seq(Request)
    /\ reading \in BOOLEAN /\ readcb \in BOOLEAN /\ touched \in BOOLEAN
    /\ timer \in Request \cup {NoRequest}
    /\ timers = {timer} \ {NoRequest}
    /\ timers \subseteq async
    /\ timers # {} => ~reading /\ ~readcb /\ ~helper /\ action = "none"
    /\ helper => ~readcb /\ action = "none"
    /\ action # "none" => reading
    /\ reading => output = <<>>
    /\ action = "due" => phase = "actions" /\ ~readcb

(* Memory that was freed is used in this step, and then it is a client who *)
(* finishes a context that the overall timeout has finished already.       *)
LateOnly ==
    touched' # touched => \E r \in held \ async : held' = held \ {r}

LEMMA FinishGuard ==
    ASSUME GuardInv, NEW r \in Request, NEW running \in {timers, timers \ {r}},
           NEW t \in {timer, NoRequest}, running = {} \/ t = timer,
           ~helper, FinishContext(r, running, t), UNCHANGED <<phase, helper>>
    PROVE  GuardInv'
<1>1. timers' = {} /\ timer' = NoRequest /\ reading' = TRUE
  BY DEF GuardInv, FinishContext
<1>2. /\ output' \in Seq(Request) /\ input' \in Seq(Request) /\ readcb' \in BOOLEAN
      /\ output' = <<>>
      /\ output = <<>> => UNCHANGED readcb
  BY TransferFacts DEF GuardInv, FinishContext
<1>3. action' \in {action, "new"} /\ (action' = "due" => action = "due")
  BY DEF FinishContext
<1>4. touched' \in BOOLEAN
  BY DEF FinishContext, GuardInv
<1> QED
  BY <1>1, <1>2, <1>3, <1>4 DEF GuardInv

LEMMA NextGuard ==
    ASSUME ~EnqueueAnywhere, GuardInv, [TndNext]_tndVars
    PROVE  GuardInv' /\ LateOnly
<1>1. CASE UNCHANGED tndVars
  BY <1>1 DEF GuardInv, LateOnly, tndVars, queueVars, contextVars
<1>2. CASE Read \/ Proceed \/ HelperReturns \/ EndOfActions \/ EndOfEvents
  <2>1. /\ UNCHANGED <<output, input, reading, timers, timer, async, touched>>
        /\ readcb' \in {readcb, FALSE}
    BY <1>2 DEF GuardInv, Read, Proceed, HelperReturns, EndOfActions, EndOfEvents,
                queueVars, contextVars
  <2>2. timers # {} => ~readcb' /\ ~helper' /\ action' = "none"
    BY <1>2 DEF GuardInv, Read, Proceed, HelperReturns, EndOfActions, EndOfEvents,
                queueVars, contextVars
  <2>3. /\ helper' => ~readcb' /\ action' = "none"
        /\ action' # "none" => reading
        /\ action' = "due" => phase' = "actions" /\ ~readcb'
    BY <1>2 DEF GuardInv, Read, Proceed, HelperReturns, EndOfActions, EndOfEvents,
                queueVars, contextVars
  <2> QED
    BY <2>1, <2>2, <2>3 DEF GuardInv, LateOnly
<1>3. CASE SyncCommand \/ AsyncCommand
  <2>1. Head(input) \in Request /\ Tail(input) \in Seq(Request) /\ input' = Tail(input)
    BY <1>3, HeadTailProperties DEF GuardInv, SyncCommand, AsyncCommand, ReadRequest
  <2>2. helper /\ timers = {} /\ ~readcb /\ action = "none"
    BY <1>3 DEF GuardInv, SyncCommand, AsyncCommand, ReadRequest
  <2>3. CASE SyncCommand
    BY <2>1, <2>2, <2>3 DEF GuardInv, LateOnly, SyncCommand, contextVars
  <2>4. CASE AsyncCommand
    <3> DEFINE r == Head(input)
    <3>1. /\ UNCHANGED <<phase, output, readcb, action, touched>>
          /\ reading' = FALSE /\ helper' = FALSE
          /\ async' = async \cup {r}
          /\ \/ timer' = r /\ timers' = {r}
             \/ timer' = NoRequest /\ timers' = {}
      BY <2>2, <2>4 DEF AsyncCommand
    <3>2. r \in Request /\ r # NoRequest
      BY <2>1, TndAssumption
    <3> HIDE DEF r
    <3> QED
      BY <2>1, <2>2, <3>1, <3>2 DEF GuardInv, LateOnly
  <2> QED
    BY <1>3, <2>3, <2>4
<1>4. ASSUME NEW r \in Request, Enqueue(r) PROVE GuardInv' /\ LateOnly
  <2>1. Append(output, r) \in Seq(Request)
    BY AppendProperties DEF GuardInv
  <2>2. Transfer(Append(output, r), reading) /\ phase = "events" /\ ~helper
    BY <1>4 DEF Enqueue
  <2>3. /\ output' \in Seq(Request) /\ input' \in Seq(Request) /\ readcb' \in BOOLEAN
        /\ reading => output' = <<>>
        /\ ~reading => UNCHANGED readcb
    BY <2>1, <2>2, TransferFacts DEF GuardInv
  <2> QED
    BY <1>4, <2>2, <2>3 DEF GuardInv, LateOnly, Enqueue, contextVars
<1>5. ASSUME NEW r \in Request, ClientFinishes(r) PROVE GuardInv' /\ LateOnly
  <2>1. GuardInv'
    BY <1>5, FinishGuard DEF ClientFinishes
  <2>2. r \in held /\ held' = held \ {r} /\ touched' = (touched \/ r \notin async)
    BY <1>5 DEF ClientFinishes, FinishContext
  <2>3. r \in async => touched' = touched
    BY <2>2 DEF GuardInv
  <2> QED
    BY <2>1, <2>2, <2>3 DEF LateOnly
<1>6. ASSUME NEW r \in Request, OverallTimeout(r) PROVE GuardInv' /\ LateOnly
  <2>1. timers \ {r} = {} /\ r \in async
    BY <1>6 DEF OverallTimeout, GuardInv
  <2>2. GuardInv'
    BY <1>6, <2>1, FinishGuard DEF OverallTimeout
  <2>3. touched' = (touched \/ r \notin async)
    BY <1>6 DEF OverallTimeout, FinishContext
  <2> QED
    BY <2>1, <2>2, <2>3 DEF GuardInv, LateOnly
<1> QED
  BY <1>1, <1>2, <1>3, <1>4, <1>5, <1>6 DEF TndNext, LoopStep

(* Also with clients that take longer than the overall timeout, it is only *)
(* their own late call of vtnd_finish_context that works on a freed        *)
(* request: the timeout itself never does (509-566).                       *)
THEOREM FinishedOnce ==
    ASSUME ~EnqueueAnywhere
    PROVE  TndSpec => [][LateOnly]_tndVars
<1>1. TndInit => GuardInv
  BY EmptySeq DEF TndInit, GuardInv
<1>2. GuardInv /\ [TndNext]_tndVars => GuardInv' /\ [LateOnly]_tndVars
  BY NextGuard
<1> QED
  BY <1>1, <1>2, PTL DEF TndSpec

(* The overall timeout runs for the command in progress only (509-527).    *)
THEOREM TimersAlwaysGuard ==
    ASSUME StrictClients
    PROVE  TndSpec => []TimersGuard
<1>1. TndInv => TimersGuard
  BY DEF TndInv
<1> QED
  BY <1>1, Invariance, PTL

(* A command starts only while none is in progress (634-645).              *)
THEOREM OneCommandAtATime ==
    ASSUME StrictClients
    PROVE  TndSpec => InputSuspended
<1>1. ASSUME TndInv, TndNext PROVE OneCommand
  <2>1. SUFFICES ASSUME started' # started PROVE async = {}
    BY DEF OneCommand
  <2>2. helper
    BY <1>1, <2>1 DEF TndNext, LoopStep, Read, Proceed, HelperReturns, SyncCommand,
       AsyncCommand, ReadRequest, EndOfActions, EndOfEvents, Enqueue,
       ClientFinishes, OverallTimeout, history
  <2> QED
    BY <1>1, <2>2 DEF TndInv, OneReader
<1>2. TndInv /\ [TndNext]_tndVars => [OneCommand]_tndVars
  BY <1>1
<1> QED
  BY <1>2, Invariance, PTL DEF TndSpec, InputSuspended
=============================================================================
