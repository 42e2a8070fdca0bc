--------------------------- MODULE VEvents_proofs ---------------------------
(***************************************************************************)
(* Proofs about signals, semaphores, on-demand events, and debug modules   *)
(* with their commands: each for its own specification, for every value of *)
(* its constants.  The parts do not use each other.                        *)
(***************************************************************************)
EXTENDS VTndText, VSignal, VSem, VDemand, VSeqFacts, FiniteSetTheorems, TLAPS

(***************************************************************************)
(* Signals, for any set of threads and of signals and any capacity of the  *)
(* self-pipe.                                                              *)
(***************************************************************************)

User == [cb : {"NULL", "user", Killer}, ctxt : SigThread, evbase : SigThread]
Call == [s : Signal, cb : {"NULL", "user", Killer}, ctxt : SigThread, followed : BOOLEAN]
Pending ==
    {None} \cup [what : {"reset", "raise"}, s : Signal] \cup [what : {"fatal", "stop"}, s : Fatal]

SignalTypeOK ==
    /\ users \in [Signal -> User]
    /\ handler \in [Signal \cup Fatal -> {"default", "ours"}]
    /\ selfpipe \in Seq(Signal \X BOOLEAN)
    /\ calls \in [SigThread -> Seq(Call)]
    /\ pending \in [SigThread -> Pending]
    /\ abort_expected \in BOOLEAN /\ records \in BOOLEAN /\ children \in BOOLEAN

(* A callback is registered for the thread whose loop it is called in. *)
AtHome == \A s \in Signal : users[s].ctxt = users[s].evbase

(* What must be done before the process may end in order: the record is    *)
(* written before a thread stops the children or raises the signal again,  *)
(* and the one that an abort made counts for its signal.                   *)
Prepared ==
    /\ abort_expected => records
    /\ \A t \in SigThread :
          /\ pending[t].what = "raise" => records /\ ~children
          /\ pending[t].what = "stop" => records

SignalInv ==
    SignalTypeOK /\ AtHome /\ Prepared /\ HandlerReady /\ CalledAtHome /\ EndIsOrderly

(* What a thread has in mind tells what it is about. *)
LEMMA PendingFacts ==
    ASSUME NEW p \in Pending
    PROVE  /\ p.what \in {"reset", "raise"} => p.s \in Signal /\ p = [what |-> p.what, s |-> p.s]
           /\ p.what \in {"fatal", "stop"} => p.s \in Fatal
<1>1. CASE p = None
  BY <1>1 DEF None
<1>2. CASE p \in [what : {"reset", "raise"}, s : Signal]
  BY <1>2
<1>3. CASE p \in [what : {"fatal", "stop"}, s : Fatal]
  BY <1>3
<1> QED
  BY <1>1, <1>2, <1>3 DEF Pending

(* The initial state satisfies the invariant. *)
LEMMA SignalInitInv == SignalInit => SignalInv
<1> SUFFICES ASSUME SignalInit PROVE SignalInv
  OBVIOUS
<1> USE SignalAssumption
<1>1. /\ users \in [Signal -> User] /\ \A s \in Signal : users[s].ctxt = users[s].evbase
      /\ \A s \in Signal : users[s].cb # "NULL" => s \in Defaulted
  BY DEF SignalInit, User, NoUser, Killer
<1>2. handler \in [Signal \cup Fatal -> {"default", "ours"}]
  BY DEF SignalInit
<1>3. <<>> \in Seq(Signal \X BOOLEAN) /\ <<>> \in Seq(Call) /\ Len(<<>>) = 0
  BY EmptySeq
<1>4. SignalTypeOK
  BY <1>1, <1>2, <1>3 DEF SignalInit, SignalTypeOK, Pending
<1>5. AtHome /\ Prepared /\ CalledAtHome /\ EndIsOrderly
  BY <1>1, <1>3 DEF SignalInit, AtHome, Prepared, CalledAtHome, EndIsOrderly, None
<1>6. HandlerReady
  BY <1>1 DEF SignalInit, HandlerReady
<1> QED
  BY <1>4, <1>5, <1>6 DEF SignalInv
-----------------------------------------------------------------------------
(* Registering puts our handler in place, and a user of the thread's own. *)
LEMMA RegisterInv ==
    ASSUME SignalInv, NEW t \in SigThread,
           \/ \E s \in Signal : Register(t, s) \/ Deregister(t, s) \/ ResetDefault(t, s)
           \/ ResetRegisters(t)
    PROVE  SignalInv'
<1>1. /\ UNCHANGED <<selfpipe, calls, abort_expected, records, children, process>>
      /\ pending[t].what \in {"none", "reset"}
      /\ pending' \in [SigThread -> Pending]
      /\ \A u \in SigThread : u # t => pending'[u] = pending[u]
      /\ pending'[t].what \in {"none", "reset"}
  <2>1. pending \in [SigThread -> Pending]
    BY DEF SignalInv, SignalTypeOK
  <2>2. \/ pending[t] = None /\ pending' = pending
        \/ \E s \in Signal : pending[t] = None /\ pending' = [pending EXCEPT ![t] = [what |-> "reset", s |-> s]]
        \/ pending[t].what = "reset" /\ pending' = [pending EXCEPT ![t] = None]
    BY DEF Register, Deregister, ResetDefault, ResetRegisters, Does
  <2>3. None \in Pending /\ None.what = "none"
        /\ \A s \in Signal : [what |-> "reset", s |-> s] \in Pending
    BY DEF None, Pending
  <2>4. UNCHANGED <<selfpipe, calls, abort_expected, records, children, process>>
    BY DEF Register, Deregister, ResetDefault, ResetRegisters
  <2> QED
    BY <2>1, <2>2, <2>3, <2>4
<1>2. \/ UNCHANGED <<users, handler>>
      \/ \E s \in Signal : users' = [users EXCEPT ![s] = NoUser] /\ UNCHANGED handler
      \/ \E s \in Signal, cb \in {"user", Killer} : Registers(t, s, cb)
  <2>1. CASE ResetRegisters(t)
    <3>1. pending[t].s \in Signal
      BY <2>1, PendingFacts DEF ResetRegisters, SignalInv, SignalTypeOK
    <3> QED
      BY <2>1, <3>1 DEF ResetRegisters
  <2> QED
    BY <2>1 DEF Register, Deregister, ResetDefault
<1>3. /\ users' \in [Signal -> User] /\ handler' \in [Signal \cup Fatal -> {"default", "ours"}]
      /\ AtHome'
      /\ \A s \in Signal \cup Fatal : handler'[s] # handler[s] => handler'[s] = "ours"
      /\ \A s \in Signal : users'[s].cb = "NULL" \/ users'[s] = users[s] \/ handler'[s] = "ours"
  <2> USE SignalAssumption
  <2>1. CASE UNCHANGED <<users, handler>>
    BY <2>1 DEF SignalInv, SignalTypeOK, AtHome
  <2>2. ASSUME NEW s \in Signal, users' = [users EXCEPT ![s] = NoUser] /\ UNCHANGED handler
        PROVE  <1>3!:
    BY <2>2 DEF SignalInv, SignalTypeOK, AtHome, NoUser, User
  <2>3. ASSUME NEW s \in Signal, NEW cb \in {"user", Killer}, Registers(t, s, cb)
        PROVE  <1>3!:
    BY <2>3 DEF SignalInv, SignalTypeOK, AtHome, Registers, User
  <2> QED
    BY <1>2, <2>1, <2>2, <2>3
<1>4. SignalTypeOK' /\ Prepared' /\ CalledAtHome' /\ EndIsOrderly'
  BY <1>1, <1>3 DEF SignalInv, SignalTypeOK, Prepared, CalledAtHome, EndIsOrderly
<1>5. HandlerReady'
  <2> SUFFICES ASSUME NEW s \in Signal, users'[s].cb # "NULL", handler'[s] # "ours", process' = "running"
               PROVE  \E u \in SigThread : \/ pending'[u].what \in {"fatal", "stop"}
                                           \/ pending'[u] = [what |-> "raise", s |-> s]
    BY DEF HandlerReady
  <2>1. users[s].cb # "NULL" /\ handler[s] # "ours" /\ process = "running"
    BY <1>1, <1>3 
  <2>2. PICK u \in SigThread : \/ pending[u].what \in {"fatal", "stop"}
                               \/ pending[u] = [what |-> "raise", s |-> s]
    BY <2>1 DEF SignalInv, HandlerReady
  <2>3. u # t
    BY <1>1, <2>2
  <2> QED
    BY <1>1, <2>2, <2>3
<1> QED
  BY <1>3, <1>4, <1>5 DEF SignalInv

(* A signal that is raised changes the pipe, or ends the process. *)
LEMMA RaisedFacts ==
    ASSUME SignalInv, NEW s \in Signal, NEW end, NEW followed \in BOOLEAN, Raised(s, end, followed)
    PROVE  /\ selfpipe' \in Seq(Signal \X BOOLEAN) /\ records' \in BOOLEAN
           /\ records => records'
           /\ \/ process' = process /\ handler[s] = "ours"
              \/ process' = end /\ records' = records
<1>1. CASE handler[s] = "default"
  BY <1>1 DEF Raised, SignalInv, SignalTypeOK
<1>2. CASE handler[s] # "default"
  <2>1. handler[s] = "ours"
    BY <1>2 DEF SignalInv, SignalTypeOK
  <2>2. process' = process
        /\ \/ selfpipe' = Append(selfpipe, <<s, followed>>) /\ records' = records
           \/ selfpipe' = selfpipe /\ records' = TRUE
    BY <1>2 DEF Raised
  <2>3. selfpipe \in Seq(Signal \X BOOLEAN) /\ <<s, followed>> \in Signal \X BOOLEAN
    BY DEF SignalInv, SignalTypeOK
  <2>4. Append(selfpipe, <<s, followed>>) \in Seq(Signal \X BOOLEAN)
    BY <2>3, AppendProperties
  <2> QED
    BY <2>1, <2>2, <2>3, <2>4 DEF SignalInv, SignalTypeOK
<1> QED
  BY <1>1, <1>2

LEMMA RaiseInv ==
    ASSUME SignalInv, process = "running", NEW s \in Signal, Raise(s)
    PROVE  SignalInv'
<1>1. PICK followed \in {FALSE, owed = None /\ users[s].cb = "user"} : Raised(s, "ended", followed)
  BY DEF Raise
<1>2. followed \in BOOLEAN
  OBVIOUS
<1>3. /\ selfpipe' \in Seq(Signal \X BOOLEAN) /\ records' \in BOOLEAN /\ (records => records')
      /\ process' \in {"running", "ended"}
  BY <1>1, <1>2, RaisedFacts
<1>4. UNCHANGED <<users, handler, calls, pending, abort_expected, children>>
  BY DEF Raise
<1> QED
  BY <1>3, <1>4 DEF SignalInv, SignalTypeOK, AtHome, Prepared, HandlerReady, CalledAtHome, EndIsOrderly

(* The pipe is read: the event is for the thread of the registration. *)
LEMMA SelfPipeInv ==
    ASSUME SignalInv, SelfPipe
    PROVE  SignalInv'
<1>1. UNCHANGED <<users, handler, pending, abort_expected, records, children, process, owed>>
  BY DEF SelfPipe
<1>2. selfpipe \in Seq(Signal \X BOOLEAN) /\ selfpipe # <<>> /\ selfpipe' = Tail(selfpipe)
  BY DEF SelfPipe, LeftInPipe, SignalInv, SignalTypeOK
<1>3. selfpipe' \in Seq(Signal \X BOOLEAN) /\ Head(selfpipe) \in Signal \X BOOLEAN
  BY <1>2, HeadTailProperties
<1> DEFINE s == Head(selfpipe)[1]
           user == users[s]
           t == user.evbase
           c == [s |-> s, cb |-> user.cb, ctxt |-> user.ctxt, followed |-> Head(selfpipe)[2]]
<1>4. s \in Signal /\ Head(selfpipe)[2] \in BOOLEAN
  BY <1>3
<1>5. user \in User /\ user.ctxt = t
  BY <1>4 DEF SignalInv, SignalTypeOK, AtHome
<1>6. t \in SigThread /\ c \in Call /\ c.ctxt = t
  BY <1>4, <1>5 DEF User, Call
<1>7. calls' = calls \/ calls' = [calls EXCEPT ![t] = Append(calls[t], c)]
  BY DEF SelfPipe, BaseOf
<1> HIDE DEF s, user, t, c
<1>8. calls' \in [SigThread -> Seq(Call)] /\ CalledAtHome'
  <2>1. CASE calls' = calls
    BY <2>1 DEF SignalInv, SignalTypeOK, CalledAtHome
  <2>2. CASE calls' = [calls EXCEPT ![t] = Append(calls[t], c)]
    <3> DEFINE q == calls[t]
    <3>1. q \in Seq(Call) /\ \A i \in 1..Len(q) : q[i].ctxt = t
      BY <1>6 DEF SignalInv, SignalTypeOK, CalledAtHome
    <3>2. /\ calls'[t] = Append(q, c)
          /\ \A u \in SigThread : u # t => calls'[u] = calls[u]
      BY <1>6, <2>2 DEF SignalInv, SignalTypeOK
    <3> HIDE DEF q
    <3>3. /\ Append(q, c) \in Seq(Call) /\ Len(Append(q, c)) = Len(q) + 1
          /\ \A i \in 1..Len(q) : Append(q, c)[i] = q[i]
          /\ Append(q, c)[Len(q) + 1] = c
      BY <1>6, <3>1, AppendProperties
    <3>4. \A i \in 1..Len(Append(q, c)) : Append(q, c)[i].ctxt = t
      BY <1>6, <3>1, <3>3, LenProperties
    <3>5. calls' \in [SigThread -> Seq(Call)]
      BY <1>6, <2>2, <3>3 DEF q, SignalInv, SignalTypeOK
    <3> QED
      BY <3>2, <3>4, <3>5 DEF SignalInv, CalledAtHome
  <2> QED
    BY <1>7, <2>1, <2>2
<1> QED
  BY <1>1, <1>3, <1>8 DEF SignalInv, SignalTypeOK, AtHome, Prepared, HandlerReady, EndIsOrderly

(* The callback runs: the default one prepares the end of the process. *)
LEMMA SignalCbInv ==
    ASSUME SignalInv, NEW t \in SigThread, SignalCb(t)
    PROVE  SignalInv'
<1> DEFINE q == calls[t]
           c == Head(q)
<1>1. /\ UNCHANGED <<users, selfpipe, abort_expected, process>>
      /\ pending[t] = None /\ q # <<>> /\ calls' = [calls EXCEPT ![t] = Tail(q)]
      /\ \/ UNCHANGED <<children, records, handler, pending>>
         \/ /\ children' = FALSE /\ records' = TRUE
            /\ handler' = [handler EXCEPT ![c.s] = "default"]
            /\ pending' = [pending EXCEPT ![t] = [what |-> "raise", s |-> c.s]]
  BY DEF SignalCb, Does
<1>2. q \in Seq(Call) /\ \A i \in 1..Len(q) : q[i].ctxt = t
  BY DEF SignalInv, SignalTypeOK, CalledAtHome
<1> HIDE DEF q
<1>3. /\ Tail(q) \in Seq(Call) /\ c \in Call /\ Len(Tail(q)) = Len(q) - 1 /\ Len(q) \in Nat
      /\ \A i \in 1..Len(Tail(q)) : Tail(q)[i] = q[i + 1]
  BY <1>1, <1>2, HeadTailProperties, LenProperties
<1>4. c.s \in Signal
  BY <1>3 DEF Call
<1> HIDE DEF c
<1>5. calls' \in [SigThread -> Seq(Call)] /\ CalledAtHome'
  <2>1. \A i \in 1..Len(Tail(q)) : Tail(q)[i].ctxt = t
    BY <1>2, <1>3
  <2>2. calls'[t] = Tail(q) /\ \A u \in SigThread : u # t => calls'[u] = calls[u]
    BY <1>1 DEF SignalInv, SignalTypeOK
  <2>3. calls' \in [SigThread -> Seq(Call)]
    BY <1>1, <1>3 DEF SignalInv, SignalTypeOK
  <2> QED
    BY <2>1, <2>2, <2>3 DEF SignalInv, CalledAtHome
<1>6. CASE UNCHANGED <<children, records, handler, pending>>
  BY <1>1, <1>5, <1>6 DEF SignalInv, SignalTypeOK, AtHome, Prepared, HandlerReady, EndIsOrderly
<1>7. CASE /\ children' = FALSE /\ records' = TRUE
           /\ handler' = [handler EXCEPT ![c.s] = "default"]
           /\ pending' = [pending EXCEPT ![t] = [what |-> "raise", s |-> c.s]]
  <2>1. /\ pending'[t] = [what |-> "raise", s |-> c.s] /\ pending' \in [SigThread -> Pending]
        /\ \A u \in SigThread : u # t => pending'[u] = pending[u]
    BY <1>4, <1>7 DEF SignalInv, SignalTypeOK, Pending
  <2>2. SignalTypeOK' /\ AtHome' /\ Prepared' /\ EndIsOrderly'
    BY <1>1, <1>5, <1>7, <2>1 DEF SignalInv, SignalTypeOK, AtHome, Prepared, EndIsOrderly
  <2>3. \A s \in Signal : s # c.s => handler'[s] = handler[s]
    BY <1>7 DEF SignalInv, SignalTypeOK
  <2>4. pending[t].what = "none"
    BY <1>1 DEF None
  <2>5. HandlerReady'
    <3> SUFFICES ASSUME NEW s \in Signal, users[s].cb # "NULL", handler'[s] # "ours", process = "running"
                 PROVE  \E u \in SigThread : \/ pending'[u].what \in {"fatal", "stop"}
                                             \/ pending'[u] = [what |-> "raise", s |-> s]
      BY <1>1 DEF HandlerReady
    <3>1. CASE s = c.s
      BY <2>1, <3>1
    <3>2. CASE s # c.s
      <4>1. PICK u \in SigThread : \/ pending[u].what \in {"fatal", "stop"}
                                   \/ pending[u] = [what |-> "raise", s |-> s]
        BY <2>3, <3>2 DEF SignalInv, HandlerReady
      <4>2. u # t
        BY <2>4, <4>1
      <4> QED
        BY <2>1, <4>1, <4>2
    <3> QED
      BY <3>1, <3>2
  <2> QED
    BY <1>5, <2>2, <2>5 DEF SignalInv
<1> QED
  BY <1>1, <1>6, <1>7

LEMMA RaiseAgainInv ==
    ASSUME SignalInv, process = "running", NEW t \in SigThread, RaiseAgain(t)
    PROVE  SignalInv'
<1> DEFINE s == pending[t].s
<1>1. /\ pending[t].what = "raise" /\ Raised(s, "ended by handler", FALSE)
      /\ pending' = [pending EXCEPT ![t] = None]
      /\ UNCHANGED <<users, handler, calls, abort_expected, children>>
  BY DEF RaiseAgain, Does
<1>2. s \in Signal /\ pending[t] = [what |-> "raise", s |-> s]
  BY <1>1, PendingFacts DEF SignalInv, SignalTypeOK
<1> HIDE DEF s
<1>3. /\ selfpipe' \in Seq(Signal \X BOOLEAN) /\ records' \in BOOLEAN /\ (records => records')
      /\ \/ process' = process /\ handler[s] = "ours"
         \/ process' = "ended by handler" /\ records' = records
  BY <1>1, <1>2, RaisedFacts
<1>4. /\ pending'[t] = None /\ pending' \in [SigThread -> Pending]
      /\ \A u \in SigThread : u # t => pending'[u] = pending[u]
  BY <1>1 DEF SignalInv, SignalTypeOK, Pending
<1>5. records /\ ~children
  BY <1>1 DEF SignalInv, Prepared
<1>6. SignalTypeOK' /\ AtHome' /\ CalledAtHome' /\ EndIsOrderly'
  BY <1>1, <1>3, <1>4, <1>5 DEF SignalInv, SignalTypeOK, AtHome, CalledAtHome, EndIsOrderly
<1>7. Prepared'
  BY <1>1, <1>3, <1>4, <1>5 DEF SignalInv, Prepared, None
<1>8. HandlerReady'
  <2> SUFFICES ASSUME NEW x \in Signal, users[x].cb # "NULL", handler[x] # "ours", process' = "running"
               PROVE  \E u \in SigThread : \/ pending'[u].what \in {"fatal", "stop"}
                                           \/ pending'[u] = [what |-> "raise", s |-> x]
    BY <1>1 DEF HandlerReady
  <2>1. x # s
    BY <1>3
  <2>2. PICK u \in SigThread : \/ pending[u].what \in {"fatal", "stop"}
                               \/ pending[u] = [what |-> "raise", s |-> x]
    BY <1>3 DEF SignalInv, HandlerReady
  <2>3. u # t
    BY <1>2, <2>1, <2>2
  <2> QED
    BY <1>4, <2>2, <2>3
<1> QED
  BY <1>6, <1>7, <1>8 DEF SignalInv

(* A thread aborts or gets a fatal signal. *)
LEMMA FatalInv ==
    ASSUME SignalInv, NEW t \in SigThread,
           Abort(t) \/ (\E f \in Fatal : Faults(t, f)) \/ FatalHandler(t) \/ FatalStops(t)
    PROVE  SignalInv'
<1>1. CASE Abort(t) \/ \E f \in Fatal : Faults(t, f)
  <2>1. PICK f \in Fatal : pending' = [pending EXCEPT ![t] = [what |-> "fatal", s |-> f]]
    BY <1>1, SignalAssumption DEF Abort, Faults, Does
  <2>2. /\ pending'[t].what = "fatal" /\ pending' \in [SigThread -> Pending]
        /\ \A u \in SigThread : u # t => pending'[u] = pending[u]
    BY <2>1 DEF SignalInv, SignalTypeOK, Pending
  <2>3. /\ UNCHANGED <<users, handler, selfpipe, calls, children, process>>
        /\ \/ UNCHANGED <<abort_expected, records>>
           \/ abort_expected' = TRUE /\ records' = TRUE
    BY <1>1 DEF Abort, Faults
  <2>4. SignalTypeOK' /\ AtHome' /\ CalledAtHome' /\ EndIsOrderly'
    BY <2>2, <2>3 DEF SignalInv, SignalTypeOK, AtHome, CalledAtHome, EndIsOrderly
  <2>6. Prepared'
    BY <2>2, <2>3 DEF SignalInv, Prepared
  <2>5. HandlerReady'
    BY <2>2, <2>3 DEF HandlerReady
  <2> QED
    BY <2>4, <2>5, <2>6 DEF SignalInv
<1>2. CASE FatalHandler(t)
  <2> DEFINE f == pending[t].s
  <2>1. f \in Fatal /\ pending[t].what = "fatal"
    BY <1>2, PendingFacts DEF FatalHandler, SignalInv, SignalTypeOK
  <2>2. UNCHANGED <<users, selfpipe, calls, abort_expected, children>>
    BY <1>2 DEF FatalHandler
  <2>3. CASE handler[f] = "default"
    <3>1. process' = "ended" /\ UNCHANGED <<handler, records, pending>>
      BY <1>2, <2>3 DEF FatalHandler
    <3> QED
      BY <2>2, <3>1 DEF SignalInv, SignalTypeOK, AtHome, CalledAtHome, EndIsOrderly, Prepared, HandlerReady
  <2>4. CASE handler[f] # "default"
    <3>1. /\ handler' = [handler EXCEPT ![f] = "default"] /\ records' = (records \/ ~Expected(f))
          /\ pending' = [pending EXCEPT ![t] = [what |-> "stop", s |-> f]]
          /\ process' = process
      BY <1>2, <2>4 DEF FatalHandler, Does
    <3>2. /\ pending'[t].what = "stop" /\ pending' \in [SigThread -> Pending]
          /\ \A u \in SigThread : u # t => pending'[u] = pending[u]
      BY <2>1, <3>1 DEF SignalInv, SignalTypeOK, Pending
    <3>3. records' = TRUE
      BY <3>1 DEF SignalInv, SignalTypeOK, Prepared, Expected
    <3>4. SignalTypeOK' /\ AtHome' /\ CalledAtHome' /\ EndIsOrderly'
      BY <2>2, <3>1, <3>2, <3>3
      DEF SignalInv, SignalTypeOK, AtHome, CalledAtHome, EndIsOrderly
    <3>6. Prepared'
      BY <2>2, <3>2, <3>3 DEF SignalInv, Prepared
    <3>5. HandlerReady'
      BY <3>2 DEF HandlerReady
    <3> QED
      BY <3>4, <3>5, <3>6 DEF SignalInv
  <2> QED
    BY <2>3, <2>4
<1>3. CASE FatalStops(t)
  <2>1. /\ pending[t].what = "stop" /\ children' = FALSE /\ process' = "ended by handler"
        /\ UNCHANGED <<users, handler, selfpipe, calls, pending, abort_expected, records>>
    BY <1>3 DEF FatalStops
  <2>2. records
    BY <2>1 DEF SignalInv, Prepared
  <2>3. SignalTypeOK' /\ AtHome' /\ CalledAtHome' /\ HandlerReady'
    BY <2>1 DEF SignalInv, SignalTypeOK, AtHome, CalledAtHome, HandlerReady
  <2>4. Prepared' /\ EndIsOrderly'
    BY <2>1, <2>2 DEF SignalInv, SignalTypeOK, Prepared, EndIsOrderly
  <2> QED
    BY <2>3, <2>4 DEF SignalInv
<1> QED
  BY <1>1, <1>2, <1>3
-----------------------------------------------------------------------------
(* The invariant of the signals (src/vsignal.c) always holds. *)
THEOREM SignalInvariance == SignalSpec => []SignalInv
<1>1. SignalInv /\ [SignalNext]_signalVars => SignalInv'
  <2> SUFFICES ASSUME SignalInv, [SignalNext]_signalVars PROVE SignalInv'
    OBVIOUS
  <2>1. CASE UNCHANGED signalVars
    BY <2>1 DEF signalVars, SignalInv, SignalTypeOK, AtHome, CalledAtHome, EndIsOrderly, Prepared, HandlerReady
  <2>2. ASSUME SignalNext PROVE SignalInv'
    BY <2>2, RegisterInv, RaiseInv, SelfPipeInv, SignalCbInv, RaiseAgainInv, FatalInv DEF SignalNext
  <2> QED
    BY <2>1, <2>2
<1> QED
  BY <1>1, SignalInitInv, PTL DEF SignalSpec

(* A signal with a callback has the library's handler until somebody is    *)
(* about to end the process (359-376, 431-485), for any number of threads. *)
THEOREM HandlerAlwaysReady == SignalSpec => []HandlerReady
<1>1. SignalInv => HandlerReady
  BY DEF SignalInv
<1> QED
  BY <1>1, SignalInvariance, PTL

(* A callback is called in the loop of the thread that registered it       *)
(* (277-322), whoever registers or deregisters while the signal waits.     *)
THEOREM AlwaysCalledAtHome == SignalSpec => []CalledAtHome
<1>1. SignalInv => CalledAtHome
  BY DEF SignalInv
<1> QED
  BY <1>1, SignalInvariance, PTL

(* When a handler ends the process, an error record was written and the    *)
(* children were stopped (179-201, 359-376).                               *)
THEOREM EndAlwaysOrderly == SignalSpec => []EndIsOrderly
<1>1. SignalInv => EndIsOrderly
  BY DEF SignalInv
<1> QED
  BY <1>1, SignalInvariance, PTL

-----------------------------------------------------------------------------
(***************************************************************************)
(* Semaphores, for any set of waits and any number of units.               *)
(***************************************************************************)

SemTypeOK ==
    /\ sem \in BOOLEAN /\ val \in Nat /\ given \in Nat
    /\ waiting \in SUBSET Owner
    /\ acquired \in SUBSET Owner /\ IsFiniteSet(acquired)
    /\ reports \in [Owner -> Nat] /\ event \in [Owner -> EventState]

(* A wait has its libevent event as long as it lasts: whoever came too     *)
(* late for one unit is woken for the next.                                *)
Woken == added = waiting /\ ready \in SUBSET added

(* Waits of the semaphore that is there have no unit yet.                  *)
Empty == waiting \cap acquired = {} /\ (~sem => waiting = {} /\ val = 0)

SemInv == SemTypeOK /\ Woken /\ Empty /\ UnitsExact /\ EndsOnce
-----------------------------------------------------------------------------
LEMMA SemInitInv == SemInit => SemInv
<1> SUFFICES ASSUME SemInit PROVE SemInv
  OBVIOUS
<1>1. IsFiniteSet(acquired) /\ Cardinality(acquired) = 0
  BY FS_EmptySet DEF SemInit
<1>2. SemTypeOK
  BY <1>1 DEF SemInit, SemTypeOK, EventInit, EventState
<1> QED
  BY <1>1, <1>2 DEF SemInit, SemInv, Woken, Empty, UnitsExact, EndsOnce, EventInit

(* Taking an element away, or putting one in, and the number of elements.  *)
LEMMA Counting ==
    ASSUME NEW S, IsFiniteSet(S), NEW x
    PROVE  /\ Cardinality(S) \in Nat
           /\ x \in S => /\ IsFiniteSet(S \ {x})
                         /\ Cardinality(S \ {x}) = Cardinality(S) - 1
           /\ x \notin S => /\ S \ {x} = S
                            /\ IsFiniteSet(S \cup {x})
                            /\ Cardinality(S \cup {x}) = Cardinality(S) + 1
BY FS_CardinalityType, FS_AddElement, FS_RemoveElement

(* The life of the semaphore itself. *)
LEMMA LifeInv ==
    ASSUME SemInv, SemNew \/ SemFree \/ SemPost
    PROVE  SemInv'
<1>1. CASE SemNew
  <2>1. IsFiniteSet(acquired') /\ Cardinality(acquired') = 0
    BY <1>1, FS_EmptySet DEF SemNew
  <2>2. val' \in Nat /\ given' = val' /\ sem'
    BY <1>1, SemAssumption DEF SemNew
  <2> QED
    BY <1>1, <2>1, <2>2
    DEF SemNew, SemInv, SemTypeOK, Woken, Empty, UnitsExact, EndsOnce
<1>2. CASE SemFree
  BY <1>2 DEF SemFree, SemInv, SemTypeOK, Woken, Empty, UnitsExact, EndsOnce
<1>3. CASE SemPost
  <2>1. Cardinality(acquired) \in Nat
    BY Counting DEF SemInv, SemTypeOK
  <2> QED
    BY <1>3, <2>1 DEF SemPost, SemInv, SemTypeOK, Woken, Empty, UnitsExact, EndsOnce
<1> QED
  BY <1>1, <1>2, <1>3

LEMMA WaitInv ==
    ASSUME SemInv, NEW w \in Owner, SemWait(w)
    PROVE  SemInv'
<1>1. /\ Cardinality(acquired) \in Nat
      /\ w \in acquired => /\ IsFiniteSet(acquired \ {w})
                           /\ Cardinality(acquired \ {w}) = Cardinality(acquired) - 1
      /\ w \notin acquired => acquired \ {w} = acquired
  BY Counting DEF SemInv, SemTypeOK
<1>2. sem /\ acquired' = acquired \ {w} /\ UNCHANGED <<sem, val>>
  BY DEF SemWait
<1>3. IsFiniteSet(acquired') /\ given' \in Nat /\ UnitsExact'
  <2>0. val \in Nat /\ given \in Nat /\ IsFiniteSet(acquired) /\ val + Cardinality(acquired) = given
    BY <1>2 DEF SemInv, SemTypeOK, UnitsExact
  <2>1. CASE w \in acquired
    <3>1. given' = given - 1 /\ Cardinality(acquired') = Cardinality(acquired) - 1
      BY <1>1, <1>2, <2>1 DEF SemWait
    <3>2. IsFiniteSet(acquired') /\ Cardinality(acquired') \in Nat
      BY <1>1, <1>2, <2>1, FS_CardinalityType
    <3> QED
      BY <1>1, <1>2, <2>0, <3>1, <3>2 DEF UnitsExact
  <2>2. CASE w \notin acquired
    BY <1>1, <1>2, <2>0, <2>2 DEF SemWait, UnitsExact
  <2> QED
    BY <2>1, <2>2
<1>4. SemTypeOK'
  BY <1>2, <1>3 DEF SemWait, EventNew, EventState, SemInv, SemTypeOK
<1>5. Woken' /\ Empty'
  BY <1>2 DEF SemWait, SemInv, SemTypeOK, Woken, Empty
<1>6. EndsOnce'
  BY DEF SemWait, EventNew, SemInv, SemTypeOK, EndsOnce
<1> QED
  BY <1>3, <1>4, <1>5, <1>6 DEF SemInv

(* A wait that ends by its timeout, by being cancelled or by taking a      *)
(* unit: its event and its context are gone and it was reported.           *)
LEMMA FinishFacts ==
    ASSUME SemInv, NEW w \in Owner, Finish(w), EventDelete(w), w \in waiting, UNCHANGED sem
    PROVE  /\ waiting' = waiting \ {w} /\ Woken' /\ EndsOnce'
           /\ waiting' \in SUBSET Owner
           /\ reports' \in [Owner -> Nat] /\ event' \in [Owner -> EventState]
BY DEF Finish, EventDelete, EventState, SemInv, SemTypeOK, Woken, EndsOnce

LEMMA TakeInv ==
    ASSUME SemInv, NEW w \in Owner, EventfdCb(w)
    PROVE  SemInv'
<1>1. CASE val > 0
  <2>1. /\ Finish(w) /\ EventDelete(w) /\ w \in waiting
        /\ val' = val - 1 /\ acquired' = acquired \cup {w} /\ UNCHANGED <<sem, given>>
    BY <1>1 DEF EventfdCb, Takes, SemInv, Woken
  <2>2. w \notin acquired
    BY <2>1 DEF SemInv, Empty
  <2>3. /\ Cardinality(acquired) \in Nat /\ IsFiniteSet(acquired')
        /\ Cardinality(acquired') = Cardinality(acquired) + 1
    BY <2>1, <2>2, Counting DEF SemInv, SemTypeOK
  <2>4. /\ waiting' = waiting \ {w} /\ Woken' /\ EndsOnce'
        /\ waiting' \in SUBSET Owner
        /\ reports' \in [Owner -> Nat] /\ event' \in [Owner -> EventState]
    BY <2>1, FinishFacts
  <2> QED
    BY <1>1, <2>1, <2>3, <2>4 DEF SemInv, SemTypeOK, Empty, UnitsExact
<1>2. CASE ~(val > 0)
  BY <1>2 DEF EventfdCb, Takes, SemInv, SemTypeOK, Woken, Empty, UnitsExact, EndsOnce
<1> QED
  BY <1>1, <1>2

LEMMA CancelInv ==
    ASSUME SemInv, NEW w \in Owner, SemTimeout(w) \/ SemCancel(w) \/ SemWaitCancel(w)
    PROVE  SemInv'
<1>1. CASE SemTimeout(w) \/ SemCancel(w)
  BY <1>1
  DEF SemTimeout, SemCancel, EventSetTimeout, EventCancel, EventState,
      SemInv, SemTypeOK, Woken, Empty, UnitsExact, EndsOnce
<1>2. CASE SemWaitCancel(w)
  <2>1. /\ Finish(w) /\ EventDelete(w) /\ event[w] # "free"
        /\ UNCHANGED <<sem, val, given, acquired>>
    BY <1>2 DEF SemWaitCancel, EventFires
  <2>2. w \in waiting
    BY <2>1 DEF SemInv, EndsOnce
  <2> QED
    BY <2>1, <2>2, FinishFacts DEF SemInv, SemTypeOK, Empty, UnitsExact
<1> QED
  BY <1>1, <1>2

LEMMA SemStepInv == SemInv /\ [SemNext]_semVars => SemInv'
<1> SUFFICES ASSUME SemInv, [SemNext]_semVars PROVE SemInv'
  OBVIOUS
<1>1. CASE UNCHANGED semVars
  BY <1>1 DEF semVars, SemInv, SemTypeOK, Woken, Empty, UnitsExact, EndsOnce
<1>2. ASSUME NEW w \in Owner, Readable(w) PROVE SemInv'
  BY <1>2 DEF Readable, SemInv, SemTypeOK, Woken, Empty, UnitsExact, EndsOnce
<1> QED
  BY <1>1, <1>2, LifeInv, WaitInv, TakeInv, CancelInv DEF SemNext
-----------------------------------------------------------------------------
(* The units that were taken and those that are left are the ones that     *)
(* were given, however many loops are woken for one unit (eventfd_cb).     *)
THEOREM UnitsAlwaysExact == SemSpec => []UnitsExact
<1>1. SemInv => UnitsExact
  BY DEF SemInv
<1> QED
  BY <1>1, SemInitInv, SemStepInv, PTL DEF SemSpec

(* Every wait is reported once: by the unit, the timeout or the cancelling,*)
(* whichever comes first (finish_sem_wait, sem_wait_cancel).               *)
THEOREM AlwaysEndsOnce == SemSpec => []EndsOnce
<1>1. SemInv => EndsOnce
  BY DEF SemInv
<1> QED
  BY <1>1, SemInitInv, SemStepInv, PTL DEF SemSpec

(* No wait is without its libevent event (vsem_wait adds it as persistent):*)
(* the loop of each that waits will be woken by the next unit.             *)
THEOREM WaitsAlwaysWoken == SemSpec => []Woken
<1>1. SemInv => Woken
  BY DEF SemInv
<1> QED
  BY <1>1, SemInitInv, SemStepInv, PTL DEF SemSpec

-----------------------------------------------------------------------------
(***************************************************************************)
(* On-demand events, for any capacities of the pipe and of the buffers and *)
(* any number of triggers.                                                 *)
(***************************************************************************)

Message == ShowCommand \cup SleepCommand
Byte == {"t", "e", "s"} \cup Digit

(* The command that begins at i, up to its last number, was asked for.     *)
EndsAt(q, i, j) ==
    /\ \A k \in (i + 1)..j : q[k] \in Digit
    /\ j < Len(q) => q[j + 1] \notin Digit

Whole(q, i, msgs) == \E j \in i..Len(q) : EndsAt(q, i, j) /\ SubSeq(q, i, j) \in msgs

(* What is in the pipe are whole commands; only the first may have lost    *)
(* its beginning to an earlier read.                                       *)
Framed(q, msgs) == \A i \in 1..Len(q) : q[i] \notin Digit => Whole(q, i, msgs)

DemandInv ==
    /\ pipe \in Seq(Byte) /\ asked \in SUBSET Message
    /\ Framed(pipe, asked)
    /\ ExecutedWasAsked
-----------------------------------------------------------------------------
(* A sleep command is its letter and digits.                               *)
LEMMA SleepFacts ==
    ASSUME NEW m \in SleepCommand
    PROVE  /\ m \in Seq(Byte) /\ Len(m) >= 3 /\ m[1] = "s"
           /\ \A k \in 2..Len(m) : m[k] \in Digit
<1>1. ASSUME NEW c \in Digit, NEW d \in Digit, m = <<"s", c, d>>
      PROVE  /\ m \in Seq(Byte) /\ Len(m) >= 3 /\ m[1] = "s"
             /\ \A k \in 2..Len(m) : m[k] \in Digit
  <2>1. /\ m \in Seq(Byte) /\ Len(m) = 3
        /\ m[1] = "s" /\ m[2] = c /\ m[3] = d
    BY <1>1 DEF Byte
  <2>2. ASSUME NEW k \in 2..3 PROVE m[k] \in Digit
    <3>1. k = 2 \/ k = 3
      OBVIOUS
    <3> QED
      BY <2>1, <3>1
  <2> QED
    BY <2>1, <2>2
<1>2. ASSUME NEW c \in Digit, NEW d \in Digit, NEW e \in Digit, m = <<"s", c, d, e>>
      PROVE  /\ m \in Seq(Byte) /\ Len(m) >= 3 /\ m[1] = "s"
             /\ \A k \in 2..Len(m) : m[k] \in Digit
  <2>1. /\ m \in Seq(Byte) /\ Len(m) = 4
        /\ m[1] = "s" /\ m[2] = c /\ m[3] = d /\ m[4] = e
    BY <1>2 DEF Byte
  <2>2. ASSUME NEW k \in 2..4 PROVE m[k] \in Digit
    <3>1. k = 2 \/ k = 3 \/ k = 4
      OBVIOUS
    <3> QED
      BY <2>1, <3>1
  <2> QED
    BY <2>1, <2>2
<1> QED
  BY <1>1, <1>2 DEF SleepCommand

(* A message is a letter and digits.                                       *)
LEMMA MessageFacts ==
    ASSUME NEW m \in Message
    PROVE  /\ m \in Seq(Byte) /\ Len(m) >= 1 /\ m[1] \notin Digit
           /\ \A k \in 2..Len(m) : m[k] \in Digit
           /\ m[1] # "s" => m = <<m[1]>>
<1>1. ASSUME NEW c \in {"t", "e"}, m = <<c>>
      PROVE  m \in Seq(Byte) /\ Len(m) = 1 /\ m[1] = c /\ m[1] \notin Digit /\ m = <<m[1]>>
  BY <1>1 DEF Byte, Digit
<1>2. CASE m \in SleepCommand
  BY <1>2, SleepFacts DEF Digit
<1>3. "s" \notin Digit
  BY DEF Digit
<1>4. ASSUME NEW c \in {"t", "e"}, m = <<c>> PROVE \A k \in 2..Len(m) : m[k] \in Digit
  BY <1>4
<1> QED
  BY <1>1, <1>2, <1>3, <1>4 DEF Message, ShowCommand

LEMMA AppendFramed ==
    ASSUME NEW q \in Seq(Byte), NEW msgs, NEW m \in Message, Framed(q, msgs)
    PROVE  Framed(q \o m, msgs \cup {m})
<1> DEFINE r == q \o m
<1>1. /\ r \in Seq(Byte) /\ Len(r) = Len(q) + Len(m) /\ Len(m) >= 1 /\ Len(m) \in Nat /\ Len(q) \in Nat
      /\ \A k \in 1..Len(q) : r[k] = q[k]
      /\ \A k \in 1..Len(m) : r[Len(q) + k] = m[k]
  BY MessageFacts
<1> SUFFICES ASSUME NEW i \in 1..Len(r), r[i] \notin Digit
             PROVE  Whole(r, i, msgs \cup {m})
  BY DEF Framed
<1>2. CASE i <= Len(q)
  <2>1. PICK j \in i..Len(q) : EndsAt(q, i, j) /\ SubSeq(q, i, j) \in msgs
    BY <1>1, <1>2 DEF Framed, Whole
  <2>2. SubSeq(r, i, j) = SubSeq(q, i, j)
    BY <1>1
  <2>3. EndsAt(r, i, j)
    <3>1. \A k \in (i + 1)..j : r[k] \in Digit
      BY <1>1, <2>1 DEF EndsAt
    <3>2. j < Len(q) => r[j + 1] \notin Digit
      BY <1>1, <2>1 DEF EndsAt
    <3>3. j = Len(q) => r[j + 1] \notin Digit
      BY <1>1, MessageFacts
    <3> QED
      BY <1>1, <3>1, <3>2, <3>3 DEF EndsAt
  <2>4. j \in i..Len(r)
    BY <1>1
  <2>5. SubSeq(r, i, j) \in msgs \cup {m}
    BY <2>1, <2>2
  <2> HIDE DEF r
  <2> QED
    BY <2>3, <2>4, <2>5 DEF Whole
<1>3. CASE i > Len(q)
  <2>1. i = Len(q) + 1
    <3>1. i - Len(q) \in 1..Len(m) /\ r[i] = m[i - Len(q)]
      BY <1>1, <1>3
    <3> QED
      <4>1. i - Len(q) \notin 2..Len(m)
        BY <3>1, MessageFacts
      <4>2. i - Len(q) = 1
        BY <1>1, <3>1, <4>1
      <4> QED
        BY <1>1, <4>2
  <2>2. EndsAt(r, i, Len(r))
    <3> SUFFICES ASSUME NEW k \in (i + 1)..Len(r) PROVE r[k] \in Digit
      BY <1>1 DEF EndsAt
    <3>1. k - Len(q) \in 2..Len(m) /\ r[k] = m[k - Len(q)]
      BY <1>1, <2>1
    <3> QED
      BY <3>1, MessageFacts
  <2>3. SubSeq(r, i, Len(r)) = m
    BY <1>1, <2>1, MessageFacts
  <2>4. Len(r) \in i..Len(r)
    BY <1>1
  <2>5. SubSeq(r, i, Len(r)) \in msgs \cup {m}
    BY <2>3
  <2> HIDE DEF r
  <2> QED
    BY <2>2, <2>4, <2>5 DEF Whole
<1> QED
  BY <1>1, <1>2, <1>3

(* Whatever a read leaves in the pipe is framed as before.                 *)
LEMMA SuffixFramed ==
    ASSUME NEW q \in Seq(Byte), NEW msgs, Framed(q, msgs), NEW n \in 0..Len(q)
    PROVE  SubSeq(q, n + 1, Len(q)) \in Seq(Byte) /\ Framed(SubSeq(q, n + 1, Len(q)), msgs)
<1> DEFINE r == SubSeq(q, n + 1, Len(q))
<1>1. /\ r \in Seq(Byte) /\ Len(r) = Len(q) - n /\ Len(q) \in Nat
      /\ \A k \in 1..Len(r) : r[k] = q[n + k]
  BY SubSeqProperties
<1> SUFFICES ASSUME NEW i \in 1..Len(r), r[i] \notin Digit
             PROVE  Whole(r, i, msgs)
  BY <1>1 DEF Framed
<1> HIDE DEF r
<1>2. PICK j \in (n + i)..Len(q) : EndsAt(q, n + i, j) /\ SubSeq(q, n + i, j) \in msgs
  <2>1. n + i \in 1..Len(q) /\ q[n + i] \notin Digit
    BY <1>1
  <2> QED
    BY <2>1 DEF Framed, Whole
<1>3. EndsAt(r, i, j - n)
  <2>1. ASSUME NEW k \in (i + 1)..(j - n) PROVE r[k] \in Digit
    <3>1. n + k \in (n + i + 1)..j /\ k \in 1..Len(r)
      BY <1>1
    <3> QED
      BY <1>1, <1>2, <3>1 DEF EndsAt
  <2>2. ASSUME j - n < Len(r) PROVE r[j - n + 1] \notin Digit
    <3>1. j < Len(q) /\ j - n + 1 \in 1..Len(r) /\ n + (j - n + 1) = j + 1
      BY <1>1, <2>2
    <3> QED
      BY <1>1, <1>2, <3>1 DEF EndsAt
  <2> QED
    BY <2>1, <2>2 DEF EndsAt
<1>4. SubSeq(r, i, j - n) = SubSeq(q, n + i, j)
  <2> DEFINE a == SubSeq(r, i, j - n)
             b == SubSeq(q, n + i, j)
  <2>1. /\ a \in Seq(Byte) /\ Len(a) = j - n - i + 1
        /\ \A k \in 1..Len(a) : a[k] = r[i + k - 1]
    BY <1>1, SubSeqProperties
  <2>2. /\ b \in Seq(Byte) /\ Len(b) = j - n - i + 1
        /\ \A k \in 1..Len(b) : b[k] = q[n + i + k - 1]
    BY <1>1, SubSeqProperties
  <2>3. ASSUME NEW k \in 1..Len(a) PROVE a[k] = b[k]
    <3>1. i + k - 1 \in 1..Len(r) /\ n + (i + k - 1) = n + i + k - 1
      BY <1>1, <2>1
    <3> QED
      BY <1>1, <2>1, <2>2, <3>1
  <2> HIDE DEF a, b
  <2>4. a = b
    BY <2>1, <2>2, <2>3, SeqEqual
  <2> QED
    BY <2>4 DEF a, b
<1>5. j - n \in i..Len(r)
  BY <1>1
<1>6. SubSeq(r, i, j - n) \in msgs
  BY <1>2, <1>4
<1> QED
  BY <1>3, <1>5, <1>6, Zenon DEF Whole

(* The numbers behind the first byte end where the command does.           *)
LEMMA NumbersFacts ==
    ASSUME NEW q \in Seq(Byte), q # <<>>, NEW j \in 1..Len(q), EndsAt(q, 1, j)
    PROVE  /\ Numbers(q) = SubSeq(q, 2, j) /\ SubSeq(q, 1, j) = <<q[1]>> \o Numbers(q)
           /\ Numbers(q) \in Seq(Byte)
<1> DEFINE ends == {n \in 1..Len(q) : \A i \in 2..n : q[i] \in Digit}
           last == CHOOSE n \in ends : \A m \in ends : m <= n
<1>1. j \in ends
  BY DEF EndsAt
<1>2. ASSUME NEW m \in ends PROVE m <= j
  <2> SUFFICES ASSUME m > j PROVE FALSE
    OBVIOUS
  <2>1. j + 1 \in 2..m /\ j < Len(q)
    OBVIOUS
  <2> QED
    BY <1>2, <2>1 DEF EndsAt
<1>3. last = j
  <2>0. ends \in SUBSET Int
    OBVIOUS
  <2>3. j \in Int
    OBVIOUS
  <2> HIDE DEF ends
  <2>1. last \in ends /\ \A m \in ends : m <= last
    BY <1>1, <1>2
  <2>2. last <= j /\ j <= last
    BY <1>1, <1>2, <2>1
  <2> HIDE DEF last
  <2> QED
    BY <2>0, <2>1, <2>2, <2>3
<1>4. Numbers(q) = SubSeq(q, 2, j)
  BY <1>3 DEF Numbers
<1>5. SubSeq(q, 1, j) = <<q[1]>> \o SubSeq(q, 2, j)
  OBVIOUS
<1>6. SubSeq(q, 2, j) \in Seq(Byte)
  OBVIOUS
<1> QED
  BY <1>4, <1>5, <1>6

(* What a read executes of what was in the pipe.                           *)
LEMMA ExecuteSound ==
    ASSUME DemandInv, pipe # <<>>, asked' = asked,
           Execute(Fitting(SubSeq(pipe, 1, ReadSize)))
    PROVE  ExecutedWasAsked'
<1> DEFINE cmd == Fitting(SubSeq(pipe, 1, ReadSize))
<1> DEFINE Runs == cmd # <<>> /\ cmd[1] \in {"s", "t", "e"}
<1>1. CASE UNCHANGED <<executed, sleep_timer>>
  BY <1>1 DEF DemandInv, ExecutedWasAsked
<1>0. ~ UNCHANGED <<executed, sleep_timer>> => Runs
  BY DEF Execute
<1>2. CASE Runs /\ ~ UNCHANGED <<executed, sleep_timer>>
  <2>1. cmd = pipe
    <3>1. ReadSize \in Nat /\ ReadSize <= Len(pipe) /\ ReadSize <= ReadLen
      BY DemandAssumption DEF ReadSize, DemandInv
    <3>2. SubSeq(pipe, 1, ReadSize) \in Seq(Byte) /\ Len(SubSeq(pipe, 1, ReadSize)) = ReadSize
      BY <3>1, SubSeqProperties DEF DemandInv
    <3>3. ReadSize < CommandLen
      BY <1>2, <3>2 DEF Fitting
    <3>4. ReadSize = Len(pipe)
      BY <3>1, <3>3, DemandAssumption DEF ReadSize, DemandInv
    <3> QED
      BY <3>2, <3>3, <3>4 DEF Fitting, DemandInv
  <2> HIDE DEF cmd
  <2>2. pipe \in Seq(Byte) /\ Len(pipe) \in Nat \ {0} /\ pipe[1] \notin Digit
    BY <1>2, <2>1 DEF DemandInv, Digit
  <2>3. PICK j \in 1..Len(pipe) : EndsAt(pipe, 1, j) /\ SubSeq(pipe, 1, j) \in asked
    BY <2>2 DEF DemandInv, Framed, Whole
  <2>4. <<pipe[1]>> \o Numbers(pipe) \in asked
    BY <2>2, <2>3, NumbersFacts
  <2>5. CASE pipe[1] = "s"
    <3>1. /\ executed' = <<"s">> \o Numbers(pipe)
          /\ sleep_timer' \in {"none", Numbers(pipe)[1]}
      BY <1>2, <2>1, <2>5 DEF Execute, cmd
    <3> DEFINE m == <<"s">> \o Numbers(pipe)
    <3>2. Numbers(pipe) \in Seq(Byte) /\ m \in asked
      BY <2>2, <2>3, <2>4, <2>5, NumbersFacts
    <3>3. /\ Len(m) = 1 + Len(Numbers(pipe)) /\ m[1] = "s" /\ Len(Numbers(pipe)) \in Nat
          /\ \A k \in 1..Len(Numbers(pipe)) : m[1 + k] = Numbers(pipe)[k]
      BY <3>2
    <3>4. executed' = m
      BY <3>1
    <3> HIDE DEF m
    <3>5. m \in SleepCommand
      <4>1. m \notin ShowCommand
        BY <3>3 DEF ShowCommand
      <4> QED
        BY <3>2, <4>1 DEF DemandInv, Message
    <3>6. Numbers(pipe)[1] = Period(m)
      <4>1. 1 \in 1..Len(Numbers(pipe))
        BY <3>3, <3>5, SleepFacts
      <4> QED
        BY <3>3, <4>1 DEF Period
    <3>7. m \in asked' \cap SleepCommand
      BY <3>2, <3>5
    <3> QED
      BY <3>1, <3>4, <3>6, <3>7 DEF ExecutedWasAsked
  <2>6. CASE pipe[1] # "s"
    <3>1. executed' = <<pipe[1]>> /\ UNCHANGED sleep_timer
      BY <1>2, <2>1, <2>6 DEF Execute, cmd
    <3>2. SubSeq(pipe, 1, j) \in Message /\ SubSeq(pipe, 1, j)[1] = pipe[1]
      BY <2>2, <2>3 DEF DemandInv
    <3>3. <<pipe[1]>> \in asked
      BY <2>3, <2>6, <3>2, MessageFacts
    <3> QED
      BY <3>1, <3>3 DEF ExecutedWasAsked, DemandInv
  <2> QED
    BY <2>5, <2>6
<1> QED
  BY <1>0, <1>1, <1>2

LEMMA DemandInitInv == DemandInit => DemandInv
BY DEF DemandInit, DemandInv, Framed, ExecutedWasAsked

LEMMA DemandStepInv == DemandInv /\ [DemandNext]_demandVars => DemandInv'
<1> SUFFICES ASSUME DemandInv, [DemandNext]_demandVars PROVE DemandInv'
  OBVIOUS
<1>1. CASE UNCHANGED demandVars \/ AddOnDemandEvent
  BY <1>1 DEF demandVars, AddOnDemandEvent, DemandInv, ExecutedWasAsked
<1>2. CASE RemoveOnDemandEvent
  <2>1. pipe' = <<>> /\ UNCHANGED <<asked, executed, sleep_timer>>
    BY <1>2 DEF RemoveOnDemandEvent
  <2>2. pipe' \in Seq(Byte) /\ Framed(pipe', asked)
    BY <2>1 DEF Framed
  <2> QED
    BY <2>1, <2>2 DEF DemandInv, ExecutedWasAsked
<1>3. ASSUME NEW msg \in Message, Trigger(msg) PROVE DemandInv'
  <2>1. CASE UNCHANGED <<pipe, asked>>
    BY <1>3, <2>1 DEF Trigger, DemandInv, ExecutedWasAsked
  <2>2. CASE pipe' = pipe \o msg /\ asked' = asked \cup {msg}
    <3>1. pipe' \in Seq(Byte) /\ Framed(pipe', asked')
      BY <2>2, AppendFramed, MessageFacts DEF DemandInv
    <3>2. ExecutedWasAsked'
      BY <1>3, <2>2 DEF Trigger, DemandInv, ExecutedWasAsked
    <3> QED
      BY <2>2, <3>1, <3>2 DEF DemandInv
  <2> QED
    BY <1>3, <2>1, <2>2 DEF Trigger
<1>4. CASE OnDemandCb
  <2>1. ReadSize \in 0..Len(pipe)
    BY DemandAssumption DEF ReadSize, DemandInv
  <2>2. pipe' \in Seq(Byte) /\ Framed(pipe', asked')
    BY <1>4, <2>1, SuffixFramed DEF OnDemandCb, DemandInv
  <2>3. ExecutedWasAsked'
    BY <1>4, ExecuteSound DEF OnDemandCb
  <2> QED
    BY <1>4, <2>2, <2>3 DEF OnDemandCb, DemandInv
<1> QED
  BY <1>1, <1>2, <1>3, <1>4 DEF DemandNext, Message
-----------------------------------------------------------------------------
(* What a loop executes was asked for with all its numbers, and a sleep    *)
(* timer runs only with a period that was asked for, although              *)
(* on_demand_event_cb reads whatever is there and vloop_on_demand_callback *)
(* takes it for one command.                                               *)
THEOREM ExecutedAlwaysAsked == DemandSpec => []ExecutedWasAsked
<1>1. DemandInv => ExecutedWasAsked
  BY DEF DemandInv
<1> QED
  BY <1>1, DemandInitInv, DemandStepInv, PTL DEF DemandSpec

-----------------------------------------------------------------------------
(***************************************************************************)
(* Debug modules and their commands, for any set of names and of           *)
(* connections, any number of handlers and requests of any length.         *)
(***************************************************************************)

Node == Name \cup {Handler}
Module == [len : Int, cmds : Seq(Node)]
CommandsOf(m) == ToSet(m.cmds) \ {Handler}

(* No command is in a list twice. *)
Once(cmds) ==
    \A i, j \in 1..Len(cmds) : cmds[i] = cmds[j] => i = j \/ cmds[i] = Handler

(* What the operations keep true of one module: len is the number of its   *)
(* commands, or one less if it was made for handlers.                      *)
Sound(m) ==
    /\ IsFiniteSet(CommandsOf(m))
    /\ m.len \in {Cardinality(CommandsOf(m)), Cardinality(CommandsOf(m)) - 1}
    /\ Handler \in ToSet(m.cmds) => m.len = Cardinality(CommandsOf(m)) - 1
    /\ Once(m.cmds)

TextInv ==
    /\ mod_list \in SUBSET Name
    /\ mods \in [Name -> Module]
    /\ wild # "kind" => \A n \in Name : Sound(mods[n])
    /\ \A n \in Name : n \notin mod_list => mods[n] = NoModule

LEMMA OnceAppend ==
    ASSUME NEW s \in Seq(Node), NEW a \in Node, Once(s), a \in ToSet(s) => a = Handler
    PROVE  /\ Append(s, a) \in Seq(Node) /\ Once(Append(s, a))
           /\ ToSet(Append(s, a)) = ToSet(s) \cup {a}
<1> DEFINE n == Len(s)
           p == Append(s, a)
<1>1. p \in Seq(Node) /\ ToSet(p) = ToSet(s) \cup {a}
  BY AppendFacts
<1>2. /\ n \in Nat /\ Len(p) = n + 1 /\ p[n + 1] = a
      /\ \A j \in 1..n : p[j] = s[j]
  BY AppendProperties
<1>3. \A j \in 1..n : s[j] = a => a = Handler
  BY InToSet
<1>4. \A i, j \in 1..n : s[i] = s[j] => i = j \/ s[i] = Handler
  BY DEF Once
<1> HIDE DEF n, p
<1>5. Once(p)
  BY <1>2, <1>3, <1>4 DEF Once
<1> QED
  BY <1>1, <1>5 DEF p

LEMMA OnceUnlink ==
    ASSUME NEW s \in Seq(Node), NEW k \in Node, Once(s), k # Handler, k \in ToSet(s)
    PROVE  /\ Unlink(s, k) \in Seq(Node) /\ Once(Unlink(s, k))
           /\ ToSet(Unlink(s, k)) = ToSet(s) \ {k}
<1>1. PICK i \in 1..Len(s) : s[i] = k /\ Unlink(s, k) = RemoveAt(s, i)
  BY UnlinkFacts
<1> DEFINE n == Len(s)
           p == RemoveAt(s, i)
           f(x) == IF x < i THEN x ELSE x + 1
<1>2. n \in Nat /\ i \in Int /\ 1 <= i /\ i <= n
  BY LenProperties
<1>3. /\ p \in Seq(Node) /\ Len(p) = n - 1
      /\ \A j \in 1..n - 1 : p[j] = IF j < i THEN s[j] ELSE s[j + 1]
  BY RemoveAtIndex
<1>4. \A x, y \in 1..n : s[x] = s[y] => x = y \/ s[x] = Handler
  BY DEF Once
<1>5. /\ \A x : x \in ToSet(s) <=> \E j \in 1..n : x = s[j]
      /\ \A x : x \in ToSet(p) <=> \E j \in 1..n - 1 : x = p[j]
  <2> HIDE DEF p
  <2> QED
    BY <1>3, InToSet
<1>6. ASSUME NEW j \in 1..n - 1
      PROVE  f(j) \in 1..n /\ f(j) # i /\ p[j] = s[f(j)]
  BY <1>2, <1>3
<1>7. ASSUME NEW x \in 1..n, x # i PROVE \E j \in 1..n - 1 : x = f(j)
  <2>1. CASE x < i
    <3>1. x \in 1..n - 1 /\ f(x) = x
      BY <1>2, <2>1
    <3> QED
      BY <3>1
  <2>2. CASE x > i
    <3>1. x - 1 \in 1..n - 1 /\ f(x - 1) = x
      BY <1>2, <2>2
    <3> QED
      BY <3>1
  <2> QED
    BY <1>2, <1>7, <2>1, <2>2
<1>8. \A x, y \in 1..n - 1 : f(x) = f(y) => x = y
  BY <1>2
<1> HIDE DEF n, p, f
<1>9. Once(p)
  <2> SUFFICES ASSUME NEW x \in 1..n - 1, NEW y \in 1..n - 1, p[x] = p[y]
               PROVE  x = y \/ p[x] = Handler
    BY <1>3 DEF Once
  <2> QED
    BY <1>4, <1>6, <1>8
<1>10. ToSet(p) = ToSet(s) \ {k}
  <2>1. ASSUME NEW x \in ToSet(p) PROVE x \in ToSet(s) /\ x # k
    <3>1. PICK j \in 1..n - 1 : x = p[j]
      BY <1>5, <2>1
    <3> QED
      BY <1>1, <1>4, <1>5, <1>6, <3>1 DEF n
  <2>2. ASSUME NEW x \in ToSet(s), x # k PROVE x \in ToSet(p)
    <3>1. PICK j \in 1..n : x = s[j]
      BY <1>5, <2>2
    <3> QED
      BY <1>1, <1>5, <1>6, <1>7, <2>2, <3>1
  <2> QED
    BY <2>1, <2>2
<1> QED
  BY <1>1, <1>3, <1>9, <1>10 DEF p

LEMMA EmptySound ==
    ASSUME NEW m \in {NoModule, [len |-> VTND_TEXT_DISPATCH, cmds |-> <<>>]}
    PROVE  m \in Module /\ Sound(m)
<1>1. m.cmds = <<>> /\ m.len \in {0, 0 - 1} /\ m \in Module
  <2>1. <<>> \in Seq(Node) /\ 0 \in Int /\ -1 \in Int /\ -1 = 0 - 1
    OBVIOUS
  <2>2. CASE m = NoModule
    BY <2>1, <2>2 DEF NoModule, Module
  <2>3. CASE m = [len |-> VTND_TEXT_DISPATCH, cmds |-> <<>>]
    BY <2>1, <2>3 DEF VTND_TEXT_DISPATCH, Module
  <2> QED
    BY <2>2, <2>3
<1>2. ToSet(m.cmds) = {}
  BY <1>1 DEF ToSet
<1> QED
  BY <1>1, <1>2, FS_EmptySet DEF Sound, CommandsOf, Once

(* A handler is one node more, and no command. *)
LEMMA HandlerSound ==
    ASSUME NEW m \in Module, Sound(m), m.len = VTND_TEXT_DISPATCH
    PROVE  LET new == [len |-> VTND_TEXT_DISPATCH, cmds |-> Append(m.cmds, Handler)]
           IN  new \in Module /\ Sound(new)
<1> DEFINE c == m.cmds
           d == Append(c, Handler)
           new == [len |-> VTND_TEXT_DISPATCH, cmds |-> d]
<1>1. c \in Seq(Node) /\ Handler \in Node
  BY DEF Module, Node
<1>2. d \in Seq(Node) /\ Once(d) /\ ToSet(d) = ToSet(c) \cup {Handler}
  BY <1>1, OnceAppend DEF Sound
<1> HIDE DEF d
<1>3. new.len = m.len /\ new.cmds = d /\ new \in Module
  BY <1>2 DEF Module, VTND_TEXT_DISPATCH
<1> HIDE DEF new
<1>4. CommandsOf(new) = CommandsOf(m)
  BY <1>2, <1>3 DEF CommandsOf
<1>5. Cardinality(CommandsOf(m)) \in Nat
  BY FS_CardinalityType DEF Sound
<1>6. m.len = Cardinality(CommandsOf(m)) - 1
  BY <1>5 DEF Sound, VTND_TEXT_DISPATCH
<1>7. Sound(new)
  BY <1>2, <1>3, <1>4, <1>6 DEF Sound
<1> QED
  BY <1>3, <1>7 DEF new, d

LEMMA InsertedSound ==
    ASSUME NEW m \in Module, Sound(m), NEW k \in Name, k \notin CommandsOf(m)
    PROVE  Inserted(m, k) \in Module /\ Sound(Inserted(m, k))
<1> DEFINE c == m.cmds
           d == Append(c, k)
           new == [len |-> m.len + 1, cmds |-> d]
<1>1. c \in Seq(Node) /\ k \in Node /\ k # Handler /\ k \notin ToSet(c) /\ m.len \in Int
  BY TextAssumption DEF Module, Node, CommandsOf
<1>2. d \in Seq(Node) /\ Once(d) /\ ToSet(d) = ToSet(c) \cup {k}
  BY <1>1, OnceAppend DEF Sound
<1> HIDE DEF d
<1>3. new.len = m.len + 1 /\ new.cmds = d /\ new \in Module
  BY <1>1, <1>2 DEF Module
<1> HIDE DEF new
<1>4. CommandsOf(new) = CommandsOf(m) \cup {k}
  BY <1>1, <1>2, <1>3 DEF CommandsOf
<1>5. /\ Cardinality(CommandsOf(m)) \in Nat
      /\ IsFiniteSet(CommandsOf(new))
      /\ Cardinality(CommandsOf(new)) = Cardinality(CommandsOf(m)) + 1
  BY <1>4, FS_CardinalityType, FS_AddElement DEF Sound
<1>6. Handler \in ToSet(d) => Handler \in ToSet(c)
  BY <1>1, <1>2
<1>7. Sound(new)
  BY <1>1, <1>2, <1>3, <1>5, <1>6 DEF Sound
<1> QED
  BY <1>3, <1>7 DEF new, d, Inserted

LEMMA DeletedSound ==
    ASSUME NEW m \in Module, Sound(m), NEW k \in CommandsOf(m)
    PROVE  Deleted(m, k) \in Module /\ Sound(Deleted(m, k))
<1> DEFINE c == m.cmds
           d == Unlink(c, k)
           new == [len |-> m.len - 1, cmds |-> d]
<1>1. c \in Seq(Node) /\ k # Handler /\ k \in ToSet(c) /\ m.len \in Int
  BY DEF Module, CommandsOf
<1>2. k \in Node
  BY <1>1, InToSet, ElementOfSeq
<1>3. d \in Seq(Node) /\ Once(d) /\ ToSet(d) = ToSet(c) \ {k}
  BY <1>1, <1>2, OnceUnlink DEF Sound
<1> HIDE DEF d
<1>4. new.len = m.len - 1 /\ new.cmds = d /\ new \in Module
  BY <1>1, <1>3 DEF Module
<1> HIDE DEF new
<1>5. CommandsOf(new) = CommandsOf(m) \ {k}
  BY <1>3, <1>4 DEF CommandsOf
<1>6. /\ Cardinality(CommandsOf(m)) \in Nat
      /\ IsFiniteSet(CommandsOf(new))
      /\ Cardinality(CommandsOf(new)) = Cardinality(CommandsOf(m)) - 1
  BY <1>5, FS_CardinalityType, FS_RemoveElement DEF Sound
<1>7. Handler \in ToSet(d) => Handler \in ToSet(c)
  BY <1>3
<1>8. Sound(new)
  BY <1>1, <1>3, <1>4, <1>6, <1>7 DEF Sound
<1> QED
  BY <1>4, <1>8 DEF new, d, Deleted

LEMMA CommandsAre == \A n : Commands(n) = CommandsOf(mods[n])
BY DEF Commands, CommandsOf
-----------------------------------------------------------------------------
LEMMA InitTextInv == Init => TextInv
<1> SUFFICES ASSUME Init PROVE TextInv
  OBVIOUS
<1>1. \A n \in Name : mods[n] = NoModule /\ mods[n] \in Module /\ Sound(mods[n])
  BY EmptySound DEF Init
<1> QED
  BY <1>1 DEF Init, TextInv

(* Each operation gives one module a new value that is sound. *)
LEMMA OneModule ==
    ASSUME TextInv, wild = "no", NEW n \in Name, NEW m \in Module, Sound(m),
           mods' = [mods EXCEPT ![n] = m],
           mod_list' \in {mod_list, mod_list \cup {n}, mod_list \ {n}},
           n \notin mod_list' => m = NoModule
    PROVE  TextInv'
BY DEF TextInv

LEMMA ModuleTextInv ==
    ASSUME TextInv, wild = "no", NEW n \in Name, LinkModule(n) \/ LinkDispatch(n) \/ UnlinkModule(n)
    PROVE  TextInv'
<1>1. CASE LinkModule(n)
  BY <1>1, EmptySound, OneModule DEF LinkModule, NewModule, NoModule
<1>2. CASE UnlinkModule(n)
  BY <1>2, EmptySound, OneModule DEF UnlinkModule, RemoveModule
<1>3. CASE LinkDispatch(n)
  <2> DEFINE old == IF Exists(n) THEN mods[n] ELSE [len |-> VTND_TEXT_DISPATCH, cmds |-> <<>>]
  <2>1. old \in Module /\ Sound(old) /\ old.len = VTND_TEXT_DISPATCH /\ old.cmds = mods[n].cmds
    BY <1>3, EmptySound DEF LinkDispatch, TextInv, Exists, IsDispatch, NoModule
  <2>2. PICK tail \in {<<>>, <<Handler>>} :
            mods' = [mods EXCEPT ![n] = [len |-> VTND_TEXT_DISPATCH, cmds |-> mods[n].cmds \o tail]]
    BY <1>3 DEF LinkDispatch, TextInv
  <2>3. mods[n].cmds \in Seq(Node) /\ Handler \in Node
    BY DEF TextInv, Module, Node
  <2>4. CASE tail = <<>>
    <3>1. mods[n].cmds \o tail = old.cmds
      BY <2>1, <2>3, <2>4
    <3>2. [len |-> VTND_TEXT_DISPATCH, cmds |-> old.cmds] = old
      BY <2>1 DEF Module
    <3> HIDE DEF old
    <3>3. mods' = [mods EXCEPT ![n] = old]
      BY <2>2, <3>1, <3>2
    <3> QED
      BY <1>3, <2>1, <3>3, OneModule DEF LinkDispatch
  <2>5. CASE tail = <<Handler>>
    <3> DEFINE new == [len |-> VTND_TEXT_DISPATCH, cmds |-> Append(old.cmds, Handler)]
    <3>1. mods[n].cmds \o tail = Append(mods[n].cmds, Handler)
      BY <2>3, <2>5, AppendIsConcat
    <3> HIDE DEF old
    <3>2. new \in Module /\ Sound(new)
      BY <2>1, HandlerSound
    <3>3. mods' = [mods EXCEPT ![n] = new]
      BY <2>1, <2>2, <3>1
    <3> HIDE DEF new
    <3> QED
      BY <1>3, <3>2, <3>3, OneModule DEF LinkDispatch
  <2> QED
    BY <2>4, <2>5
<1> QED
  BY <1>1, <1>2, <1>3

(* Commands come and go one at a time, in modules of either kind. *)
LEMMA CommandTextInv ==
    ASSUME TextInv, wild = "no", NEW n \in Name, NEW k \in Name,
           LinkCmd(n, k) \/ LinkCppCmd(n, k) \/ UnlinkCmd(n, k)
    PROVE  TextInv'
<1>1. CASE UNCHANGED <<mod_list, mods>>
  BY <1>1 DEF TextInv
<1>2. mods[n] \in Module /\ Sound(mods[n])
  BY DEF TextInv
<1>3. CASE Exists(n) /\ k \notin Commands(n) /\ mods' = [mods EXCEPT ![n] = Inserted(mods[n], k)]
           /\ mod_list' = mod_list
  BY <1>2, <1>3, CommandsAre, InsertedSound, OneModule DEF Exists
<1>4. CASE Exists(n) /\ k \in Commands(n) /\ mods' = [mods EXCEPT ![n] = Deleted(mods[n], k)]
           /\ mod_list' = mod_list
  BY <1>2, <1>4, CommandsAre, DeletedSound, OneModule DEF Exists
<1>5. ASSUME NEW i \in Handlers(n), mods' = [mods EXCEPT ![n] = DeletedHandler(mods[n], i)],
             mod_list' = mod_list, wild' = "kind", Exists(n)
      PROVE  TextInv'
  <2>1. i \in 1..Len(mods[n].cmds) /\ mods[n].cmds \in Seq(Node) /\ mods[n].len \in Int
    BY <1>2 DEF Handlers, Module
  <2>2. DeletedHandler(mods[n], i) \in Module
    BY <2>1, RemoveAtIndex DEF DeletedHandler, Module
  <2> QED
    BY <1>5, <2>2 DEF TextInv, Exists
<1> QED
  BY <1>1, <1>3, <1>4, <1>5 DEF LinkCmd, LinkCppCmd, UnlinkCmd

LEMMA NextTextInv == TextInv /\ [Next]_vars => TextInv'
<1> SUFFICES ASSUME TextInv, [Next]_vars PROVE TextInv'
  OBVIOUS
<1>1. CASE UNCHANGED <<mod_list, mods, wild>>
  BY <1>1 DEF TextInv
<1>2. CASE wild = "no" /\ UNCHANGED <<mod_list, mods>>
  BY <1>2 DEF TextInv
<1> QED
  BY <1>1, <1>2, ModuleTextInv, CommandTextInv DEF Next, vars, Process
-----------------------------------------------------------------------------
(* A module with a command is no dispatch module, so that the command is   *)
(* called by its module's name and its own (vtnd_text_req_process).        *)
LEMMA CommandCalled ==
    ASSUME NEW n \in Name, NEW k \in Name, Exists(n), ~IsDispatch(n), k \in Commands(n)
    PROVE  Called(Top, <<n, k>>) = <<"call", n, k, <<>>>>
<1> DEFINE text == <<n, k>>
<1>1. /\ TextWord(text, 1) = n /\ TextWord(text, 2) = k /\ TextWord(text, 3) = ""
      /\ text[1] = n
  <2>1. text[1] = n /\ text[2] = k /\ Len(text) = 2
    OBVIOUS
  <2>2. n \notin {Long, Longer} /\ k \notin {Long, Longer}
    BY TextAssumption
  <2> HIDE DEF text
  <2> QED
    BY <2>1, <2>2 DEF TextWord, Word
<1>2. ArgsFrom(text, 3) = <<>>
  <2>1. SubSeq(text, 3, 2) = <<>>
    BY SubSeqEmpty
  <2> QED
    BY <2>1 DEF ArgsFrom
<1> HIDE DEF text
<1>3. /\ n \notin Reserved /\ n # "" /\ k # "" /\ k \notin Reserved
  BY TextAssumption
<1>4. ModuleCmd(n, text) = <<"call", n, k, <<>>>>
  <2>1. k # "help" /\ k # "list" /\ "" # "help"
    BY <1>3 DEF Reserved
  <2>2. TextWord(text, 1 + 1) = k /\ TextWord(text, 1 + 2) = "" /\ ArgsFrom(text, 1 + 2) = <<>>
    <3>1. 1 + 1 = 2 /\ 1 + 2 = 3
      OBVIOUS
    <3> QED
      BY <1>1, <1>2, <3>1, Zenon
  <2> QED
    BY <1>1, <2>1, <2>2 DEF ModuleCmd
<1>5. Called(Top, text) = ModuleCmd(n, text)
  BY <1>1, <1>3 DEF Called
<1> QED
  BY <1>4, <1>5 DEF text

(* The length that marks a dispatch module is never that of a module with  *)
(* commands, whatever is linked and unlinked, and no two commands of a     *)
(* module have one name (insert_tnd_cmd, delete_tnd_cmd).                  *)
THEOREM KindsAlwaysApart == Spec => []KindsApart
<1>1. TextInv => KindsApart
  <2> SUFFICES ASSUME TextInv, NEW n \in Name, Exists(n), wild # "kind"
               PROVE  /\ mods[n].len \in {Cardinality(Commands(n)), Cardinality(Commands(n)) - 1}
                      /\ Handlers(n) # {} => mods[n].len = Cardinality(Commands(n)) - 1
                      /\ Once(mods[n].cmds)
                      /\ \A k \in Commands(n) : Called(Top, <<n, k>>) = <<"call", n, k, <<>>>>
    BY DEF KindsApart, Once
  <2>1. mods[n] \in Module /\ Sound(mods[n]) /\ Commands(n) = CommandsOf(mods[n])
    BY CommandsAre DEF TextInv
  <2>2. mods[n].cmds \in Seq(Node)
    BY <2>1 DEF Module
  <2>3. Handlers(n) # {} => Handler \in ToSet(mods[n].cmds)
    BY <2>2, InToSet DEF Handlers
  <2>4. ASSUME NEW k \in Commands(n)
        PROVE  Called(Top, <<n, k>>) = <<"call", n, k, <<>>>>
    <3>1. k \in Name
      BY <2>1, <2>2, InToSet, ElementOfSeq DEF CommandsOf, Node
    <3>2. Cardinality(Commands(n)) \in Nat /\ Cardinality(Commands(n)) # 0
      BY <2>1, FS_CardinalityType, FS_EmptySet DEF Sound
    <3>3. ~IsDispatch(n)
      BY <2>1, <3>2 DEF Sound, IsDispatch, VTND_TEXT_DISPATCH
    <3> QED
      BY <3>1, <3>3, CommandCalled
  <2> QED
    BY <2>1, <2>3, <2>4 DEF Sound
<1> QED
  BY <1>1, InitTextInv, NextTextInv, PTL DEF Spec
==============================================================================
