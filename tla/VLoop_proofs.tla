---------------------------- MODULE VLoop_proofs ----------------------------
(***************************************************************************)
(* Proofs about the event loop: the invariants hold for any set of actions *)
(* and handles, an action never runs in the drain in which it was created, *)
(* and the two lists implement one first-in first-out queue.               *)
(***************************************************************************)
EXTENDS VLoop, VSeqFacts

(* QueueSound with the vocabulary of VSeqFacts.                            *)
LEMMA QueueSoundDistinct ==
    QueueSound <=> Distinct(queue) /\ ToSet(queue) \subseteq live
BY DEF QueueSound, Distinct

(* What the type invariant says of the two lists together. *)
LEMMA QueueFacts ==
    ASSUME TypeOK, QueueSound
    PROVE  /\ queue \in Seq(Action)
           /\ ToSet(queue) = ToSet(local_list) \cup ToSet(action_list)
           /\ Distinct(queue) /\ Distinct(local_list)
           /\ ToSet(local_list) \cap ToSet(action_list) = {}
           /\ ToSet(queue) \subseteq live
<1>1. action_list \in Seq(Action) /\ local_list \in Seq(Action)
  BY DEF TypeOK
<1> QED
  BY <1>1, ConcatFacts, QueueSoundDistinct DEF queue

(* An action taken out of whichever list holds it is taken out of the      *)
(* queue the two lists form.                                               *)
LEMMA UnlinkBoth ==
    ASSUME NEW s \in Seq(Action), NEW t \in Seq(Action), NEW a, Distinct(s \o t)
    PROVE  /\ Unlink(s, a) \in Seq(Action) /\ Unlink(t, a) \in Seq(Action)
           /\ ToSet(Unlink(s, a)) \subseteq ToSet(s)
           /\ s = <<>> => Unlink(s, a) = <<>>
           /\ t = <<>> => Unlink(t, a) = <<>>
           /\ \/ /\ a \notin ToSet(s \o t)
                 /\ Unlink(s, a) \o Unlink(t, a) = s \o t
              \/ \E i \in 1..Len(s \o t) :
                    /\ (s \o t)[i] = a
                    /\ Unlink(s, a) \o Unlink(t, a) = RemoveAt(s \o t, i)
<1>1. /\ s \o t \in Seq(Action)
      /\ ToSet(s \o t) = ToSet(s) \cup ToSet(t)
      /\ Distinct(s) /\ ToSet(s) \cap ToSet(t) = {}
  BY ConcatFacts
<1>2. /\ Unlink(s, a) \in Seq(Action) /\ Unlink(t, a) \in Seq(Action)
  BY UnlinkFacts
<1>3. ToSet(Unlink(s, a)) \subseteq ToSet(s)
  BY <1>1, UnlinkFacts, RemoveFacts
<1>4. ToSet(<<>>) = {}
  BY DEF ToSet
<1>5. /\ s = <<>> => Unlink(s, a) = <<>>
      /\ t = <<>> => Unlink(t, a) = <<>>
  BY <1>4 DEF Unlink
<1>6. /\ Len(s) \in Nat /\ Len(t) \in Nat /\ Len(s \o t) = Len(s) + Len(t)
      /\ \A j \in 1..Len(s) + Len(t) :
            (s \o t)[j] = IF j <= Len(s) THEN s[j] ELSE t[j - Len(s)]
  BY ConcatProperties, LenProperties
<1>7. CASE a \in ToSet(s)
  <2>1. PICK i \in 1..Len(s) : s[i] = a /\ Unlink(s, a) = RemoveAt(s, i)
    BY <1>7, UnlinkFacts
  <2>2. Unlink(t, a) = t
    BY <1>1, <1>7, UnlinkFacts
  <2>3. RemoveAt(s \o t, i) = RemoveAt(s, i) \o t
    BY RemoveFromFirst
  <2>4. i \in 1..Len(s \o t) /\ (s \o t)[i] = a
    BY <1>6, <2>1
  <2> QED
    BY <1>2, <1>3, <1>5, <2>1, <2>2, <2>3, <2>4
<1>8. CASE a \in ToSet(t)
  <2>1. PICK i \in 1..Len(t) : t[i] = a /\ Unlink(t, a) = RemoveAt(t, i)
    BY <1>8, UnlinkFacts
  <2>2. Unlink(s, a) = s
    BY <1>1, <1>8, UnlinkFacts
  <2>3. RemoveAt(s \o t, Len(s) + i) = s \o RemoveAt(t, i)
    BY RemoveFromSecond
  <2>4. Len(s) + i \in 1..Len(s \o t) /\ (s \o t)[Len(s) + i] = a
    <3> DEFINE n == Len(s)
               m == Len(t)
               c == s \o t
    <3>1. /\ n \in Nat /\ m \in Nat /\ Len(c) = n + m /\ i \in 1..m
          /\ \A j \in 1..n + m : c[j] = IF j <= n THEN s[j] ELSE t[j - n]
      BY <1>6
    <3> HIDE DEF n, m, c
    <3>2. n + i \in 1..n + m /\ ~(n + i <= n) /\ n + i - n = i
      BY <3>1
    <3>3. n + i \in 1..Len(c) /\ c[n + i] = t[i]
      BY <3>1, <3>2
    <3> QED
      BY <2>1, <3>3 DEF n, c
  <2> QED
    BY <1>2, <1>3, <1>5, <2>1, <2>2, <2>3, <2>4
<1>9. CASE a \notin ToSet(s \o t)
  <2>1. Unlink(s, a) = s /\ Unlink(t, a) = t
    BY <1>1, <1>9, UnlinkFacts
  <2> QED
    BY <1>2, <1>3, <1>5, <1>9, <2>1
<1> QED
  BY <1>1, <1>7, <1>8, <1>9
-----------------------------------------------------------------------------
(* What a step that leaves the lists and the loop alone preserves. *)
LEMMA ListsKept ==
    ASSUME IInv, UNCHANGED loopVars, UNCHANGED actionVars,
           pc = "poll" => active' = active
    PROVE  Control' /\ QueueSound' /\ NoSleepWithWork' /\ queue' = queue
<1>1. UNCHANGED <<pc, running, nonblock, action_list, local_list, live, fresh>>
  BY DEF loopVars, actionVars
<1>2. queue' = queue
  BY <1>1 DEF queue
<1> QED
  BY <1>1, <1>2 DEF IInv, Control, QueueSound, NoSleepWithWork

(* What a step that leaves the descriptors alone preserves. *)
LEMMA EventsKept ==
    ASSUME IInv, UNCHANGED eventVars, pc' = "dispatch" => pc = "dispatch"
    PROVE  NoStaleEvent' /\ HighestFirst'
BY DEF IInv, NoStaleEvent, HighestFirst, eventVars

(* The initial state satisfies the inductive invariant. *)
LEMMA InitIInv == Init => IInv
<1> SUFFICES ASSUME Init PROVE IInv
  OBVIOUS
<1>1. <<>> \in Seq(Action) /\ Len(<<>>) = 0 /\ ToSet(<<>>) = {}
  BY EmptySeq DEF ToSet
<1>2. queue = <<>>
  <2>1. <<>> \o <<>> = <<>>
    BY <1>1, ConcatEmptySeq
  <2> QED
    BY <2>1 DEF Init, queue
<1>3. TypeOK
  <2>1. DefaultPrio \in Priority /\ 0 \in Priority
    BY NPrioAssumption DEF DefaultPrio, Priority
  <2>2. EventsOf(OnDemand, {"read"}) \subseteq Event
    BY DEF EventsOf, Event, Dir
  <2> QED
    BY <1>1, <2>1, <2>2 DEF Init, TypeOK
<1>4. Control
  BY DEF Init, Control
<1>5. QueueSound
  BY <1>1, <1>2 DEF QueueSound
<1>6. NoSleepWithWork
  BY DEF Init, NoSleepWithWork
<1>7. NoStaleEvent /\ HighestFirst
  BY DEF Init, NoStaleEvent, HighestFirst, EventsOf, Event, Dir
<1> QED
  BY <1>3, <1>4, <1>5, <1>6, <1>7 DEF IInv

(* vloop_action_create: the new action is the youngest of the queue.       *)
LEMMA CreateActionQueue ==
    ASSUME TypeOK, NEW a \in Action, CreateAction(a)
    PROVE  queue' = Append(queue, a)
<1>1. /\ local_list \in Seq(Action) /\ action_list \in Seq(Action)
      /\ local_list' = local_list /\ action_list' = Append(action_list, a)
  BY DEF TypeOK, CreateAction
<1> QED
  BY <1>1, ConcatAppend DEF queue

(* vloop_action_create preserves the invariant: the new action is live.    *)
LEMMA CreateActionIInv ==
    ASSUME IInv, NEW a \in Action, CreateAction(a)
    PROVE  IInv'
<1>1. /\ a \notin live /\ live' = live \cup {a} /\ fresh' = fresh \cup {a}
      /\ action_list' = Append(action_list, a) /\ local_list' = local_list
      /\ UNCHANGED <<pc, running, nonblock>> /\ UNCHANGED eventVars
      /\ running # "none"
  BY DEF CreateAction, loopVars, Callback
<1>2. /\ queue \in Seq(Action) /\ Distinct(queue) /\ ToSet(queue) \subseteq live
      /\ ToSet(local_list) \subseteq ToSet(queue)
  BY QueueFacts DEF IInv
<1>3. queue' = Append(queue, a)
  BY CreateActionQueue DEF IInv
<1>4. TypeOK'
  <2>1. action_list' \in Seq(Action)
    BY <1>1, AppendProperties DEF IInv, TypeOK
  <2> QED
    BY <1>1, <2>1 DEF IInv, TypeOK, eventVars
<1>5. Control'
  <2>1. a \notin ToSet(local_list)
    BY <1>1, <1>2
  <2> QED
    BY <1>1, <2>1 DEF IInv, Control
<1>6. QueueSound'
  <2>1. Distinct(queue') /\ ToSet(queue') = ToSet(queue) \cup {a}
    BY <1>1, <1>2, <1>3, AppendFacts
  <2>2. ToSet(queue') \subseteq live'
    BY <1>1, <1>2, <2>1
  <2> QED
    BY <2>1, <2>2 DEF QueueSound, Distinct
<1>7. NoSleepWithWork'
  BY <1>1 DEF IInv, Control, TypeOK, NoSleepWithWork
<1>8. NoStaleEvent' /\ HighestFirst'
  BY <1>1, EventsKept
<1> QED
  BY <1>4, <1>5, <1>6, <1>7, <1>8 DEF IInv

(* vloop_action_delete: the action leaves whichever list it is in.         *)
LEMMA DeleteActionQueue ==
    ASSUME TypeOK, QueueSound, NEW a \in Action, DeleteAction(a)
    PROVE  /\ action_list' \in Seq(Action) /\ local_list' \in Seq(Action)
           /\ ToSet(local_list') \subseteq ToSet(local_list)
           /\ local_list = <<>> => local_list' = <<>>
           /\ \/ a \notin ToSet(queue) /\ queue' = queue
              \/ \E i \in 1..Len(queue) :
                    queue[i] = a /\ queue' = RemoveAt(queue, i)
<1>1. /\ local_list \in Seq(Action) /\ action_list \in Seq(Action)
      /\ local_list' = Unlink(local_list, a)
      /\ action_list' = Unlink(action_list, a)
  BY DEF TypeOK, DeleteAction
<1>2. Distinct(local_list \o action_list)
  BY QueueFacts DEF queue
<1>3. /\ local_list' \in Seq(Action) /\ action_list' \in Seq(Action)
      /\ ToSet(local_list') \subseteq ToSet(local_list)
      /\ local_list = <<>> => local_list' = <<>>
      /\ \/ /\ a \notin ToSet(local_list \o action_list)
            /\ local_list' \o action_list' = local_list \o action_list
         \/ \E i \in 1..Len(local_list \o action_list) :
               /\ (local_list \o action_list)[i] = a
               /\ local_list' \o action_list' = RemoveAt(local_list \o action_list, i)
  <2> DEFINE l == Unlink(local_list, a)
             k == Unlink(action_list, a)
             q == local_list \o action_list
  <2>1. /\ l \in Seq(Action) /\ k \in Seq(Action)
        /\ ToSet(l) \subseteq ToSet(local_list)
        /\ local_list = <<>> => l = <<>>
        /\ \/ /\ a \notin ToSet(q)
              /\ l \o k = q
           \/ \E i \in 1..Len(q) :
                 /\ q[i] = a
                 /\ l \o k = RemoveAt(q, i)
    BY <1>1, <1>2, UnlinkBoth
  <2> HIDE DEF l, k
  <2>2. local_list' = l /\ action_list' = k
    BY <1>1 DEF l, k
  <2> QED
    BY <2>1, <2>2
<1>4. queue = local_list \o action_list /\ queue' = local_list' \o action_list'
  BY DEF queue
<1> QED
  BY <1>3, <1>4

(* vloop_action_delete preserves the invariant: no freed action is queued. *)
LEMMA DeleteActionIInv ==
    ASSUME IInv, NEW a \in Action, DeleteAction(a)
    PROVE  IInv'
<1>1. /\ a \in live /\ live' = live \ {a} /\ fresh' = fresh \ {a}
      /\ UNCHANGED <<pc, running, nonblock>> /\ UNCHANGED eventVars
      /\ running # "none"
  BY DEF DeleteAction, loopVars, Callback
<1>2. /\ queue \in Seq(Action) /\ Distinct(queue) /\ ToSet(queue) \subseteq live
  BY QueueFacts DEF IInv
<1>3. /\ action_list' \in Seq(Action) /\ local_list' \in Seq(Action)
      /\ ToSet(local_list') \subseteq ToSet(local_list)
      /\ local_list = <<>> => local_list' = <<>>
      /\ \/ a \notin ToSet(queue) /\ queue' = queue
         \/ \E i \in 1..Len(queue) :
               queue[i] = a /\ queue' = RemoveAt(queue, i)
  BY DeleteActionQueue DEF IInv
<1>4. TypeOK'
  BY <1>1, <1>3 DEF IInv, TypeOK, eventVars
<1>5. Control'
  BY <1>1, <1>3 DEF IInv, Control
<1>6. QueueSound'
  <2>1. CASE a \notin ToSet(queue) /\ queue' = queue
    <3>1. Distinct(queue') /\ ToSet(queue') \subseteq live'
      BY <1>1, <1>2, <2>1
    <3> QED
      BY <3>1 DEF QueueSound, Distinct
  <2>2. ASSUME NEW i \in 1..Len(queue),
               queue[i] = a, queue' = RemoveAt(queue, i)
        PROVE  QueueSound'
    <3>1. Distinct(queue') /\ ToSet(queue') = ToSet(queue) \ {a}
      BY <1>2, <2>2, RemoveFacts
    <3>2. ToSet(queue') \subseteq live'
      BY <1>1, <1>2, <3>1
    <3> QED
      BY <3>1, <3>2 DEF QueueSound, Distinct
  <2> QED
    BY <1>3, <2>1, <2>2
<1>7. NoSleepWithWork'
  BY <1>1 DEF IInv, Control, TypeOK, NoSleepWithWork
<1>8. NoStaleEvent' /\ HighestFirst'
  BY <1>1, EventsKept
<1> QED
  BY <1>4, <1>5, <1>6, <1>7, <1>8 DEF IInv

(* The operations on descriptors touch neither the lists nor the loop. *)
LEMMA DescriptorIInv ==
    ASSUME IInv,
           \E h \in Handle : \/ \E type \in FdType : \/ AddFd(h, type)
                                                     \/ EnableCb(h, type)
                                                     \/ DisableCb(h, type)
                             \/ EnableCbFails(h)
                             \/ RemoveFd(h)
                             \/ \E d \in Dir, p \in Priority : SetPrio(<<h, d>>, p)
    PROVE  IInv'
<1>1. PICK h \in Handle : \/ \E type \in FdType : \/ AddFd(h, type)
                                                  \/ EnableCb(h, type)
                                                  \/ DisableCb(h, type)
                          \/ EnableCbFails(h)
                          \/ RemoveFd(h)
                          \/ \E d \in Dir, p \in Priority : SetPrio(<<h, d>>, p)
  OBVIOUS
<1>2. UNCHANGED loopVars /\ UNCHANGED actionVars /\ UNCHANGED turn
  BY <1>1 DEF AddFd, EnableCb, DisableCb, EnableCbFails, RemoveFd, SetPrio
<1>3. /\ handles \in [Handle \cup {OnDemand} -> SUBSET Event]
      /\ added \in SUBSET Event /\ ready \in SUBSET Event /\ active \in SUBSET Event
      /\ ready \subseteq added /\ active \subseteq added
      /\ \A e \in added : e \in handles[e[1]]
      /\ prio \in [Event -> Priority]
  BY DEF IInv, TypeOK, NoStaleEvent
<1>4. ASSUME NEW type \in FdType
      PROVE  EventsOf(h, type) \subseteq Event /\ \A e \in EventsOf(h, type) : e[1] = h
  BY <1>1, <1>4 DEF EventsOf, FdType, Event
<1>5. /\ handles' \in [Handle \cup {OnDemand} -> SUBSET Event]
      /\ added' \in SUBSET Event /\ ready' \in SUBSET Event /\ active' \in SUBSET Event
      /\ ready' \subseteq added' /\ active' \subseteq added'
      /\ \A e \in added' : e \in handles'[e[1]]
  <2>0. \A e \in Event : e[1] \in Handle \cup {OnDemand}
    BY DEF Event
  <2>1. ASSUME NEW type \in FdType, AddFd(h, type) PROVE <1>5!:
    BY <1>3, <1>4, <2>0, <2>1 DEF AddFd
  <2>2. ASSUME NEW type \in FdType, EnableCb(h, type) PROVE <1>5!:
    BY <1>3, <1>4, <2>0, <2>2 DEF EnableCb
  <2>3. ASSUME NEW type \in FdType, DisableCb(h, type) PROVE <1>5!:
    BY <1>3, <1>4, <2>0, <2>3 DEF DisableCb, EventDel
  <2>4. ASSUME EnableCbFails(h) PROVE <1>5!:
    BY <1>3, <2>0, <2>4 DEF EnableCbFails, EventDel
  <2>5. ASSUME RemoveFd(h) PROVE <1>5!:
    BY <1>3, <2>0, <2>5 DEF RemoveFd, EventDel
  <2>6. ASSUME NEW d \in Dir, NEW p \in Priority, SetPrio(<<h, d>>, p) PROVE <1>5!:
    BY <1>3, <2>6 DEF SetPrio
  <2> QED
    BY <1>1, <2>1, <2>2, <2>3, <2>4, <2>5, <2>6
<1>6. prio' \in [Event -> Priority] /\ (\A e \in active' : prio'[e] = prio[e] /\ e \in active)
  <2>0. DefaultPrio \in Priority
    BY NPrioAssumption DEF DefaultPrio, Priority
  <2>1. ASSUME NEW type \in FdType, AddFd(h, type) PROVE <1>6!:
    BY <1>3, <2>0, <2>1 DEF AddFd, ResetPrio
  <2>2. ASSUME NEW type \in FdType, EnableCb(h, type) PROVE <1>6!:
    BY <1>3, <2>2 DEF EnableCb
  <2>3. ASSUME NEW type \in FdType, DisableCb(h, type) PROVE <1>6!:
    BY <1>3, <2>3 DEF DisableCb, EventDel
  <2>4. ASSUME EnableCbFails(h) PROVE <1>6!:
    BY <1>3, <2>4 DEF EnableCbFails, EventDel
  <2>5. ASSUME RemoveFd(h) PROVE <1>6!:
    BY <1>3, <2>0, <2>5 DEF RemoveFd, EventDel, ResetPrio
  <2>6. ASSUME NEW d \in Dir, NEW p \in Priority, SetPrio(<<h, d>>, p) PROVE <1>6!:
    BY <1>3, <2>6 DEF SetPrio
  <2> QED
    BY <1>1, <2>1, <2>2, <2>3, <2>4, <2>5, <2>6
<1>7. TypeOK'
  BY <1>2, <1>5, <1>6 DEF IInv, TypeOK, loopVars, actionVars
<1>8. NoStaleEvent'
  BY <1>5 DEF NoStaleEvent
<1>9. HighestFirst'
  BY <1>2, <1>6 DEF IInv, HighestFirst, loopVars
<1>10. Control' /\ QueueSound' /\ NoSleepWithWork'
  <2>1. active = {} => active' = {}
    BY <1>6
  <2>2. pc # "poll"
    BY <1>1 DEF IInv, Control, TypeOK, AddFd, EnableCb, DisableCb, EnableCbFails,
       RemoveFd, SetPrio, Callback
  <2> QED
    BY <1>2, <2>2, ListsKept
<1> QED
  BY <1>7, <1>8, <1>9, <1>10 DEF IInv

(* vloop_action_process takes the whole list: the queue does not change.   *)
LEMMA ProcessQueue ==
    ASSUME TypeOK, Control, Process
    PROVE  queue' = queue
<1>1. local_list = <<>> /\ action_list \in Seq(Action)
  BY DEF Process, Control, TypeOK
<1>2. <<>> \in Seq(Action)
  BY EmptySeq
<1>3. queue = action_list
  BY <1>1, ConcatEmptySeq DEF queue
<1>4. CASE action_list' = action_list /\ local_list' = local_list
  BY <1>4 DEF queue
<1>5. CASE local_list' = action_list /\ action_list' = <<>>
  <2>1. action_list \o <<>> = action_list
    BY <1>1, ConcatEmptySeq
  <2> QED
    BY <1>3, <1>5, <2>1 DEF queue
<1> QED
  BY <1>4, <1>5 DEF Process

(* vloop_action_process preserves the invariant: only the split of the     *)
(* queue in two lists changes.                                             *)
LEMMA ProcessIInv ==
    ASSUME IInv, Process
    PROVE  IInv'
<1>1. queue' = queue
  BY ProcessQueue DEF IInv
<1>2. UNCHANGED <<running, live>> /\ UNCHANGED eventVars /\ fresh' = {}
  BY DEF Process
<1>3. <<>> \in Seq(Action)
  BY EmptySeq
<1>4. TypeOK'
  BY <1>2, <1>3 DEF IInv, TypeOK, Process, eventVars
<1>5. Control'
  BY <1>2 DEF IInv, Control, Process
<1>6. QueueSound'
  BY <1>1, <1>2 DEF IInv, QueueSound
<1>7. NoSleepWithWork'
  <2>1. CASE action_list = <<>>
    <3>1. queue = <<>>
      BY <1>3, <2>1, ConcatEmptySeq DEF queue, Process, IInv, Control
    <3> QED
      BY <1>1, <3>1 DEF NoSleepWithWork
  <2>2. CASE action_list # <<>>
    BY <2>2 DEF Process, NoSleepWithWork
  <2> QED
    BY <2>1, <2>2
<1>8. NoStaleEvent' /\ HighestFirst'
  BY <1>2, EventsKept DEF Process
<1> QED
  BY <1>4, <1>5, <1>6, <1>7, <1>8 DEF IInv

(* The action that starts is the oldest of the queue, and leaves it.       *)
LEMMA RunActionQueue ==
    ASSUME TypeOK, QueueSound, RunAction
    PROVE  /\ queue # <<>> /\ 1 \in 1..Len(queue)
           /\ Head(queue) = queue[1] /\ Head(queue) \in live
           /\ queue' = Tail(queue) /\ Tail(queue) = RemoveAt(queue, 1)
           /\ local_list' \in Seq(Action)
           /\ ToSet(local_list') \subseteq ToSet(local_list)
           /\ Head(local_list) \in ToSet(local_list)
<1>1. /\ local_list \in Seq(Action) /\ action_list \in Seq(Action)
      /\ local_list # <<>> /\ local_list' = Tail(local_list)
      /\ action_list' = action_list
  BY DEF TypeOK, RunAction
<1>2. /\ queue \in Seq(Action) /\ Distinct(local_list)
      /\ ToSet(queue) \subseteq live
  BY QueueFacts
<1>3. /\ 1 \in 1..Len(local_list) /\ Head(local_list) = local_list[1]
      /\ Tail(local_list) = RemoveAt(local_list, 1)
  BY <1>1, TailRemoves
<1>4. RemoveAt(queue, 1) = RemoveAt(local_list, 1) \o action_list
  BY <1>1, <1>3, RemoveFromFirst DEF queue
<1>5. queue # <<>>
  BY <1>1, ConcatSimplifications DEF queue
<1>6. /\ 1 \in 1..Len(queue) /\ Head(queue) = queue[1]
      /\ Tail(queue) = RemoveAt(queue, 1)
  BY <1>2, <1>5, TailRemoves
<1>7. Head(queue) \in live
  BY <1>2, <1>6, InToSet
<1>8. queue' = Tail(queue)
  BY <1>1, <1>3, <1>4, <1>6 DEF queue
<1>9. /\ local_list' \in Seq(Action)
      /\ ToSet(local_list') \subseteq ToSet(local_list)
      /\ Head(local_list) \in ToSet(local_list)
  <2>1. Head(local_list) \in ToSet(local_list)
    BY <1>1, <1>3, InToSet
  <2>2. /\ RemoveAt(local_list, 1) \in Seq(Action)
        /\ ToSet(RemoveAt(local_list, 1)) = ToSet(local_list) \ {local_list[1]}
    BY <1>1, <1>2, <1>3, RemoveFacts
  <2>3. local_list' = RemoveAt(local_list, 1)
    BY <1>1, <1>3
  <2> QED
    BY <2>1, <2>2, <2>3
<1> QED
  BY <1>5, <1>6, <1>7, <1>8, <1>9

(* An action that starts to run has left the queue and is freed.           *)
LEMMA RunActionIInv ==
    ASSUME IInv, RunAction
    PROVE  IInv'
<1>1. /\ running' = "action" /\ pc = "drain"
      /\ UNCHANGED <<pc, nonblock, action_list, live, fresh>>
      /\ UNCHANGED eventVars
  BY DEF RunAction
<1>2. /\ queue' = RemoveAt(queue, 1) /\ 1 \in 1..Len(queue)
      /\ local_list' \in Seq(Action)
      /\ ToSet(local_list') \subseteq ToSet(local_list)
  BY RunActionQueue DEF IInv
<1>3. /\ queue \in Seq(Action) /\ Distinct(queue) /\ ToSet(queue) \subseteq live
  BY QueueFacts DEF IInv
<1>4. TypeOK'
  BY <1>1, <1>2 DEF IInv, TypeOK, eventVars
<1>5. Control'
  BY <1>1, <1>2 DEF IInv, Control
<1>6. QueueSound'
  <2>1. Distinct(queue') /\ ToSet(queue') \subseteq live'
    BY <1>1, <1>2, <1>3, RemoveFacts
  <2> QED
    BY <2>1 DEF QueueSound, Distinct
<1>7. NoSleepWithWork'
  BY <1>1 DEF NoSleepWithWork
<1>8. NoStaleEvent' /\ HighestFirst'
  BY <1>1, EventsKept
<1> QED
  BY <1>4, <1>5, <1>6, <1>7, <1>8 DEF IInv

(* What the other steps of the loop, of libevent and of the kernel change. *)
LEMMA LoopOnly ==
    ASSUME IInv,
           \/ Return \/ InitFails \/ Drained \/ Poll
           \/ PollEmpty \/ PollFails \/ Dispatched
           \/ \E e \in Event : Dispatch(e) \/ FdReady(e)
    PROVE  IInv' /\ queue' = queue /\ UNCHANGED live
<1>1. UNCHANGED actionVars /\ UNCHANGED <<handles, prio>>
  BY DEF Return, InitFails, Drained, Poll, PollEmpty, PollFails,
         Dispatched, Dispatch, FdReady, actionVars, eventVars
<1>2. UNCHANGED <<action_list, local_list, live, fresh>>
  BY <1>1 DEF actionVars
<1>3. queue' = queue
  BY <1>2 DEF queue
<1>4. TypeOK'
  BY <1>1, <1>2 DEF IInv, TypeOK, Return, InitFails, Drained, Poll,
         PollEmpty, PollFails, Dispatched, Dispatch, FdReady, loopVars, eventVars
<1>5. Control'
  BY <1>2 DEF IInv, Control, Return, InitFails, Drained, Poll,
         PollEmpty, PollFails, Dispatched, Dispatch, FdReady, loopVars, Callback
<1>6. QueueSound'
  BY <1>2, <1>3 DEF IInv, QueueSound
<1>7. NoSleepWithWork'
  <2>1. ASSUME Drained PROVE NoSleepWithWork'
    <3>1. ~nonblock' => local_list = <<>> /\ action_list = <<>>
      BY <2>1 DEF Drained
    <3>2. local_list = <<>> /\ action_list = <<>> => queue = <<>>
      BY EmptySeq, ConcatEmptySeq DEF queue
    <3> QED
      BY <1>3, <3>1, <3>2 DEF NoSleepWithWork
  <2>2. ASSUME ~Drained PROVE NoSleepWithWork'
    BY <1>3, <2>2 DEF IInv, Control, NoSleepWithWork, Return, InitFails, Poll,
           PollEmpty, PollFails, Dispatched, Dispatch, FdReady,
           loopVars, eventVars, Callback
  <2> QED
    BY <2>1, <2>2
<1>8. NoStaleEvent'
  BY <1>1 DEF IInv, TypeOK, NoStaleEvent, Return, InitFails, Drained, Poll,
         PollEmpty, PollFails, Dispatched, Dispatch, FdReady, eventVars
<1>9. HighestFirst'
  <2>1. ASSUME Poll PROVE HighestFirst'
    <3>1. active' \in SUBSET Event /\ prio \in [Event -> Priority]
      BY <2>1 DEF Poll, IInv, TypeOK
    <3> QED
      BY <1>1, <2>1, <3>1 DEF Poll, HighestFirst
  <2>2. ASSUME ~Poll PROVE HighestFirst'
    BY <1>1, <2>2 DEF IInv, HighestFirst, Return, InitFails, Drained, PollEmpty,
           PollFails, Dispatched, Dispatch, FdReady, loopVars, eventVars
  <2> QED
    BY <2>1, <2>2
<1> QED
  BY <1>2, <1>3, <1>4, <1>5, <1>6, <1>7, <1>8, <1>9 DEF IInv

(* The steps of the loop sorted by what they do to the lists. *)
LEMMA NextCases ==
    ASSUME Next
    PROVE  \/ \E a \in Action : CreateAction(a)
           \/ \E a \in Action : DeleteAction(a)
           \/ \E h \in Handle : \/ \E type \in FdType : \/ AddFd(h, type)
                                                        \/ EnableCb(h, type)
                                                        \/ DisableCb(h, type)
                                \/ EnableCbFails(h)
                                \/ RemoveFd(h)
                                \/ \E d \in Dir, p \in Priority : SetPrio(<<h, d>>, p)
           \/ Process
           \/ RunAction
           \/ \/ Return \/ InitFails \/ Drained \/ Poll
              \/ PollEmpty \/ PollFails \/ Dispatched
              \/ \E e \in Event : Dispatch(e) \/ FdReady(e)
BY Zenon DEF Next, CallbackStep, LoopStep, Environment

(* The invariants of the loop hold for all sets of actions and handles:    *)
(* both lists are sound, the loop does not block on pending work, and no   *)
(* event of a removed or disabled descriptor is dispatched.                *)
THEOREM Invariance == Spec => []IInv
<1>1. ASSUME IInv, [Next]_vars PROVE IInv'
  <2>1. CASE Next
    BY <1>1, <2>1, NextCases, CreateActionIInv, DeleteActionIInv, DescriptorIInv,
       ProcessIInv, RunActionIInv, LoopOnly, Zenon
  <2>2. CASE UNCHANGED vars
    <3>1. UNCHANGED loopVars /\ UNCHANGED actionVars /\ UNCHANGED eventVars
      BY <2>2 DEF vars
    <3>2. TypeOK'
      BY <1>1, <3>1 DEF IInv, TypeOK, loopVars, actionVars, eventVars
    <3>3. active' = active /\ pc' = pc
      BY <3>1 DEF loopVars, eventVars
    <3> QED
      BY <1>1, <3>1, <3>2, <3>3, ListsKept, EventsKept DEF IInv
  <2> QED
    BY <1>1, <2>1, <2>2
<1> QED
  BY InitIInv, <1>1, PTL DEF Spec

(* No list of the loop holds a freed action or an action twice. *)
THEOREM QueueAlwaysSound == Spec => []QueueSound
<1>1. IInv => QueueSound
  BY DEF IInv
<1> QED
  BY Invariance, <1>1, PTL

(* The loop never blocks in libevent while an action is pending. *)
THEOREM NeverSleepsWithWork == Spec => []NoSleepWithWork
<1>1. IInv => NoSleepWithWork
  BY DEF IInv
<1> QED
  BY Invariance, <1>1, PTL

(* libevent never holds an event of a handle that was removed.             *)
THEOREM EventsNeverStale == Spec => []NoStaleEvent
<1>1. IInv => NoStaleEvent
  BY DEF IInv
<1> QED
  BY Invariance, <1>1, PTL

(* libevent never runs the callback of an event while one of a higher      *)
(* priority is active, whatever priorities the callbacks set.              *)
THEOREM HighestAlwaysFirst == Spec => []HighestFirst
<1>1. IInv => HighestFirst
  BY DEF IInv
<1> QED
  BY Invariance, <1>1, PTL

(* An action does not run in the drain in which it was created, whatever   *)
(* the actions of that drain create and delete.                            *)
THEOREM ActionsWaitForNextCycle == Spec => NextCycle
<1>1. ASSUME IInv, [Next]_vars PROVE OldActionsOnly
  <2>1. SUFFICES ASSUME running' = "action", running = "none"
                 PROVE  Head(local_list) \notin fresh
    BY DEF OldActionsOnly
  <2>2. RunAction
    BY <1>1, <2>1 DEF Next, CallbackStep, LoopStep, Environment, CreateAction,
       DeleteAction, AddFd, EnableCb, EnableCbFails, DisableCb, RemoveFd, SetPrio, Return,
       InitFails, Process, Drained, Poll, PollEmpty, PollFails,
       Dispatch, Dispatched, FdReady, Callback, loopVars, vars
  <2>3. Head(local_list) \in ToSet(local_list)
    BY <1>1, <2>2, RunActionQueue DEF IInv
  <2> QED
    BY <1>1, <2>3 DEF IInv, Control
<1> QED
  BY Invariance, <1>1, PTL DEF NextCycle, Spec

(* Creating and deleting an action are the operations of VActionQueue.     *)
LEMMA CallbackRefines ==
    ASSUME IInv, NEW a \in Action
    PROVE  /\ CreateAction(a) => Queue!CreateAction(a)
           /\ DeleteAction(a) => Queue!DeleteAction(a)
<1>1. ASSUME CreateAction(a) PROVE Queue!CreateAction(a)
  <2>1. queue' = Append(queue, a)
    BY <1>1, CreateActionQueue DEF IInv
  <2>2. UNCHANGED (running = "action")
    BY <1>1 DEF CreateAction, loopVars
  <2>3. a \notin live /\ live' = live \cup {a}
    BY <1>1 DEF CreateAction
  <2> QED
    BY <2>1, <2>2, <2>3, Zenon DEF Queue!CreateAction
<1>2. ASSUME DeleteAction(a) PROVE Queue!DeleteAction(a)
  <2>1. \/ a \notin ToSet(queue) /\ queue' = queue
        \/ \E i \in 1..Len(queue) : queue[i] = a /\ queue' = RemoveAt(queue, i)
    BY <1>2, DeleteActionQueue DEF IInv
  <2>2. UNCHANGED (running = "action")
    BY <1>2 DEF DeleteAction, loopVars
  <2>3. a \in live /\ live' = live \ {a}
    BY <1>2 DEF DeleteAction
  <2>4. queue \in Seq(Action)
    BY QueueFacts DEF IInv
  <2>5. \/ \E i \in 1..Len(queue) :
              /\ queue[i] = a
              /\ queue' = SubSeq(queue, 1, i - 1) \o SubSeq(queue, i + 1, Len(queue))
        \/ /\ \A i \in 1..Len(queue) : queue[i] # a
           /\ UNCHANGED queue
    BY <2>1, <2>4, InToSet DEF RemoveAt
  <2> QED
    BY <2>2, <2>3, <2>5, Zenon DEF Queue!DeleteAction
<1> QED
  BY <1>1, <1>2

(* A step that keeps the queue and the memory is a stutter, or the end of  *)
(* an action.                                                              *)
LEMMA LoopRefines ==
    ASSUME IInv, Next, queue' = queue, UNCHANGED live, ~RunAction
    PROVE  Queue!Finish \/ UNCHANGED Queue!vars
<1>1. CASE running = "action" /\ running' # "action"
  <2>1. (running = "action") /\ (running' = "action") = FALSE
    BY <1>1
  <2> QED
    BY <2>1, Zenon DEF Queue!Finish
<1>2. CASE ~(running = "action" /\ running' # "action")
  <2>1. UNCHANGED (running = "action")
    BY <1>2 DEF Next, CallbackStep, LoopStep, Environment, CreateAction,
       DeleteAction, AddFd, EnableCb, EnableCbFails, DisableCb, RemoveFd, SetPrio, Return,
       InitFails, Process, Drained, Poll, PollEmpty, PollFails,
       Dispatch, Dispatched, FdReady, Callback, loopVars
  <2> QED
    BY <2>1, Zenon DEF Queue!vars
<1> QED
  BY <1>1, <1>2

(* The event loop implements the queue of actions of export/vloop.h:       *)
(* whatever the callbacks do, actions run one at a time, in the order in   *)
(* which they were created, and a deleted action never runs.               *)
THEOREM QueueRefinement == Spec => QueueSpec
<1>1. ASSUME Init PROVE Queue!Init
  <2>1. queue = <<>>
    BY <1>1, EmptySeq, ConcatEmptySeq DEF Init, queue
  <2>2. live = {} /\ (running = "action") = FALSE
    BY <1>1 DEF Init
  <2> QED
    BY <2>1, <2>2, Zenon DEF Queue!Init
<1>2. ASSUME IInv, [Next]_vars PROVE [Queue!Next]_(Queue!vars)
  <2>1. ASSUME NEW a \in Action, CreateAction(a) \/ DeleteAction(a)
        PROVE  Queue!Next
    BY <1>2, <2>1, CallbackRefines, Zenon DEF Queue!Next
  <2>2. CASE RunAction
    <3>1. queue # <<>> /\ Head(queue) \in live /\ queue' = Tail(queue)
      BY <1>2, <2>2, RunActionQueue DEF IInv
    <3>2. ~(running = "action") /\ (running' = "action") = TRUE /\ UNCHANGED live
      BY <2>2 DEF RunAction
    <3>3. Queue!Run
      BY <3>1, <3>2, Zenon DEF Queue!Run
    <3> QED
      BY <3>3, Zenon DEF Queue!Next
  <2>3. CASE Next /\ queue' = queue /\ UNCHANGED live
    <3>1. CASE RunAction
      BY <2>2, <3>1
    <3>2. CASE ~RunAction
      <4>1. Queue!Finish \/ UNCHANGED Queue!vars
        BY <1>2, <2>3, <3>2, LoopRefines
      <4> QED
        BY <4>1, Zenon DEF Queue!Next
    <3> QED
      BY <3>1, <3>2
  <2>4. CASE UNCHANGED vars
    <3>1. queue' = queue /\ UNCHANGED live /\ UNCHANGED (running = "action")
      BY <2>4 DEF vars, loopVars, actionVars, queue
    <3> QED
      BY <3>1, Zenon DEF Queue!vars
  <2>5. CASE Process
    <3>1. queue' = queue /\ UNCHANGED live
      BY <1>2, <2>5, ProcessQueue DEF IInv, Process
    <3>2. Next
      BY <2>5, Zenon DEF Next, LoopStep
    <3> QED
      BY <2>3, <3>1, <3>2
  <2>6. ASSUME NEW h \in Handle,
               \/ \E type \in FdType : \/ AddFd(h, type)
                                       \/ EnableCb(h, type)
                                       \/ DisableCb(h, type)
               \/ EnableCbFails(h)
               \/ RemoveFd(h)
               \/ \E d \in Dir, p \in Priority : SetPrio(<<h, d>>, p)
        PROVE  [Queue!Next]_(Queue!vars)
    <3>1. UNCHANGED loopVars /\ UNCHANGED actionVars
      BY <2>6 DEF AddFd, EnableCb, DisableCb, EnableCbFails, RemoveFd,
       SetPrio
    <3>2. queue' = queue /\ UNCHANGED live /\ UNCHANGED (running = "action")
      BY <3>1 DEF loopVars, actionVars, queue
    <3> QED
      BY <3>2, Zenon DEF Queue!vars
  <2>7. ASSUME \/ Return \/ InitFails \/ Drained \/ Poll
               \/ PollEmpty \/ PollFails \/ Dispatched
               \/ \E e \in Event : Dispatch(e) \/ FdReady(e)
        PROVE  [Queue!Next]_(Queue!vars)
    <3>1. queue' = queue /\ UNCHANGED live
      BY <1>2, <2>7, LoopOnly
    <3>2. Next
      BY <2>7, Zenon DEF Next, LoopStep, Environment
    <3> QED
      BY <2>3, <3>1, <3>2
  <2>8. ASSUME Next PROVE [Queue!Next]_(Queue!vars)
    BY <2>1, <2>2, <2>5, <2>6, <2>7, <2>8, NextCases, Zenon
  <2> QED
    BY <1>2, <2>4, <2>8
<1> QED
  BY Invariance, <1>1, <1>2, PTL DEF Spec, QueueSpec, Queue!Spec
=============================================================================
