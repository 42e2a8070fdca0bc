------------------------------- MODULE VTimer -------------------------------
(***************************************************************************)
(* The timers of one thread (src/vtimer.c): relative timers are libevent   *)
(* timeouts, absolute ones are timerfds whose descriptors the loop reads.  *)
(* All are linked in the list that vtimer_dump_all prints.                 *)
(*                                                                         *)
(* Time is left out: a timer that runs expires at any moment.  Descriptor  *)
(* numbers are shared with the other threads, which open and close theirs  *)
(* between any two system calls.                                           *)
(***************************************************************************)
EXTENDS Naturals, VList

CONSTANTS Timer,        \* addresses of struct _vtimer
          Fd            \* descriptor numbers

NoTimer == "none"
NoFd == "none"

ASSUME TimerAssumption ==
    /\ NoTimer \notin Timer /\ NoFd \notin Fd
    /\ Timer \cap {"closed", "other"} = {}

Relative == {"timeout", "periodic"}
Absolute == {"abstimeout", "absperiodic"}
OneShot  == {"timeout", "abstimeout"}

VARIABLES
    type, state, timer_fd,  \* of each timer; free: the memory is free
    next, prev, g_head,     \* the list
    fds,        \* the kernel's descriptors: closed, of a timer or other
    armed,      \* timers that will expire
    due,        \* timers whose event is active or descriptor readable
    held,       \* handles that clients have
    running,    \* the timer whose callback runs
    closing,    \* a timer whose creation failed and was closed once
    stolen,     \* history: a descriptor of somebody else was closed
    list        \* history: the timers that exist, the newest first

listVars == <<next, prev, g_head, list>>
vars == <<type, state, timer_fd, listVars, fds, armed, due, held, running,
          closing, stolen>>

Init ==
    /\ type = [t \in Timer |-> "free"]
    /\ state = [t \in Timer |-> "created"]
    /\ timer_fd = [t \in Timer |-> NoFd]
    /\ next = [t \in Timer |-> NoTimer] /\ prev = [t \in Timer |-> NoTimer]
    /\ g_head = NoTimer /\ list = <<>>
    /\ fds = [f \in Fd |-> "closed"]
    /\ armed = {} /\ due = {} /\ held = {}
    /\ running = NoTimer /\ closing = NoTimer /\ stolen = FALSE
-----------------------------------------------------------------------------
(* A field of a timer that may be NULL. *)
Set(field, t, value) ==
    IF t = NoTimer THEN field ELSE [field EXCEPT ![t] = value]

(* _create_timer: the timer becomes the head of the list. *)
Insert(t) ==
    /\ next' = [next EXCEPT ![t] = g_head]
    /\ prev' = Set([prev EXCEPT ![t] = NoTimer], g_head, t)
    /\ g_head' = t
    /\ list' = <<t>> \o list

(* The descriptor of a new timer: none is needed, or the lowest free one   *)
(* of the kernel, or timerfd_create fails.                                 *)
NeedsNoFd(t, k) == k \in Relative /\ UNCHANGED <<timer_fd, fds>>

OpenFd(t, k) ==
    /\ k \in Absolute
    /\ \E f \in Fd :
          /\ fds[f] = "closed"
          /\ timer_fd' = [timer_fd EXCEPT ![t] = f]
          /\ fds' = [fds EXCEPT ![f] = t]

Create(t, k) ==
    /\ closing = NoTimer
    /\ type[t] = "free"
    /\ type' = [type EXCEPT ![t] = k]
    /\ Insert(t)

(* vtimer_start_*, in any callback. *)
Start(t, k) ==
    /\ Create(t, k)
    /\ NeedsNoFd(t, k) \/ OpenFd(t, k)
    /\ state' = [state EXCEPT ![t] = "running"]
    /\ armed' = armed \cup {t}
    /\ held' = held \cup {t}
    /\ UNCHANGED <<due, running, closing, stolen>>

(* _start_timer fails, also because timerfd_create did (its result is      *)
(* compared with 0): NULL is returned, but the timer stays in the list.    *)
StartFails(t, k) ==
    /\ Create(t, k)
    /\ \/ NeedsNoFd(t, k) \/ OpenFd(t, k)
       \/ k \in Absolute /\ UNCHANGED <<timer_fd, fds>>
    /\ state' = [state EXCEPT ![t] = "running"]
    /\ UNCHANGED <<armed, due, held, running, closing, stolen>>

(* _create_timer closes the descriptor when it cannot be added to the loop *)
(* and calls vtimer_delete (DeleteClosed), which closes it again.          *)
CreateFails(t, k) ==
    /\ Create(t, k)
    /\ k \in Absolute
    /\ \E f \in Fd : fds[f] = "closed" /\ timer_fd' = [timer_fd EXCEPT ![t] = f]
    /\ closing' = t
    /\ UNCHANGED <<state, fds, armed, due, held, running, stolen>>
-----------------------------------------------------------------------------
(* vtimer_delete: out of the list. *)
Delink(t) ==
    /\ IF t = g_head
       THEN /\ g_head' = next[t]
            /\ prev' = [Set(prev, next[t], NoTimer) EXCEPT ![t] = NoTimer]
            /\ next' = [next EXCEPT ![t] = NoTimer]
       ELSE /\ prev' = [Set(prev, next[t], prev[t]) EXCEPT ![t] = NoTimer]
            /\ next' = [Set(next, prev[t], next[t]) EXCEPT ![t] = NoTimer]
            /\ UNCHANGED g_head
    /\ list' = Unlink(list, t)

CloseFd(t) ==
    IF timer_fd[t] = NoFd
    THEN UNCHANGED <<fds, stolen>>
    ELSE /\ fds' = [fds EXCEPT ![timer_fd[t]] = "closed"]
         /\ stolen' = (stolen \/ fds[timer_fd[t]] \notin {t, "closed"})

FreeMemory(t) ==
    /\ type' = [type EXCEPT ![t] = "free"]
    /\ state' = [state EXCEPT ![t] = "created"]
    /\ timer_fd' = [timer_fd EXCEPT ![t] = NoFd]

(* Variant: the descriptor stays open. *)
DeleteKeepsFd(t) ==
    /\ closing = NoTimer
    /\ t \in held
    /\ Delink(t) /\ FreeMemory(t)
    /\ armed' = armed \ {t} /\ due' = due \ {t}
    /\ held' = held \ {t}
    /\ UNCHANGED <<fds, running, closing, stolen>>

(* vtimer_delete, in any callback, that of the timer too. *)
Delete(t) ==
    /\ closing = NoTimer
    /\ t \in held
    /\ Delink(t) /\ CloseFd(t) /\ FreeMemory(t)
    /\ armed' = armed \ {t} /\ due' = due \ {t}
    /\ held' = held \ {t}
    /\ UNCHANGED <<running, closing>>

DeleteClosed(t) ==
    /\ closing = t
    /\ Delink(t) /\ CloseFd(t) /\ FreeMemory(t)
    /\ closing' = NoTimer
    /\ UNCHANGED <<armed, due, held, running>>
-----------------------------------------------------------------------------
(* The timeout passes.  A timerfd with an interval goes on by itself;      *)
(* expirations that nobody has read yet are merged.                        *)
Expire(t) ==
    /\ t \in armed
    /\ due' = due \cup {t}
    /\ armed' = IF type[t] = "absperiodic" THEN armed ELSE armed \ {t}
    /\ UNCHANGED <<type, state, timer_fd, listVars, fds, held, running, closing, stolen>>

(* Variant: libevent has added the event again. *)
CallbackKeepsEvent(t) ==
    /\ closing = NoTimer /\ running = NoTimer
    /\ t \in due
    /\ due' = due \ {t}
    /\ armed' = IF type[t] = "abstimeout" THEN armed ELSE armed \cup {t}
    /\ state' = [state EXCEPT ![t] = IF type[t] \in OneShot THEN "created" ELSE @]
    /\ running' = t
    /\ UNCHANGED <<type, timer_fd, listVars, fds, held, closing, stolen>>

(* Variant: it has not. *)
CallbackOnce(t) ==
    /\ closing = NoTimer /\ running = NoTimer
    /\ t \in due
    /\ due' = due \ {t}
    /\ state' = [state EXCEPT ![t] = IF type[t] \in OneShot THEN "created" ELSE @]
    /\ running' = t
    /\ UNCHANGED <<type, timer_fd, listVars, fds, armed, held, closing, stolen>>

(* _int_callback, for which libevent has added the persistent event again, *)
(* and _timerfd_callback, up to the callback.                              *)
Callback(t) ==
    /\ closing = NoTimer /\ running = NoTimer
    /\ t \in due
    /\ due' = due \ {t}
    /\ armed' = IF type[t] = "periodic" THEN armed \cup {t}
                ELSE IF type[t] = "timeout" THEN armed \ {t} ELSE armed
    /\ state' = [state EXCEPT ![t] = IF type[t] \in OneShot THEN "created" ELSE @]
    /\ running' = t
    /\ UNCHANGED <<type, timer_fd, listVars, fds, held, closing, stolen>>

(* Nothing of the timer, which the callback may have deleted, is used.     *)
Return ==
    /\ closing = NoTimer
    /\ running # NoTimer
    /\ running' = NoTimer
    /\ UNCHANGED <<type, state, timer_fd, listVars, fds, armed, due, held, closing,
                   stolen>>

(* The other threads. *)
Others ==
    /\ \E f \in Fd :
          \/ fds[f] = "closed" /\ fds' = [fds EXCEPT ![f] = "other"]
          \/ fds[f] = "other" /\ fds' = [fds EXCEPT ![f] = "closed"]
    /\ UNCHANGED <<type, state, timer_fd, listVars, armed, due, held, running, closing,
                   stolen>>

Next ==
    \/ Return
    \/ Others
    \/ \E t \in Timer :
          \/ \E k \in Relative \cup Absolute :
                Start(t, k) \/ StartFails(t, k) \/ CreateFails(t, k)
          \/ Delete(t) \/ DeleteClosed(t)
          \/ Expire(t) \/ Callback(t)

Spec == Init /\ [][Next]_vars

(* Time passes, the thread runs callbacks that are due, and they return,   *)
(* however many timers they fail to create.                                *)
FairSpec ==
    /\ Spec
    /\ SF_vars(Return)
    /\ \A t \in Timer :
          WF_vars(Expire(t)) /\ SF_vars(Callback(t)) /\ WF_vars(DeleteClosed(t))
-----------------------------------------------------------------------------
(* The values of the variables. *)
TypeOK ==
    /\ type \in [Timer -> {"free"} \cup Relative \cup Absolute]
    /\ state \in [Timer -> {"created", "running"}]
    /\ timer_fd \in [Timer -> Fd \cup {NoFd}]
    /\ next \in [Timer -> Timer \cup {NoTimer}]
    /\ prev \in [Timer -> Timer \cup {NoTimer}]
    /\ g_head \in Timer \cup {NoTimer}
    /\ list \in Seq(Timer)
    /\ fds \in [Fd -> Timer \cup {"closed", "other"}]
    /\ armed \in SUBSET Timer /\ due \in SUBSET Timer /\ held \in SUBSET Timer
    /\ running \in Timer \cup {NoTimer} /\ closing \in Timer \cup {NoTimer}
    /\ stolen \in BOOLEAN

(* From g_head the links lead through all timers there are, the newest     *)
(* first, and back, however timers are deleted in callbacks (160-172,      *)
(* 521-531): vtimer_dump_all meets each of them once and nothing else.     *)
At(i) == IF i \in 1..Len(list) THEN list[i] ELSE NoTimer

ListExact ==
    /\ g_head = At(1)
    /\ \A i \in 1..Len(list) :
          next[list[i]] = At(i + 1) /\ prev[list[i]] = At(i - 1)
    /\ \A i, j \in 1..Len(list) : list[i] = list[j] => i = j
    /\ \A t \in Timer : type[t] # "free" <=> t \in ToSet(list)

(* Each open descriptor of this thread is that of exactly one timer: none  *)
(* is left open when its timer is freed, and none is closed under a timer, *)
(* not even by the second close of a timer whose creation failed.          *)
DescriptorsOwned ==
    /\ \A t \in Timer : timer_fd[t] # NoFd =>
          closing = t \/ (type[t] \in Absolute /\ fds[timer_fd[t]] = t)
    /\ \A f \in Fd : fds[f] \in Timer => timer_fd[fds[f]] = f
    /\ closing # NoTimer =>
          type[closing] \in Absolute /\ timer_fd[closing] # NoFd /\ fds[timer_fd[closing]] \notin Timer

(* What can still call back belongs to a timer that a client holds, and    *)
(* the state that the dump shows says whether it will.                     *)
EventsHeld ==
    /\ armed \cup due \subseteq held
    /\ \A t \in held : type[t] # "free" /\ closing # t
                       /\ (state[t] = "running" <=> t \in armed \cup due)
    /\ \A t \in held : type[t] = "absperiodic" => t \in armed
    /\ \A t \in armed \cap due : type[t] = "absperiodic"

(* All of it together. *)
IInv == TypeOK /\ ListExact /\ DescriptorsOwned /\ EventsHeld

(* The timers implement what vtimer.h promises. *)
Life == [t \in Timer |->
    IF t \notin held THEN "none"
    ELSE IF type[t] \notin OneShot THEN "periodic"
    ELSE IF t \in armed \cup due THEN "oneshot" ELSE "expired"]

Service == INSTANCE VTimers WITH life <- Life, calling <- running # NoTimer

TimerSpec == Service!Spec

(* A timer that was started is called unless it is deleted, and a periodic *)
(* one again and again.                                                    *)
TimersFire ==
    \A t \in Timer :
        t \in held /\ state[t] = "running" ~> running = t \/ t \notin held

(* "Free all resources related to the timer" (vtimer.h): a failed start    *)
(* closes no descriptor of another thread.                                 *)
OthersIntact == ~stolen
=============================================================================
