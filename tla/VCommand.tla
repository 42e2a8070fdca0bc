------------------------------ MODULE VCommand ------------------------------
(***************************************************************************)
(* What export/vsystem.h and export/vevent.h promise of commands: the      *)
(* callback of a command that was started is called exactly once, after    *)
(* its process has ended, and says timeout or cancel only if that is the   *)
(* last thing the client asked for.                                        *)
(***************************************************************************)
CONSTANT Cmd

VARIABLES life,         \* none, running, ended, told or done
          asked,        \* nothing, timeout or cancel
          told          \* the reason passed to on_terminate

vars == <<life, asked, told>>

Init ==
    /\ life = [c \in Cmd |-> "none"]
    /\ asked = [c \in Cmd |-> "nothing"]
    /\ told = [c \in Cmd |-> "nothing"]

Start(c) ==
    /\ life[c] = "none"
    /\ life' = [life EXCEPT ![c] = "running"]
    /\ UNCHANGED <<asked, told>>

Ask(c, what) ==
    /\ life[c] \notin {"none", "done"}
    /\ asked' = [asked EXCEPT ![c] = what]
    /\ UNCHANGED <<life, told>>

End(c) ==
    /\ life[c] = "running"
    /\ life' = [life EXCEPT ![c] = "ended"]
    /\ UNCHANGED <<asked, told>>

Tell(c, reason) ==
    /\ life[c] = "ended"
    /\ reason \in {"occured", "failure"} \/ reason = asked[c]
    /\ told' = [told EXCEPT ![c] = reason]
    /\ life' = [life EXCEPT ![c] = "told"]
    /\ UNCHANGED asked

Return(c) ==
    /\ life[c] = "told"
    /\ life' = [life EXCEPT ![c] = "done"]
    /\ asked' = [asked EXCEPT ![c] = "nothing"]
    /\ UNCHANGED told

Next == \E c \in Cmd :
    \/ Start(c)
    \/ End(c)
    \/ \E what \in {"timeout", "cancel"} : Ask(c, what)
    \/ \E reason \in {"occured", "failure", "timeout", "cancel"} : Tell(c, reason)
    \/ Return(c)

Spec == Init /\ [][Next]_vars
=============================================================================
