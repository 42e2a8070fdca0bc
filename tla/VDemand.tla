------------------------------ MODULE VDemand ------------------------------
(***************************************************************************)
(* On-demand events (src/vloop_demand_event.c) and their user, the debug   *)
(* commands for another thread's loop (src/vloop.c): messages of any       *)
(* thread go through a pipe to a callback in the loop's thread.            *)
(*                                                                         *)
(* A message is a sequence of bytes, not longer than PIPE_BUF, which the   *)
(* pipe takes whole or not at all.  Boundaries are lost.                   *)
(***************************************************************************)
EXTENDS Naturals, Sequences

CONSTANTS DemandPipe,      \* how many bytes the pipe holds
          ReadLen,      \* sizeof(buf) in on_demand_event_cb
          CommandLen,   \* sizeof(command) in vloop_on_demand_callback
          MaxTriggers   \* bound: messages that are written

ASSUME DemandAssumption == CommandLen \in 1..ReadLen /\ ReadLen \in Nat /\ DemandPipe \in Nat

Digit == {"0", "1"}

(* The commands timers, events, and sleep with a period of one digit and a *)
(* time of one or two.                                                     *)
ShowCommand == {<<"t">>, <<"e">>}
SleepCommand == {<<"s", c, d>> : c, d \in Digit}
                \cup {<<"s", c, d, e>> : c, d, e \in Digit}
Period(cmd) == cmd[2]

VARIABLES
    handle,             \* on_demand_handle
    pipe,               \* the bytes in it
    triggers,           \* how many messages were written
    asked,              \* history: commands that were written
    executed,           \* the last command that was executed
    sleep_timer         \* the period of the running sleep timer

demandVars == <<handle, pipe, triggers, asked, executed, sleep_timer>>

DemandInit ==
    /\ handle = "none" /\ pipe = <<>> /\ triggers = 0
    /\ asked = {} /\ executed = <<>>
    /\ sleep_timer = "none"

(* vloop_add_on_demand_event: a failure leaves no handle to the caller. *)
AddOnDemandEvent ==
    /\ handle = "none"
    /\ handle' = "live"
    /\ UNCHANGED <<pipe, triggers, asked, executed, sleep_timer>>

(* vloop_remove_on_demand_event closes the pipe with what is in it. *)
RemoveOnDemandEvent ==
    /\ handle = "live"
    /\ handle' = "none" /\ pipe' = <<>>
    /\ UNCHANGED <<triggers, asked, executed, sleep_timer>>

(* vloop_trigger_on_demand_event, by set_cmd or vloop_dbg_cmd_show_helper. *)
Trigger(msg) ==
    /\ handle = "live" /\ triggers < MaxTriggers
    /\ IF Len(pipe) + Len(msg) <= DemandPipe
       THEN pipe' = pipe \o msg /\ asked' = asked \cup {msg}
       ELSE UNCHANGED <<pipe, asked>>
    /\ triggers' = triggers + 1
    /\ UNCHANGED <<handle, executed, sleep_timer>>

(* Variant: there is room for every chunk, and its last command is taken. *)
LastOfAll(chunk) ==
    LET starts == {i \in 1..Len(chunk) : chunk[i] \notin Digit}
    IN  IF starts = {} THEN <<>>
        ELSE SubSeq(chunk, CHOOSE i \in starts : \A j \in starts : j <= i, Len(chunk))

(* vloop_on_demand_callback: what may not fit is refused. *)
Fitting(chunk) == IF Len(chunk) < CommandLen THEN chunk ELSE <<>>

(* The numbers that follow the first byte, as vdbg_scan_args finds them. *)
Numbers(cmd) ==
    LET ends == {n \in 1..Len(cmd) : \A i \in 2..n : cmd[i] \in Digit}
    IN  SubSeq(cmd, 2, CHOOSE n \in ends : \A m \in ends : m <= n)

(* vloop_execute_command takes the first command it finds; sleep replaces  *)
(* the sleep timer, unless the period is 0 or the timer cannot be started. *)
(* Not modelled: how long that timer's callback sleeps.  Its context is    *)
(* the address of a local variable of vloop_execute_command, which has     *)
(* returned when sleep_timer reads it (664-668, 682-690): undefined.       *)
Execute(cmd) ==
    LET Sleep == cmd # <<>> /\ cmd[1] = "s"
        Show  == cmd # <<>> /\ cmd[1] \in {"t", "e"}
    IN  \/ /\ Sleep /\ Len(Numbers(cmd)) >= 2
           /\ executed' = <<"s">> \o Numbers(cmd)
           /\ \/ sleep_timer' = "none"
              \/ sleep_timer' = Numbers(cmd)[1] /\ sleep_timer' # "0"
        \/ Show /\ executed' = <<cmd[1]>> /\ UNCHANGED sleep_timer
        \/ /\ ~Show /\ (Sleep => Len(Numbers(cmd)) < 2)
           /\ UNCHANGED <<executed, sleep_timer>>

ReadSize == IF Len(pipe) < ReadLen THEN Len(pipe) ELSE ReadLen

(* on_demand_event_cb *)
OnDemandCb ==
    /\ pipe # <<>>
    /\ Execute(Fitting(SubSeq(pipe, 1, ReadSize)))
    /\ pipe' = SubSeq(pipe, ReadSize + 1, Len(pipe))
    /\ UNCHANGED <<handle, triggers, asked>>

DemandNext ==
    \/ AddOnDemandEvent \/ RemoveOnDemandEvent \/ OnDemandCb
    \/ \E msg \in ShowCommand \cup SleepCommand : Trigger(msg)

DemandSpec == DemandInit /\ [][DemandNext]_demandVars
-----------------------------------------------------------------------------
(* However messages run together in the pipe and are cut by reads: what a  *)
(* loop executes is a command that somebody asked it for, with all of its  *)
(* numbers, and a sleep timer runs only with a period that was asked for.  *)
ExecutedWasAsked ==
    /\ executed \in asked \cup {<<>>}
    /\ sleep_timer # "none" =>
          \E cmd \in asked \cap SleepCommand : Period(cmd) = sleep_timer
=============================================================================
