-------------------------------- MODULE VLog --------------------------------
(***************************************************************************)
(* Logging (src/vlog.c with the debug commands of src/vlog_dbg.c): modules *)
(* that are registered under an identifier and have a level, outputs that  *)
(* have one too, and the levels that are reported of both together.        *)
(*                                                                         *)
(* What is left out does not work at this commit: the filters of traces    *)
(* compare a tag that nothing sets (vlog.c:193, 1127), the syslog output   *)
(* is not opened because it has no address (vlog.c:96, 524), and neither   *)
(* are the file outputs, which have no name.  Names are shorter than       *)
(* VLOG_MAX_MOD_NAME, as the type of the parameter says.                   *)
(***************************************************************************)
EXTENDS Integers, FiniteSetsExt

CONSTANTS Client,       \* callers that register modules
          Name,         \* names of log modules
          Value,        \* levels that callers and debug commands may ask for
          Output        \* the outputs: LOGFILE, SYSLOG, CONSOLE, TNDD

DISABLED == -1
ERROR == 3
WARNING == 4
INFO == 6
DEBUG == 7
LEVEL_MAX == 8
Level == {DISABLED, 2, ERROR, WARNING, INFO, DEBUG}
Category == {"INTERNAL", "OPERATOR"}
User == Client \X Name

ASSUME LogAssumption ==
    /\ Value \subseteq -1..9
    /\ {"SYSLOG", "TNDD"} \subseteq Output

VARIABLES
    modules,            \* module_list, as a set of records
    nbr_modules,        \* the next identifier; 0 to 5 are reserved
    asked,              \* clients that registered a name
    log_id,             \* the *log_id of each of them, 0 while nothing is written
    default_loglevel,
    destlevel,          \* of each output
    initialized         \* vlog_init was called

vars == <<modules, nbr_modules, asked, log_id, default_loglevel, destlevel, initialized>>

Init ==
    /\ modules = {} /\ nbr_modules = 6
    /\ asked = {} /\ log_id = [u \in User |-> 0]
    /\ default_loglevel = DISABLED
    /\ destlevel = [o \in Output |-> IF o = "CONSOLE" THEN WARNING ELSE DISABLED]
    /\ initialized = FALSE
-----------------------------------------------------------------------------
(* get_module_by_id, vlog_get_module_by_name *)
ById(id) == {m \in modules : m.logid = id}
ByName(n) == {m \in modules : m.name = n}

(* vlog_get_syslog_config: the level that is reported of a module. *)
Reported(m) == Min({destlevel["SYSLOG"], m.level})

(* get_cmd_log_list: the modules that "log get list" finds by identifier.  *)
Listed == UNION {ById(id) : id \in 0..nbr_modules}
-----------------------------------------------------------------------------
NewModule(n, category) ==
    [name |-> n, logid |-> nbr_modules, level |-> default_loglevel, category |-> category]

(* Variant: a name that is registered already gets a second module. *)
RegisterAgain(c, n, category) ==
    /\ <<c, n>> \notin asked
    /\ asked' = asked \cup {<<c, n>>}
    /\ log_id' = [log_id EXCEPT ![<<c, n>>] = nbr_modules]
    /\ modules' = modules \cup {NewModule(n, category)}
    /\ nbr_modules' = nbr_modules + 1
    /\ UNCHANGED <<default_loglevel, destlevel, initialized>>

(* __vlog_module_register, under the lock.  A name that is there already   *)
(* is left alone: that is a success, too, but the caller's identifier is   *)
(* not written (543).  Each client asks once for a name; without memory    *)
(* nothing changes.                                                        *)
Register(c, n, category) ==
    /\ <<c, n>> \notin asked
    /\ asked' = asked \cup {<<c, n>>}
    /\ IF ByName(n) # {} THEN UNCHANGED <<modules, nbr_modules, log_id>>
       ELSE /\ log_id' = [log_id EXCEPT ![<<c, n>>] = nbr_modules]
            /\ modules' = modules \cup {NewModule(n, category)}
            /\ nbr_modules' = nbr_modules + 1
    /\ UNCHANGED <<default_loglevel, destlevel, initialized>>

ModuleRegister(c, n) == Register(c, n, "INTERNAL")
RegisterOperatorSyslog(c, n) == Register(c, n, "OPERATOR")

(* vlog_module_config_loglevel: another level for one module of a set.     *)
ValidForModule(value) == value \in Level
Configured(mods, id, value) ==
    {IF m.logid = id /\ ValidForModule(value) THEN [m EXCEPT !.level = value] ELSE m
        : m \in mods}

(* get_loglevel_from_string: a number or the name of a level; 0 is none. *)
Asked(value) == value # 0

(* "log set module loglevel ID VAL" *)
SetModuleLevel(id, value) ==
    /\ Asked(value)
    /\ modules' = Configured(modules, id, value)
    /\ UNCHANGED <<nbr_modules, asked, log_id, default_loglevel, destlevel, initialized>>

(* vlog_output_set_loglevel: what the output gets, its old level if the    *)
(* value is refused.                                                       *)
OutputLevel(o, value) ==
    IF value < DISABLED \/ value >= LEVEL_MAX \/ value = 0 THEN destlevel[o]
    ELSE IF o = "TNDD" /\ value >= DEBUG THEN INFO ELSE value

(* "log set output loglevel ID VAL" *)
SetOutputLevel(o, value) ==
    /\ Asked(value)
    /\ destlevel' = [destlevel EXCEPT ![o] = OutputLevel(o, value)]
    /\ UNCHANGED <<modules, nbr_modules, asked, log_id, default_loglevel, initialized>>

(* set_cmd *)
SetCommand ==
    \E value \in Value :
        \/ \E id \in 0..nbr_modules : SetModuleLevel(id, value)
        \/ \E o \in Output : SetOutputLevel(o, value)

(* vtnd_log_client_start *)
TnddStart ==
    /\ destlevel' = [destlevel EXCEPT !["TNDD"] = OutputLevel("TNDD", ERROR)]
    /\ UNCHANGED <<modules, nbr_modules, asked, log_id, default_loglevel, initialized>>
-----------------------------------------------------------------------------
(* vlog_modules_update_loglevel gives a category its level; the output     *)
(* follows the modules that are above the default (vlog_set_default_       *)
(* threshold).                                                             *)
Updated(category, thresh) ==
    {IF m.category = category THEN [m EXCEPT !.level = thresh] ELSE m : m \in modules}

(* Variant: the output keeps its level. *)
ThresholdKept(category, thresh) == destlevel["SYSLOG"]
ThresholdOfOutput(category, thresh) ==
    Max({thresh} \cup {m.level : m \in Updated(category, thresh)})

SetDefaultThreshold(output, thresh, category) ==
    IF thresh = DISABLED THEN UNCHANGED <<default_loglevel, modules, destlevel>>
    ELSE /\ default_loglevel' = thresh
         /\ modules' = Updated(category, thresh)
         /\ destlevel' = [o \in Output |->
                IF o = output THEN ThresholdOfOutput(category, thresh) ELSE destlevel[o]]

(* vloop_main_init asks for debug output on the console and in the file,   *)
(* and calls vlog_init, which finds no output to raise and none to open.   *)
LogInit ==
    /\ ~initialized
    /\ SetDefaultThreshold("CONSOLE", DEBUG, "INTERNAL")
    /\ initialized' = TRUE
    /\ UNCHANGED <<nbr_modules, asked, log_id>>

(* vlog_set_syslog_config with levels for some of the modules: the output  *)
(* is raised to the highest of them, never lowered.                        *)
ConfiguredAll(cfg) ==
    {IF m.name \in DOMAIN cfg /\ ValidForModule(cfg[m.name])
     THEN [m EXCEPT !.level = cfg[m.name]] ELSE m : m \in modules}

(* Variant: the output follows one of the modules. *)
RaisedToAny(cfg) ==
    LET level == cfg[CHOOSE n \in DOMAIN cfg : TRUE]
    IN  IF level > destlevel["SYSLOG"] THEN OutputLevel("SYSLOG", level)
        ELSE destlevel["SYSLOG"]

Raised(cfg) ==
    LET level == Max({cfg[n] : n \in DOMAIN cfg})
    IN  IF level > destlevel["SYSLOG"] THEN OutputLevel("SYSLOG", level)
        ELSE destlevel["SYSLOG"]

SetSyslogConfig(cfg) ==
    /\ modules' = ConfiguredAll(cfg)
    /\ destlevel' = [destlevel EXCEPT !["SYSLOG"] = Raised(cfg)]
    /\ UNCHANGED <<nbr_modules, asked, log_id, default_loglevel, initialized>>

(* vlog_reset_syslog_config; before vlog_init there is no default. *)
ResetSyslogConfig(category) ==
    /\ SetDefaultThreshold("SYSLOG",
           IF initialized THEN default_loglevel ELSE DISABLED, category)
    /\ UNCHANGED <<nbr_modules, asked, log_id, initialized>>

Configs == UNION {[S -> Value] : S \in (SUBSET Name) \ {{}}}

Next ==
    \/ \E c \in Client, n \in Name : ModuleRegister(c, n) \/ RegisterOperatorSyslog(c, n)
    \/ SetCommand
    \/ \E cfg \in Configs : SetSyslogConfig(cfg)
    \/ \E k \in Category : ResetSyslogConfig(k)
    \/ TnddStart \/ LogInit

Spec == Init /\ [][Next]_vars
-----------------------------------------------------------------------------
(* Of the clients of a module's name, only c has its identifier. *)
Owner(m, c) ==
    \A d \in Client : log_id[<<d, m.name>>] = IF d = c THEN m.logid ELSE 0

(* Whoever was first to register a name, and nobody else, has the          *)
(* identifier of its only module; the list of the debug command is         *)
(* complete; levels are ones that a trace can have, and the tnd daemon is  *)
(* never given the debug level, whatever numbers are asked.                *)
IdsExact ==
    /\ \A m1, m2 \in modules :
          m1.logid = m2.logid \/ m1.name = m2.name => m1 = m2
    /\ \A m \in modules : \E c \in Client : Owner(m, c)
    /\ \A u \in User : IF u \in asked THEN ByName(u[2]) # {} ELSE log_id[u] = 0
    /\ Listed = modules
    /\ \A m \in modules : m.level \in Level /\ m.logid \in 6..(nbr_modules - 1)
    /\ destlevel["TNDD"] < DEBUG

(* What vlog.h:416 promises: "The log id is returned for later access",    *)
(* and 0 says that it was.  The second client of a name gets the 0 without *)
(* the identifier (vlog.c:543).                                            *)
IdReturned == \A u \in asked : \E m \in ByName(u[2]) : log_id[u] = m.logid

(* After vlog_set_syslog_config with levels that exist, each module that   *)
(* it names is reported with its level, and no other is shown less.        *)
ReportedAfter(mods, level, m) ==
    Min({level} \cup {m2.level : m2 \in {x \in mods : x.logid = m.logid}})

SetTakesEffect ==
    \A cfg \in Configs :
        (\A n \in DOMAIN cfg : cfg[n] \in Level) =>
        \A m \in modules :
            LET after == ReportedAfter(ConfiguredAll(cfg), Raised(cfg), m)
            IN  IF m.name \in DOMAIN cfg THEN after = cfg[m.name]
                ELSE after >= Reported(m)

(* A reset gives the modules of its category the default level, on the     *)
(* output too, and silences no module of the other category.               *)
ResetKeepsOthers ==
    default_loglevel # DISABLED =>
    \A c \in Category, m \in modules :
        LET after == ReportedAfter(Updated(c, default_loglevel),
                                   ThresholdOfOutput(c, default_loglevel), m)
        IN  IF m.category = c THEN after = default_loglevel
            ELSE after >= Reported(m)
=============================================================================
