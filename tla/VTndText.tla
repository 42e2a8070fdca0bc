------------------------------ MODULE VTndText ------------------------------
(***************************************************************************)
(* Debug modules and their commands (src/vtnd_text.c, with the modules of  *)
(* src/vtnd.c, the dispatch modules of src/vtnd_text_dispatch.c and the    *)
(* C++ callbacks of src/vdbg.cpp): how the words of a request become a     *)
(* call, while modules and commands come and go.                           *)
(*                                                                         *)
(* A request is a sequence of words.  No code sets flag_fwd.  What a       *)
(* program does after it used freed memory, or took a handler's node for a *)
(* command's, is not modelled: it is wild.                                 *)
(***************************************************************************)
EXTENDS Integers, FiniteSets, VList

CONSTANTS Name,         \* names of modules and of commands
          MaxHandlers,  \* bound: handlers of a dispatch module
          MaxWords,     \* bound: words of a request
          Conn          \* connections: the console, a file, ...

Reserved == {"help", "exit", "list"}
Long == "long"          \* a word of LEN_NAME characters or more
Longer == "longer"      \* a word of DISPATCH_LEN_NAME characters or more
Handler == "handler"    \* a node of struct tnd_cmd_dispatch in a cmd_list
VTND_TEXT_DISPATCH == -1
NoModule == [len |-> 0, cmds |-> <<>>]
Top == "top"            \* conn->current is NULL
Gone == "gone"          \* conn->current points to freed memory

ASSUME TextAssumption ==
    /\ Name \cap (Reserved \cup {"", Long, Longer, Handler, Top, Gone}) = {}
    /\ MaxHandlers \in Nat /\ MaxWords \in Nat

VARIABLES
    mod_list,           \* names of the modules that exist
    mods,               \* the module of each name
    conn_current,       \* the module that each connection is in
    callbacks,          \* l_callbacks of vdbg.cpp: null, live or deleted
    cpp,                \* commands that were linked from C++
    dead,               \* those whose callbacks are freed
    wild                \* the memory that was used for what it is not

vars == <<mod_list, mods, conn_current, callbacks, cpp, dead, wild>>

Init ==
    /\ mod_list = {} /\ mods = [n \in Name |-> NoModule]
    /\ conn_current = [c \in Conn |-> Top]
    /\ callbacks = "null" /\ cpp = {} /\ dead = {}
    /\ wild = "no"
-----------------------------------------------------------------------------
Exists(n) == n \in mod_list
IsDispatch(n) == mods[n].len = VTND_TEXT_DISPATCH
Commands(n) == ToSet(mods[n].cmds) \ {Handler}
Handlers(n) == {i \in 1..Len(mods[n].cmds) : mods[n].cmds[i] = Handler}

(* get_cmd_by_name reads every node as a command's, up to the one it looks *)
(* for.  What it finds where the name of a handler would be may be equal.  *)
Mistakable(n, k) ==
    \E i \in Handlers(n) : \A j \in 1..i : mods[n].cmds[j] # k

(* get_substring, whose result is empty for a word that is too long, and   *)
(* get_args_str                                                            *)
Word(text, i, toolong) ==
    IF i <= Len(text) /\ text[i] \notin toolong THEN text[i] ELSE ""
TextWord(text, i) == Word(text, i, {Long, Longer})
ArgsFrom(text, i) == SubSeq(text, i, Len(text))

(* vtnd_text_forward_module_cmd_dispatch *)
Forward(n, text) ==
    LET strip == IF Word(text, 1, {Longer}) = n THEN 1 ELSE 0
        cmd == Word(text, strip + 1, {Longer})
    IN  IF cmd = "help" THEN <<"help", n>>
        ELSE <<"dispatch", n, cmd, ArgsFrom(text, strip + 2)>>

(* execute_module_cmd: what is called for a request in a module, also when *)
(* the request begins with the module's name.                              *)
ModuleCmd(n, text) ==
    LET strip == IF TextWord(text, 1) = n THEN 1 ELSE 0
        cmd == TextWord(text, strip + 1)
    IN  IF IsDispatch(n) THEN Forward(n, text)
        ELSE IF cmd = "help" THEN <<"help", n>>
        ELSE IF cmd = "list" THEN <<"list", n>>
        ELSE IF cmd \notin Commands(n) THEN <<"no command", n, cmd>>
        ELSE IF TextWord(text, strip + 2) = "help" THEN <<"command help", n, cmd>>
        ELSE <<"call", n, cmd, ArgsFrom(text, strip + 2)>>

(* execute_cmd_list: the modules, or the commands of the current one. *)
Listing(at) ==
    IF at = Top THEN <<"list">>
    ELSE IF IsDispatch(at) THEN Forward(at, <<"list">>) ELSE <<"list", at>>

(* cmd_parse_special *)
Special(at, text) ==
    CASE text[1] = "help" -> IF at = Top THEN <<"main help">> ELSE <<"help", at>>
      [] text[1] = "exit" -> <<"exit">>
      [] text[1] = "list" -> Listing(at)

(* vtnd_text_req_process: what is called for a request. *)
Called(at, text) ==
    IF TextWord(text, 1) = "" THEN <<"error">>
    ELSE IF text[1] \in Reserved THEN Special(at, text)
    ELSE IF at # Top THEN ModuleCmd(at, text)
    ELSE IF ~Exists(text[1]) THEN <<"error">>
    ELSE IF TextWord(text, 2) = "" THEN <<"enter", text[1]>>
    ELSE ModuleCmd(text[1], text)

(* ... and the module that the connection is in then. *)
Entered(at, text) ==
    CASE Called(at, text)[1] = "exit" -> Top
      [] Called(at, text)[1] = "enter" -> text[1]
      [] OTHER -> at

(* A request of a connection, which may leave the program wild: what is    *)
(* called may have been freed, or be a handler that is taken for a command.*)
LooksUp(call) == call[1] \in {"no command", "command help", "call"}
UsesDead(call) == LooksUp(call) /\ <<call[2], call[3]>> \in dead
TakesHandler(call) == LooksUp(call) /\ Mistakable(call[2], call[3])

Process(c, text) ==
    /\ IF conn_current[c] = Gone /\ TextWord(text, 1) # ""
       THEN wild' = "current" /\ UNCHANGED conn_current
       ELSE LET call == Called(conn_current[c], text)
            IN  /\ conn_current' = [conn_current EXCEPT ![c] = Entered(@, text)]
                /\ \/ wild' = IF UsesDead(call) THEN "callbacks" ELSE "no"
                   \/ TakesHandler(call) /\ wild' = "kind"
    /\ UNCHANGED <<mod_list, mods, callbacks, cpp, dead>>
-----------------------------------------------------------------------------
(* vtnd_module_new and vtnd_module_remove *)
NewModule(n, len) ==
    /\ mod_list' = mod_list \cup {n}
    /\ mods' = [mods EXCEPT ![n] = [len |-> len, cmds |-> <<>>]]

RemoveModule(n) ==
    /\ mod_list' = mod_list \ {n}
    /\ mods' = [mods EXCEPT ![n] = NoModule]
    /\ conn_current' = [c \in Conn |-> IF conn_current[c] = n THEN Gone ELSE conn_current[c]]

(* vdbg_link_module: a module that exists is kept, with its commands. *)
LinkModule(n) ==
    /\ ~Exists(n)
    /\ NewModule(n, 0)
    /\ UNCHANGED <<conn_current, callbacks, cpp, dead, wild>>

(* vdbg_link_module_dispatch makes a dispatch module, unless one is there, *)
(* and adds a handler, unless memory is out.  Other modules refuse.        *)
LinkDispatch(n) ==
    /\ Exists(n) => IsDispatch(n) /\ Cardinality(Handlers(n)) < MaxHandlers
    /\ \E added \in {<<>>, <<Handler>>} :
           mods' = [mods EXCEPT ![n] = [len |-> VTND_TEXT_DISPATCH, cmds |-> @.cmds \o added]]
    /\ mod_list' = mod_list \cup {n}
    /\ UNCHANGED <<conn_current, callbacks, cpp, dead, wild>>

(* Variant: the command is not counted. *)
InsertedUncounted(m, k) == [m EXCEPT !.cmds = Append(@, k)]

(* insert_tnd_cmd *)
Inserted(m, k) == [len |-> m.len + 1, cmds |-> Append(m.cmds, k)]

(* vdbg_link_cmd of a command that is not there yet.  A dispatch module is *)
(* not refused.                                                            *)
LinkCmd(n, k) ==
    /\ Exists(n) /\ k \notin Commands(n)
    /\ mods' = [mods EXCEPT ![n] = Inserted(@, k)]
    /\ UNCHANGED <<mod_list, conn_current, callbacks, cpp, dead, wild>>

(* linkCommand of vdbg.cpp stores the callbacks, then links the command,   *)
(* which may be refused.                                                   *)
LinkCppCmd(n, k) ==
    IF callbacks = "deleted"
    THEN wild' = "vector" /\ UNCHANGED <<mod_list, mods, conn_current, callbacks, cpp, dead>>
    ELSE /\ callbacks' = "live"
         /\ \/ UNCHANGED <<mods, cpp>>
            \/ /\ Exists(n) /\ k \notin Commands(n)
               /\ mods' = [mods EXCEPT ![n] = Inserted(@, k)]
               /\ cpp' = cpp \cup {<<n, k>>}
         /\ UNCHANGED <<mod_list, conn_current, dead, wild>>

(* delete_tnd_cmd *)
Deleted(m, k) == [len |-> m.len - 1, cmds |-> Unlink(m.cmds, k)]

(* ... when the node that is found is a handler's: it leaves the list, is  *)
(* subtracted from the commands, and freed by a pointer to no block.       *)
DeletedHandler(m, i) == [len |-> m.len - 1, cmds |-> RemoveAt(m.cmds, i)]

(* vdbg_unlink_cmd deletes what get_cmd_by_name finds. *)
UnlinkCmd(n, k) ==
    /\ Exists(n)
    /\ \/ /\ k \in Commands(n)
          /\ mods' = [mods EXCEPT ![n] = Deleted(@, k)]
          /\ cpp' = cpp \ {<<n, k>>} /\ dead' = dead \ {<<n, k>>}
          /\ UNCHANGED wild
       \/ /\ \E i \in Handlers(n) :
                /\ \A j \in 1..i : mods[n].cmds[j] # k
                /\ mods' = [mods EXCEPT ![n] = DeletedHandler(@, i)]
          /\ wild' = "kind"
          /\ UNCHANGED <<cpp, dead>>
    /\ UNCHANGED <<mod_list, conn_current, callbacks>>

(* delete_all_cpp_callbacks frees the C++ callbacks of all modules, and the *)
(* vector that holds them, which may not be there.  The vector is one per  *)
(* thread: all modules are linked and unlinked in one thread here.         *)
DeleteAllCppCallbacks(left) ==
    IF callbacks = "live"
    THEN callbacks' = "deleted" /\ dead' = left /\ UNCHANGED wild
    ELSE wild' = "vector" /\ UNCHANGED <<callbacks, dead>>

(* vtnd_text_module_remove_cmds takes every node for a command's, and      *)
(* frees a handler's by a pointer to no block.                             *)
FreesHandlers(n) == Handlers(n) # {}

(* vdbg_unlink_module *)
UnlinkModule(n) ==
    /\ Exists(n)
    /\ RemoveModule(n)
    /\ cpp' = {nk \in cpp : nk[1] # n}
    /\ IF FreesHandlers(n) THEN wild' = "kind" /\ UNCHANGED <<callbacks, dead>>
       ELSE DeleteAllCppCallbacks(cpp')

Texts == UNION {[1..i -> Name \cup Reserved \cup {Long, Longer}] : i \in 1..MaxWords}

Next ==
    /\ wild = "no"
    /\ \/ \E n \in Name :
             \/ LinkModule(n) \/ LinkDispatch(n) \/ UnlinkModule(n)
             \/ \E k \in Name : LinkCmd(n, k) \/ LinkCppCmd(n, k) \/ UnlinkCmd(n, k)
       \/ \E c \in Conn, text \in Texts : Process(c, text)

Spec == Init /\ [][Next]_vars
-----------------------------------------------------------------------------
(* Until memory is used for what it is not, len counts the commands, from  *)
(* -1 in a module that was made for handlers, and names are unique.  So a  *)
(* module that forwards its requests has no command that they would miss   *)
(* and that would be called as a handler, whatever was linked to it and    *)
(* unlinked, of either kind (vtnd_text.c:125, 143, vtnd_text_dispatch.c:32).*)
KindsApart ==
    \A n \in Name : Exists(n) /\ wild # "kind" =>
        LET cmds == mods[n].cmds
            count == Cardinality(Commands(n))
        IN  /\ mods[n].len \in {count, count - 1}
            /\ Handlers(n) # {} => mods[n].len = count - 1
            /\ \A i, j \in 1..Len(cmds) : cmds[i] = cmds[j] => i = j \/ cmds[i] = Handler
            /\ \A k \in Commands(n) : Called(Top, <<n, k>>) = <<"call", n, k, <<>>>>

(* "When a user issues a '<module name> <command name> <args>' command,    *)
(* the command is executed" (vdbg.h:68): its callbacks are there, whatever *)
(* other modules have gone.                                                *)
CallbacksAlive == wild # "callbacks"
=============================================================================
