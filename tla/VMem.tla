-------------------------------- MODULE VMem --------------------------------
(***************************************************************************)
(* The allocators of src/vmem.c: the chain of allocators with their        *)
(* options and callbacks, used and changed by several threads.             *)
(*                                                                         *)
(* Every critical section of alloc_lock_ is one step; chain_lock_ and the  *)
(* locks of the pools are variables.  What a pool does by itself is the    *)
(* subject of VMemPool: here it is the set of blocks that are lent, which  *)
(* an operation reads and writes.  What the program does after memWild is  *)
(* undefined and not modelled.                                             *)
(***************************************************************************)
EXTENDS Naturals, Sequences

CONSTANTS Thread, Pool, Block,
          Cb,           \* callback functions
          NULL,         \* no callback, no block, no thread
          MaxChanges    \* bound: changes of options and callbacks

Alloc == Pool \cup {"def", "sys"}
Kind == {"error", "trace"}

ASSUME MemAssumption == MaxChanges \in Nat /\ NULL \notin Cb \cup Block \cup Thread
                        /\ Pool \cap {"def", "sys"} = {}

VARIABLES
    chain,              \* the allocators, from chain_head_ on
    life,               \* per pool allocator
    locked,             \* those with vmem_locktype_mutex
    owner,              \* the thread that created it
    options,            \* per allocator, the kinds that are enabled
    callback,           \* log_cb and err_cb
    removed,            \* history: those that were installed as NULL
    default_cb,         \* default_log_cb_ and default_err_cb_
    chain_lock,         \* the thread that holds chain_lock_
    pool_lock,          \* ... and pool_lock, per pool allocator
    lent,               \* blocks of each pool that are allocated
    held,               \* blocks that each thread holds
    step,               \* where each thread is
    changes,            \* how many changes there were
    memWild

memVars == <<chain, life, locked, owner, options, callback, removed, default_cb,
             chain_lock, pool_lock, lent, held, step, changes, memWild>>

setup == <<chain, life, locked, owner>>
config == <<options, callback, removed, default_cb, changes>>
blocks == <<lent, held>>

Idle == [at |-> "idle"]

MemInit ==
    /\ chain = <<"def", "sys">>
    /\ life = [p \in Pool |-> "none"]
    /\ locked = {} /\ owner = [p \in Pool |-> NULL]
    /\ options = [a \in Alloc |-> {}]
    /\ callback = [a \in Alloc |-> [k \in Kind |-> NULL]]
    /\ removed = {}
    /\ default_cb = [k \in Kind |-> NULL]
    /\ chain_lock = NULL /\ pool_lock = [p \in Pool |-> NULL]
    /\ lent = [p \in Pool |-> {}] /\ held = [t \in Thread |-> {}]
    /\ step = [t \in Thread |-> Idle]
    /\ changes = 0 /\ memWild = "no"
-----------------------------------------------------------------------------
At(t, where) == step[t].at = where
Go(t, s) == step' = [step EXCEPT ![t] = s]

(* A report of an operation on a, and what follows it. *)
Report(a, error, then) == [at |-> "report", a |-> a, error |-> error, then |-> then]
Result(t, a, ok) == Go(t, Report(a, ~ok, Idle))

(* Variant: chain_lock_ is not taken. *)
NoChainLock(t) == UNCHANGED chain_lock

(* chain_lock *)
ChainLock(t) == chain_lock = NULL /\ chain_lock' = t

(* Variant: the kind of lock is mistaken. *)
OtherPoolLock(t, p) ==
    IF p \in locked THEN UNCHANGED pool_lock
    ELSE pool_lock[p] = NULL /\ pool_lock' = [pool_lock EXCEPT ![p] = t]

(* pool_lock *)
PoolLock(t, p) ==
    IF p \in locked
    THEN pool_lock[p] = NULL /\ pool_lock' = [pool_lock EXCEPT ![p] = t]
    ELSE UNCHANGED pool_lock

PoolUnlock(p) == pool_lock' = [pool_lock EXCEPT ![p] = NULL]
-----------------------------------------------------------------------------
(* vmem_alloc_create_pool: the memory for the allocator, its pool or its   *)
(* lock may be missing; what was made before is freed.                     *)
CreatePool(t, p) ==
    /\ At(t, "idle") /\ life[p] = "none"
    /\ \/ /\ \E m \in BOOLEAN : locked' = IF m THEN locked \cup {p} ELSE locked
          /\ life' = [life EXCEPT ![p] = "live"]
          /\ owner' = [owner EXCEPT ![p] = t]
          /\ Go(t, [at |-> "inherit", p |-> p])
       \/ Result(t, "sys", FALSE) /\ UNCHANGED <<life, locked, owner>>
    /\ UNCHANGED <<chain, config, blocks, chain_lock, pool_lock, memWild>>

Inherit(t) ==
    /\ At(t, "inherit")
    /\ ChainLock(t)
    /\ callback' = [callback EXCEPT ![step[t].p] = default_cb]
    /\ Go(t, [step[t] EXCEPT !.at = "link"])
    /\ UNCHANGED <<setup, options, removed, default_cb, changes, blocks, pool_lock, memWild>>

Link(t) ==
    /\ At(t, "link")
    /\ chain' = <<step[t].p>> \o chain
    /\ chain_lock' = NULL
    /\ Result(t, "sys", TRUE)
    /\ UNCHANGED <<life, locked, owner, config, blocks, pool_lock, memWild>>

(* A thread may use a pool that exists: one without lock, if it owns it. *)
MayUse(t, p) ==
    /\ life[p] = "live" /\ \E i \in 1..Len(chain) : chain[i] = p
    /\ p \in locked \/ owner[p] = t

(* vmem_alloc_delete_pool frees the allocator, which stays in the chain.   *)
(* Nobody uses the pool, or a block of it, any more.                       *)
DeletePool(t, p) ==
    /\ At(t, "idle") /\ MayUse(t, p)
    /\ \A u \in Thread : At(u, "idle") \/ At(u, "walk")
    /\ lent[p] = {}
    /\ life' = [life EXCEPT ![p] = "freed"]
    /\ UNCHANGED <<chain, locked, owner, config, blocks, chain_lock, pool_lock, step, memWild>>
-----------------------------------------------------------------------------
(* vmem_malloc, vmem_calloc, vmem_memalign and vmem_realloc of allocators  *)
(* that are no pools, and the last two of pools: the system allocator has  *)
(* no memory, the default one may have.  vmem_realloc reports first.       *)
AllocDirect(t, a) ==
    /\ At(t, "idle")
    /\ a \in Pool => MayUse(t, a)
    /\ \E ok \in IF a = "def" THEN BOOLEAN ELSE {FALSE} :
          \/ Result(t, a, ok)
          \/ Go(t, Report(a, FALSE, Report(a, ~ok, Idle)))
    /\ UNCHANGED <<setup, config, blocks, chain_lock, pool_lock, memWild>>

(* vmem_malloc and vmem_calloc of a pool: what the pool makes of the       *)
(* blocks that are lent, and then the result.                              *)
AllocPool(t, p) ==
    /\ At(t, "idle") /\ MayUse(t, p)
    /\ PoolLock(t, p)
    /\ \E b \in (Block \ lent[p]) \cup {NULL}, clear \in BOOLEAN :
          Go(t, [at |-> "pool", p |-> p, clear |-> clear, b |-> b,
                 new |-> lent[p] \cup ({b} \ {NULL}),
                 mine |-> held[t] \cup ({<<p, b>>} \ {<<p, NULL>>})])
    /\ UNCHANGED <<setup, config, blocks, chain_lock, memWild>>

(* vmem_free reports first. *)
Free(t, p, b) ==
    /\ At(t, "idle") /\ <<p, b>> \in held[t]
    /\ \E a \in Alloc \ {"def"} :
          /\ a \in Pool => MayUse(t, a)
          /\ Go(t, Report(a, FALSE, [at |-> "free", a |-> a, p |-> p, b |-> b]))
    /\ UNCHANGED <<setup, config, blocks, chain_lock, pool_lock, memWild>>

(* ... and a block that is not the allocator's is returned. *)
FreePool(t) ==
    /\ At(t, "free")
    /\ LET s == step[t]
       IN  IF s.a # s.p
           THEN Result(t, s.a, FALSE) /\ UNCHANGED pool_lock
           ELSE /\ PoolLock(t, s.p)
                /\ Go(t, [at |-> "pool", p |-> s.p, clear |-> FALSE, b |-> s.b,
                          new |-> lent[s.p] \ {s.b}, mine |-> held[t] \ {<<s.p, s.b>>}])
    /\ UNCHANGED <<setup, config, blocks, chain_lock, memWild>>

(* The end of an operation of a pool: vmem_calloc clears what it got, also *)
(* when that is nothing.                                                   *)
PoolDone(t) ==
    /\ At(t, "pool")
    /\ LET s == step[t]
       IN  /\ lent' = [lent EXCEPT ![s.p] = s.new]
           /\ held' = [held EXCEPT ![t] = s.mine]
           /\ PoolUnlock(s.p)
           /\ Result(t, s.p, s.b # NULL)
           /\ memWild' = IF s.clear /\ s.b = NULL THEN "memset" ELSE "no"
    /\ UNCHANGED <<setup, config, chain_lock>>
-----------------------------------------------------------------------------
(* invoke_cb_needed, then the two halves of invoke_cb_core: options and    *)
(* callbacks are read again, without alloc_lock_.                          *)
Needed(s) ==
    \E k \in options[s.a] : callback[s.a][k] # NULL /\ (k = "error" => s.error)

ReportNeeded(t) ==
    /\ At(t, "report")
    /\ LET s == step[t]
       IN  Go(t, IF Needed(s) THEN [s EXCEPT !.at = "error"] ELSE s.then)
    /\ UNCHANGED <<setup, config, blocks, chain_lock, pool_lock, memWild>>

(* Variant: the callback is trusted to be there still. *)
CallsTrusting(s, k) == k \in options[s.a] /\ (k = "error" => s.error)

Calls(s, k) ==
    k \in options[s.a] /\ callback[s.a][k] # NULL /\ (k = "error" => s.error)

(* The callback may call this component again: it must hold no lock. *)
HoldsLock(t) == chain_lock = t \/ \E p \in Pool : pool_lock[p] = t

Invoke(t, k) ==
    /\ At(t, k)
    /\ LET s == step[t]
       IN  /\ Go(t, IF k = "error" THEN [s EXCEPT !.at = "trace"] ELSE s.then)
           /\ memWild' = IF ~Calls(s, k) THEN "no"
                         ELSE IF callback[s.a][k] = NULL THEN "null callback"
                         ELSE IF HoldsLock(t) THEN "locked callback"
                         ELSE "no"
    /\ UNCHANGED <<setup, config, blocks, chain_lock, pool_lock>>
-----------------------------------------------------------------------------
Change(t) ==
    /\ At(t, "idle") /\ changes < MaxChanges
    /\ changes' = changes + 1

(* vmem_setoption: the upper half of the word says which options change,   *)
(* the lower half which are set.                                           *)
SetOption(t, a, change, set) ==
    /\ Change(t)
    /\ a \in Pool => MayUse(t, a)
    /\ options' = [options EXCEPT ![a] = (@ \ change) \cup set]
    /\ UNCHANGED <<setup, callback, removed, default_cb, blocks, chain_lock, pool_lock, step, memWild>>

(* vmem_install_trace_callback and vmem_install_error_callback *)
InstallCallback(t, a, k, c) ==
    /\ Change(t)
    /\ a \in Pool => MayUse(t, a)
    /\ callback' = [callback EXCEPT ![a][k] = c]
    /\ removed' = IF c = NULL THEN removed \cup {<<a, k>>} ELSE removed \ {<<a, k>>}
    /\ UNCHANGED <<setup, options, default_cb, blocks, chain_lock, pool_lock, step, memWild>>

(* vmem_install_default_trace_callback and ..._error_callback: the default *)
(* and then, one by one, the allocators of the chain.                      *)
InstallDefault(t, k, c) ==
    /\ Change(t)
    /\ ChainLock(t)
    /\ default_cb' = [default_cb EXCEPT ![k] = c]
    /\ Go(t, [at |-> "walk", k |-> k, c |-> c, rest |-> chain])
    /\ UNCHANGED <<setup, options, callback, removed, blocks, pool_lock, memWild>>

Walk(t) ==
    /\ At(t, "walk")
    /\ LET s == step[t]
       IN  IF s.rest = <<>>
           THEN /\ chain_lock' = NULL /\ Go(t, Idle)
                /\ UNCHANGED <<callback, memWild>>
           ELSE LET a == Head(s.rest)
                IN  /\ callback' = IF callback[a][s.k] # NULL THEN callback
                                   ELSE [callback EXCEPT ![a][s.k] = s.c]
                    /\ memWild' = IF a \in Pool /\ life[a] = "freed" THEN "chain" ELSE "no"
                    /\ Go(t, [s EXCEPT !.rest = Tail(@)])
                    /\ UNCHANGED chain_lock
    /\ UNCHANGED <<setup, options, removed, default_cb, changes, blocks, pool_lock>>

MemNext ==
    /\ memWild = "no"
    /\ \E t \in Thread :
          \/ \E p \in Pool : CreatePool(t, p) \/ DeletePool(t, p) \/ AllocPool(t, p)
          \/ \E p \in Pool, b \in Block : Free(t, p, b)
          \/ Inherit(t) \/ Link(t) \/ FreePool(t) \/ PoolDone(t) \/ ReportNeeded(t) \/ Walk(t)
          \/ \E k \in Kind : Invoke(t, k)
          \/ \E a \in Alloc :
                \/ AllocDirect(t, a)
                \/ \E change, set \in SUBSET Kind : SetOption(t, a, change, set)
                \/ \E k \in Kind, c \in Cb \cup {NULL} : InstallCallback(t, a, k, c)
          \/ \E k \in Kind, c \in Cb \cup {NULL} : InstallDefault(t, k, c)

MemSpec == MemInit /\ [][MemNext]_memVars
-----------------------------------------------------------------------------
(* "Every allocator created up till now which has no callback function set *)
(* yet, will get this one.  Every allocator created further on will get    *)
(* this callback function by default as well" (653): also one that is      *)
(* created while another thread installs the default.                      *)
DefaultsReachAll ==
    chain_lock = NULL =>
        \A i \in 1..Len(chain), k \in Kind :
            callback[chain[i]][k] = NULL =>
                default_cb[k] = NULL \/ <<chain[i], k>> \in removed

(* A block of a pool is held by one thread, and is lent as long as it is. *)
BlocksApart ==
    \A t, u \in Thread : \A x \in held[t] :
        x[2] \in lent[x[1]] /\ (x \in held[u] => t = u)

(* Whenever callbacks are taken away and options changed during an         *)
(* operation: what is called is a callback, and its caller holds no lock.  *)
CallbacksSafe == memWild \notin {"null callback", "locked callback"}
=============================================================================
