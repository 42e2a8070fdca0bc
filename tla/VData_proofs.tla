---------------------------- MODULE VData_proofs ----------------------------
(***************************************************************************)
(* Proofs about allocators, logging, compressed files and the console:     *)
(* each for its own specification, for every value of its constants.  The  *)
(* parts share the positive numbers and nothing else.                      *)
(***************************************************************************)
EXTENDS VLog, VMem, VFs, VConsole, VSeqFacts, TLAPS

(***************************************************************************)
(* Allocators, for any set of threads, pools, blocks and callbacks, and    *)
(* any number of changes of their configuration.                           *)
(***************************************************************************)

(* Where a thread may be. *)
FreeStep == [at : {"free"}, a : Alloc \ {"def"}, p : Pool, b : Block]
ReportStep(then) == [at : {"report", "error", "trace"}, a : Alloc, error : BOOLEAN, then : then]
LastReport == ReportStep({Idle})
PlainStep == {Idle} \cup FreeStep \cup ReportStep({Idle} \cup FreeStep \cup LastReport)
PoolStep == [at : {"pool"}, p : Pool, clear : BOOLEAN, b : Block \cup {NULL},
             new : SUBSET Block, mine : SUBSET (Pool \X Block)]
CreateStep == [at : {"inherit", "link"}, p : Pool]
WalkStep == [at : {"walk"}, k : Kind, c : Cb \cup {NULL}, rest : Seq(Alloc)]
Step == PlainStep \cup PoolStep \cup CreateStep \cup WalkStep

MemTypeOK ==
    /\ chain \in Seq(Alloc)
    /\ life \in [Pool -> {"none", "live", "freed"}]
    /\ locked \in SUBSET Pool /\ owner \in [Pool -> Thread \cup {NULL}]
    /\ callback \in [Alloc -> [Kind -> Cb \cup {NULL}]]
    /\ default_cb \in [Kind -> Cb \cup {NULL}]
    /\ chain_lock \in Thread \cup {NULL} /\ pool_lock \in [Pool -> Thread \cup {NULL}]
    /\ lent \in [Pool -> SUBSET Block]
    /\ held \in [Thread -> SUBSET (Pool \X Block)]
    /\ step \in [Thread -> Step]

(* Who holds which lock. *)
Locks ==
    \A t \in Thread :
        /\ chain_lock = t <=> At(t, "link") \/ At(t, "walk")
        /\ \A p \in Pool :
              pool_lock[p] = t <=> At(t, "pool") /\ step[t].p = p /\ p \in locked

InChain(p) == \E i \in 1..Len(chain) : chain[i] = p

(* A thread that is in a pool alone, by the lock or as its owner. *)
Alone(t, p) == life[p] # "none" /\ (p \in locked \/ owner[p] = t)

(* What an operation of a pool has read of the pool is still true when it  *)
(* writes, and a block is the thread's until it is freed.                  *)
PoolSound(t, s) ==
    /\ Alone(t, s.p)
    /\ \/ s.b = NULL /\ s.new = lent[s.p] /\ s.mine = held[t]
       \/ /\ s.b \in Block \ lent[s.p]
          /\ s.new = lent[s.p] \cup {s.b} /\ s.mine = held[t] \cup {<<s.p, s.b>>}
       \/ /\ <<s.p, s.b>> \in held[t]
          /\ s.new = lent[s.p] \ {s.b} /\ s.mine = held[t] \ {<<s.p, s.b>>}

FreeSound(t, s) == <<s.p, s.b>> \in held[t] /\ (s.a \in Pool => Alone(t, s.a))

Frees(t, s) ==
    /\ s.at = "free" => FreeSound(t, s)
    /\ s.at \in {"report", "error", "trace"} /\ s.then.at = "free" => FreeSound(t, s.then)

Users == \A t \in Thread : Frees(t, step[t]) /\ (At(t, "pool") => PoolSound(t, step[t]))

(* A pool that is being created is not in the chain: nobody knows it, and  *)
(* it keeps the defaults that it got.                                      *)
Creating ==
    /\ \A p \in Pool : life[p] = "none" => ~InChain(p)
    /\ \A t \in Thread : At(t, "inherit") \/ At(t, "link") =>
          /\ life[step[t].p] = "live" /\ ~InChain(step[t].p)
          /\ At(t, "link") => callback[step[t].p] = default_cb
          /\ \A u \in Thread : (At(u, "inherit") \/ At(u, "link")) /\ step[u].p = step[t].p => u = t

(* The defaults have reached the allocators that are not still to be       *)
(* visited by the walk of a thread.                                        *)
Has(a, k) == callback[a][k] = NULL => default_cb[k] = NULL \/ <<a, k>> \in removed

ToVisit(a, k) ==
    \E t \in Thread : /\ At(t, "walk") /\ step[t].k = k
                      /\ \E j \in 1..Len(step[t].rest) : step[t].rest[j] = a

Defaults ==
    /\ \A t \in Thread : At(t, "walk") => step[t].c = default_cb[step[t].k]
    /\ \A i \in 1..Len(chain), k \in Kind : Has(chain[i], k) \/ ToVisit(chain[i], k)

MemInv == MemTypeOK /\ Locks /\ Users /\ Creating /\ Defaults /\ BlocksApart /\ CallbacksSafe
-----------------------------------------------------------------------------
(* What a thread does tells the fields of its step. *)
LEMMA StepFacts ==
    ASSUME NEW s \in Step
    PROVE  /\ s.at \in {"idle", "free", "report", "error", "trace"} <=> s \in PlainStep
           /\ s.at = "idle" => s = Idle
           /\ s.at = "free" => s \in FreeStep
           /\ s.at \in {"report", "error", "trace"} =>
                 s \in ReportStep({Idle} \cup FreeStep \cup LastReport)
           /\ s.at = "pool" <=> s \in PoolStep
           /\ s.at \in {"inherit", "link"} <=> s \in CreateStep
           /\ s.at = "walk" <=> s \in WalkStep
<1>1. CASE s = Idle
  BY <1>1 DEF Idle, PlainStep, FreeStep, ReportStep, PoolStep, CreateStep, WalkStep
<1>2. CASE s \in FreeStep
  BY <1>2 DEF PlainStep, FreeStep, PoolStep, CreateStep, WalkStep
<1>3. CASE s \in ReportStep({Idle} \cup FreeStep \cup LastReport)
  BY <1>3 DEF PlainStep, ReportStep, PoolStep, CreateStep, WalkStep
<1>4. CASE s \in PoolStep
  BY <1>4 DEF Idle, PlainStep, FreeStep, ReportStep, PoolStep, CreateStep, WalkStep
<1>5. CASE s \in CreateStep
  BY <1>5 DEF Idle, PlainStep, FreeStep, ReportStep, PoolStep, CreateStep, WalkStep
<1>6. CASE s \in WalkStep
  BY <1>6 DEF Idle, PlainStep, FreeStep, ReportStep, PoolStep, CreateStep, WalkStep
<1> QED
  BY <1>1, <1>2, <1>3, <1>4, <1>5, <1>6 DEF Step, PlainStep

LEMMA GoFacts ==
    ASSUME step \in [Thread -> Step], NEW t \in Thread, NEW s \in Step, Go(t, s)
    PROVE  /\ step' \in [Thread -> Step] /\ step'[t] = s
           /\ \A u \in Thread : u # t => step'[u] = step[u]
BY DEF Go

(* The initial state satisfies the invariant. *)
LEMMA MemInitInv == MemInit => MemInv
<1> SUFFICES ASSUME MemInit PROVE MemInv
  OBVIOUS
<1> DEFINE c == <<"def", "sys">>
<1>1. c \in Seq(Alloc) /\ Len(c) = 2 /\ \A i \in 1..2 : c[i] \in {"def", "sys"}
  BY DEF Alloc
<1> HIDE DEF c
<1>2. \A t \in Thread : step[t] = Idle /\ step[t].at = "idle"
  BY DEF MemInit, Idle
<1>3. MemTypeOK
  BY <1>1, MemAssumption DEF MemInit, MemTypeOK, Step, PlainStep, c
<1>4. Locks
  BY <1>2, MemAssumption DEF MemInit, Locks, At
<1>5. Users
  BY <1>2 DEF Users, At, Frees
<1>6. Creating
  BY <1>1, <1>2, MemAssumption DEF MemInit, Creating, At, InChain, c
<1>7. Defaults
  BY <1>1, <1>2 DEF MemInit, Defaults, At, Has, c
<1>8. BlocksApart /\ CallbacksSafe
  BY DEF MemInit, BlocksApart, CallbacksSafe
<1> QED
  BY <1>3, <1>4, <1>5, <1>6, <1>7, <1>8 DEF MemInv
-----------------------------------------------------------------------------
(* A step without locks that changes nothing but where the thread is. *)
LEMMA PlainInv ==
    ASSUME MemInv, NEW t \in Thread, step[t] \in PlainStep,
           NEW s \in PlainStep, Go(t, s), Frees(t, s),
           UNCHANGED <<setup, config, blocks, chain_lock, pool_lock>>,
           CallbacksSafe'
    PROVE  MemInv'
<1> USE DEF setup, config, blocks
<1>1. /\ step' \in [Thread -> Step] /\ step'[t] = s
      /\ \A u \in Thread : u # t => step'[u] = step[u]
  BY GoFacts DEF MemInv, MemTypeOK, Step
<1>2. step[t].at \notin {"pool", "inherit", "link", "walk"} /\ s.at \notin {"pool", "inherit", "link", "walk"}
  BY StepFacts DEF MemInv, MemTypeOK, Step
<1>3. MemTypeOK'
  BY <1>1 DEF MemInv, MemTypeOK
<1>4. Locks'
  BY <1>1, <1>2 DEF MemInv, Locks, At
<1>5. Users'
  BY <1>1, <1>2 DEF MemInv, Users, At, Frees, FreeSound, PoolSound, Alone
<1>6. Creating'
  BY <1>1, <1>2 DEF MemInv, Creating, At, InChain
<1>7. Defaults'
  BY <1>1, <1>2 DEF MemInv, Defaults, At, Has, ToVisit
<1>8. BlocksApart'
  BY DEF MemInv, BlocksApart
<1> QED
  BY <1>3, <1>4, <1>5, <1>6, <1>7, <1>8 DEF MemInv

(* A report, and what follows. *)
LEMMA ReportPlain ==
    ASSUME NEW a \in Alloc, NEW error \in BOOLEAN, NEW t \in Thread
    PROVE  /\ Report(a, error, Idle) \in PlainStep /\ Frees(t, Report(a, error, Idle))
           /\ Report(a, FALSE, Report(a, error, Idle)) \in PlainStep
           /\ Frees(t, Report(a, FALSE, Report(a, error, Idle)))
           /\ Report(a, error, Idle) \in LastReport
<1>1. Report(a, error, Idle) \in LastReport
  BY DEF Report, LastReport, ReportStep
<1>2. Report(a, error, Idle) \in PlainStep
  BY DEF Report, PlainStep, ReportStep
<1>3. Report(a, FALSE, Report(a, error, Idle)) \in PlainStep
  BY <1>1 DEF Report, PlainStep, ReportStep
<1> QED
  BY <1>1, <1>2, <1>3 DEF Frees, Report, Idle

(* The operations of allocators that are no pools, and reports. *)
LEMMA DirectInv ==
    ASSUME MemInv, memWild = "no", NEW t \in Thread,
           \/ \E a \in Alloc : AllocDirect(t, a)
           \/ \E p \in Pool, b \in Block : Free(t, p, b)
           \/ ReportNeeded(t)
           \/ \E k \in Kind : Invoke(t, k)
    PROVE  MemInv'
<1>1. step[t] \in Step
  BY DEF MemInv, MemTypeOK
<1>2. CASE \E a \in Alloc : AllocDirect(t, a)
  <2>1. PICK a \in Alloc, ok \in BOOLEAN :
           \/ Go(t, Report(a, ~ok, Idle))
           \/ Go(t, Report(a, FALSE, Report(a, ~ok, Idle)))
    BY <1>2 DEF AllocDirect, Result
  <2>2. At(t, "idle") /\ UNCHANGED <<setup, config, blocks, chain_lock, pool_lock, memWild>>
    BY <1>2 DEF AllocDirect
  <2>3. step[t] \in PlainStep /\ CallbacksSafe' /\ (~ok) \in BOOLEAN
    BY <1>1, <2>2, StepFacts DEF At, CallbacksSafe
  <2> QED
    BY <2>1, <2>2, <2>3, ReportPlain, PlainInv
<1>3. CASE \E p \in Pool, b \in Block : Free(t, p, b)
  <2>1. PICK p \in Pool, b \in Block, a \in Alloc \ {"def"} :
           /\ <<p, b>> \in held[t] /\ (a \in Pool => MayUse(t, a))
           /\ Go(t, Report(a, FALSE, [at |-> "free", a |-> a, p |-> p, b |-> b]))
    BY <1>3 DEF Free
  <2>2. At(t, "idle") /\ UNCHANGED <<setup, config, blocks, chain_lock, pool_lock, memWild>>
    BY <1>3 DEF Free
  <2> DEFINE f == [at |-> "free", a |-> a, p |-> p, b |-> b]
             s == Report(a, FALSE, f)
  <2>3. f \in FreeStep /\ s \in PlainStep
    BY DEF FreeStep, Report, PlainStep, ReportStep
  <2>4. FreeSound(t, f)
    BY <2>1 DEF FreeSound, Alone, MayUse
  <2>5. s.at = "report" /\ s.then = f
    BY DEF Report
  <2> HIDE DEF f
  <2>6. Frees(t, s)
    BY <2>4, <2>5 DEF Frees
  <2>7. step[t] \in PlainStep /\ CallbacksSafe'
    BY <1>1, <2>2, StepFacts DEF At, CallbacksSafe
  <2>8. Go(t, s)
    BY <2>1 DEF f
  <2> HIDE DEF s
  <2> QED
    BY <2>2, <2>3, <2>6, <2>7, <2>8, PlainInv
<1>4. CASE ReportNeeded(t) \/ \E k \in Kind : Invoke(t, k)
  <2>1. /\ step[t].at \in {"report", "error", "trace"}
        /\ UNCHANGED <<setup, config, blocks, chain_lock, pool_lock>>
    BY <1>4 DEF ReportNeeded, Invoke, At, Kind
  <2>2. PICK s : Go(t, s) /\ \/ s = step[t].then
                             \/ \E at \in {"error", "trace"} : s = [step[t] EXCEPT !.at = at]
    BY <1>4 DEF ReportNeeded, Invoke
  <2>3. step[t] \in ReportStep({Idle} \cup FreeStep \cup LastReport) /\ step[t] \in PlainStep
    BY <1>1, <2>1, StepFacts
  <2>4. s \in PlainStep
    <3>1. CASE s = step[t].then
      BY <2>3, <3>1 DEF ReportStep, PlainStep, LastReport
    <3>2. ASSUME NEW at \in {"error", "trace"}, s = [step[t] EXCEPT !.at = at]
          PROVE  s \in PlainStep
      BY <2>3, <3>2 DEF ReportStep, PlainStep
    <3> QED
      BY <2>2, <3>1, <3>2
  <2>5. Frees(t, s)
    <3>1. Frees(t, step[t])
      BY DEF MemInv, Users
    <3>2. CASE s = step[t].then
      <4>1. s = Idle \/ s \in FreeStep \/ (s \in LastReport /\ s.then = Idle)
        BY <2>3, <3>2 DEF ReportStep, LastReport
      <4> QED
        BY <2>1, <3>1, <3>2, <4>1 DEF Frees, Idle, FreeStep
    <3>3. ASSUME NEW at \in {"error", "trace"}, s = [step[t] EXCEPT !.at = at]
          PROVE  Frees(t, s)
      <4>1. s.at = at /\ s.then = step[t].then
        BY <2>3, <3>3 DEF ReportStep
      <4> QED
        BY <2>1, <3>1, <4>1 DEF Frees
    <3> QED
      BY <2>2, <3>2, <3>3
  <2>6. CallbacksSafe'
    <3>1. CASE ReportNeeded(t)
      BY <3>1 DEF ReportNeeded, CallbacksSafe
    <3>2. ASSUME NEW k \in Kind, Invoke(t, k) PROVE CallbacksSafe'
      <4>1. ~HoldsLock(t)
        BY <2>1 DEF MemInv, Locks, HoldsLock, At
      <4> QED
        BY <3>2, <4>1 DEF Invoke, Calls, CallbacksSafe
    <3> QED
      BY <1>4, <3>1, <3>2
  <2> QED
    BY <2>1, <2>2, <2>3, <2>4, <2>5, <2>6, PlainInv
<1> QED
  BY <1>2, <1>3, <1>4
-----------------------------------------------------------------------------
(* Options and callbacks of one allocator change. *)
LEMMA ConfigInv ==
    ASSUME MemInv, memWild = "no", NEW t \in Thread,
           \/ \E a \in Alloc, change, set \in SUBSET Kind : SetOption(t, a, change, set)
           \/ \E a \in Alloc, k \in Kind, c \in Cb \cup {NULL} : InstallCallback(t, a, k, c)
    PROVE  MemInv'
<1>1. /\ UNCHANGED <<setup, default_cb, blocks, chain_lock, pool_lock, step, memWild>>
  BY DEF SetOption, InstallCallback
<1>2. PICK a \in Alloc, k \in Kind, c \in Cb \cup {NULL} :
         /\ a \in Pool => MayUse(t, a)
         /\ \/ UNCHANGED <<callback, removed>>
            \/ /\ callback' = [callback EXCEPT ![a][k] = c]
               /\ removed' = IF c = NULL THEN removed \cup {<<a, k>>} ELSE removed \ {<<a, k>>}
  <2>1. CASE \E a \in Alloc, change, set \in SUBSET Kind : SetOption(t, a, change, set)
    BY <2>1 DEF SetOption, Kind
  <2>2. CASE \E a \in Alloc, k \in Kind, c \in Cb \cup {NULL} : InstallCallback(t, a, k, c)
    BY <2>2 DEF InstallCallback
  <2> QED
    BY <2>1, <2>2
<1>3. /\ callback' \in [Alloc -> [Kind -> Cb \cup {NULL}]]
      /\ \A x \in Alloc : x # a => callback'[x] = callback[x]
      /\ \A x \in Alloc, l \in Kind : Has(x, l) => Has(x, l)'
  <2>1. CASE UNCHANGED <<callback, removed>>
    BY <1>1, <2>1 DEF MemInv, MemTypeOK, Has
  <2>2. CASE /\ callback' = [callback EXCEPT ![a][k] = c]
             /\ removed' = IF c = NULL THEN removed \cup {<<a, k>>} ELSE removed \ {<<a, k>>}
    <3>1. callback \in [Alloc -> [Kind -> Cb \cup {NULL}]] /\ default_cb' = default_cb
      BY <1>1 DEF MemInv, MemTypeOK
    <3>2. \A x \in Alloc, l \in Kind :
             callback'[x][l] = IF x = a /\ l = k THEN c ELSE callback[x][l]
      BY <2>2, <3>1
    <3>3. \A x \in Alloc, l \in Kind : Has(x, l) => Has(x, l)'
      BY <2>2, <3>1, <3>2 DEF Has
    <3>4. callback' \in [Alloc -> [Kind -> Cb \cup {NULL}]]
      BY <2>2, <3>1
    <3>5. \A x \in Alloc : x # a => callback'[x] = callback[x]
      BY <2>2, <3>1
    <3> QED
      BY <3>3, <3>4, <3>5
  <2> QED
    BY <1>2, <2>1, <2>2
<1>4. MemTypeOK' /\ Locks' /\ Users' /\ BlocksApart' /\ CallbacksSafe'
  <2> USE <1>1 DEF MemInv, setup, blocks
  <2>1. MemTypeOK'
    BY <1>3 DEF MemTypeOK
  <2>2. Locks'
    BY DEF Locks, At
  <2>3. Users'
    BY DEF Users, At, Frees, FreeSound, PoolSound, Alone
  <2>4. BlocksApart' /\ CallbacksSafe'
    BY DEF BlocksApart, CallbacksSafe
  <2> QED
    BY <2>1, <2>2, <2>3, <2>4
<1>5. Creating'
  <2>1. a \in Pool => InChain(a)
    BY <1>2 DEF MayUse, InChain
  <2>2. \A u \in Thread : At(u, "inherit") \/ At(u, "link") => step[u].p # a
    <3> TAKE u \in Thread
    <3> HAVE At(u, "inherit") \/ At(u, "link")
    <3>1. step[u] \in CreateStep
      BY StepFacts DEF MemInv, MemTypeOK, At
    <3>2. step[u].p \in Pool /\ ~InChain(step[u].p)
      BY <3>1 DEF CreateStep, MemInv, Creating
    <3> QED
      BY <2>1, <3>2
  <2>3. \A u \in Thread : At(u, "inherit") \/ At(u, "link") => callback'[step[u].p] = callback[step[u].p]
    <3> TAKE u \in Thread
    <3> HAVE At(u, "inherit") \/ At(u, "link")
    <3>1. step[u] \in CreateStep
      BY StepFacts DEF MemInv, MemTypeOK, At
    <3>2. step[u].p \in Alloc
      BY <3>1 DEF CreateStep, Alloc
    <3> QED
      BY <1>3, <2>2, <3>2
  <2> QED
    BY <1>1, <2>3 DEF MemInv, Creating, At, InChain, setup
<1>6. Defaults'
  <2>1. \A i \in 1..Len(chain) : chain[i] \in Alloc
    BY ElementOfSeq DEF MemInv, MemTypeOK
  <2> QED
    BY <1>1, <1>3, <2>1 DEF MemInv, Defaults, At, ToVisit, setup
<1> QED
  BY <1>4, <1>5, <1>6 DEF MemInv
-----------------------------------------------------------------------------
(* A pool is created, or is not: nobody knows it yet. *)
LEMMA CreateInv ==
    ASSUME MemInv, memWild = "no", NEW t \in Thread, NEW p \in Pool, CreatePool(t, p)
    PROVE  MemInv'
<1>1. /\ At(t, "idle") /\ life[p] = "none"
      /\ UNCHANGED <<chain, config, blocks, chain_lock, pool_lock, memWild>>
  BY DEF CreatePool
<1>2. step[t] \in PlainStep /\ CallbacksSafe'
  BY <1>1, StepFacts DEF MemInv, MemTypeOK, At, CallbacksSafe
<1>3. CASE Result(t, "sys", FALSE) /\ UNCHANGED <<life, locked, owner>>
  <2>1. Go(t, Report("sys", TRUE, Idle)) /\ "sys" \in Alloc
    BY <1>3 DEF Result, Alloc
  <2> QED
    BY <1>1, <1>2, <1>3, <2>1, ReportPlain, PlainInv DEF setup
<1>4. CASE /\ \E m \in BOOLEAN : locked' = IF m THEN locked \cup {p} ELSE locked
           /\ life' = [life EXCEPT ![p] = "live"]
           /\ owner' = [owner EXCEPT ![p] = t]
           /\ Go(t, [at |-> "inherit", p |-> p])
  <2> DEFINE s == [at |-> "inherit", p |-> p]
  <2>1. s \in Step /\ s.at = "inherit" /\ s.p = p
    BY DEF Step, CreateStep
  <2>2. Go(t, s)
    BY <1>4
  <2> HIDE DEF s
  <2>3. /\ step' \in [Thread -> Step] /\ step'[t] = s
        /\ \A u \in Thread : u # t => step'[u] = step[u]
    BY <2>1, <2>2, GoFacts DEF MemInv, MemTypeOK
  <2>4. MemTypeOK'
    BY <1>1, <1>4, <2>3 DEF MemInv, MemTypeOK, config, blocks
  <2>5. \A q \in Pool : q # p => /\ life'[q] = life[q] /\ owner'[q] = owner[q]
                                 /\ (q \in locked' <=> q \in locked)
    BY <1>4 DEF MemInv, MemTypeOK
  <2>6. \A u \in Thread : ~Alone(u, p)
    BY <1>1 DEF Alone
  <2>7. Locks'
    <3>1. \A u \in Thread : At(u, "pool") => step[u].p # p
      BY <2>6 DEF MemInv, Users, PoolSound
    <3>2. \A u \in Thread, q \in Pool :
             (At(u, "pool") /\ step[u].p = q /\ q \in locked)' <=> (At(u, "pool") /\ step[u].p = q /\ q \in locked)
      BY <1>1, <2>1, <2>3, <2>5, <3>1 DEF At
    <3>3. \A u \in Thread : (At(u, "link") \/ At(u, "walk"))' <=> At(u, "link") \/ At(u, "walk")
      BY <1>1, <2>1, <2>3 DEF At
    <3> QED
      BY <1>1, <3>2, <3>3 DEF MemInv, Locks
  <2>8. Users'
    <3>1. \A u \in Thread, q \in Pool : Alone(u, q) => Alone(u, q)'
      BY <2>5, <2>6 DEF Alone
    <3>2. \A u \in Thread : At(u, "pool") => step[u].p \in Pool
      <4> TAKE u \in Thread
      <4> HAVE At(u, "pool")
      <4>1. step[u] \in PoolStep
        BY StepFacts DEF MemInv, MemTypeOK, At
      <4> QED
        BY <4>1 DEF PoolStep
    <3>3. \A u \in Thread : \A f : FreeSound(u, f) => FreeSound(u, f)'
      BY <1>1, <3>1 DEF FreeSound, blocks
    <3>4. \A u \in Thread : u # t => (Frees(u, step[u]) => Frees(u, step[u])')
      BY <2>3, <3>3 DEF Frees
    <3>5. Frees(t, step[t])'
      BY <2>1, <2>3 DEF Frees
    <3> QED
      BY <1>1, <2>1, <2>3, <3>1, <3>2, <3>4, <3>5 DEF MemInv, Users, At, PoolSound, blocks
  <2>9. Creating'
    <3>1. ~InChain(p) /\ ~InChain(p)' /\ \A q : InChain(q)' <=> InChain(q)
      BY <1>1 DEF MemInv, Creating, InChain
    <3>2. \A u \in Thread : At(u, "inherit") \/ At(u, "link") => step[u].p # p /\ step[u].p \in Pool
      <4> TAKE u \in Thread
      <4> HAVE At(u, "inherit") \/ At(u, "link")
      <4>1. step[u] \in CreateStep
        BY StepFacts DEF MemInv, MemTypeOK, At
      <4> QED
        BY <1>1, <4>1 DEF CreateStep, MemInv, Creating
    <3>3. life'[p] = "live"
      BY <1>4 DEF MemInv, MemTypeOK
    <3> QED
      BY <1>1, <2>1, <2>3, <2>5, <3>1, <3>2, <3>3 DEF MemInv, Creating, At, config
  <2>10. Defaults'
    BY <1>1, <2>1, <2>3 DEF MemInv, Defaults, At, Has, ToVisit, config
  <2>11. BlocksApart'
    BY <1>1 DEF MemInv, BlocksApart, blocks
  <2> QED
    BY <1>2, <2>4, <2>7, <2>8, <2>9, <2>10, <2>11 DEF MemInv
<1> QED
  BY <1>3, <1>4 DEF CreatePool

(* ... it gets the defaults, and from here on they cannot change. *)
LEMMA InheritInv ==
    ASSUME MemInv, memWild = "no", NEW t \in Thread, Inherit(t)
    PROVE  MemInv'
<1> DEFINE p == step[t].p
           s == [at |-> "link", p |-> p]
<1>1. /\ At(t, "inherit") /\ chain_lock = NULL /\ chain_lock' = t
      /\ callback' = [callback EXCEPT ![p] = default_cb]
      /\ UNCHANGED <<setup, removed, default_cb, blocks, pool_lock, memWild>>
  BY DEF Inherit, ChainLock
<1>2. step[t] \in CreateStep
  BY <1>1, StepFacts DEF MemInv, MemTypeOK, At
<1>3. p \in Pool /\ p \in Alloc /\ s \in Step /\ s.at = "link" /\ s.p = p
  BY <1>2 DEF CreateStep, Step, Alloc
<1>4. Go(t, s)
  BY <1>2 DEF Inherit, CreateStep
<1>5. ~InChain(p) /\ life[p] = "live"
  BY <1>1 DEF MemInv, Creating
<1> HIDE DEF s
<1>6. /\ step' \in [Thread -> Step] /\ step'[t] = s
      /\ \A u \in Thread : u # t => step'[u] = step[u]
  BY <1>3, <1>4, GoFacts DEF MemInv, MemTypeOK
<1>7. \A u \in Thread : step[u].at \notin {"link", "walk"}
  BY <1>1, MemAssumption DEF MemInv, Locks, At
<1>8. step[t].at = "inherit" /\ step[t].p = p
  BY <1>1 DEF At
<1> HIDE DEF p
<1>9. MemTypeOK'
  BY <1>1, <1>3, <1>6 DEF MemInv, MemTypeOK, setup, blocks
<1>10. callback'[p] = default_cb /\ \A a \in Alloc : a # p => callback'[a] = callback[a]
  BY <1>1, <1>3 DEF MemInv, MemTypeOK
<1>11. Locks'
  BY <1>1, <1>3, <1>6, <1>7, <1>8, MemAssumption DEF MemInv, Locks, At, setup
<1>12. Users'
  BY <1>1, <1>3, <1>6, <1>8 DEF MemInv, Users, At, Frees, FreeSound, PoolSound, Alone, setup, blocks
<1>13. Creating'
  BY <1>1, <1>3, <1>5, <1>6, <1>7, <1>8, <1>10 DEF MemInv, Creating, At, InChain, setup
<1>14. Defaults'
  <2>1. \A i \in 1..Len(chain) : chain[i] \in Alloc /\ chain[i] # p
    BY <1>5, ElementOfSeq DEF MemInv, MemTypeOK, InChain
  <2>2. \A i \in 1..Len(chain), k \in Kind : Has(chain[i], k)
    BY <1>7 DEF MemInv, Defaults, At, ToVisit
  <2>3. \A i \in 1..Len(chain), k \in Kind : Has(chain[i], k)'
    BY <1>1, <1>10, <2>1, <2>2 DEF Has, setup
  <2>4. \A u \in Thread : step'[u].at # "walk"
    BY <1>3, <1>6, <1>7
  <2> QED
    BY <1>1, <2>3, <2>4 DEF Defaults, At, setup
<1>15. BlocksApart' /\ CallbacksSafe'
  BY <1>1 DEF MemInv, BlocksApart, CallbacksSafe, blocks
<1> QED
  BY <1>9, <1>11, <1>12, <1>13, <1>14, <1>15 DEF MemInv

(* ... and enters the chain with them. *)
LEMMA LinkInv ==
    ASSUME MemInv, memWild = "no", NEW t \in Thread, Link(t)
    PROVE  MemInv'
<1> DEFINE p == step[t].p
           c == <<p>> \o chain
           s == Report("sys", FALSE, Idle)
<1>1. /\ At(t, "link") /\ chain' = c /\ chain_lock' = NULL /\ Go(t, s)
      /\ UNCHANGED <<life, locked, owner, config, blocks, pool_lock, memWild>>
  BY DEF Link, Result
<1>2. step[t] \in CreateStep
  BY <1>1, StepFacts DEF MemInv, MemTypeOK, At
<1>3. p \in Pool /\ p \in Alloc
  BY <1>2 DEF CreateStep, Alloc
<1>4. s \in PlainStep /\ s.at = "report" /\ s.then.at = "idle" /\ Frees(t, s)
  BY ReportPlain DEF Alloc, Report, Idle
<1>5. callback[p] = default_cb /\ life[p] = "live"
  BY <1>1 DEF MemInv, Creating
<1> HIDE DEF s
<1>6. /\ step' \in [Thread -> Step] /\ step'[t] = s
      /\ \A u \in Thread : u # t => step'[u] = step[u]
  BY <1>1, <1>4, GoFacts DEF MemInv, MemTypeOK, Step
<1>7. \A u \in Thread : u # t => step[u].at \notin {"link", "walk"}
  BY <1>1, MemAssumption DEF MemInv, Locks, At
<1>8. step[t].at = "link" /\ step[t].p = p
  BY <1>1 DEF At
<1>9. /\ c \in Seq(Alloc)
      /\ \A i \in 1..Len(c) : c[i] = p \/ \E j \in 1..Len(chain) : c[i] = chain[j]
      /\ \A j \in 1..Len(chain) : \E i \in 1..Len(c) : c[i] = chain[j]
  <2> DEFINE d == <<p>>
             n == Len(chain)
  <2>1. d \in Seq(Alloc) /\ Len(d) = 1 /\ d[1] = p /\ c = d \o chain
    BY <1>3
  <2>2. chain \in Seq(Alloc) /\ n \in Nat
    BY LenProperties DEF MemInv, MemTypeOK
  <2> HIDE DEF d, c
  <2>3. /\ c \in Seq(Alloc) /\ Len(c) = 1 + n
        /\ \A i \in 1..1 + n : c[i] = IF i <= 1 THEN d[i] ELSE chain[i - 1]
    <3>1. d \in Seq(Alloc) /\ chain \in Seq(Alloc)
      BY <2>1, <2>2
    <3>2. /\ d \o chain \in Seq(Alloc) /\ Len(d \o chain) = Len(d) + Len(chain)
          /\ \A i \in 1..Len(d) + Len(chain) :
                (d \o chain)[i] = IF i <= Len(d) THEN d[i] ELSE chain[i - Len(d)]
      BY <3>1, ConcatProperties
    <3> QED
      BY <2>1, <3>2
  <2> HIDE DEF n
  <2>4. c[1] = p /\ \A i \in 2..1 + n : c[i] = chain[i - 1]
    BY <2>1, <2>2, <2>3
  <2>5. \A i \in 1..1 + n : c[i] = p \/ \E j \in 1..n : c[i] = chain[j]
    BY <2>2, <2>4
  <2>6. \A j \in 1..n : \E i \in 1..1 + n : c[i] = chain[j]
    <3> TAKE j \in 1..n
    <3>1. j + 1 \in 2..1 + n /\ c[j + 1] = chain[j]
      BY <2>2, <2>4
    <3> QED
      BY <2>2, <3>1
  <2> QED
    BY <2>3, <2>5, <2>6 DEF n
<1> HIDE DEF p, c
<1>10. MemTypeOK'
  BY <1>1, <1>6, <1>9 DEF MemInv, MemTypeOK, config, blocks
<1>11. Locks'
  BY <1>1, <1>4, <1>6, <1>7, <1>8, MemAssumption DEF MemInv, Locks, At
<1>12. Users'
  BY <1>1, <1>4, <1>6, <1>8 DEF MemInv, Users, At, Frees, FreeSound, PoolSound, Alone, blocks
<1>13. Creating'
  <2>1. \A q \in Pool : InChain(q)' => q = p \/ InChain(q)
    BY <1>1, <1>9 DEF InChain
  <2>2. \A u \in Thread : u # t /\ step[u].at \in {"inherit", "link"} => step[u].p # p /\ step[u].p \in Pool
    <3> TAKE u \in Thread
    <3> HAVE u # t /\ step[u].at \in {"inherit", "link"}
    <3>1. step[u] \in CreateStep
      BY StepFacts DEF MemInv, MemTypeOK
    <3> QED
      BY <1>8, <3>1 DEF CreateStep, MemInv, Creating, At
  <2> QED
    BY <1>1, <1>4, <1>5, <1>6, <1>7, <2>1, <2>2 DEF MemInv, Creating, At, config
<1>14. Defaults'
  <2>1. \A u \in Thread : step'[u].at # "walk" /\ step[u].at # "walk"
    BY <1>4, <1>6, <1>7, <1>8
  <2>2. \A i \in 1..Len(chain), k \in Kind : Has(chain[i], k)
    BY <2>1 DEF MemInv, Defaults, At, ToVisit
  <2>3. \A k \in Kind : Has(p, k)
    BY <1>5 DEF Has
  <2>4. \A i \in 1..Len(c), k \in Kind : Has(c[i], k)
    BY <1>9, <2>2, <2>3
  <2>5. \A i \in 1..Len(chain'), k \in Kind :
           callback'[chain'[i]][k] = NULL => default_cb'[k] = NULL \/ <<chain'[i], k>> \in removed'
    BY <1>1, <2>4 DEF Has, config
  <2> QED
    BY <2>1, <2>5 DEF Defaults, At, Has
<1>15. BlocksApart' /\ CallbacksSafe'
  BY <1>1 DEF MemInv, BlocksApart, CallbacksSafe, blocks
<1> QED
  BY <1>10, <1>11, <1>12, <1>13, <1>14, <1>15 DEF MemInv

(* A pool is deleted that nobody is in. *)
LEMMA DeletePoolInv ==
    ASSUME MemInv, memWild = "no", NEW t \in Thread, NEW p \in Pool, DeletePool(t, p)
    PROVE  MemInv'
<1>1. /\ \A u \in Thread : step[u].at \in {"idle", "walk"}
      /\ life' = [life EXCEPT ![p] = "freed"]
      /\ UNCHANGED <<chain, locked, owner, config, blocks, chain_lock, pool_lock, step, memWild>>
  BY DEF DeletePool, At
<1>2. MemTypeOK'
  BY <1>1 DEF MemInv, MemTypeOK, config, blocks
<1>3. Locks' /\ Users'
  BY <1>1 DEF MemInv, Locks, Users, At, Frees
<1>4. Creating'
  BY <1>1 DEF MemInv, MemTypeOK, Creating, At, InChain
<1>5. Defaults' /\ BlocksApart' /\ CallbacksSafe'
  BY <1>1 DEF MemInv, Defaults, At, Has, ToVisit, BlocksApart, CallbacksSafe, config, blocks
<1> QED
  BY <1>2, <1>3, <1>4, <1>5 DEF MemInv
-----------------------------------------------------------------------------
(* A thread begins to set a default: all of the chain is to be visited. *)
LEMMA InstallDefaultInv ==
    ASSUME MemInv, memWild = "no", NEW t \in Thread, NEW k \in Kind, NEW c \in Cb \cup {NULL},
           InstallDefault(t, k, c)
    PROVE  MemInv'
<1> DEFINE s == [at |-> "walk", k |-> k, c |-> c, rest |-> chain]
<1>1. /\ At(t, "idle") /\ chain_lock = NULL /\ chain_lock' = t
      /\ default_cb' = [default_cb EXCEPT ![k] = c] /\ Go(t, s)
      /\ UNCHANGED <<setup, callback, removed, blocks, pool_lock, memWild>>
  BY DEF InstallDefault, ChainLock, Change
<1>2. s \in Step /\ s.at = "walk" /\ s.k = k /\ s.c = c /\ s.rest = chain
  BY DEF Step, WalkStep, MemInv, MemTypeOK
<1> HIDE DEF s
<1>3. /\ step' \in [Thread -> Step] /\ step'[t] = s
      /\ \A u \in Thread : u # t => step'[u] = step[u]
  BY <1>1, <1>2, GoFacts DEF MemInv, MemTypeOK
<1>4. step[t].at = "idle" /\ \A u \in Thread : step[u].at \notin {"link", "walk"}
  BY <1>1, MemAssumption DEF MemInv, Locks, At
<1>5. default_cb'[k] = c /\ \A l \in Kind : l # k => default_cb'[l] = default_cb[l]
  BY <1>1 DEF MemInv, MemTypeOK
<1>6. MemTypeOK'
  BY <1>1, <1>3 DEF MemInv, MemTypeOK, setup, blocks
<1>7. Locks'
  BY <1>1, <1>2, <1>3, <1>4, MemAssumption DEF MemInv, Locks, At, setup
<1>8. Users'
  BY <1>1, <1>2, <1>3, <1>4 DEF MemInv, Users, At, Frees, FreeSound, PoolSound, Alone, setup, blocks
<1>9. Creating'
  BY <1>1, <1>2, <1>3, <1>4 DEF MemInv, Creating, At, InChain, setup
<1>10. Defaults'
  <2>1. \A i \in 1..Len(chain), l \in Kind : Has(chain[i], l)
    BY <1>4 DEF MemInv, Defaults, At, ToVisit
  <2>2. \A i \in 1..Len(chain), l \in Kind : l # k => Has(chain[i], l)'
    BY <1>1, <1>5, <2>1 DEF Has, setup
  <2>3. \A i \in 1..Len(chain) : ToVisit(chain[i], k)'
    BY <1>1, <1>2, <1>3 DEF ToVisit, At, setup
  <2>4. \A u \in Thread : step'[u].at = "walk" => u = t
    BY <1>3, <1>4
  <2> QED
    BY <1>1, <1>2, <1>3, <1>5, <2>2, <2>3, <2>4 DEF Defaults, At, setup
<1>11. BlocksApart' /\ CallbacksSafe'
  BY <1>1 DEF MemInv, BlocksApart, CallbacksSafe, blocks
<1> QED
  BY <1>6, <1>7, <1>8, <1>9, <1>10, <1>11 DEF MemInv

(* ... one after the other. *)
LEMMA WalkInv ==
    ASSUME MemInv, memWild = "no", NEW t \in Thread, Walk(t)
    PROVE  MemInv'
<1> DEFINE s == step[t]
           k == s.k
           q == s.rest
<1>1. At(t, "walk") /\ UNCHANGED <<setup, options, removed, default_cb, changes, blocks, pool_lock>>
  BY DEF Walk
<1>2. s \in WalkStep /\ s \in Step
  BY <1>1, StepFacts DEF MemInv, MemTypeOK, At
<1>3. s.at = "walk" /\ k \in Kind /\ s.c = default_cb[k] /\ s.c \in Cb \cup {NULL} /\ q \in Seq(Alloc)
  BY <1>1, <1>2 DEF WalkStep, MemInv, Defaults, At
<1>4. \A u \in Thread : u # t => step[u].at \notin {"link", "walk"}
  BY <1>1, MemAssumption DEF MemInv, Locks, At
<1>5. \A a, l : ToVisit(a, l) => l = k /\ \E j \in 1..Len(q) : q[j] = a
  BY <1>4 DEF ToVisit, At
<1>6. CASE q = <<>>
  <2>1. /\ chain_lock' = NULL /\ Go(t, Idle) /\ UNCHANGED <<callback, memWild>>
    BY <1>6 DEF Walk
  <2>2. Idle \in Step /\ Idle.at = "idle" /\ Len(<<>>) = 0
    BY EmptySeq DEF Step, PlainStep, Idle
  <2>3. /\ step' \in [Thread -> Step] /\ step'[t] = Idle
        /\ \A u \in Thread : u # t => step'[u] = step[u]
    BY <2>1, <2>2, GoFacts DEF MemInv, MemTypeOK
  <2>4. \A i \in 1..Len(chain), l \in Kind : Has(chain[i], l)
    BY <1>5, <1>6, <2>2 DEF MemInv, Defaults
  <2> HIDE DEF s, k, q
  <2>5. MemTypeOK'
    BY <1>1, <2>1, <2>3 DEF MemInv, MemTypeOK, setup, blocks
  <2>6. Locks'
    BY <1>1, <1>3, <1>4, <2>1, <2>2, <2>3, MemAssumption DEF MemInv, Locks, At, setup
  <2>7. Users'
    BY <1>1, <2>1, <2>2, <2>3 DEF MemInv, Users, At, Frees, FreeSound, PoolSound, Alone, setup, blocks
  <2>8. Creating'
    BY <1>1, <1>4, <2>1, <2>2, <2>3 DEF MemInv, Creating, At, InChain, setup
  <2>9. Defaults'
    BY <1>1, <1>4, <2>1, <2>2, <2>3, <2>4 DEF Defaults, At, Has, setup
  <2>10. BlocksApart' /\ CallbacksSafe'
    BY <1>1, <2>1 DEF MemInv, BlocksApart, CallbacksSafe, blocks
  <2> QED
    BY <2>5, <2>6, <2>7, <2>8, <2>9, <2>10 DEF MemInv
<1>7. CASE q # <<>>
  <2> DEFINE a == Head(q)
             r == [s EXCEPT !.rest = Tail(q)]
  <2>1. /\ callback' = IF callback[a][k] # NULL THEN callback ELSE [callback EXCEPT ![a][k] = s.c]
        /\ memWild' \in {"chain", "no"} /\ Go(t, r) /\ UNCHANGED chain_lock
    BY <1>7 DEF Walk
  <2>2. a \in Alloc /\ Tail(q) \in Seq(Alloc) /\ \A j \in 1..Len(q) : q[j] = a \/ \E i \in 1..Len(Tail(q)) : q[j] = Tail(q)[i]
    <3>1. /\ a \in Alloc /\ a = q[1] /\ Tail(q) \in Seq(Alloc) /\ Len(q) \in Nat /\ Len(Tail(q)) = Len(q) - 1
          /\ \A i \in 1..Len(Tail(q)) : Tail(q)[i] = q[i + 1]
      BY <1>3, <1>7, HeadTailProperties, LenProperties
    <3>2. ASSUME NEW j \in 1..Len(q), j # 1
          PROVE  \E i \in 1..Len(Tail(q)) : q[j] = Tail(q)[i]
      <4> DEFINE n == Len(q)
                 m == Len(Tail(q))
      <4>1. n \in Nat /\ m = n - 1
        BY <3>1
      <4> HIDE DEF n, m
      <4>2. j - 1 \in 1..m /\ (j - 1) + 1 = j
        BY <3>2, <4>1 DEF n
      <4>3. Tail(q)[j - 1] = q[j]
        BY <3>1, <4>2 DEF m
      <4> QED
        BY <4>2, <4>3 DEF m
    <3> QED
      BY <3>1, <3>2
  <2>3. r \in Step /\ r.at = "walk" /\ r.k = k /\ r.c = s.c /\ r.rest = Tail(q)
    BY <1>2, <2>2 DEF Step, WalkStep
  <2> HIDE DEF a, r
  <2>4. /\ step' \in [Thread -> Step] /\ step'[t] = r
        /\ \A u \in Thread : u # t => step'[u] = step[u]
    BY <2>1, <2>3, GoFacts DEF MemInv, MemTypeOK
  <2>5. /\ callback \in [Alloc -> [Kind -> Cb \cup {NULL}]]
        /\ default_cb \in [Kind -> Cb \cup {NULL}]
    BY DEF MemInv, MemTypeOK
  <2> HIDE DEF s, k, q
  <2>6. /\ callback' \in [Alloc -> [Kind -> Cb \cup {NULL}]]
        /\ \A x \in Alloc : x # a => callback'[x] = callback[x]
        /\ \A x \in Alloc, l \in Kind : callback'[x][l] =
              IF x = a /\ l = k /\ callback[a][k] = NULL THEN s.c ELSE callback[x][l]
    <3>1. CASE callback[a][k] # NULL
      BY <2>1, <2>5, <3>1
    <3>2. CASE callback[a][k] = NULL
      <4>1. callback' = [callback EXCEPT ![a][k] = s.c]
        BY <2>1, <3>2
      <4>2. callback' \in [Alloc -> [Kind -> Cb \cup {NULL}]]
        BY <1>3, <2>2, <2>5, <4>1
      <4>3. \A x \in Alloc : x # a => callback'[x] = callback[x]
        BY <2>5, <4>1
      <4>4. \A x \in Alloc, l \in Kind : callback'[x][l] = IF x = a /\ l = k THEN s.c ELSE callback[x][l]
        BY <2>5, <4>1
      <4> QED
        BY <3>2, <4>2, <4>3, <4>4
    <3> QED
      BY <3>1, <3>2
  <2>7. MemTypeOK'
    BY <1>1, <2>1, <2>4, <2>6 DEF MemInv, MemTypeOK, setup, blocks
  <2>8. Locks'
    BY <1>1, <1>3, <1>4, <2>1, <2>3, <2>4 DEF MemInv, Locks, At, setup
  <2>9. Users'
    BY <1>1, <2>3, <2>4 DEF MemInv, Users, At, Frees, FreeSound, PoolSound, Alone, setup, blocks
  <2>10. Creating'
    BY <1>1, <1>4, <2>3, <2>4 DEF MemInv, Creating, At, InChain, setup
  <2>11. Defaults'
    <3>1. \A i \in 1..Len(chain) : chain[i] \in Alloc
      BY ElementOfSeq DEF MemInv, MemTypeOK
    <3>2. \A x \in Alloc, l \in Kind : Has(x, l) => Has(x, l)'
      BY <1>1, <1>3, <2>6 DEF Has
    <3>3. \A x \in Alloc, l \in Kind : x = a /\ l = k => Has(x, l)'
      BY <1>1, <1>3, <2>2, <2>6 DEF Has
    <3>4. \A x \in Alloc, l \in Kind : ToVisit(x, l) => Has(x, l)' \/ ToVisit(x, l)'
      <4> SUFFICES ASSUME NEW x \in Alloc, NEW l \in Kind, ToVisit(x, l), x # a
                   PROVE  ToVisit(x, l)'
        BY <1>5, <3>3 DEF k, q, s
      <4>1. l = k /\ \E i \in 1..Len(Tail(q)) : Tail(q)[i] = x
        BY <1>5, <2>2
      <4> QED
        BY <2>3, <2>4, <4>1 DEF ToVisit, At
    <3>5. \A i \in 1..Len(chain), l \in Kind : Has(chain[i], l)' \/ ToVisit(chain[i], l)'
      <4> TAKE i \in 1..Len(chain), l \in Kind
      <4>1. \A x : x = chain[i] => (Has(x, l) \/ ToVisit(x, l)) /\ x \in Alloc
        BY <3>1 DEF MemInv, Defaults
      <4>2. \A x : x = chain[i] => Has(x, l)' \/ ToVisit(x, l)'
        BY <3>2, <3>4, <4>1
      <4>3. chain' = chain
        BY <1>1 DEF setup
      <4> QED
        BY <4>2, <4>3
    <3>6. \A u \in Thread : step'[u].at = "walk" => step'[u].c = default_cb'[step'[u].k]
      BY <1>1, <1>3, <1>4, <2>3, <2>4
    <3>7. chain' = chain
      BY <1>1 DEF setup
    <3> QED
      BY <3>5, <3>6, <3>7 DEF Defaults, At
  <2>12. BlocksApart' /\ CallbacksSafe'
    BY <1>1, <2>1 DEF MemInv, BlocksApart, CallbacksSafe, blocks
  <2> QED
    BY <2>7, <2>8, <2>9, <2>10, <2>11, <2>12 DEF MemInv
<1> QED
  BY <1>6, <1>7
-----------------------------------------------------------------------------
(* A thread enters a pool. *)
LEMMA EnterInv ==
    ASSUME MemInv, memWild = "no", NEW t \in Thread, step[t] \in PlainStep,
           NEW s \in PoolStep, Go(t, s), PoolLock(t, s.p), PoolSound(t, s),
           UNCHANGED <<setup, config, blocks, chain_lock, memWild>>
    PROVE  MemInv'
<1> USE DEF setup, config, blocks
<1>1. /\ step' \in [Thread -> Step] /\ step'[t] = s
      /\ \A u \in Thread : u # t => step'[u] = step[u]
  BY GoFacts DEF MemInv, MemTypeOK, Step
<1>2. s.at = "pool" /\ s.p \in Pool
  BY DEF PoolStep
<1>3. step[t].at \notin {"pool", "inherit", "link", "walk"}
  BY StepFacts DEF MemInv, MemTypeOK
<1>4. /\ pool_lock' \in [Pool -> Thread \cup {NULL}]
      /\ s.p \in locked => pool_lock[s.p] = NULL /\ pool_lock'[s.p] = t
      /\ s.p \notin locked => pool_lock'[s.p] = pool_lock[s.p]
      /\ \A p \in Pool : p # s.p => pool_lock'[p] = pool_lock[p]
  BY <1>2 DEF PoolLock, MemInv, MemTypeOK
<1>5. MemTypeOK'
  BY <1>1, <1>4 DEF MemInv, MemTypeOK
<1>6. Locks'
  <2>1. \A u \in Thread : chain_lock' = u <=> At(u, "link")' \/ At(u, "walk")'
    BY <1>1, <1>2, <1>3 DEF MemInv, Locks, At
  <2>2. \A u \in Thread, p \in Pool : u # t \/ p # s.p =>
           (pool_lock'[p] = u <=> step'[u].at = "pool" /\ step'[u].p = p /\ p \in locked)
    BY <1>1, <1>2, <1>3, <1>4, MemAssumption DEF MemInv, Locks, At
  <2>3. pool_lock'[s.p] = t <=> s.p \in locked
    BY <1>2, <1>3, <1>4 DEF MemInv, Locks, At
  <2> QED
    BY <1>1, <1>2, <2>1, <2>2, <2>3 DEF Locks, At
<1>7. Users'
  BY <1>1, <1>2 DEF MemInv, Users, At, Frees, FreeSound, PoolSound, Alone
<1>8. Creating' /\ Defaults'
  <2>1. Creating'
    BY <1>1, <1>2, <1>3 DEF MemInv, Creating, At, InChain
  <2>2. Defaults'
    BY <1>1, <1>2, <1>3 DEF MemInv, Defaults, At, Has, ToVisit
  <2> QED
    BY <2>1, <2>2
<1>9. BlocksApart' /\ CallbacksSafe'
  BY DEF MemInv, BlocksApart, CallbacksSafe
<1> QED
  BY <1>5, <1>6, <1>7, <1>8, <1>9 DEF MemInv

LEMMA AllocPoolInv ==
    ASSUME MemInv, memWild = "no", NEW t \in Thread, NEW p \in Pool, AllocPool(t, p)
    PROVE  MemInv'
<1>1. PICK b \in (Block \ lent[p]) \cup {NULL}, clear \in BOOLEAN :
         Go(t, [at |-> "pool", p |-> p, clear |-> clear, b |-> b,
                new |-> lent[p] \cup ({b} \ {NULL}),
                mine |-> held[t] \cup ({<<p, b>>} \ {<<p, NULL>>})])
  BY DEF AllocPool
<1> DEFINE s == [at |-> "pool", p |-> p, clear |-> clear, b |-> b,
                 new |-> lent[p] \cup ({b} \ {NULL}),
                 mine |-> held[t] \cup ({<<p, b>>} \ {<<p, NULL>>})]
<1>2. /\ At(t, "idle") /\ MayUse(t, p) /\ PoolLock(t, p)
      /\ UNCHANGED <<setup, config, blocks, chain_lock, memWild>>
  BY DEF AllocPool
<1>3. step[t] \in PlainStep
  BY <1>2, StepFacts DEF MemInv, MemTypeOK, At
<1>4. lent[p] \in SUBSET Block /\ held[t] \in SUBSET (Pool \X Block) /\ NULL \notin Block
  BY MemAssumption DEF MemInv, MemTypeOK
<1>5. \/ b = NULL /\ lent[p] \cup ({b} \ {NULL}) = lent[p] /\ held[t] \cup ({<<p, b>>} \ {<<p, NULL>>}) = held[t]
      \/ /\ b \in Block \ lent[p] /\ lent[p] \cup ({b} \ {NULL}) = lent[p] \cup {b}
         /\ held[t] \cup ({<<p, b>>} \ {<<p, NULL>>}) = held[t] \cup {<<p, b>>}
  BY <1>4
<1>6. s \in PoolStep
  BY <1>4, <1>5 DEF PoolStep
<1>7. Alone(t, p)
  BY <1>2 DEF Alone, MayUse
<1>8. PoolSound(t, s)
  BY <1>5, <1>7 DEF PoolSound
<1> QED
  BY <1>1, <1>2, <1>3, <1>6, <1>8, EnterInv

LEMMA FreePoolInv ==
    ASSUME MemInv, memWild = "no", NEW t \in Thread, FreePool(t)
    PROVE  MemInv'
<1> DEFINE f == step[t]
<1>1. /\ f.at = "free" /\ UNCHANGED <<setup, config, blocks, chain_lock, memWild>>
  BY DEF FreePool, At
<1>2. f \in FreeStep /\ f \in PlainStep
  BY <1>1, StepFacts DEF MemInv, MemTypeOK
<1>3. FreeSound(t, f)
  BY <1>1 DEF MemInv, Users, Frees
<1>4. CASE f.a # f.p
  <2>1. Go(t, Report(f.a, TRUE, Idle)) /\ UNCHANGED pool_lock /\ f.a \in Alloc
    BY <1>2, <1>4 DEF FreePool, Result, FreeStep
  <2>2. CallbacksSafe'
    BY <1>1 DEF CallbacksSafe
  <2> QED
    BY <1>1, <1>2, <2>1, <2>2, ReportPlain, PlainInv
<1>5. CASE f.a = f.p
  <2> DEFINE s == [at |-> "pool", p |-> f.p, clear |-> FALSE, b |-> f.b,
                   new |-> lent[f.p] \ {f.b}, mine |-> held[t] \ {<<f.p, f.b>>}]
  <2>1. PoolLock(t, f.p) /\ Go(t, s)
    BY <1>5 DEF FreePool
  <2>2. lent[f.p] \in SUBSET Block /\ held[t] \in SUBSET (Pool \X Block) /\ f.p \in Pool /\ f.b \in Block
    BY <1>2 DEF MemInv, MemTypeOK, FreeStep
  <2>3. s \in PoolStep
    BY <2>2 DEF PoolStep
  <2>4. PoolSound(t, s)
    BY <1>3, <1>5, <2>2 DEF FreeSound, PoolSound
  <2> QED
    BY <1>1, <1>2, <2>1, <2>3, <2>4, EnterInv
<1> QED
  BY <1>4, <1>5

(* A thread leaves a pool: nobody was in it with it. *)
LEMMA PoolDoneInv ==
    ASSUME MemInv, memWild = "no", NEW t \in Thread, PoolDone(t)
    PROVE  MemInv'
<1> DEFINE s == step[t]
           p == s.p
           r == Report(p, ~(s.b # NULL), Idle)
<1>1. /\ s.at = "pool"
      /\ lent' = [lent EXCEPT ![p] = s.new] /\ held' = [held EXCEPT ![t] = s.mine]
      /\ pool_lock' = [pool_lock EXCEPT ![p] = NULL] /\ Go(t, r)
      /\ memWild' \in {"memset", "no"} /\ UNCHANGED <<setup, config, chain_lock>>
  BY DEF PoolDone, At, Result, PoolUnlock
<1>2. s \in PoolStep /\ p \in Pool /\ p \in Alloc /\ PoolSound(t, s)
  BY <1>1, StepFacts DEF MemInv, MemTypeOK, PoolStep, Users, At, Alloc
<1>3. r \in PlainStep /\ r \in Step /\ r.at = "report" /\ Frees(t, r) /\ r.then.at = "idle"
  BY <1>2, ReportPlain DEF Step, Report, Idle
<1> HIDE DEF r
<1>4. /\ step' \in [Thread -> Step] /\ step'[t] = r
      /\ \A u \in Thread : u # t => step'[u] = step[u]
  BY <1>1, <1>3, GoFacts DEF MemInv, MemTypeOK
<1>5. \A u \in Thread : step[u].at = "pool" => step[u].p \in Pool /\ Alone(u, step[u].p)
  <2> TAKE u \in Thread
  <2> HAVE step[u].at = "pool"
  <2>1. step[u] \in PoolStep
    BY StepFacts DEF MemInv, MemTypeOK
  <2> QED
    BY <2>1 DEF PoolStep, MemInv, Users, At, PoolSound
<1>6. \A u \in Thread : step[u].at = "pool" /\ step[u].p = p => u = t
  <2> TAKE u \in Thread
  <2> HAVE step[u].at = "pool" /\ step[u].p = p
  <2>1. CASE p \in locked
    BY <1>1, <1>2, <2>1 DEF MemInv, Locks, At
  <2>2. CASE p \notin locked
    BY <1>1, <1>2, <1>5, <2>2 DEF Alone
  <2> QED
    BY <2>1, <2>2
<1>7. /\ lent'[p] = s.new /\ \A q \in Pool : q # p => lent'[q] = lent[q]
      /\ held'[t] = s.mine /\ \A u \in Thread : u # t => held'[u] = held[u]
      /\ pool_lock'[p] = NULL /\ \A q \in Pool : q # p => pool_lock'[q] = pool_lock[q]
  BY <1>1, <1>2 DEF MemInv, MemTypeOK
<1>8. MemTypeOK'
  BY <1>1, <1>2, <1>4 DEF MemInv, MemTypeOK, PoolStep, setup, config
<1>9. Locks'
  <2>1. \A u \in Thread : chain_lock' = u <=> At(u, "link")' \/ At(u, "walk")'
    BY <1>1, <1>3, <1>4 DEF MemInv, Locks, At
  <2>2. \A u \in Thread, q \in Pool :
           pool_lock'[q] = u <=> step'[u].at = "pool" /\ step'[u].p = q /\ q \in locked
    <3> TAKE u \in Thread, q \in Pool
    <3>1. pool_lock[q] = u <=> step[u].at = "pool" /\ step[u].p = q /\ q \in locked
      BY DEF MemInv, Locks, At
    <3>2. CASE u = t
      BY <1>1, <1>3, <1>4, <1>7, <3>1, <3>2, MemAssumption
    <3>3. CASE u # t
      BY <1>4, <1>6, <1>7, <3>1, <3>3, MemAssumption
    <3> QED
      BY <3>2, <3>3
  <2> QED
    BY <1>1, <2>1, <2>2 DEF Locks, At, setup
<1>10. BlocksApart'
  <2>1. \A u \in Thread : \A x \in held[u] : x[2] \in lent[x[1]] /\ \A v \in Thread : x \in held[v] => u = v
    BY DEF MemInv, BlocksApart
  <2>2. \A u \in Thread : \A x \in held[u] : x[1] \in Pool /\ x[2] \in Block /\ x = <<x[1], x[2]>>
    BY DEF MemInv, MemTypeOK
  <2>3. /\ \A x \in held'[t] : x \in held[t] \/ (x = <<p, s.b>> /\ s.b \notin lent[p])
        /\ \A x \in held'[t] : x[2] \in lent'[x[1]]
    <3>1. CASE s.b = NULL /\ s.new = lent[p] /\ s.mine = held[t]
      BY <1>7, <2>1, <2>2, <3>1
    <3>2. CASE /\ s.b \in Block \ lent[p]
               /\ s.new = lent[p] \cup {s.b} /\ s.mine = held[t] \cup {<<p, s.b>>}
      BY <1>7, <2>1, <2>2, <3>2
    <3>3. CASE /\ <<p, s.b>> \in held[t]
               /\ s.new = lent[p] \ {s.b} /\ s.mine = held[t] \ {<<p, s.b>>}
      <4>1. held'[t] = held[t] \ {<<p, s.b>>} /\ lent'[p] = lent[p] \ {s.b}
        BY <1>7, <3>3
      <4>2. \A x \in held'[t] : x \in held[t] /\ x[1] \in Pool /\ x[2] \in lent[x[1]]
                                /\ (x[1] = p => x[2] # s.b)
        BY <2>1, <2>2, <4>1
      <4> QED
        BY <1>7, <4>1, <4>2
    <3> QED
      BY <1>2, <3>1, <3>2, <3>3 DEF PoolSound
  <2>4. \A u \in Thread : u # t => \A x \in held'[u] : x[2] \in lent'[x[1]] /\ x \notin held'[t]
    <3> SUFFICES ASSUME NEW u \in Thread, u # t, NEW x \in held[u]
                 PROVE  x[2] \in lent'[x[1]] /\ x \notin held'[t]
      BY <1>7
    <3>1. x[2] \in lent[x[1]] /\ x \notin held[t] /\ x[1] \in Pool /\ x = <<x[1], x[2]>>
      BY <2>1, <2>2
    <3>2. x # <<p, s.b>> \/ s.b \in lent[p]
      BY <3>1
    <3>3. x \notin held'[t]
      BY <2>3, <3>1, <3>2
    <3>4. CASE x[1] # p
      BY <1>7, <3>1, <3>3, <3>4
    <3>5. CASE x[1] = p
      <4>1. x[2] \in lent[p]
        BY <3>1, <3>5
      <4>2. s.new = lent[p] \/ s.new = lent[p] \cup {s.b} \/ (<<p, s.b>> \in held[t] /\ s.new = lent[p] \ {s.b})
        BY <1>2 DEF PoolSound
      <4>3. <<p, s.b>> \in held[t] => x[2] # s.b
        BY <3>1, <3>5
      <4> QED
        BY <1>7, <3>3, <3>5, <4>1, <4>2, <4>3
    <3> QED
      BY <3>4, <3>5
  <2>5. \A u, v \in Thread : \A x \in held'[u] : x \in held'[v] => u = v
    <3> SUFFICES ASSUME NEW u \in Thread, NEW v \in Thread, NEW x \in held'[u], x \in held'[v]
                 PROVE  u = v
      OBVIOUS
    <3>1. CASE u # t /\ v # t
      BY <1>7, <2>1, <3>1
    <3>2. CASE u = t \/ v = t
      BY <2>4, <3>2
    <3> QED
      BY <3>1, <3>2
  <2> QED
    BY <2>3, <2>4, <2>5 DEF BlocksApart
<1>11. Users'
  <2>1. \A u \in Thread : u # t => (At(u, "pool") => step[u].p # p)
    BY <1>6 DEF At
  <2>2. \A u \in Thread : u # t => (Frees(u, step[u]))'
    BY <1>1, <1>4, <1>7 DEF MemInv, Users, Frees, FreeSound, Alone, setup
  <2>3. \A u \in Thread : u # t => (At(u, "pool") => PoolSound(u, step[u]))'
    <3> SUFFICES ASSUME NEW u \in Thread, u # t, step'[u].at = "pool"
                 PROVE  PoolSound(u, step[u])'
      BY DEF At
    <3>1. step'[u] = step[u] /\ step[u].at = "pool"
      BY <1>4
    <3>2. PoolSound(u, step[u])
      BY <3>1 DEF MemInv, Users, At
    <3>3. lent'[step[u].p] = lent[step[u].p] /\ held'[u] = held[u]
      BY <1>5, <1>7, <2>1, <3>1 DEF At
    <3> QED
      BY <1>1, <3>1, <3>2, <3>3 DEF PoolSound, Alone, setup
  <2>4. Frees(t, step[t])' /\ ~At(t, "pool")'
    BY <1>3, <1>4 DEF Frees, At
  <2> QED
    BY <2>2, <2>3, <2>4 DEF Users
<1>12. Creating' /\ Defaults'
  <2>1. Creating'
    BY <1>1, <1>3, <1>4 DEF MemInv, Creating, At, InChain, setup, config
  <2>2. Defaults'
    BY <1>1, <1>3, <1>4 DEF MemInv, Defaults, At, Has, ToVisit, setup, config
  <2> QED
    BY <2>1, <2>2
<1>13. CallbacksSafe'
  BY <1>1 DEF CallbacksSafe
<1> QED
  BY <1>8, <1>9, <1>10, <1>11, <1>12, <1>13 DEF MemInv
-----------------------------------------------------------------------------
(* The invariant of the allocators (src/vmem.c) always holds. *)
THEOREM MemInvariance == MemSpec => []MemInv
<1>1. MemInv /\ [MemNext]_memVars => MemInv'
  <2> SUFFICES ASSUME MemInv, [MemNext]_memVars PROVE MemInv'
    OBVIOUS
  <2>1. CASE UNCHANGED memVars
    <3> USE <2>1 DEF memVars, MemInv
    <3>1. MemTypeOK' /\ Locks' /\ BlocksApart' /\ CallbacksSafe'
      BY DEF MemTypeOK, Locks, At, BlocksApart, CallbacksSafe
    <3>2. Users'
      BY DEF Users, At, Frees, FreeSound, PoolSound, Alone
    <3>3. Creating' /\ Defaults'
      BY DEF Creating, Defaults, At, InChain, Has, ToVisit
    <3> QED
      BY <3>1, <3>2, <3>3
  <2>2. CASE MemNext
    <3>1. memWild = "no"
      BY <2>2 DEF MemNext
    <3> USE <3>1
    <3>2. ASSUME NEW t \in Thread, NEW p \in Pool, CreatePool(t, p) \/ DeletePool(t, p) \/ AllocPool(t, p)
          PROVE  MemInv'
      BY <3>2, CreateInv, DeletePoolInv, AllocPoolInv
    <3>3. ASSUME NEW t \in Thread, Inherit(t) \/ Link(t) \/ FreePool(t) \/ PoolDone(t) \/ Walk(t)
          PROVE  MemInv'
      BY <3>3, InheritInv, LinkInv, FreePoolInv, PoolDoneInv, WalkInv
    <3>4. ASSUME NEW t \in Thread,
                 \/ \E a \in Alloc : AllocDirect(t, a)
                 \/ \E p \in Pool, b \in Block : Free(t, p, b)
                 \/ ReportNeeded(t)
                 \/ \E k \in Kind : Invoke(t, k)
          PROVE  MemInv'
      BY <3>4, DirectInv
    <3>5. ASSUME NEW t \in Thread,
                 \/ \E a \in Alloc, change, set \in SUBSET Kind : SetOption(t, a, change, set)
                 \/ \E a \in Alloc, k \in Kind, c \in Cb \cup {NULL} : InstallCallback(t, a, k, c)
          PROVE  MemInv'
      BY <3>5, ConfigInv
    <3>6. ASSUME NEW t \in Thread, NEW k \in Kind, NEW c \in Cb \cup {NULL}, InstallDefault(t, k, c)
          PROVE  MemInv'
      BY <3>6, InstallDefaultInv
    <3> QED
      BY <2>2, <3>2, <3>3, <3>4, <3>5, <3>6 DEF MemNext
  <2> QED
    BY <2>1, <2>2
<1> QED
  BY <1>1, MemInitInv, PTL DEF MemSpec

(* The default callbacks reach every allocator that has none, also one     *)
(* that another thread creates during the walk (255-320, 633-707).         *)
THEOREM DefaultsAlwaysReachAll == MemSpec => []DefaultsReachAll
<1>1. MemInv => DefaultsReachAll
  BY MemAssumption DEF MemInv, DefaultsReachAll, Locks, Defaults, ToVisit, Has
<1> QED
  BY <1>1, MemInvariance, PTL

(* Threads that share a pool, by its lock or by owning it, hold blocks of  *)
(* their own (350-432).                                                    *)
THEOREM BlocksAlwaysApart == MemSpec => []BlocksApart
<1>1. MemInv => BlocksApart
  BY DEF MemInv
<1> QED
  BY <1>1, MemInvariance, PTL

(* No callback is called that was taken away, and none with a lock held    *)
(* (188-224), whenever the configuration changes.                          *)
THEOREM CallbacksAlwaysSafe == MemSpec => []CallbacksSafe
<1>1. MemInv => CallbacksSafe
  BY DEF MemInv
<1> QED
  BY <1>1, MemInvariance, PTL

-----------------------------------------------------------------------------
(***************************************************************************)
(* Logging, for any set of clients, names and outputs.  A module is        *)
(* registered once, under the next identifier, which the first client of   *)
(* its name keeps; and every level is one that a trace can have.           *)
(***************************************************************************)
LogTypeOK ==
    /\ modules \subseteq [name : Name, logid : Int, level : Level, category : Category]
    /\ nbr_modules \in Nat /\ nbr_modules >= 6
    /\ asked \subseteq User
    /\ log_id \in [User -> Int]
    /\ default_loglevel \in Level
    /\ destlevel \in [Output -> -1..7]

(* A module's identifier is the one that a client of its name got, and the *)
(* others got none; a name that was asked for has a module.                *)
IdsKept ==
    /\ \A m \in modules : m.logid \in 6..(nbr_modules - 1)
    /\ \A m \in modules : \E c \in Client : Owner(m, c)
    /\ \A m1, m2 \in modules :
          m1.logid = m2.logid \/ m1.name = m2.name => m1 = m2
    /\ \A u \in asked : \E m \in modules : m.name = u[2]
    /\ \A u \in User \ asked : log_id[u] = 0
    /\ \A m \in modules : \E u \in asked : u[2] = m.name

LogInv == LogTypeOK /\ IdsKept /\ destlevel["TNDD"] < DEBUG

(* The commands and the configurations give modules other levels, and      *)
(* nothing else: the level of each is a function F.                        *)
Relevelled(F) == {[m EXCEPT !.level = F[m]] : m \in modules}

LEMMA MinOfTwo ==
  ASSUME NEW a \in Int, NEW b \in Int
  PROVE  Min({a, b}) = IF a <= b THEN a ELSE b
<1> DEFINE c == IF a <= b THEN a ELSE b
<1>1. c \in {a, b} /\ \A y \in {a, b} : c <= y
  OBVIOUS
<1>2. \A x \in {a, b} : (\A y \in {a, b} : x <= y) => x = c
  OBVIOUS
<1>3. Min({a, b}) = c
  <2> HIDE DEF c
  <2> QED BY <1>1, <1>2 DEF Min
<1> QED BY <1>3

(* Levels are few: a set of them has a highest one. *)
LEMMA MaxOfLevels ==
  ASSUME NEW S \in SUBSET (-1..9), S # {}
  PROVE  Max(S) \in S /\ \A y \in S : Max(S) >= y
<1> DEFINE Highest(k) == S \subseteq -1..k => \E x \in S : \A y \in S : x >= y
<1>1. Highest(-1)
  <2>1. PICK x \in S : TRUE
    OBVIOUS
  <2>2. S \subseteq -1..(-1) => \A y \in S : x = -1 /\ y = -1
    BY <2>1
  <2> QED BY <2>1, <2>2
<1>2. ASSUME NEW k \in 0..9, Highest(k - 1) PROVE Highest(k)
  <2>1. CASE k \in S
    BY <2>1
  <2>2. CASE k \notin S
    <3>1. S \subseteq -1..k => S \subseteq -1..(k - 1)
      BY <2>2
    <3> QED BY <1>2, <3>1
  <2> QED BY <2>1, <2>2
<1> HIDE DEF Highest
<1>3. Highest(0) /\ (Highest(0) => Highest(1)) /\ (Highest(1) => Highest(2))
  BY <1>1, <1>2
<1>4. /\ (Highest(2) => Highest(3)) /\ (Highest(3) => Highest(4)) /\ (Highest(4) => Highest(5))
      /\ (Highest(5) => Highest(6)) /\ (Highest(6) => Highest(7)) /\ (Highest(7) => Highest(8))
      /\ (Highest(8) => Highest(9))
  BY <1>2
<1>5. \E x \in S : \A y \in S : x >= y
  BY <1>3, <1>4 DEF Highest
<1> DEFINE P(x) == \A y \in S : x >= y
<1>6. (CHOOSE x \in S : P(x)) \in S /\ P(CHOOSE x \in S : P(x))
  <2>1. \E x \in S : P(x)
    BY <1>5
  <2> HIDE DEF P
  <2> QED BY <2>1
<1> QED BY <1>6 DEF Max

LEMMA RelevelledKeeps ==
  ASSUME LogInv, NEW F \in [modules -> Level], modules' = Relevelled(F),
         UNCHANGED <<nbr_modules, asked, log_id>>
  PROVE  /\ modules' \subseteq [name : Name, logid : Int, level : Level, category : Category]
         /\ IdsKept'
<1> USE DEF LogInv, LogTypeOK
<1>1. \A x \in modules' : \E m \in modules :
         /\ x = [name |-> m.name, logid |-> m.logid, level |-> F[m], category |-> m.category]
  BY DEF Relevelled
<1>2. ASSUME NEW m \in modules PROVE \E x \in modules' : x.name = m.name
  <2>1. [m EXCEPT !.level = F[m]] \in modules'
    BY DEF Relevelled
  <2>2. [m EXCEPT !.level = F[m]].name = m.name
    OBVIOUS
  <2> QED BY <2>1, <2>2
<1>3. modules' \subseteq [name : Name, logid : Int, level : Level, category : Category]
  BY <1>1
<1>4. ASSUME NEW x \in modules'
      PROVE  /\ x.logid \in 6..(nbr_modules' - 1)
             /\ \E c \in Client : Owner(x, c)'
             /\ \E u \in asked' : u[2] = x.name
  <2>1. PICK m \in modules : x.name = m.name /\ x.logid = m.logid
    BY <1>1
  <2>2. PICK c \in Client : Owner(m, c)
    BY DEF IdsKept
  <2>3. Owner(x, c)'
    BY <2>1, <2>2 DEF Owner
  <2>4. m.logid \in 6..(nbr_modules - 1) /\ \E u \in asked : u[2] = m.name
    BY DEF IdsKept
  <2> QED BY <2>1, <2>3, <2>4
<1>5. ASSUME NEW x1 \in modules', NEW x2 \in modules',
             x1.logid = x2.logid \/ x1.name = x2.name
      PROVE  x1 = x2
  <2>1. PICK m1 \in modules :
          x1 = [name |-> m1.name, logid |-> m1.logid, level |-> F[m1], category |-> m1.category]
    BY <1>1
  <2>2. PICK m2 \in modules :
          x2 = [name |-> m2.name, logid |-> m2.logid, level |-> F[m2], category |-> m2.category]
    BY <1>1
  <2>3. m1 = m2
    BY <1>5, <2>1, <2>2 DEF IdsKept
  <2> QED BY <2>1, <2>2, <2>3
<1>6. \A u \in asked' : \E x \in modules' : x.name = u[2]
  <2> SUFFICES ASSUME NEW u \in asked PROVE \E x \in modules' : x.name = u[2]
    OBVIOUS
  <2>1. PICK m \in modules : m.name = u[2]
    BY DEF IdsKept
  <2> QED BY <1>2, <2>1
<1>7. \A u \in User \ asked' : log_id'[u] = 0
  BY DEF IdsKept
<1>8. IdsKept'
  BY <1>4, <1>5, <1>6, <1>7 DEF IdsKept
<1> QED BY <1>3, <1>8

LEMMA InitLogInv == Init => LogInv
<1> SUFFICES ASSUME Init PROVE LogInv
  OBVIOUS
<1>1. LogTypeOK
  BY DEF Init, LogTypeOK, Level, DISABLED, WARNING
<1>2. IdsKept
  BY DEF Init, IdsKept
<1>3. destlevel["TNDD"] < DEBUG
  BY LogAssumption DEF Init, DISABLED, WARNING, DEBUG
<1> QED BY <1>1, <1>2, <1>3 DEF LogInv

(* A name gets one module, and the first client to ask for it the          *)
(* identifier of that module.                                              *)
LEMMA RegisterKeeps ==
  ASSUME LogInv, NEW c \in Client, NEW n \in Name, NEW k \in Category, Register(c, n, k)
  PROVE  LogInv'
<1> USE DEF LogInv, LogTypeOK
<1>0. /\ <<c, n>> \in User /\ <<c, n>> \notin asked
      /\ asked' = asked \cup {<<c, n>>}
      /\ UNCHANGED <<default_loglevel, destlevel>>
      /\ <<c, n>>[2] = n
  BY DEF Register, User
<1>1. CASE ByName(n) # {}
  <2>1. UNCHANGED <<modules, nbr_modules, log_id>>
    BY <1>1 DEF Register
  <2>2. \E m \in modules : m.name = n
    BY <1>1 DEF ByName
  <2>3. \A u \in asked' : \E m \in modules' : m.name = u[2]
    BY <1>0, <2>1, <2>2 DEF IdsKept
  <2>4. /\ \A u \in User \ asked' : log_id'[u] = 0
        /\ \A m \in modules' : \E u \in asked' : u[2] = m.name
        /\ \A m \in modules' : m.logid \in 6..(nbr_modules' - 1)
        /\ \A m \in modules' : \E d \in Client : Owner(m, d)'
        /\ \A m1, m2 \in modules' :
              m1.logid = m2.logid \/ m1.name = m2.name => m1 = m2
    BY <1>0, <2>1 DEF IdsKept, Owner
  <2>5. LogTypeOK' /\ destlevel'["TNDD"] < DEBUG
    BY <1>0, <2>1
  <2> QED BY <2>3, <2>4, <2>5 DEF IdsKept
<1>2. CASE ByName(n) = {}
  <2>0. PICK new : new = NewModule(n, k)
    OBVIOUS
  <2>1. /\ modules' = modules \cup {new} /\ nbr_modules' = nbr_modules + 1
        /\ log_id' = [log_id EXCEPT ![<<c, n>>] = nbr_modules]
        /\ \A m \in modules : m.name # n
    BY <1>2, <2>0 DEF Register, ByName
  <2>2. new \in [name : Name, logid : Int, level : Level, category : Category]
        /\ new.name = n /\ new.logid = nbr_modules
    BY <2>0 DEF NewModule
  <2>3. LogTypeOK' /\ destlevel'["TNDD"] < DEBUG
    BY <1>0, <2>1, <2>2
  <2>4. ASSUME NEW m \in modules'
        PROVE  m.logid \in 6..(nbr_modules' - 1) /\ \E u \in asked' : u[2] = m.name
    BY <1>0, <2>1, <2>2 DEF IdsKept
  <2>5. \A d \in Client : <<d, n>> \in User /\ <<d, n>> \notin asked
    <3>1. \A d \in Client : <<d, n>>[2] = n /\ <<d, n>> \in User
      BY DEF User
    <3> QED BY <2>1, <3>1 DEF IdsKept
  <2>6. Owner(new, c)'
    <3>1. \A d \in Client : log_id[<<d, n>>] = 0
      BY <2>5 DEF IdsKept
    <3>2. \A d \in Client : <<d, n>> = <<c, n>> <=> d = c
      OBVIOUS
    <3>3. \A d \in Client : log_id'[<<d, n>>] = IF d = c THEN new.logid ELSE 0
      <4> SUFFICES ASSUME NEW d \in Client
                   PROVE  log_id'[<<d, n>>] = IF d = c THEN new.logid ELSE 0
        OBVIOUS
      <4>1. log_id'[<<d, n>>] = IF <<d, n>> = <<c, n>> THEN nbr_modules ELSE log_id[<<d, n>>]
        BY <2>1, <2>5
      <4> QED BY <2>2, <3>1, <3>2, <4>1
    <3> QED BY <2>2, <3>3 DEF Owner
  <2>7. ASSUME NEW m \in modules PROVE \E d \in Client : Owner(m, d)'
    <3>1. PICK d \in Client : Owner(m, d)
      BY DEF IdsKept
    <3>2. \A e \in Client : log_id'[<<e, m.name>>] = log_id[<<e, m.name>>]
      <4>1. \A e \in Client : <<e, m.name>> # <<c, n>> /\ <<e, m.name>> \in User
        BY <2>1 DEF User
      <4> QED BY <2>1, <4>1
    <3> QED BY <3>1, <3>2 DEF Owner
  <2>8. ASSUME NEW m1 \in modules', NEW m2 \in modules',
               m1.logid = m2.logid \/ m1.name = m2.name
        PROVE  m1 = m2
    <3>1. \A m \in modules : m.logid # new.logid /\ m.name # new.name
      BY <2>1, <2>2 DEF IdsKept
    <3>2. CASE m1 \in modules /\ m2 \in modules
      BY <2>8, <3>2 DEF IdsKept
    <3> QED BY <2>1, <2>8, <3>1, <3>2
  <2>9. \A u \in asked' : \E m \in modules' : m.name = u[2]
    BY <1>0, <2>1, <2>2 DEF IdsKept
  <2>10. \A u \in User \ asked' : log_id'[u] = 0
    BY <1>0, <2>1 DEF IdsKept
  <2>11. ASSUME NEW m \in modules' PROVE \E d \in Client : Owner(m, d)'
    <3>1. CASE m \in modules
      BY <2>7, <3>1
    <3>2. CASE m = new
      BY <2>6, <3>2
    <3> QED BY <2>1, <3>1, <3>2
  <2> QED BY <2>3, <2>4, <2>8, <2>9, <2>10, <2>11 DEF IdsKept
<1> QED BY <1>1, <1>2

LEMMA SetModuleLevelKeeps ==
  ASSUME LogInv, NEW id, NEW value \in Value, SetModuleLevel(id, value)
  PROVE  LogInv'
<1> DEFINE F == [m \in modules |->
                  IF m.logid = id /\ ValidForModule(value) THEN value ELSE m.level]
<1>1. F \in [modules -> Level]
  BY DEF LogInv, LogTypeOK, ValidForModule
<1>2. modules' = Relevelled(F)
  <2>1. \A m \in modules : [m EXCEPT !.level = F[m]] =
          IF m.logid = id /\ ValidForModule(value) THEN [m EXCEPT !.level = value] ELSE m
    BY DEF LogInv, LogTypeOK
  <2> DEFINE g(m) == IF m.logid = id /\ ValidForModule(value) THEN [m EXCEPT !.level = value]
                     ELSE m
  <2>2. modules' = {g(m) : m \in modules}
    BY DEF SetModuleLevel, Configured
  <2> HIDE DEF F, g
  <2>3. \A m \in modules : [m EXCEPT !.level = F[m]] = g(m)
    BY <2>1 DEF g
  <2> QED BY <2>2, <2>3 DEF Relevelled
<1>3. UNCHANGED <<nbr_modules, asked, log_id, default_loglevel, destlevel>>
  BY DEF SetModuleLevel
<1> HIDE DEF F
<1> QED BY <1>1, <1>2, <1>3, RelevelledKeeps DEF LogInv, LogTypeOK

(* vlog_output_set_loglevel bounds what it is asked for. *)
LEMMA OutputLevelBounded ==
  ASSUME LogInv, NEW o \in Output, NEW value \in -1..9
  PROVE  /\ OutputLevel(o, value) \in -1..7
         /\ o = "TNDD" => OutputLevel(o, value) < DEBUG
  BY DEF LogInv, LogTypeOK, OutputLevel, DISABLED, LEVEL_MAX, DEBUG, INFO

LEMMA OutputsKeep ==
  ASSUME LogInv, UNCHANGED <<modules, nbr_modules, asked, log_id, default_loglevel>>,
         destlevel' \in [Output -> -1..7], destlevel'["TNDD"] < DEBUG
  PROVE  LogInv'
  BY DEF LogInv, LogTypeOK, IdsKept, Owner

LEMMA SetOutputLevelKeeps ==
  ASSUME LogInv, NEW o \in Output, NEW value \in Value, SetOutputLevel(o, value)
  PROVE  LogInv'
<1>1. value \in -1..9 /\ "TNDD" \in Output
  BY LogAssumption
<1>2. /\ destlevel' = [destlevel EXCEPT ![o] = OutputLevel(o, value)]
      /\ UNCHANGED <<modules, nbr_modules, asked, log_id, default_loglevel>>
  BY DEF SetOutputLevel
<1>3. destlevel' \in [Output -> -1..7] /\ destlevel'["TNDD"] < DEBUG
  BY <1>1, <1>2, OutputLevelBounded DEF LogInv, LogTypeOK
<1> QED BY <1>2, <1>3, OutputsKeep DEF LogInv, LogTypeOK

LEMMA TnddStartKeeps == LogInv /\ TnddStart => LogInv'
<1> SUFFICES ASSUME LogInv, TnddStart PROVE LogInv'
  OBVIOUS
<1>1. "TNDD" \in Output /\ ERROR \in -1..9
  BY LogAssumption DEF ERROR
<1>2. /\ destlevel' = [destlevel EXCEPT !["TNDD"] = OutputLevel("TNDD", ERROR)]
      /\ UNCHANGED <<modules, nbr_modules, asked, log_id, default_loglevel>>
  BY DEF TnddStart
<1>3. destlevel' \in [Output -> -1..7] /\ destlevel'["TNDD"] < DEBUG
  BY <1>1, <1>2, OutputLevelBounded DEF LogInv, LogTypeOK
<1> QED BY <1>2, <1>3, OutputsKeep DEF LogInv, LogTypeOK

(* vlog_modules_update_loglevel and vlog_set_syslog_config in terms of F. *)
LevelsUpdated(c, thresh) ==
    [m \in modules |-> IF m.category = c THEN thresh ELSE m.level]
LevelsConfigured(cfg) ==
    [m \in modules |-> IF m.name \in DOMAIN cfg /\ ValidForModule(cfg[m.name])
                        THEN cfg[m.name] ELSE m.level]

LEMMA UpdatedRelevels ==
  ASSUME LogInv, NEW c, NEW thresh \in Level
  PROVE  /\ LevelsUpdated(c, thresh) \in [modules -> Level]
         /\ Updated(c, thresh) = Relevelled(LevelsUpdated(c, thresh))
<1> DEFINE F == LevelsUpdated(c, thresh)
<1>1. F \in [modules -> Level]
  BY DEF LogInv, LogTypeOK, LevelsUpdated
<1>2. \A m \in modules : [m EXCEPT !.level = F[m]] =
          IF m.category = c THEN [m EXCEPT !.level = thresh] ELSE m
  BY DEF LogInv, LogTypeOK, LevelsUpdated
<1>3. Updated(c, thresh) = Relevelled(F)
  <2> HIDE DEF F
  <2> QED BY <1>2 DEF Updated, Relevelled
<1> QED BY <1>1, <1>3

LEMMA ConfiguredRelevels ==
  ASSUME LogInv, NEW cfg
  PROVE  /\ LevelsConfigured(cfg) \in [modules -> Level]
         /\ ConfiguredAll(cfg) = Relevelled(LevelsConfigured(cfg))
<1> DEFINE F == LevelsConfigured(cfg)
<1>1. F \in [modules -> Level]
  BY DEF LogInv, LogTypeOK, LevelsConfigured, ValidForModule
<1>2. \A m \in modules : [m EXCEPT !.level = F[m]] =
          IF m.name \in DOMAIN cfg /\ ValidForModule(cfg[m.name])
          THEN [m EXCEPT !.level = cfg[m.name]] ELSE m
  BY DEF LogInv, LogTypeOK, LevelsConfigured
<1>3. ConfiguredAll(cfg) = Relevelled(F)
  <2> HIDE DEF F
  <2> QED BY <1>2 DEF ConfiguredAll, Relevelled
<1> QED BY <1>1, <1>3

(* The default threshold: the highest level of a module, at least thresh. *)
LEMMA ThresholdFacts ==
  ASSUME LogInv, NEW c, NEW thresh \in Level
  PROVE  /\ ThresholdOfOutput(c, thresh) \in Level
         /\ ThresholdOfOutput(c, thresh) >= thresh
         /\ \A m \in modules :
               ThresholdOfOutput(c, thresh) >= LevelsUpdated(c, thresh)[m]
<1> DEFINE F == LevelsUpdated(c, thresh)
           S == {thresh} \cup {m.level : m \in Updated(c, thresh)}
<1>1. F \in [modules -> Level] /\ Updated(c, thresh) = Relevelled(F)
  BY UpdatedRelevels
<1> HIDE DEF F
<1>2. \A m \in modules : [m EXCEPT !.level = F[m]].level = F[m]
  BY <1>1 DEF LogInv, LogTypeOK
<1>3. {m.level : m \in Updated(c, thresh)} = {F[m] : m \in modules}
  <2> DEFINE g(m) == [m EXCEPT !.level = F[m]]
  <2>1. Updated(c, thresh) = {g(m) : m \in modules}
    BY <1>1 DEF Relevelled
  <2>2. \A m \in modules : g(m).level = F[m]
    BY <1>2
  <2> HIDE DEF g
  <2> QED BY <2>1, <2>2
<1>4. S \subseteq Level /\ thresh \in S /\ \A m \in modules : F[m] \in S
  BY <1>1, <1>3
<1> HIDE DEF S
<1>5. Level \subseteq -1..9
  BY DEF Level, DISABLED, ERROR, WARNING, INFO, DEBUG
<1>6. Max(S) \in S /\ \A y \in S : Max(S) >= y
  BY <1>4, <1>5, MaxOfLevels
<1>7. ThresholdOfOutput(c, thresh) = Max(S)
  BY DEF ThresholdOfOutput, S
<1> QED BY <1>4, <1>6, <1>7 DEF F

(* Before vlog_init there is no default: the threshold is left alone. *)
LEMMA SetDefaultThresholdKeeps ==
  ASSUME LogInv, NEW dest \in {"CONSOLE", "SYSLOG"}, NEW thresh \in Level, NEW c,
         SetDefaultThreshold(dest, thresh, c),
         UNCHANGED <<nbr_modules, asked, log_id>>
  PROVE  LogInv'
<1>1. CASE thresh = DISABLED
  BY <1>1, OutputsKeep DEF SetDefaultThreshold, LogInv, LogTypeOK
<1>2. CASE thresh # DISABLED
  <2>1. /\ default_loglevel' = thresh
        /\ modules' = Relevelled(LevelsUpdated(c, thresh))
        /\ destlevel' = [o \in Output |->
               IF o = dest THEN ThresholdOfOutput(c, thresh) ELSE destlevel[o]]
    BY <1>2, UpdatedRelevels DEF SetDefaultThreshold
  <2>2. ThresholdOfOutput(c, thresh) \in -1..7
    BY ThresholdFacts DEF Level, DISABLED, ERROR, WARNING, INFO, DEBUG
  <2>3. destlevel' \in [Output -> -1..7] /\ destlevel'["TNDD"] < DEBUG
    BY <2>1, <2>2, LogAssumption DEF LogInv, LogTypeOK
  <2>4. /\ modules' \subseteq [name : Name, logid : Int, level : Level, category : Category]
        /\ IdsKept'
    BY <2>1, UpdatedRelevels, RelevelledKeeps
  <2> QED BY <2>1, <2>3, <2>4 DEF LogInv, LogTypeOK
<1> QED BY <1>1, <1>2

LEMMA LogInitKeeps == LogInv /\ LogInit => LogInv'
<1>1. DEBUG \in Level
  BY DEF Level
<1> QED BY <1>1, SetDefaultThresholdKeeps DEF LogInit

LEMMA ResetKeeps ==
  ASSUME LogInv, NEW c \in Category, ResetSyslogConfig(c)
  PROVE  LogInv'
<1>1. (IF initialized THEN default_loglevel ELSE DISABLED) \in Level
  BY DEF LogInv, LogTypeOK, Level
<1> QED BY <1>1, SetDefaultThresholdKeeps DEF ResetSyslogConfig

(* The output is raised to every level that it is asked for and that       *)
(* exists, and never lowered.                                              *)
LEMMA RaisedFacts ==
  ASSUME LogInv, NEW cfg \in Configs
  PROVE  /\ Raised(cfg) \in -1..7
         /\ (\A n \in DOMAIN cfg : cfg[n] \in Level) =>
               /\ Raised(cfg) >= destlevel["SYSLOG"]
               /\ \A n \in DOMAIN cfg : Raised(cfg) >= cfg[n]
<1> DEFINE S == {cfg[n] : n \in DOMAIN cfg}
<1>1. PICK D \in (SUBSET Name) \ {{}} : cfg \in [D -> Value]
  BY DEF Configs
<1>2. S # {} /\ S \subseteq -1..9 /\ \A n \in DOMAIN cfg : cfg[n] \in S
  BY <1>1, LogAssumption
<1>3. (\A n \in DOMAIN cfg : cfg[n] \in Level) => S \subseteq Level
  OBVIOUS
<1> HIDE DEF S
<1>4. Max(S) \in S /\ \A y \in S : Max(S) >= y
  BY <1>2, MaxOfLevels
<1>5. Raised(cfg) = IF Max(S) > destlevel["SYSLOG"] THEN OutputLevel("SYSLOG", Max(S))
                    ELSE destlevel["SYSLOG"]
  BY DEF Raised, S
<1>6. "SYSLOG" \in Output /\ destlevel["SYSLOG"] \in -1..7 /\ Max(S) \in -1..9
  BY <1>2, <1>4, LogAssumption DEF LogInv, LogTypeOK
<1>7. Raised(cfg) \in -1..7
  BY <1>5, <1>6, OutputLevelBounded
<1>8. Max(S) \in Level => OutputLevel("SYSLOG", Max(S)) = Max(S)
  BY <1>6 DEF OutputLevel, Level, DISABLED, ERROR, WARNING, INFO, DEBUG, LEVEL_MAX
<1>9. S \subseteq Level => Raised(cfg) >= destlevel["SYSLOG"] /\ Raised(cfg) >= Max(S)
  BY <1>4, <1>5, <1>6, <1>8
<1>10. Level \subseteq Int
  BY DEF Level, DISABLED, ERROR, WARNING, INFO, DEBUG
<1>11. S \subseteq Level => \A n \in DOMAIN cfg : Raised(cfg) >= cfg[n]
  <2> SUFFICES ASSUME S \subseteq Level, NEW n \in DOMAIN cfg PROVE Raised(cfg) >= cfg[n]
    OBVIOUS
  <2>1. cfg[n] \in S
    BY <1>2
  <2>2. Raised(cfg) >= Max(S)
    BY <1>9
  <2>3. \A y \in S : Max(S) >= y /\ y \in Int
    BY <1>2, <1>4
  <2> QED BY <1>6, <1>7, <2>1, <2>2, <2>3
<1> QED BY <1>3, <1>7, <1>9, <1>11

LEMMA SetSyslogConfigKeeps ==
  ASSUME LogInv, NEW cfg \in Configs, SetSyslogConfig(cfg)
  PROVE  LogInv'
<1>1. /\ modules' = Relevelled(LevelsConfigured(cfg))
      /\ destlevel' = [destlevel EXCEPT !["SYSLOG"] = Raised(cfg)]
      /\ UNCHANGED <<nbr_modules, asked, log_id, default_loglevel>>
  BY ConfiguredRelevels DEF SetSyslogConfig
<1>2. destlevel' \in [Output -> -1..7] /\ destlevel'["TNDD"] < DEBUG
  BY <1>1, RaisedFacts, LogAssumption DEF LogInv, LogTypeOK
<1>3. /\ modules' \subseteq [name : Name, logid : Int, level : Level, category : Category]
      /\ IdsKept'
  BY <1>1, ConfiguredRelevels, RelevelledKeeps
<1> QED BY <1>1, <1>2, <1>3 DEF LogInv, LogTypeOK

LEMMA LogStep == LogInv /\ [Next]_vars => LogInv'
<1> SUFFICES ASSUME LogInv, [Next]_vars PROVE LogInv'
  OBVIOUS
<1>1. ASSUME NEW c \in Client, NEW n \in Name, NEW k \in Category, Register(c, n, k)
      PROVE  LogInv'
  BY <1>1, RegisterKeeps
<1>2. CASE SetCommand
  BY <1>2, SetModuleLevelKeeps, SetOutputLevelKeeps DEF SetCommand
<1>3. ASSUME NEW cfg \in Configs, SetSyslogConfig(cfg) PROVE LogInv'
  BY <1>3, SetSyslogConfigKeeps
<1>4. ASSUME NEW c \in Category, ResetSyslogConfig(c) PROVE LogInv'
  BY <1>4, ResetKeeps
<1>5. CASE TnddStart
  BY <1>5, TnddStartKeeps
<1>6. CASE LogInit
  BY <1>6, LogInitKeeps
<1>7. CASE UNCHANGED vars
  BY <1>7, OutputsKeep DEF vars, LogInv, LogTypeOK
<1> QED BY <1>1, <1>2, <1>3, <1>4, <1>5, <1>6, <1>7
  DEF Next, ModuleRegister, RegisterOperatorSyslog, Category

LEMMA LogAlways == Spec => []LogInv
  BY InitLogInv, LogStep, PTL DEF Spec

(* Of the modules that have been given levels F, the one that an           *)
(* identifier finds has its own.                                           *)
LEMMA OneById ==
  ASSUME LogInv, NEW F \in [modules -> Level], NEW m \in modules
  PROVE  {x.level : x \in {y \in Relevelled(F) : y.logid = m.logid}} = {F[m]}
<1> DEFINE g(k) == [k EXCEPT !.level = F[k]]
<1>1. \A k \in modules : g(k).level = F[k] /\ g(k).logid = k.logid
  BY DEF LogInv, LogTypeOK
<1>2. Relevelled(F) = {g(k) : k \in modules}
  BY DEF Relevelled
<1> HIDE DEF g
<1>3. {y \in Relevelled(F) : y.logid = m.logid} = {g(m)}
  <2>1. \A k \in modules : k.logid = m.logid => k = m
    BY DEF LogInv, IdsKept
  <2> QED BY <1>1, <1>2, <2>1
<1> QED BY <1>1, <1>3

LEMMA LevelsAreInts == Level \subseteq Int
  BY DEF Level, DISABLED, ERROR, WARNING, INFO, DEBUG

(* What a module is reported to have after the output got a level. *)
LEMMA ReportedOf ==
  ASSUME LogInv, NEW F \in [modules -> Level], NEW m \in modules, NEW level \in Int
  PROVE  ReportedAfter(Relevelled(F), level, m) = IF level <= F[m] THEN level ELSE F[m]
<1>1. ReportedAfter(Relevelled(F), level, m) = Min({level, F[m]})
  <2>1. {level} \cup {F[m]} = {level, F[m]}
    OBVIOUS
  <2> QED BY <2>1, OneById DEF ReportedAfter
<1>2. F[m] \in Int
  BY LevelsAreInts
<1> QED BY <1>1, <1>2, MinOfTwo

LEMMA ReportedNow ==
  ASSUME LogInv, NEW m \in modules
  PROVE  /\ m.level \in Level /\ m.level \in Int /\ destlevel["SYSLOG"] \in -1..7
         /\ Reported(m) = IF destlevel["SYSLOG"] <= m.level THEN destlevel["SYSLOG"]
                          ELSE m.level
<1>1. m.level \in Level /\ m.level \in Int /\ destlevel["SYSLOG"] \in -1..7
  BY LevelsAreInts, LogAssumption DEF LogInv, LogTypeOK
<1> QED BY <1>1, MinOfTwo DEF Reported

LEMMA IdsExactFollows == LogInv => IdsExact
<1> SUFFICES ASSUME LogInv PROVE IdsExact
  OBVIOUS
<1> USE DEF LogInv, LogTypeOK
<1>1. \A m1, m2 \in modules : m1.logid = m2.logid \/ m1.name = m2.name => m1 = m2
  BY DEF IdsKept
<1>2. \A m \in modules : \E c \in Client : Owner(m, c)
  BY DEF IdsKept
<1>5. \A u \in User : IF u \in asked THEN ByName(u[2]) # {} ELSE log_id[u] = 0
  BY DEF IdsKept, ByName
<1>3. \A m \in modules : m.level \in Level /\ m.logid \in 6..(nbr_modules - 1)
  BY DEF IdsKept
<1>4. Listed = modules
  <2>1. ASSUME NEW m \in modules PROVE m \in Listed
    <3>1. m.logid \in 0..nbr_modules /\ m \in ById(m.logid)
      BY <1>3 DEF ById
    <3> QED BY <3>1 DEF Listed
  <2>2. Listed \subseteq modules
    BY DEF Listed, ById
  <2> QED BY <2>1, <2>2
<1> QED BY <1>1, <1>2, <1>3, <1>4, <1>5 DEF IdsExact

(* However many clients register the same names, the first of each, and no *)
(* other, has the identifier of its only module; the list of the debug     *)
(* command is complete, and levels stay legal whatever numbers the debug   *)
(* commands ask for (vlog_module_register, get_cmd_log_list,               *)
(* vlog_output_set_loglevel).                                              *)
THEOREM IdsAlwaysExact == Spec => []IdsExact
  BY IdsExactFollows, LogAlways, PTL

LEMMA SetTakesEffectFollows == LogInv => SetTakesEffect
<1> SUFFICES ASSUME LogInv PROVE SetTakesEffect
  OBVIOUS
<1> SUFFICES ASSUME NEW cfg \in Configs, \A n \in DOMAIN cfg : cfg[n] \in Level,
                    NEW m \in modules
             PROVE  LET after == ReportedAfter(ConfiguredAll(cfg), Raised(cfg), m)
                    IN  IF m.name \in DOMAIN cfg THEN after = cfg[m.name]
                        ELSE after >= Reported(m)
  BY DEF SetTakesEffect
<1> DEFINE F == LevelsConfigured(cfg)
           after == ReportedAfter(ConfiguredAll(cfg), Raised(cfg), m)
<1>1. /\ F \in [modules -> Level] /\ ConfiguredAll(cfg) = Relevelled(F)
      /\ F[m] = IF m.name \in DOMAIN cfg THEN cfg[m.name] ELSE m.level
  BY ConfiguredRelevels DEF LevelsConfigured, ValidForModule
<1>2. /\ Raised(cfg) \in Int /\ Raised(cfg) >= destlevel["SYSLOG"]
      /\ m.name \in DOMAIN cfg => Raised(cfg) >= cfg[m.name]
  BY RaisedFacts
<1> HIDE DEF F
<1>3. after = (IF Raised(cfg) <= F[m] THEN Raised(cfg) ELSE F[m]) /\ F[m] \in Int
  BY <1>1, <1>2, ReportedOf, LevelsAreInts
<1> HIDE DEF after
<1>4. CASE m.name \in DOMAIN cfg
  BY <1>1, <1>2, <1>3, <1>4 DEF after
<1>5. CASE m.name \notin DOMAIN cfg
  <2>1. after >= Reported(m)
    BY <1>1, <1>2, <1>3, <1>5, ReportedNow
  <2> QED BY <1>5, <2>1 DEF after
<1> QED BY <1>4, <1>5

(* From every reachable state, vlog_set_syslog_config gives each module    *)
(* that it names the level that it asks for, on the output too, and shows  *)
(* no other module less.                                                   *)
THEOREM SetAlwaysTakesEffect == Spec => []SetTakesEffect
  BY SetTakesEffectFollows, LogAlways, PTL

LEMMA ResetKeepsOthersFollows == LogInv => ResetKeepsOthers
<1> SUFFICES ASSUME LogInv PROVE ResetKeepsOthers
  OBVIOUS
<1> SUFFICES ASSUME NEW c \in Category, NEW m \in modules
             PROVE  LET after == ReportedAfter(Updated(c, default_loglevel),
                                   ThresholdOfOutput(c, default_loglevel), m)
                    IN  IF m.category = c THEN after = default_loglevel
                        ELSE after >= Reported(m)
  BY DEF ResetKeepsOthers
<1> DEFINE F == LevelsUpdated(c, default_loglevel)
           level == ThresholdOfOutput(c, default_loglevel)
           after == ReportedAfter(Updated(c, default_loglevel), level, m)
<1>0. default_loglevel \in Level /\ default_loglevel \in Int
  BY LevelsAreInts DEF LogInv, LogTypeOK
<1>1. /\ F \in [modules -> Level] /\ Updated(c, default_loglevel) = Relevelled(F)
      /\ F[m] = IF m.category = c THEN default_loglevel ELSE m.level
  BY <1>0, UpdatedRelevels DEF LevelsUpdated
<1>2. level \in Int /\ level >= F[m]
  BY <1>0, ThresholdFacts, LevelsAreInts
<1> HIDE DEF F, level
<1>3. after = F[m] /\ F[m] \in Int
  <2>1. F[m] \in Int
    BY <1>1, LevelsAreInts
  <2>2. after = IF level <= F[m] THEN level ELSE F[m]
    BY <1>1, <1>2, ReportedOf
  <2> QED BY <1>2, <2>1, <2>2
<1> HIDE DEF after
<1>4. CASE m.category = c
  BY <1>1, <1>3, <1>4 DEF after, level
<1>5. CASE m.category # c
  <2>1. after >= Reported(m)
    BY <1>1, <1>3, <1>5, ReportedNow
  <2> QED BY <1>5, <2>1 DEF after, level
<1> QED BY <1>4, <1>5

(* From every reachable state, vlog_reset_syslog_config gives the modules  *)
(* of its category the default level and silences none of the other.       *)
THEOREM ResetAlwaysKeepsOthers == Spec => []ResetKeepsOthers
  BY ResetKeepsOthersFollows, LogAlways, PTL

-----------------------------------------------------------------------------
(***************************************************************************)
(* Compressed files, for any sizes of the buffers and any pieces.          *)
(***************************************************************************)

(* Bytes, and positions of characters. *)
Pos == Nat \ {0}

(* One step of the scan that Bytes makes, and what it has after n tokens. *)
Kept(x, e) == IF e > 0 THEN Append(x, e) ELSE x
ByteScan(s) ==
    CHOOSE f : f = [n \in 0..Len(s) |->
        IF n = 0 THEN <<>>
        ELSE IF s[n] > 0 THEN Append(f[n - 1], s[n]) ELSE f[n - 1]]

LEMMA ByteScanFacts ==
  ASSUME NEW s \in Seq(Int)
  PROVE  /\ ByteScan(s)[0] = <<>>
         /\ \A n \in 1..Len(s) : ByteScan(s)[n] = Kept(ByteScan(s)[n - 1], s[n])
         /\ \A n \in 0..Len(s) : ByteScan(s)[n] \in Seq(Pos)
<1> DEFINE F == [xe \in Seq(Pos) \X Int |-> Kept(xe[1], xe[2])]
           Is(f) == f = [n \in 0..Len(s) |->
                          IF n = 0 THEN <<>>
                          ELSE IF s[n] > 0 THEN Append(f[n - 1], s[n]) ELSE f[n - 1]]
<1>0. Len(s) \in Nat /\ \A n \in 1..Len(s) : s[n] \in Int
  OBVIOUS
<1>1. \A x \in Seq(Pos), e \in Int : Kept(x, e) \in Seq(Pos)
  <2> SUFFICES ASSUME NEW x \in Seq(Pos), NEW e \in Int PROVE Kept(x, e) \in Seq(Pos)
    OBVIOUS
  <2>1. CASE e > 0
    <3>1. e \in Pos
      BY <2>1 DEF Pos
    <3> QED BY <2>1, <3>1, AppendProperties DEF Kept
  <2> QED BY <2>1 DEF Kept
<1>2. F \in [Seq(Pos) \X Int -> Seq(Pos)]
  BY <1>1
<1>3. <<>> \in Seq(Pos)
  BY EmptySeq
<1>4. PICK f : IsScan(f, <<>>, F, s)
  <2> HIDE DEF F
  <2> QED BY <1>2, <1>3, ScanExists
<1>5. /\ f \in [0..Len(s) -> Seq(Pos)] /\ f[0] = <<>>
      /\ \A n \in 1..Len(s) : f[n] = F[<<f[n - 1], s[n]>>]
  <2> DEFINE A == Seq(Pos)
           a == <<>>
  <2>1. F \in [A \X Int -> A] /\ a \in A /\ IsScan(f, a, F, s)
    BY <1>2, <1>3, <1>4
  <2> HIDE DEF F, A, a
  <2>2. ScansWithin(f, A, a, F, s)
    BY <2>1, ScanFacts, Zenon
  <2> QED BY <2>2 DEF ScansWithin, A, a
<1>6. ASSUME NEW n \in 1..Len(s) PROVE f[n] = Kept(f[n - 1], s[n])
  <2>1. n - 1 \in 0..Len(s) /\ s[n] \in Int
    BY <1>0
  <2>2. f[n - 1] \in Seq(Pos)
    BY <1>5, <2>1
  <2>3. F[<<f[n - 1], s[n]>>] = Kept(f[n - 1], s[n])
    BY <2>1, <2>2
  <2> QED BY <1>5, <2>3, Zenon
<1> HIDE DEF F
<1>7. Is(f)
  <2> DEFINE r == [n \in 0..Len(s) |->
                     IF n = 0 THEN <<>>
                     ELSE IF s[n] > 0 THEN Append(f[n - 1], s[n]) ELSE f[n - 1]]
  <2>1. ASSUME NEW n \in 0..Len(s) PROVE f[n] = r[n]
    <3>1. CASE n = 0
      BY <1>5, <3>1
    <3>2. CASE n # 0
      BY <1>0, <1>6, <3>2 DEF Kept
    <3> QED BY <3>1, <3>2
  <2>2. f = [n \in 0..Len(s) |-> f[n]]
    BY <1>5
  <2> QED BY <2>1, <2>2
<1>8. Is(ByteScan(s))
  <2>1. ByteScan(s) = CHOOSE g : Is(g)
    BY DEF ByteScan
  <2> HIDE DEF Is
  <2> QED BY <1>7, <2>1
<1> DEFINE b == ByteScan(s)
<1> HIDE DEF b
<1>9. Is(b)
  BY <1>8 DEF b
<1>10. b[0] = <<>> /\ \A n \in 1..Len(s) : b[n] = Kept(b[n - 1], s[n])
  <2>1. b[0] = <<>>
    BY <1>0, <1>9
  <2>2. ASSUME NEW n \in 1..Len(s) PROVE b[n] = Kept(b[n - 1], s[n])
    <3>1. n \in 0..Len(s) /\ n # 0
      BY <1>0
    <3> QED BY <1>9, <3>1 DEF Kept
  <2> QED BY <2>1, <2>2
<1> HIDE DEF Is
<1> DEFINE S == {n \in Nat : n <= Len(s) => b[n] \in Seq(Pos)}
<1>11. S = Nat
  <2>1. 0 \in S
    BY <1>3, <1>10
  <2>2. ASSUME NEW n \in S PROVE n + 1 \in S
    <3> SUFFICES ASSUME n + 1 <= Len(s) PROVE b[n + 1] \in Seq(Pos)
      OBVIOUS
    <3>1. b[n] \in Seq(Pos) /\ s[n + 1] \in Int
      BY <1>0
    <3>2. b[n + 1] = Kept(b[n], s[n + 1])
      BY <1>0, <1>10
    <3> QED BY <1>1, <3>1, <3>2
  <2> HIDE DEF S
  <2>3. S \subseteq Nat
    BY DEF S
  <2> QED BY <2>1, <2>2, <2>3, SetInduction
<1>12. \A n \in 0..Len(s) : b[n] \in Seq(Pos)
  BY <1>0, <1>11
<1> QED BY <1>10, <1>12 DEF b

LEMMA BytesIsScan == ASSUME NEW s PROVE Bytes(s) = ByteScan(s)[Len(s)]
  BY DEF Bytes, ByteScan

LEMMA BytesType == ASSUME NEW s \in Seq(Int) PROVE Bytes(s) \in Seq(Pos)
<1>1. Len(s) \in 0..Len(s)
  BY LenProperties
<1> QED BY <1>1, BytesIsScan, ByteScanFacts

LEMMA BytesEmpty == Bytes(<<>>) = <<>>
<1>1. <<>> \in Seq(Int) /\ Len(<<>>) = 0
  BY EmptySeq
<1>2. ByteScan(<<>>)[0] = <<>>
  BY <1>1, ByteScanFacts
<1> QED BY <1>1, <1>2, BytesIsScan

LEMMA BytesAppend ==
  ASSUME NEW s \in Seq(Int), NEW e \in Int
  PROVE  Bytes(Append(s, e)) = Kept(Bytes(s), e)
<1> DEFINE t == Append(s, e)
           b == ByteScan(s)
           c == ByteScan(t)
<1>1. /\ t \in Seq(Int) /\ Len(t) = Len(s) + 1 /\ t[Len(s) + 1] = e /\ Len(s) \in Nat
      /\ \A i \in 1..Len(s) : t[i] = s[i]
  BY AppendProperties, LenProperties
<1> HIDE DEF t
<1>2. b[0] = <<>> /\ \A n \in 1..Len(s) : b[n] = Kept(b[n - 1], s[n])
  BY ByteScanFacts
<1>3. c[0] = <<>> /\ \A n \in 1..Len(t) : c[n] = Kept(c[n - 1], t[n])
  BY <1>1, ByteScanFacts
<1>4. Bytes(s) = b[Len(s)] /\ Bytes(t) = c[Len(s) + 1]
  BY <1>1, BytesIsScan
<1> HIDE DEF b, c
<1> DEFINE S == {n \in Nat : n <= Len(s) => c[n] = b[n]}
<1>5. S = Nat
  <2>1. 0 \in S
    BY <1>2, <1>3
  <2>2. ASSUME NEW n \in S PROVE n + 1 \in S
    <3> SUFFICES ASSUME n + 1 <= Len(s) PROVE c[n + 1] = b[n + 1]
      OBVIOUS
    <3>1. c[n] = b[n] /\ n + 1 \in 1..Len(s) /\ n + 1 \in 1..Len(t) /\ (n + 1) - 1 = n
      BY <1>1
    <3>2. b[n + 1] = Kept(b[n], s[n + 1])
      BY <1>2, <3>1
    <3>3. c[n + 1] = Kept(c[n], t[n + 1])
      BY <1>3, <3>1
    <3> QED BY <1>1, <3>1, <3>2, <3>3
  <2> HIDE DEF S
  <2>3. S \subseteq Nat
    BY DEF S
  <2> QED BY <2>1, <2>2, <2>3, SetInduction
<1>6. c[Len(s)] = b[Len(s)]
  BY <1>1, <1>5
<1>7. Len(s) + 1 \in 1..Len(t) /\ (Len(s) + 1) - 1 = Len(s)
  BY <1>1
<1>8. c[Len(s) + 1] = Kept(c[Len(s)], t[Len(s) + 1])
  BY <1>3, <1>7
<1> QED BY <1>1, <1>4, <1>6, <1>8 DEF t

(* The bytes of a stream are those of its pieces. *)
LEMMA BytesConcat ==
  ASSUME NEW s \in Seq(Int), NEW t \in Seq(Int)
  PROVE  Bytes(s \o t) = Bytes(s) \o Bytes(t)
<1> DEFINE P == {u \in Seq(Int) : Bytes(s \o u) = Bytes(s) \o Bytes(u)}
<1>0. Bytes(s) \in Seq(Pos)
  BY BytesType
<1>1. <<>> \in P
  <2>1. <<>> \in Seq(Int) /\ s \o <<>> = s /\ Bytes(s) \o <<>> = Bytes(s)
    BY <1>0, EmptySeq, ConcatEmptySeq
  <2> QED BY <2>1, BytesEmpty
<1>2. ASSUME NEW u \in P, NEW e \in Int PROVE Append(u, e) \in P
  <2>0. u \in Seq(Int) /\ Bytes(s \o u) = Bytes(s) \o Bytes(u)
    OBVIOUS
  <2>1. /\ Append(u, e) \in Seq(Int) /\ s \o u \in Seq(Int)
        /\ s \o Append(u, e) = Append(s \o u, e)
    BY <2>0, AppendProperties, ConcatProperties, ConcatAppend
  <2>2. /\ Bytes(Append(s \o u, e)) = Kept(Bytes(s) \o Bytes(u), e)
        /\ Bytes(Append(u, e)) = Kept(Bytes(u), e)
    BY <2>0, <2>1, BytesAppend
  <2>3. Kept(Bytes(s) \o Bytes(u), e) = Bytes(s) \o Kept(Bytes(u), e)
    <3>1. CASE e > 0
      <4>1. e \in Pos /\ Bytes(u) \in Seq(Pos)
        BY <2>0, <3>1, BytesType DEF Pos
      <4>2. Bytes(s) \o Append(Bytes(u), e) = Append(Bytes(s) \o Bytes(u), e)
        BY <1>0, <4>1, ConcatAppend
      <4> QED BY <3>1, <4>2 DEF Kept
    <3>2. CASE ~(e > 0)
      BY <3>2 DEF Kept
    <3> QED BY <3>1, <3>2
  <2>4. Bytes(s \o Append(u, e)) = Bytes(s) \o Bytes(Append(u, e))
    BY <2>1, <2>2, <2>3
  <2> QED BY <2>1, <2>4
<1>3. P = Seq(Int)
  <2> HIDE DEF P
  <2>1. P \in SUBSET Seq(Int)
    BY DEF P
  <2> QED BY <1>1, <1>2, <2>1, SeqInduction
<1> QED BY <1>3

(* What consists of bytes only is kept whole. *)
LEMMA BytesOfBytes == ASSUME NEW s \in Seq(Pos) PROVE Bytes(s) = s
<1> DEFINE P == {u \in Seq(Pos) : Bytes(u) = u}
<1>1. <<>> \in P
  BY BytesEmpty, EmptySeq
<1>2. ASSUME NEW u \in P, NEW e \in Pos PROVE Append(u, e) \in P
  <2>1. u \in Seq(Pos) /\ Bytes(u) = u /\ Append(u, e) \in Seq(Pos)
    BY AppendProperties
  <2>2. u \in Seq(Int) /\ e \in Int /\ e > 0
    BY <2>1, SeqMonotonic DEF Pos
  <2>3. Bytes(Append(u, e)) = Append(u, e)
    BY <2>1, <2>2, BytesAppend DEF Kept
  <2> QED BY <2>1, <2>3
<1>3. P = Seq(Pos)
  <2> HIDE DEF P
  <2>1. P \in SUBSET Seq(Pos)
    BY DEF P
  <2> QED BY <1>1, <1>2, <2>1, SeqInduction
<1> QED BY <1>3

LEMMA BytesOfMark == Bytes(<<Begin>>) = <<>> /\ Bytes(<<End>>) = <<>>
<1>1. ASSUME NEW m \in {Begin, End} PROVE Bytes(<<m>>) = <<>>
  <2>1. m \in Int /\ ~(m > 0)
    BY DEF Begin, End
  <2>2. <<m>> = Append(<<>>, m) /\ <<>> \in Seq(Int)
    BY EmptySeq
  <2> QED BY <2>1, <2>2, BytesAppend, BytesEmpty DEF Kept
<1> QED BY <1>1
-----------------------------------------------------------------------------
(***************************************************************************)
(* Pieces of sequences, and the frames of a stream.                        *)
(***************************************************************************)
LEMMA Pieces ==
  ASSUME NEW S, NEW s \in Seq(S), NEW n \in Nat
  PROVE  /\ UpTo(s, n) \in Seq(S) /\ From(s, n) \in Seq(S)
         /\ UpTo(s, n) \o From(s, n) = s
         /\ Len(UpTo(s, n)) = IF n < Len(s) THEN n ELSE Len(s)
         /\ n >= Len(s) => UpTo(s, n) = s /\ From(s, n) = <<>>
<1> DEFINE k == IF n < Len(s) THEN n ELSE Len(s)
           u == SubSeq(s, 1, k)
           v == SubSeq(s, k + 1, Len(s))
<1>1. Len(s) \in Nat /\ k \in 0..Len(s) /\ \A i \in 1..Len(s) : s[i] \in S
  BY LenProperties, ElementOfSeq
<1>2. u \in Seq(S) /\ Len(u) = IF 1 <= k THEN k - 1 + 1 ELSE 0
  <2>1. \A i \in 1..k : s[i] \in S
    BY <1>1
  <2> HIDE DEF k
  <2> QED BY <1>1, <2>1, SubSeqProperties
<1>3. v \in Seq(S)
  <2>1. \A i \in k + 1..Len(s) : s[i] \in S
    BY <1>1
  <2> HIDE DEF k
  <2> QED BY <1>1, <2>1, SubSeqProperties
<1>4. u \o v = s
  <2> HIDE DEF k
  <2>1. 1 \in 1..Len(s) + 1 /\ k \in 1 - 1..Len(s) /\ Len(s) \in k..Len(s)
    BY <1>1
  <2>2. u \o v = SubSeq(s, 1, Len(s))
    BY <2>1, ConcatAdjacentSubSeq
  <2> QED BY <2>2, SubSeqFull
<1>5. UpTo(s, n) = u
  BY DEF UpTo
<1>6. From(s, n) = v
  <2>1. CASE n < Len(s)
    BY <2>1 DEF From
  <2>2. CASE ~(n < Len(s))
    <3>1. n + 1 \in Int /\ Len(s) \in Int /\ Len(s) < n + 1 /\ k + 1 \in Int /\ Len(s) < k + 1
      BY <1>1, <2>2
    <3> HIDE DEF k
    <3>2. SubSeq(s, n + 1, Len(s)) = <<>> /\ v = <<>>
      BY <3>1, SubSeqEmpty
    <3> QED BY <3>2 DEF From
  <2> QED BY <2>1, <2>2
<1>7. n >= Len(s) => k = Len(s) /\ u = s
  BY <1>1, SubSeqFull
<1>8. k = Len(s) => v = <<>>
  <2> HIDE DEF k
  <2>1. k + 1 \in Int /\ Len(s) \in Int /\ (k = Len(s) => Len(s) < k + 1)
    BY <1>1
  <2> QED BY <2>1, SubSeqEmpty
<1>9. Len(u) = k
  <2> HIDE DEF k, u
  <2> QED BY <1>1, <1>2
<1> HIDE DEF u, v
<1> QED BY <1>2, <1>3, <1>4, <1>5, <1>6, <1>7, <1>8, <1>9

(* The elements of a piece and of a concatenation. *)
LEMMA PieceElements ==
  ASSUME NEW S, NEW s \in Seq(S), NEW n \in 0..Len(s)
  PROVE  Len(UpTo(s, n)) = n /\ \A i \in 1..n : UpTo(s, n)[i] = s[i]
<1>1. Len(s) \in Nat /\ \A i \in 1..n : s[i] \in S
  BY LenProperties, ElementOfSeq
<1>2. UpTo(s, n) = SubSeq(s, 1, n)
  BY <1>1 DEF UpTo
<1>3. /\ Len(SubSeq(s, 1, n)) = IF 1 <= n THEN n - 1 + 1 ELSE 0
      /\ \A i \in 1..n - 1 + 1 : SubSeq(s, 1, n)[i] = s[1 + i - 1]
  BY <1>1, SubSeqProperties
<1> QED BY <1>1, <1>2, <1>3

(* The first part of a concatenation, up to within the first or the second. *)
LEMMA UpToConcat ==
  ASSUME NEW S, NEW s \in Seq(S), NEW t \in Seq(S)
  PROVE  /\ \A n \in 0..Len(s) : UpTo(s \o t, n) = UpTo(s, n)
         /\ \A n \in 0..Len(t) : UpTo(s \o t, Len(s) + n) = s \o UpTo(t, n)
<1> DEFINE c == s \o t
<1>1. /\ c \in Seq(S) /\ Len(c) = Len(s) + Len(t) /\ Len(s) \in Nat /\ Len(t) \in Nat
      /\ \A i \in 1..Len(s) + Len(t) : c[i] = IF i <= Len(s) THEN s[i] ELSE t[i - Len(s)]
  BY ConcatProperties, LenProperties
<1> HIDE DEF c
<1>2. ASSUME NEW n \in 0..Len(s) PROVE UpTo(c, n) = UpTo(s, n)
  <2>1. n \in Nat /\ n \in 0..Len(c)
    BY <1>1
  <2>2. UpTo(c, n) \in Seq(S) /\ UpTo(s, n) \in Seq(S)
    BY <1>1, <2>1, Pieces
  <2>3. Len(UpTo(c, n)) = n /\ \A i \in 1..n : UpTo(c, n)[i] = c[i]
    BY <1>1, <2>1, PieceElements
  <2>4. Len(UpTo(s, n)) = n /\ \A i \in 1..n : UpTo(s, n)[i] = s[i]
    BY <1>1, <2>1, PieceElements
  <2>5. \A i \in 1..n : UpTo(c, n)[i] = UpTo(s, n)[i]
    BY <1>1, <2>3, <2>4
  <2> QED BY <2>2, <2>3, <2>4, <2>5, SeqEqual
<1>3. ASSUME NEW n \in 0..Len(t) PROVE UpTo(c, Len(s) + n) = s \o UpTo(t, n)
  <2> DEFINE m == Len(s) + n
             u == UpTo(t, n)
             w == s \o u
  <2>1. m \in Nat /\ m \in 0..Len(c) /\ n \in Nat
    BY <1>1
  <2>2. UpTo(c, m) \in Seq(S) /\ u \in Seq(S)
    BY <1>1, <2>1, Pieces
  <2>3. Len(UpTo(c, m)) = m /\ \A i \in 1..m : UpTo(c, m)[i] = c[i]
    BY <1>1, <2>1, PieceElements
  <2>4. Len(u) = n /\ \A i \in 1..n : u[i] = t[i]
    BY PieceElements
  <2> HIDE DEF u
  <2>5. /\ w \in Seq(S) /\ Len(w) = Len(s) + Len(u)
        /\ \A i \in 1..Len(s) + Len(u) : w[i] = IF i <= Len(s) THEN s[i] ELSE u[i - Len(s)]
    BY <2>2, ConcatProperties
  <2> HIDE DEF w
  <2>6. \A i \in 1..m : UpTo(c, m)[i] = w[i]
    BY <1>1, <2>1, <2>3, <2>4, <2>5
  <2>7. Len(w) = m
    BY <2>4, <2>5
  <2> HIDE DEF m
  <2>8. UpTo(c, m) = w
    BY <2>2, <2>3, <2>5, <2>6, <2>7, SeqEqual
  <2> QED BY <2>8 DEF m, w, u
<1> QED BY <1>2, <1>3 DEF c

(* A stream is a sequence of frames: bytes within, Begin only outside. *)
Framed(before, s) ==
    \A i \in 1..Len(s) : FrameAfter(before, UpTo(s, i - 1)) = (s[i] # Begin)

LEMMA FrameAfterConcat ==
  ASSUME NEW s \in Seq(Int), NEW t \in Seq(Int), NEW b \in BOOLEAN
  PROVE  FrameAfter(b, s \o t) = FrameAfter(FrameAfter(b, s), t)
<1> DEFINE c == s \o t
           x == FrameAfter(b, s)
<1>1. /\ Len(c) = Len(s) + Len(t) /\ Len(s) \in Nat /\ Len(t) \in Nat
      /\ \A i \in 1..Len(s) + Len(t) : c[i] = IF i <= Len(s) THEN s[i] ELSE t[i - Len(s)]
  BY ConcatProperties, LenProperties
<1> HIDE DEF c
<1>2. /\ \A i \in 1..Len(s) : c[i] = s[i] /\ i \in 1..Len(c)
      /\ \A i \in 1..Len(t) : c[Len(s) + i] = t[i] /\ Len(s) + i \in 1..Len(c)
      /\ \A i \in 1..Len(c) : i \in 1..Len(s) \/ \E j \in 1..Len(t) : i = Len(s) + j
  <2>1. ASSUME NEW i \in 1..Len(c), i \notin 1..Len(s)
        PROVE  \E j \in 1..Len(t) : i = Len(s) + j
    <3>1. i - Len(s) \in 1..Len(t) /\ i = Len(s) + (i - Len(s))
      BY <1>1, <2>1
    <3> QED BY <3>1
  <2>2. \A i \in 1..Len(s) : c[i] = s[i] /\ i \in 1..Len(c)
    BY <1>1
  <2>3. ASSUME NEW i \in 1..Len(t) PROVE c[Len(s) + i] = t[i] /\ Len(s) + i \in 1..Len(c)
    BY <1>1
  <2> QED BY <2>1, <2>2, <2>3
<1>3. ASSUME FrameAfter(b, c) PROVE FrameAfter(x, t)
  <2>1. ASSUME NEW i \in 1..Len(c), c[i] = Begin, \A j \in i + 1..Len(c) : c[j] # End
        PROVE  FrameAfter(x, t)
    <3>1. CASE i \in 1..Len(s)
      <4>1. ASSUME NEW j \in i + 1..Len(s) PROVE s[j] # End
        <5>1. j \in 1..Len(s) /\ j \in i + 1..Len(c)
          BY <1>1, <3>1
        <5>2. c[j] = s[j]
          BY <1>2, <5>1
        <5> QED BY <2>1, <5>1, <5>2
      <4>2. x
        BY <1>2, <2>1, <3>1, <4>1 DEF FrameAfter
      <4>3. ASSUME NEW j \in 1..Len(t) PROVE t[j] # End
        <5>1. Len(s) + j \in i + 1..Len(c)
          BY <1>1, <3>1
        <5> QED BY <1>2, <2>1, <5>1
      <4> HIDE DEF x
      <4> QED BY <4>2, <4>3 DEF FrameAfter
    <3>2. CASE \E j \in 1..Len(t) : i = Len(s) + j
      <4>1. PICK k \in 1..Len(t) : i = Len(s) + k
        BY <3>2
      <4>2. t[k] = Begin
        BY <1>2, <2>1, <4>1
      <4>3. ASSUME NEW j \in k + 1..Len(t) PROVE t[j] # End
        <5>1. j \in 1..Len(t) /\ Len(s) + j \in i + 1..Len(c)
          BY <1>1, <4>1
        <5> QED BY <1>2, <2>1, <5>1
      <4> HIDE DEF x
      <4> QED BY <4>2, <4>3 DEF FrameAfter
    <3> QED BY <1>2, <3>1, <3>2
  <2>2. ASSUME b, \A i \in 1..Len(c) : c[i] # End PROVE FrameAfter(x, t)
    <3>1. x
      BY <1>2, <2>2 DEF FrameAfter
    <3>2. \A i \in 1..Len(t) : t[i] # End
      BY <1>2, <2>2
    <3> HIDE DEF x
    <3> QED BY <3>1, <3>2 DEF FrameAfter
  <2> QED BY <1>3, <2>1, <2>2 DEF FrameAfter
<1>4. ASSUME FrameAfter(x, t) PROVE FrameAfter(b, c)
  <2>1. ASSUME NEW k \in 1..Len(t), t[k] = Begin, \A j \in k + 1..Len(t) : t[j] # End
        PROVE  FrameAfter(b, c)
    <3>1. Len(s) + k \in 1..Len(c) /\ c[Len(s) + k] = Begin
      BY <1>2, <2>1
    <3>2. ASSUME NEW j \in (Len(s) + k) + 1..Len(c) PROVE c[j] # End
      <4>1. j - Len(s) \in k + 1..Len(t) /\ c[j] = t[j - Len(s)]
        BY <1>1
      <4> QED BY <2>1, <4>1
    <3> QED BY <3>1, <3>2 DEF FrameAfter
  <2>2. ASSUME x, \A i \in 1..Len(t) : t[i] # End PROVE FrameAfter(b, c)
    <3>1. ASSUME NEW i \in 1..Len(s), s[i] = Begin, \A j \in i + 1..Len(s) : s[j] # End
          PROVE  FrameAfter(b, c)
      <4>1. i \in 1..Len(c) /\ c[i] = Begin
        BY <1>2, <3>1
      <4>2. ASSUME NEW j \in i + 1..Len(c) PROVE c[j] # End
        <5>1. CASE j <= Len(s)
          <6>1. j \in 1..Len(s) /\ j \in i + 1..Len(s)
            BY <1>1, <5>1
          <6>2. c[j] = s[j]
            BY <1>2, <6>1
          <6> QED BY <3>1, <6>1, <6>2
        <5>2. CASE j > Len(s)
          <6>1. j - Len(s) \in 1..Len(t) /\ c[j] = t[j - Len(s)]
            BY <1>1, <5>2
          <6> QED BY <2>2, <6>1
        <5> QED BY <1>1, <5>1, <5>2
      <4> QED BY <4>1, <4>2 DEF FrameAfter
    <3>2. ASSUME b, \A i \in 1..Len(s) : s[i] # End PROVE FrameAfter(b, c)
      <4>1. \A i \in 1..Len(c) : c[i] # End
        BY <1>2, <2>2, <3>2
      <4> QED BY <3>2, <4>1 DEF FrameAfter
    <3> QED BY <2>2, <3>1, <3>2 DEF FrameAfter
  <2> HIDE DEF x
  <2> QED BY <1>4, <2>1, <2>2 DEF FrameAfter
<1>5. FrameAfter(b, c) \in BOOLEAN /\ FrameAfter(x, t) \in BOOLEAN
  <2>1. x \in BOOLEAN
    BY DEF FrameAfter
  <2> HIDE DEF x
  <2> QED BY <2>1 DEF FrameAfter
<1> HIDE DEF x
<1>6. FrameAfter(b, c) = FrameAfter(x, t)
  BY <1>3, <1>4, <1>5
<1> QED BY <1>6 DEF c, x

LEMMA FramedConcat ==
  ASSUME NEW s \in Seq(Int), NEW t \in Seq(Int), NEW b \in BOOLEAN
  PROVE  Framed(b, s \o t) <=> Framed(b, s) /\ Framed(FrameAfter(b, s), t)
<1> DEFINE c == s \o t
           x == FrameAfter(b, s)
<1>1. /\ Len(c) = Len(s) + Len(t) /\ Len(s) \in Nat /\ Len(t) \in Nat
      /\ \A i \in 1..Len(s) + Len(t) : c[i] = IF i <= Len(s) THEN s[i] ELSE t[i - Len(s)]
  BY ConcatProperties, LenProperties
<1>2. ASSUME NEW i \in 1..Len(s)
      PROVE  i \in 1..Len(c) /\ c[i] = s[i] /\ UpTo(c, i - 1) = UpTo(s, i - 1)
  <2>1. i \in 1..Len(c) /\ c[i] = s[i] /\ i - 1 \in 0..Len(s)
    BY <1>1
  <2> QED BY <2>1, UpToConcat
<1>3. ASSUME NEW i \in 1..Len(t)
      PROVE  /\ Len(s) + i \in 1..Len(c) /\ c[Len(s) + i] = t[i]
             /\ FrameAfter(b, UpTo(c, (Len(s) + i) - 1)) = FrameAfter(x, UpTo(t, i - 1))
  <2>1. Len(s) + i \in 1..Len(c) /\ c[Len(s) + i] = t[i]
    BY <1>1
  <2>2. i - 1 \in 0..Len(t) /\ i - 1 \in Nat /\ (Len(s) + i) - 1 = Len(s) + (i - 1)
    BY <1>1
  <2>3. UpTo(c, Len(s) + (i - 1)) = s \o UpTo(t, i - 1)
    <3> DEFINE n == i - 1
    <3>1. n \in 0..Len(t)
      BY <2>2
    <3> HIDE DEF n
    <3>2. UpTo(c, Len(s) + n) = s \o UpTo(t, n)
      BY <3>1, UpToConcat
    <3> QED BY <3>2 DEF n
  <2>4. UpTo(t, i - 1) \in Seq(Int)
    BY <2>2, Pieces
  <2>5. FrameAfter(b, s \o UpTo(t, i - 1)) = FrameAfter(x, UpTo(t, i - 1))
    BY <2>4, FrameAfterConcat
  <2> HIDE DEF c, x
  <2> QED BY <2>1, <2>2, <2>3, <2>5
<1> HIDE DEF c, x
<1>4. Framed(b, c) => Framed(b, s)
  BY <1>2 DEF Framed
<1>5. Framed(b, c) => Framed(x, t)
  <2> SUFFICES ASSUME Framed(b, c), NEW i \in 1..Len(t)
               PROVE  FrameAfter(x, UpTo(t, i - 1)) = (t[i] # Begin)
    BY DEF Framed
  <2>1. FrameAfter(b, UpTo(c, (Len(s) + i) - 1)) = (c[Len(s) + i] # Begin)
    BY <1>3 DEF Framed
  <2> QED BY <1>3, <2>1
<1>6. ASSUME Framed(b, s), Framed(x, t) PROVE Framed(b, c)
  <2> SUFFICES ASSUME NEW i \in 1..Len(c)
               PROVE  FrameAfter(b, UpTo(c, i - 1)) = (c[i] # Begin)
    BY DEF Framed
  <2>1. CASE i \in 1..Len(s)
    BY <1>2, <1>6, <2>1 DEF Framed
  <2>2. CASE i \notin 1..Len(s)
    <3>1. i - Len(s) \in 1..Len(t) /\ i = Len(s) + (i - Len(s))
      BY <1>1, <2>2 DEF c
    <3>2. PICK j \in 1..Len(t) : i = Len(s) + j
      BY <3>1
    <3>3. FrameAfter(x, UpTo(t, j - 1)) = (t[j] # Begin)
      BY <1>6 DEF Framed
    <3> QED BY <1>3, <3>2, <3>3
  <2> QED BY <2>1, <2>2
<1> QED BY <1>4, <1>5, <1>6 DEF c, x

LEMMA FramesOfNothing ==
  ASSUME NEW b \in BOOLEAN
  PROVE  FrameAfter(b, <<>>) = b /\ Framed(b, <<>>)
<1>1. Len(<<>>) = 0
  BY EmptySeq
<1>2. FrameAfter(b, <<>>) <=> b
  BY <1>1 DEF FrameAfter
<1>3. FrameAfter(b, <<>>) \in BOOLEAN
  BY DEF FrameAfter
<1>4. Framed(b, <<>>)
  BY <1>1 DEF Framed
<1> QED BY <1>2, <1>3, <1>4

(* Bytes leave the frame as it is, and belong into one. *)
LEMMA FramesOfBytes ==
  ASSUME NEW s \in Seq(Pos), NEW b \in BOOLEAN
  PROVE  FrameAfter(b, s) = b /\ Framed(TRUE, s)
<1>1. \A i \in 1..Len(s) : s[i] # Begin /\ s[i] # End
  BY DEF Pos, Begin, End
<1>2. ASSUME NEW x \in BOOLEAN, NEW u \in Seq(Pos),
             \A i \in 1..Len(u) : u[i] # Begin /\ u[i] # End
      PROVE  FrameAfter(x, u) = x
  <2>1. FrameAfter(x, u) <=> x
    BY <1>2 DEF FrameAfter
  <2>2. FrameAfter(x, u) \in BOOLEAN
    BY DEF FrameAfter
  <2> QED BY <2>1, <2>2
<1>3. ASSUME NEW i \in 1..Len(s) PROVE FrameAfter(TRUE, UpTo(s, i - 1)) = (s[i] # Begin)
  <2>1. i - 1 \in 0..Len(s) /\ i - 1 \in Nat
    BY LenProperties
  <2> DEFINE u == UpTo(s, i - 1)
  <2>2. u \in Seq(Pos)
    BY <2>1, Pieces
  <2>3. \A j \in 1..Len(u) : u[j] # Begin /\ u[j] # End
    BY <2>2 DEF Pos, Begin, End
  <2>4. FrameAfter(TRUE, u) = TRUE
    <3> HIDE DEF u
    <3> QED BY <1>2, <2>2, <2>3
  <2> QED BY <1>1, <2>4
<1> QED BY <1>1, <1>2, <1>3 DEF Framed

LEMMA FramesOfMarks ==
  ASSUME NEW b \in BOOLEAN
  PROVE  /\ FrameAfter(b, <<Begin>>) = TRUE /\ Framed(FALSE, <<Begin>>)
         /\ FrameAfter(b, <<End>>) = FALSE /\ Framed(TRUE, <<End>>)
<1>1. ASSUME NEW x \in BOOLEAN, NEW m \in {Begin, End}
      PROVE  /\ FrameAfter(x, <<m>>) = (m = Begin)
             /\ x = (m = End) => Framed(x, <<m>>)
  <2>1. Len(<<m>>) = 1 /\ <<m>>[1] = m /\ <<m>> \in Seq(Int) /\ Begin # End
    BY DEF Begin, End
  <2> DEFINE s == <<m>>
  <2> HIDE DEF s
  <2>2. FrameAfter(x, s) <=> (m = Begin)
    BY <2>1 DEF FrameAfter, s
  <2>3. FrameAfter(x, s) \in BOOLEAN
    BY DEF FrameAfter
  <2>4. UpTo(s, 1 - 1) = <<>>
    <3>1. s \in Seq(Int) /\ 0 \in Nat /\ 0 \in 0..Len(s)
      BY <2>1 DEF s
    <3>2. UpTo(s, 0) \in Seq(Int) /\ Len(UpTo(s, 0)) = 0
      BY <3>1, Pieces, PieceElements
    <3>3. UpTo(s, 0) = <<>>
      BY <3>2, EmptySeq
    <3> QED BY <3>3
  <2>5. ASSUME x = (m = End) PROVE Framed(x, s)
    <3> SUFFICES ASSUME NEW i \in 1..Len(s) PROVE FrameAfter(x, UpTo(s, i - 1)) = (s[i] # Begin)
      BY DEF Framed
    <3>1. i = 1 /\ s[i] = m
      BY <2>1 DEF s
    <3>2. FrameAfter(x, UpTo(s, i - 1)) = x
      BY <2>4, <3>1, FramesOfNothing
    <3>3. (m = End) = (m # Begin)
      BY <2>1
    <3> QED BY <2>5, <3>1, <3>2, <3>3
  <2> QED BY <2>2, <2>3, <2>5 DEF s
<1>2. Begin # End
  BY DEF Begin, End
<1>3. FrameAfter(b, <<Begin>>) = TRUE /\ FrameAfter(b, <<End>>) = FALSE
  BY <1>1, <1>2
<1>4. FALSE = (Begin = End) /\ TRUE = (End = End)
  BY <1>2
<1>5. Framed(FALSE, <<Begin>>)
  BY <1>1, <1>4
<1>6. Framed(TRUE, <<End>>)
  BY <1>1, <1>4
<1> QED BY <1>3, <1>5, <1>6
(* A stream that starts in the frame state b leaves y. *)
Frames(b, s, y) == Framed(b, s) /\ FrameAfter(b, s) = y

LEMMA FramesJoin ==
  ASSUME NEW s \in Seq(Int), NEW t \in Seq(Int), NEW b \in BOOLEAN, NEW x \in BOOLEAN, NEW y,
         Frames(b, s, x), Frames(x, t, y)
  PROVE  Frames(b, s \o t, y)
<1>1. FrameAfter(b, s \o t) = FrameAfter(FrameAfter(b, s), t)
  BY FrameAfterConcat
<1>2. Framed(b, s \o t) <=> Framed(b, s) /\ Framed(FrameAfter(b, s), t)
  BY FramedConcat
<1> QED BY <1>1, <1>2 DEF Frames

LEMMA FramesSplit ==
  ASSUME NEW s \in Seq(Int), NEW t \in Seq(Int), NEW b \in BOOLEAN, NEW y,
         Frames(b, s \o t, y)
  PROVE  /\ FrameAfter(b, s) \in BOOLEAN /\ Framed(b, s)
         /\ Frames(FrameAfter(b, s), t, y)
<1>1. FrameAfter(b, s \o t) = FrameAfter(FrameAfter(b, s), t)
  BY FrameAfterConcat
<1>2. Framed(b, s \o t) <=> Framed(b, s) /\ Framed(FrameAfter(b, s), t)
  BY FramedConcat
<1>3. FrameAfter(b, s) \in BOOLEAN
  BY DEF FrameAfter
<1> QED BY <1>1, <1>2, <1>3 DEF Frames

LEMMA FramesSimple ==
  /\ \A b \in BOOLEAN : Frames(b, <<>>, b)
  /\ \A s \in Seq(Pos) : Frames(TRUE, s, TRUE)
  /\ Frames(FALSE, <<Begin>>, TRUE) /\ Frames(TRUE, <<End>>, FALSE)
  BY FramesOfNothing, FramesOfBytes, FramesOfMarks DEF Frames

LEMMA IntAssociative ==
  ASSUME NEW s \in Seq(Int), NEW t \in Seq(Int), NEW u \in Seq(Int)
  PROVE  (s \o t) \o u = s \o (t \o u)
<1> DEFINE S == Int
<1>1. s \in Seq(S) /\ t \in Seq(S) /\ u \in Seq(S)
  OBVIOUS
<1> HIDE DEF S
<1> QED BY <1>1, ConcatAssociative

LEMMA PosAssociative ==
  ASSUME NEW s \in Seq(Pos), NEW t \in Seq(Pos), NEW u \in Seq(Pos)
  PROVE  (s \o t) \o u = s \o (t \o u)
  BY ConcatAssociative

LEMMA IntConcat == ASSUME NEW s \in Seq(Int), NEW t \in Seq(Int) PROVE s \o t \in Seq(Int)
  BY ConcatProperties

LEMMA PosConcat == ASSUME NEW s \in Seq(Pos), NEW t \in Seq(Pos) PROVE s \o t \in Seq(Pos)
  BY ConcatProperties

-----------------------------------------------------------------------------
(***************************************************************************)
(* The inductive invariant.  What went into the compressor, whether it is  *)
(* in the file already or not, is a stream of frames whose bytes are those *)
(* written up to the cache; a reader has taken a stream apart from the     *)
(* start, and the decompressor is within a frame exactly when the rest of  *)
(* the stream is what remains of one.                                      *)
(***************************************************************************)
WrittenTypeOK ==
    /\ open \in {"write", "closed", "read"} /\ accepted \in Nat
    /\ todo \in Seq(Pos) /\ cache \in Seq(Pos) /\ Len(cache) < InSize
    /\ cctx \in Seq(Int) /\ file \in Seq(Int)
    /\ started \in BOOLEAN /\ cframe \in BOOLEAN /\ damaged \in BOOLEAN

ReadersTypeOK ==
    /\ fpos \in Nat /\ wanted \in Nat
    /\ input \in Seq(Int) /\ dctx \in Seq(Pos) /\ output \in Seq(Pos) /\ got \in Seq(Pos)
    /\ remaining \in BOOLEAN /\ dframe \in BOOLEAN
    /\ read_failed \in BOOLEAN /\ astray \in BOOLEAN

Numbers(n) == [i \in 1..n |-> i]
Stream == file \o cctx

WriteInv ==
    ~damaged =>
        /\ (Bytes(Stream) \o cache) \o todo = Numbers(accepted)
        /\ Frames(FALSE, Stream, cframe)
        /\ ~started => cache = <<>> /\ cctx = <<>> /\ cframe = FALSE
        /\ open # "write" => todo = <<>> /\ ~started

Rest == (IF remaining THEN input ELSE <<>>) \o From(file, fpos)

ReadInv ==
    open = "read" /\ ~damaged /\ ~astray =>
        /\ ~read_failed
        /\ ((got \o output) \o dctx) \o Bytes(Rest) = Bytes(file)
        /\ Frames(dframe, Rest, FALSE)
        /\ dctx # <<>> => dframe
        /\ fpos = 0 => ~remaining /\ ~dframe
        /\ fpos <= Len(file)

FsInv == WrittenTypeOK /\ ReadersTypeOK /\ WriteInv /\ ReadInv

LEMMA PosInInt == ASSUME NEW s \in Seq(Pos) PROVE s \in Seq(Int)
<1>1. Pos \subseteq Int
  BY DEF Pos
<1> QED BY <1>1, SeqMonotonic

(* What one call adds to the stream: perhaps a Begin, the data, and an End *)
(* when the frame ends.                                                    *)
LEMMA ChunkFrames ==
  ASSUME NEW b \in BOOLEAN, NEW end \in BOOLEAN, NEW data \in Seq(Pos)
  PROVE  LET start == IF b \/ (data = <<>> /\ ~end) THEN <<>> ELSE <<Begin>>
             stop  == IF end THEN <<End>> ELSE <<>>
         IN  /\ start \in Seq(Int) /\ stop \in Seq(Int)
             /\ Bytes(start) = <<>> /\ Bytes(stop) = <<>>
             /\ Frames(b, (start \o data) \o stop, ~end /\ (b \/ start # <<>>))
<1> DEFINE start == IF b \/ (data = <<>> /\ ~end) THEN <<>> ELSE <<Begin>>
           stop == IF end THEN <<End>> ELSE <<>>
           x == b \/ start # <<>>
<1>1. start \in Seq(Int) /\ stop \in Seq(Int)
  <2>1. <<Begin>> \in Seq(Int) /\ <<End>> \in Seq(Int) /\ <<>> \in Seq(Int)
    BY EmptySeq DEF Begin, End
  <2> QED BY <2>1
<1>2. Bytes(start) = <<>> /\ Bytes(stop) = <<>>
  BY BytesEmpty, BytesOfMark
<1>3. x \in BOOLEAN /\ (~x => data = <<>> /\ ~end)
  <2>1. <<Begin>> # <<>>
    OBVIOUS
  <2> QED BY <2>1
<1>4. Frames(b, start, x)
  <2>1. CASE start = <<>>
    BY <2>1, FramesSimple
  <2>2. CASE start # <<>>
    <3>1. b = FALSE /\ start = <<Begin>> /\ x = TRUE
      BY <2>2
    <3> HIDE DEF start, x
    <3> QED BY <3>1, FramesSimple
  <2> QED BY <2>1, <2>2
<1> HIDE DEF start, x
<1>5. Frames(x, data, x)
  <2>1. CASE x
    <3>1. x = TRUE
      BY <1>3, <2>1
    <3> QED BY <3>1, FramesSimple
  <2>2. CASE ~x
    BY <1>3, <2>2, FramesSimple
  <2> QED BY <2>1, <2>2
<1>6. Frames(x, stop, ~end /\ x)
  <2>1. CASE end
    <3>1. x = TRUE /\ stop = <<End>> /\ (~end /\ x) = FALSE
      BY <1>3, <2>1
    <3> HIDE DEF stop
    <3> QED BY <3>1, FramesSimple
  <2>2. CASE ~end
    <3>1. stop = <<>> /\ (~end /\ x) = x
      BY <1>3, <2>2
    <3> HIDE DEF stop
    <3> QED BY <1>3, <3>1, FramesSimple
  <2> QED BY <2>1, <2>2
<1> HIDE DEF stop
<1>7. data \in Seq(Int) /\ start \o data \in Seq(Int)
  BY <1>1, PosInInt, IntConcat
<1>8. Frames(b, start \o data, x)
  BY <1>1, <1>3, <1>4, <1>5, <1>7, FramesJoin
<1>9. Frames(b, (start \o data) \o stop, ~end /\ x)
  BY <1>1, <1>3, <1>6, <1>7, <1>8, FramesJoin
<1> QED BY <1>1, <1>2, <1>9 DEF start, stop, x

(* What the compressor gives out goes to the file in order. *)
LEMMA CompressAdds ==
  ASSUME WrittenTypeOK, Frames(FALSE, Stream, cframe),
         NEW data \in Seq(Pos), NEW end \in BOOLEAN, Compress(data, end)
  PROVE  /\ file' \in Seq(Int) /\ cctx' \in Seq(Int) /\ cframe' \in BOOLEAN
         /\ damaged' = damaged
         /\ Bytes(Stream') = Bytes(Stream) \o data
         /\ Frames(FALSE, Stream', cframe')
         /\ end => cctx' = <<>> /\ cframe' = FALSE
<1> DEFINE start == IF cframe \/ (data = <<>> /\ ~end) THEN <<>> ELSE <<Begin>>
           stop == IF end THEN <<End>> ELSE <<>>
           x == (start \o data) \o stop
           all == ((cctx \o start) \o data) \o stop
<1>1. PICK n \in (IF end THEN {Len(all)} ELSE 0..Len(all)) :
        /\ file' = file \o UpTo(all, n)
        /\ cctx' = From(all, n)
        /\ cframe' = (~end /\ (cframe \/ start # <<>>))
        /\ UNCHANGED damaged
  BY DEF Compress
<1>2. file \in Seq(Int) /\ cctx \in Seq(Int) /\ cframe \in BOOLEAN
  BY DEF WrittenTypeOK
<1>3. /\ start \in Seq(Int) /\ stop \in Seq(Int)
      /\ Bytes(start) = <<>> /\ Bytes(stop) = <<>>
      /\ Frames(cframe, x, ~end /\ (cframe \/ start # <<>>))
  BY <1>2, ChunkFrames
<1>4. cframe' \in BOOLEAN /\ Frames(cframe, x, cframe') /\ (end => cframe' = FALSE)
  BY <1>1, <1>2, <1>3
<1>5. n \in (IF end THEN {Len(all)} ELSE 0..Len(all))
  BY <1>1
<1>6. end => n = Len(all)
  BY <1>1
<1> HIDE DEF start, stop
<1>7. start \in Seq(Int) /\ stop \in Seq(Int) /\ data \in Seq(Int)
  BY <1>3, PosInInt
<1>8. start \o data \in Seq(Int) /\ x \in Seq(Int)
  BY <1>7, IntConcat
<1>9. Bytes(x) = data
  <2>1. Bytes(start \o data) = Bytes(start) \o Bytes(data)
    BY <1>7, BytesConcat
  <2>2. Bytes(x) = Bytes(start \o data) \o Bytes(stop)
    BY <1>7, <1>8, BytesConcat
  <2>3. Bytes(data) = data
    BY BytesOfBytes
  <2>4. <<>> \o data = data /\ data \o <<>> = data
    BY ConcatEmptySeq
  <2> QED BY <1>3, <2>1, <2>2, <2>3, <2>4
<1>10. all = cctx \o x /\ all \in Seq(Int)
  <2>1. (cctx \o start) \o data = cctx \o (start \o data)
    BY <1>2, <1>7, IntAssociative
  <2>2. (cctx \o (start \o data)) \o stop = cctx \o x
    BY <1>2, <1>7, <1>8, IntAssociative
  <2>3. cctx \o x \in Seq(Int)
    BY <1>2, <1>8, IntConcat
  <2> QED BY <2>1, <2>2, <2>3
<1> HIDE DEF x, all
<1>11. Len(all) \in Nat /\ n \in Nat
  <2>1. all \in Seq(Int)
    BY <1>10
  <2>2. Len(all) \in Nat
    BY <2>1, LenProperties
  <2> QED BY <1>5, <2>2
<1>12. /\ UpTo(all, n) \in Seq(Int) /\ From(all, n) \in Seq(Int)
       /\ UpTo(all, n) \o From(all, n) = all
       /\ n >= Len(all) => From(all, n) = <<>>
  BY <1>10, <1>11, Pieces
<1>13. file' \in Seq(Int) /\ cctx' \in Seq(Int)
  BY <1>1, <1>2, <1>12, IntConcat
<1>14. Stream \in Seq(Int) /\ Stream' = Stream \o x
  <2> DEFINE u == UpTo(all, n)
             v == From(all, n)
  <2>0. u \in Seq(Int) /\ v \in Seq(Int) /\ file \in Seq(Int)
    BY <1>2, <1>12
  <2>00. u \o v = all
    BY <1>12
  <2> HIDE DEF u, v
  <2>01. (file \o u) \o v = file \o (u \o v)
    BY <2>0, IntAssociative
  <2>1. (file \o u) \o v = file \o all
    BY <2>00, <2>01
  <2>2. (file \o cctx) \o x = file \o (cctx \o x)
    BY <1>2, <1>8, IntAssociative
  <2>3. Stream \in Seq(Int)
    BY <1>2, IntConcat DEF Stream
  <2>4. Stream' = (file \o u) \o v
    BY <1>1 DEF Stream, u, v
  <2> QED BY <1>10, <2>1, <2>2, <2>3, <2>4 DEF Stream
<1>15. Bytes(Stream') = Bytes(Stream) \o data
  BY <1>8, <1>9, <1>14, BytesConcat
<1>16. Frames(FALSE, Stream', cframe')
  BY <1>2, <1>4, <1>8, <1>14, FramesJoin
<1>17. end => cctx' = <<>>
  <2>1. end => n >= Len(all)
    BY <1>6, <1>11
  <2> QED BY <1>1, <1>12, <2>1
<1> QED BY <1>1, <1>4, <1>13, <1>15, <1>16, <1>17
-----------------------------------------------------------------------------
(***************************************************************************)
(* The writer keeps the invariant.                                         *)
(***************************************************************************)
LEMMA NumbersAdd ==
  ASSUME NEW a \in Nat, NEW n \in Nat
  PROVE  /\ Numbers(a) \in Seq(Pos) /\ [i \in 1..n |-> a + i] \in Seq(Pos)
         /\ Numbers(a) \o [i \in 1..n |-> a + i] = Numbers(a + n)
<1> DEFINE s == Numbers(a)
           t == [i \in 1..n |-> a + i]
           u == Numbers(a + n)
           c == s \o t
<1>1. /\ s \in Seq(Pos) /\ Len(s) = a /\ \A i \in 1..a : s[i] = i
      /\ t \in Seq(Pos) /\ Len(t) = n /\ \A i \in 1..n : t[i] = a + i
      /\ u \in Seq(Pos) /\ Len(u) = a + n /\ \A i \in 1..a + n : u[i] = i
  BY DEF Numbers, Pos
<1> HIDE DEF s, t, u
<1>2. /\ c \in Seq(Pos) /\ Len(c) = a + n
      /\ \A i \in 1..a + n : c[i] = IF i <= a THEN s[i] ELSE t[i - a]
  BY <1>1, ConcatProperties
<1> HIDE DEF c
<1>3. ASSUME NEW i \in 1..a + n PROVE c[i] = u[i]
  BY <1>1, <1>2
<1>4. c = u
  BY <1>1, <1>2, <1>3, SeqEqual
<1> QED BY <1>1, <1>4 DEF s, t, u, c

LEMMA NothingWritten == Numbers(0) = <<>>
<1>1. Numbers(0) \in Seq(Pos) /\ Len(Numbers(0)) = 0
  BY DEF Numbers
<1> QED BY <1>1, EmptySeq

LEMMA InitFsInv == FsInit => FsInv
<1> SUFFICES ASSUME FsInit PROVE FsInv
  OBVIOUS
<1>1. InSize > 0 /\ InSize \in Nat
  BY FsAssumption
<1>2. /\ <<>> \in Seq(Pos) /\ <<>> \in Seq(Int) /\ Len(<<>>) = 0
      /\ <<>> \o <<>> = <<>>
  BY EmptySeq, ConcatEmptySeq
<1>3. WrittenTypeOK /\ ReadersTypeOK
  BY <1>1, <1>2 DEF FsInit, WrittenTypeOK, ReadersTypeOK
<1>4. WriteInv
  <2>1. Stream = <<>> /\ Frames(FALSE, <<>>, FALSE)
    BY <1>2, FramesSimple DEF FsInit, Stream
  <2> QED BY <1>2, <2>1, BytesEmpty, NothingWritten DEF FsInit, WriteInv
<1> QED BY <1>3, <1>4 DEF FsInit, FsInv, ReadInv

(* What the invariant says of a file that is written, as plain facts. *)
LEMMA WriterFacts ==
  ASSUME FsInv, ~damaged
  PROVE  /\ Bytes(Stream) \in Seq(Pos) /\ todo \in Seq(Pos) /\ cache \in Seq(Pos)
         /\ (Bytes(Stream) \o cache) \o todo = Numbers(accepted)
         /\ Frames(FALSE, Stream, cframe)
<1>1. file \in Seq(Int) /\ cctx \in Seq(Int)
  BY DEF FsInv, WrittenTypeOK
<1>2. Stream \in Seq(Int)
  BY <1>1, IntConcat DEF Stream
<1>3. Bytes(Stream) \in Seq(Pos)
  BY <1>2, BytesType
<1> QED BY <1>3 DEF FsInv, WrittenTypeOK, WriteInv

LEMMA WriteKeeps ==
  ASSUME FsInv, ~damaged, NEW n \in 1..MaxBytes, Write(n)
  PROVE  FsInv'
<1>1. MaxBytes \in Nat /\ n \in Nat /\ accepted \in Nat
  BY FsAssumption DEF FsInv, WrittenTypeOK
<1>2. /\ todo' = [i \in 1..n |-> accepted + i] /\ accepted' = accepted + n
      /\ todo = <<>> /\ open = "write"
      /\ UNCHANGED <<open, cache, started, cctx, cframe, file, damaged, readers>>
  BY DEF Write
<1> DEFINE new == [i \in 1..n |-> accepted + i]
<1>3. /\ new \in Seq(Pos) /\ Numbers(accepted) \o new = Numbers(accepted + n)
  BY <1>1, NumbersAdd
<1>4. todo' = new
  BY <1>2
<1> HIDE DEF new
<1>5. Bytes(Stream) \o cache = Numbers(accepted)
  <2>1. Bytes(Stream) \o cache \in Seq(Pos)
    BY WriterFacts, PosConcat
  <2> QED BY <1>2, <2>1, WriterFacts, ConcatEmptySeq
<1>6. Stream' = Stream
  BY <1>2 DEF Stream
<1>7. WriteInv'
  BY <1>2, <1>3, <1>4, <1>5, <1>6 DEF FsInv, WriteInv
<1>8. WrittenTypeOK'
  <2>1. accepted' \in Nat
    BY <1>1, <1>2
  <2>2. todo' \in Seq(Pos)
    BY <1>3, <1>4
  <2> QED BY <1>2, <2>1, <2>2 DEF FsInv, WrittenTypeOK
<1>9. ReadersTypeOK'
  BY <1>2 DEF FsInv, ReadersTypeOK, readers
<1> QED BY <1>2, <1>7, <1>8, <1>9 DEF FsInv, ReadInv

LEMMA WritePieceKeeps == ASSUME FsInv, ~damaged, WritePiece PROVE FsInv'
<1> DEFINE room == InSize - Len(cache)
           B == Bytes(Stream)
<1>1. /\ open = "write" /\ started' = TRUE
      /\ UNCHANGED <<open, accepted, readers>>
  BY DEF WritePiece
<1>2. ReadersTypeOK' /\ ReadInv'
  BY <1>1 DEF FsInv, ReadersTypeOK, ReadInv, readers
<1>3. /\ B \in Seq(Pos) /\ todo \in Seq(Pos) /\ cache \in Seq(Pos)
      /\ (B \o cache) \o todo = Numbers(accepted)
      /\ Frames(FALSE, Stream, cframe)
  BY WriterFacts
<1>4. InSize \in Nat /\ Len(cache) \in Nat /\ Len(todo) \in Nat /\ Len(cache) < InSize /\ InSize > 0
  BY <1>3, FsAssumption, LenProperties DEF FsInv, WrittenTypeOK
<1>5. room \in Nat
  BY <1>4
<1>6. <<>> \in Seq(Pos) /\ Len(<<>>) = 0
  BY EmptySeq
<1>7. WrittenTypeOK
  BY DEF FsInv
<1>8. ASSUME Len(todo) < room, cache' = cache \o todo, todo' = <<>>,
             UNCHANGED <<cctx, cframe, file, damaged>>
      PROVE  FsInv'
  <2>1. /\ cache \o todo \in Seq(Pos) /\ Len(cache \o todo) = Len(cache) + Len(todo)
        /\ B \o (cache \o todo) = (B \o cache) \o todo
    BY <1>3, PosConcat, PosAssociative, ConcatProperties
  <2>2. B \o (cache \o todo) \in Seq(Pos)
    BY <1>3, <2>1, PosConcat
  <2>3. (B \o (cache \o todo)) \o <<>> = Numbers(accepted)
    BY <1>3, <2>1, <2>2, ConcatEmptySeq
  <2>4. Stream' = Stream
    BY <1>8 DEF Stream
  <2> HIDE DEF B
  <2>5. Len(cache \o todo) < InSize
    BY <1>4, <1>8, <2>1
  <2>6. WrittenTypeOK'
    BY <1>1, <1>6, <1>7, <1>8, <2>1, <2>5 DEF WrittenTypeOK
  <2>7. WriteInv'
    BY <1>1, <1>3, <1>8, <2>3, <2>4 DEF WriteInv, B
  <2> QED BY <1>2, <2>6, <2>7 DEF FsInv
<1>9. ASSUME Compress(FullPiece(room), FALSE), todo' = From(todo, room), cache' = <<>>
      PROVE  FsInv'
  <2> DEFINE u == UpTo(todo, room)
             v == From(todo, room)
  <2> HIDE DEF room
  <2>1. u \in Seq(Pos) /\ v \in Seq(Pos) /\ u \o v = todo
    BY <1>3, <1>5, Pieces
  <2>2. FullPiece(room) = cache \o u
    BY <2>1, ConcatEmptySeq DEF FullPiece
  <2> HIDE DEF u, v
  <2>3. cache \o u \in Seq(Pos) /\ Compress(cache \o u, FALSE)
    BY <1>3, <1>9, <2>1, <2>2, PosConcat
  <2>4. /\ file' \in Seq(Int) /\ cctx' \in Seq(Int) /\ cframe' \in BOOLEAN
        /\ damaged' = damaged
        /\ Bytes(Stream') = B \o (cache \o u)
        /\ Frames(FALSE, Stream', cframe')
    BY <1>3, <1>7, <2>3, CompressAdds
  <2>5. (B \o (cache \o u)) \o v = Numbers(accepted)
    <3>1. B \in Seq(Pos) /\ cache \in Seq(Pos) /\ u \in Seq(Pos) /\ v \in Seq(Pos)
      BY <1>3, <2>1
    <3> HIDE DEF B
    <3>2. B \o (cache \o u) = (B \o cache) \o u
      BY <3>1, PosAssociative
    <3>3. B \o cache \in Seq(Pos)
      BY <3>1, PosConcat
    <3> DEFINE c == B \o cache
    <3>4. c \in Seq(Pos)
      BY <3>3
    <3> HIDE DEF c
    <3>5. (c \o u) \o v = c \o (u \o v)
      BY <3>1, <3>4, PosAssociative
    <3> QED BY <1>3, <2>1, <3>2, <3>5 DEF B, c
  <2>6. B \o (cache \o u) \in Seq(Pos)
    BY <1>3, <2>3, PosConcat
  <2>7. ((B \o (cache \o u)) \o <<>>) \o v = Numbers(accepted)
    BY <2>5, <2>6, ConcatEmptySeq
  <2>8. todo' = v
    BY <1>9 DEF v
  <2>9. WrittenTypeOK'
    BY <1>1, <1>4, <1>6, <1>7, <1>9, <2>1, <2>4, <2>8 DEF WrittenTypeOK
  <2> HIDE DEF B
  <2>10. WriteInv'
    BY <1>1, <1>9, <2>4, <2>7, <2>8 DEF WriteInv
  <2> QED BY <1>2, <2>9, <2>10 DEF FsInv
<1>10. ASSUME CompressFails, todo' = <<>>, cache' = <<>> PROVE FsInv'
  <2>1. damaged' /\ WrittenTypeOK'
    BY <1>1, <1>4, <1>6, <1>7, <1>10 DEF CompressFails, WrittenTypeOK
  <2> QED BY <1>2, <2>1 DEF FsInv, WriteInv
<1> QED BY <1>8, <1>9, <1>10 DEF WritePiece

(* The end of a frame: everything up to here is in the file. *)
LEMMA FlushKeeps ==
  ASSUME FsInv, ~damaged, todo = <<>>, Flush
  PROVE  /\ file' \in Seq(Int) /\ cctx' \in Seq(Int) /\ cframe' \in BOOLEAN
         /\ damaged' \in BOOLEAN /\ cache' = <<>>
         /\ ~damaged' => /\ Bytes(Stream') = Numbers(accepted)
                         /\ Frames(FALSE, Stream', FALSE)
                         /\ cctx' = <<>> /\ cframe' = FALSE
<1> DEFINE B == Bytes(Stream)
<1>1. /\ B \in Seq(Pos) /\ cache \in Seq(Pos)
      /\ Frames(FALSE, Stream, cframe)
  BY WriterFacts
<1>2. B \o cache = Numbers(accepted)
  <2>1. B \o cache \in Seq(Pos)
    BY <1>1, PosConcat
  <2> HIDE DEF B
  <2> QED BY <2>1, WriterFacts, ConcatEmptySeq DEF B
<1>3. WrittenTypeOK
  BY DEF FsInv
<1>4. ASSUME ~started, UNCHANGED <<cache, cctx, cframe, file, damaged>>
      PROVE  /\ cache' = <<>> /\ cctx' = <<>> /\ cframe' = FALSE
             /\ Bytes(Stream') = Numbers(accepted) /\ Frames(FALSE, Stream', FALSE)
  <2>1. cache = <<>> /\ cctx = <<>> /\ cframe = FALSE
    BY <1>4 DEF FsInv, WriteInv
  <2>2. Stream' = Stream
    BY <1>4 DEF Stream
  <2> HIDE DEF B
  <2>3. B = Numbers(accepted)
    BY <1>1, <1>2, <2>1, ConcatEmptySeq
  <2> QED BY <1>1, <1>4, <2>1, <2>2, <2>3 DEF B
<1>5. ASSUME Compress(cache, TRUE)
      PROVE  /\ file' \in Seq(Int) /\ cctx' = <<>> /\ cframe' = FALSE /\ damaged' = damaged
             /\ Bytes(Stream') = Numbers(accepted) /\ Frames(FALSE, Stream', FALSE)
  <2>1. /\ file' \in Seq(Int) /\ damaged' = damaged /\ cctx' = <<>> /\ cframe' = FALSE
        /\ Bytes(Stream') = B \o cache
        /\ Frames(FALSE, Stream', cframe')
    BY <1>1, <1>3, <1>5, CompressAdds
  <2> QED BY <1>2, <2>1
<1>6. <<>> \in Seq(Int)
  BY EmptySeq
<1>7. CASE ~started
  BY <1>3, <1>4, <1>7 DEF Flush, WrittenTypeOK
<1>8. CASE started /\ Compress(cache, TRUE)
  BY <1>3, <1>5, <1>6, <1>8 DEF Flush, WrittenTypeOK
<1>9. CASE started /\ CompressFails
  BY <1>3, <1>6, <1>9 DEF Flush, CompressFails, WrittenTypeOK
<1> QED BY <1>7, <1>8, <1>9 DEF Flush

LEMMA FlushedWriteInv ==
  ASSUME FsInv, ~damaged, todo = <<>>, Flush, UNCHANGED <<accepted, todo>>,
         started' \in BOOLEAN, open' \in {"write", "closed"},
         open' = "closed" => ~started', UNCHANGED readers
  PROVE  FsInv'
<1>1. <<>> \in Seq(Pos) /\ Len(<<>>) = 0 /\ InSize \in Nat /\ InSize > 0
  BY EmptySeq, FsAssumption
<1>2. accepted \in Nat
  BY DEF FsInv, WrittenTypeOK
<1>3. WrittenTypeOK'
  BY <1>1, <1>2, FlushKeeps DEF WrittenTypeOK
<1>4. WriteInv'
  <2>1. Numbers(accepted) \in Seq(Pos)
    BY <1>2, NumbersAdd
  <2>2. (Numbers(accepted) \o <<>>) \o <<>> = Numbers(accepted)
    BY <2>1, ConcatEmptySeq
  <2> QED BY <2>2, FlushKeeps DEF WriteInv
<1>5. ReadersTypeOK'
  BY DEF FsInv, ReadersTypeOK, readers
<1> QED BY <1>3, <1>4, <1>5 DEF FsInv, ReadInv

LEMMA SeekWriteKeeps == ASSUME FsInv, ~damaged, SeekWrite PROVE FsInv'
<1>1. started \in BOOLEAN
  BY DEF FsInv, WrittenTypeOK
<1> QED BY <1>1, FlushedWriteInv DEF SeekWrite

LEMMA CloseWriteKeeps == ASSUME FsInv, ~damaged, CloseWrite PROVE FsInv'
  BY FlushedWriteInv DEF CloseWrite
-----------------------------------------------------------------------------
(***************************************************************************)
(* The reader keeps the invariant.                                         *)
(***************************************************************************)
LEMMA FromStart == ASSUME NEW s \in Seq(Int) PROVE From(s, 0) = s
<1>1. SubSeq(s, 1, Len(s)) = s
  BY SubSeqFull
<1> QED BY <1>1 DEF From

(* A piece of the file and what remains behind it. *)
LEMMA NextPiece ==
  ASSUME NEW s \in Seq(Int), NEW f \in 0..Len(s), NEW d \in Nat
  PROVE  LET piece == UpTo(From(s, f), d)
         IN  /\ f + Len(piece) \in 0..Len(s)
             /\ piece \o From(s, f + Len(piece)) = From(s, f)
<1> DEFINE r == From(s, f)
           piece == UpTo(r, d)
           k == Len(piece)
           a == SubSeq(s, f + 1, f + k)
<1>1. Len(s) \in Nat /\ f \in Nat /\ \A i \in 1..Len(s) : s[i] \in Int
  BY LenProperties, ElementOfSeq
<1>2. /\ r \in Seq(Int) /\ Len(r) = Len(s) - f
      /\ \A i \in 1..Len(s) - f : r[i] = s[f + i]
  <2> DEFINE q == SubSeq(s, f + 1, Len(s))
  <2>1. /\ q \in Seq(Int)
        /\ Len(q) = IF f + 1 <= Len(s) THEN Len(s) - (f + 1) + 1 ELSE 0
        /\ \A i \in 1..Len(s) - (f + 1) + 1 : q[i] = s[f + 1 + i - 1]
    BY <1>1, SubSeqProperties
  <2> HIDE DEF q
  <2>2. Len(q) = Len(s) - f
    BY <1>1, <2>1
  <2>3. ASSUME NEW i \in 1..Len(s) - f PROVE q[i] = s[f + i]
    BY <1>1, <2>1
  <2>4. r = q
    BY DEF From, q
  <2> HIDE DEF r
  <2> QED BY <2>1, <2>2, <2>3, <2>4
<1> HIDE DEF r
<1>3. piece \in Seq(Int) /\ k = (IF d < Len(r) THEN d ELSE Len(r))
  BY <1>2, Pieces
<1>4. k \in 0..Len(r) /\ k \in Nat
  BY <1>1, <1>2, <1>3
<1>5. piece = UpTo(r, k)
  <2>1. piece = SubSeq(r, 1, IF d < Len(r) THEN d ELSE Len(r))
    BY DEF UpTo
  <2>2. UpTo(r, k) = SubSeq(r, 1, IF k < Len(r) THEN k ELSE Len(r))
    BY DEF UpTo
  <2> HIDE DEF piece, k
  <2>3. Len(r) \in Nat
    BY <1>2, LenProperties
  <2>4. (IF k < Len(r) THEN k ELSE Len(r)) = k
    BY <1>4, <2>3
  <2> QED BY <1>3, <2>1, <2>2, <2>4
<1>6. \A i \in 1..k : piece[i] = r[i]
  <2> HIDE DEF k, piece
  <2> QED BY <1>2, <1>4, <1>5, PieceElements
<1> HIDE DEF piece
<1>7. Len(piece) = k
  OBVIOUS
<1> HIDE DEF k
<1>8. /\ a \in Seq(Int) /\ Len(a) = (IF f + 1 <= f + k THEN (f + k) - (f + 1) + 1 ELSE 0)
      /\ \A i \in 1..(f + k) - (f + 1) + 1 : a[i] = s[f + 1 + i - 1]
  <2>1. \A i \in f + 1..f + k : s[i] \in Int
    BY <1>1, <1>2, <1>4
  <2>2. f + 1 \in Int /\ f + k \in Int
    BY <1>1, <1>4
  <2> QED BY <2>1, <2>2, SubSeqProperties
<1> HIDE DEF a
<1>9. Len(a) = k
  BY <1>1, <1>4, <1>8
<1>10. ASSUME NEW i \in 1..k PROVE piece[i] = a[i]
  <2>1. a[i] = s[f + i]
    BY <1>1, <1>4, <1>8
  <2>2. r[i] = s[f + i]
    BY <1>1, <1>2, <1>4
  <2> QED BY <1>6, <2>1, <2>2
<1>11. piece = a
  BY <1>3, <1>7, <1>8, <1>9, <1>10, SeqEqual
<1>12. f + k \in 0..Len(s)
  BY <1>1, <1>2, <1>4
<1>13. a \o From(s, f + k) = r
  <2>1. f + 1 \in 1..Len(s) + 1 /\ f + k \in (f + 1) - 1..Len(s) /\ Len(s) \in f + k..Len(s)
    BY <1>1, <1>4, <1>12
  <2>2. SubSeq(s, f + 1, f + k) \o SubSeq(s, (f + k) + 1, Len(s)) = SubSeq(s, f + 1, Len(s))
    BY <2>1, ConcatAdjacentSubSeq
  <2> QED BY <2>2 DEF a, From, r
<1> QED BY <1>7, <1>11, <1>12, <1>13 DEF piece, k, r

(* A frame that is begun and not ended is there. *)
LEMMA FramedWithin ==
  ASSUME NEW b \in BOOLEAN, NEW s \in Seq(Int), Framed(b, s),
         \A i \in 1..Len(s) : s[i] # End, b \/ s # <<>>
  PROVE  FrameAfter(b, s)
<1>1. CASE b
  BY <1>1 DEF FrameAfter
<1>2. CASE ~b
  <2>1. Len(s) \in Nat /\ 1 \in 1..Len(s) /\ 0 \in 0..Len(s) /\ 0 \in Nat /\ b = FALSE
    BY <1>2, EmptySeq, LenProperties
  <2>2. FrameAfter(b, UpTo(s, 1 - 1)) = (s[1] # Begin)
    BY <2>1 DEF Framed
  <2>3. UpTo(s, 1 - 1) = <<>>
    <3>1. UpTo(s, 0) \in Seq(Int) /\ Len(UpTo(s, 0)) = 0
      BY <2>1, Pieces, PieceElements
    <3> QED BY <3>1, EmptySeq
  <2>4. FrameAfter(b, <<>>) = b
    BY FramesOfNothing
  <2>5. s[1] = Begin
    BY <2>1, <2>2, <2>3, <2>4
  <2>6. \A j \in 1 + 1..Len(s) : s[j] # End
    BY <2>1
  <2> QED BY <2>1, <2>5, <2>6 DEF FrameAfter
<1> QED BY <1>1, <1>2

(* What the closed file holds. *)
LEMMA ClosedFacts ==
  ASSUME FsInv, ~damaged, open # "write"
  PROVE  /\ file \in Seq(Int) /\ todo = <<>> /\ cache = <<>> /\ Stream = file
         /\ Frames(FALSE, file, FALSE) /\ Bytes(file) = Numbers(accepted)
<1>1. file \in Seq(Int) /\ todo = <<>> /\ cache = <<>> /\ cctx = <<>> /\ cframe = FALSE
  BY DEF FsInv, WrittenTypeOK, WriteInv
<1>2. Stream = file
  BY <1>1, ConcatEmptySeq DEF Stream
<1>3. Frames(FALSE, file, FALSE)
  BY <1>1, <1>2, WriterFacts
<1>4. Bytes(file) = Numbers(accepted)
  <2>1. Bytes(file) \in Seq(Pos) /\ (Bytes(file) \o <<>>) \o <<>> = Numbers(accepted)
    BY <1>1, <1>2, WriterFacts
  <2> QED BY <2>1, ConcatEmptySeq
<1> QED BY <1>1, <1>2, <1>3, <1>4

(* A reader at the start of a frame that is at the start of the file. *)
LEMMA FromTheStart ==
  ASSUME FsInv, ~damaged, open # "write", UNCHANGED file,
         fpos' = 0, ~remaining', ~dframe', dctx' = <<>>, output' = <<>>, got' = <<>>, ~read_failed',
         dframe' \in BOOLEAN
  PROVE  ReadInv'
<1>1. file \in Seq(Int) /\ Frames(FALSE, file, FALSE)
  BY ClosedFacts
<1>2. From(file, 0) = file /\ <<>> \o file = file /\ Len(file) \in Nat
  BY <1>1, FromStart, ConcatEmptySeq, LenProperties
<1>3. Rest' = file
  BY <1>2 DEF Rest
<1>4. Bytes(file) \in Seq(Pos)
  BY <1>1, BytesType
<1>5. ((<<>> \o <<>>) \o <<>>) \o Bytes(file) = Bytes(file)
  BY <1>4, ConcatEmptySeq
<1>6. dframe' = FALSE
  OBVIOUS
<1>7. ((got' \o output') \o dctx') \o Bytes(Rest') = Bytes(file')
  BY <1>3, <1>5
<1>8. Frames(dframe', Rest', FALSE)
  BY <1>1, <1>3, <1>6
<1>9. 0 <= Len(file')
  BY <1>2
<1> QED BY <1>7, <1>8, <1>9 DEF ReadInv

(* The writer's part is left alone. *)
LEMMA WrittenStays ==
  ASSUME FsInv, ~damaged, open # "write", open' \in {"closed", "read"},
         UNCHANGED <<accepted, todo, cache, started, cctx, cframe, file, damaged>>
  PROVE  WrittenTypeOK' /\ WriteInv'
<1>1. Stream' = Stream
  BY DEF Stream
<1> QED BY <1>1 DEF FsInv, WrittenTypeOK, WriteInv

LEMMA OpenReadKeeps == ASSUME FsInv, ~damaged, OpenRead PROVE FsInv'
<1>1. open # "write" /\ open' \in {"closed", "read"}
  BY DEF OpenRead
<1>2. <<>> \in Seq(Int) /\ <<>> \in Seq(Pos)
  BY EmptySeq
<1>3. ReadersTypeOK'
  BY <1>2 DEF OpenRead, ReadersTypeOK
<1>4. WrittenTypeOK' /\ WriteInv'
  BY <1>1, WrittenStays DEF OpenRead
<1>5. ReadInv'
  BY <1>1, FromTheStart DEF OpenRead
<1> QED BY <1>3, <1>4, <1>5 DEF FsInv

LEMMA ReadKeeps ==
  ASSUME FsInv, ~damaged, NEW n \in 1..MaxRead, Read(n) PROVE FsInv'
<1>1. MaxRead \in Nat /\ n \in Nat
  BY FsAssumption
<1>2. /\ open = "read" /\ wanted' = n
      /\ UNCHANGED <<open, accepted, todo, cache, started, cctx, cframe, file, damaged>>
      /\ UNCHANGED <<fpos, input, remaining, dctx, dframe, output, got, read_failed, astray>>
  BY DEF Read, written
<1>3. WrittenTypeOK' /\ WriteInv'
  BY <1>2, WrittenStays
<1>4. ReadersTypeOK'
  BY <1>1, <1>2 DEF FsInv, ReadersTypeOK
<1>5. ReadInv'
  <2>1. Rest' = Rest
    BY <1>2 DEF Rest
  <2> QED BY <1>2, <2>1 DEF FsInv, ReadInv
<1> QED BY <1>3, <1>4, <1>5 DEF FsInv

LEMMA CopyPieceKeeps == ASSUME FsInv, ~damaged, CopyPiece PROVE FsInv'
<1> DEFINE n == Len(UpTo(output, wanted))
           u == UpTo(output, n)
           v == From(output, n)
<1>1. /\ open = "read" /\ wanted > 0
      /\ got' = got \o u /\ output' = v /\ wanted' = wanted - n
      /\ UNCHANGED <<open, accepted, todo, cache, started, cctx, cframe, file, damaged>>
      /\ UNCHANGED <<fpos, input, remaining, dctx, dframe, read_failed, astray>>
  BY DEF CopyPiece, written
<1>2. output \in Seq(Pos) /\ got \in Seq(Pos) /\ wanted \in Nat
  BY DEF FsInv, ReadersTypeOK
<1>3. n \in 0..wanted
  <2>1. Len(output) \in Nat
    BY <1>2, LenProperties
  <2>2. n = IF wanted < Len(output) THEN wanted ELSE Len(output)
    BY <1>2, Pieces
  <2> HIDE DEF n
  <2> QED BY <1>2, <2>1, <2>2
<1> HIDE DEF n
<1>4. n \in Nat
  BY <1>2, <1>3
<1>5. u \in Seq(Pos) /\ v \in Seq(Pos) /\ u \o v = output
  BY <1>2, <1>4, Pieces
<1> HIDE DEF u, v
<1>6. (got \o u) \o v = got \o output /\ got \o u \in Seq(Pos)
  BY <1>2, <1>5, PosAssociative, PosConcat
<1>7. WrittenTypeOK' /\ WriteInv'
  BY <1>1, WrittenStays
<1>8. ReadersTypeOK'
  <2>1. wanted' \in Nat /\ got' \in Seq(Pos) /\ output' \in Seq(Pos)
    BY <1>1, <1>2, <1>3, <1>5, <1>6
  <2> QED BY <1>1, <2>1 DEF FsInv, ReadersTypeOK
<1>9. ReadInv'
  <2>1. Rest' = Rest
    BY <1>1 DEF Rest
  <2>2. got' \o output' = got \o output
    BY <1>1, <1>6
  <2> QED BY <1>1, <2>1, <2>2 DEF FsInv, ReadInv
<1> QED BY <1>7, <1>8, <1>9 DEF FsInv

LEMMA SeekReadKeeps == ASSUME FsInv, ~damaged, SeekRead PROVE FsInv'
<1>1. /\ open = "read" /\ ~read_failed
      /\ astray' = (astray \/ fpos \in 1..(Len(file) - 1))
      /\ dframe' = DropCache
      /\ dctx' = (IF remaining THEN <<>> ELSE dctx)
      /\ fpos' = 0 /\ input' = <<>> /\ remaining' = FALSE /\ output' = <<>> /\ got' = <<>>
      /\ UNCHANGED <<open, accepted, todo, cache, started, cctx, cframe, file, damaged>>
      /\ UNCHANGED <<wanted, read_failed>>
  BY DEF SeekRead, written
<1>2. <<>> \in Seq(Int) /\ <<>> \in Seq(Pos)
  BY EmptySeq
<1>3. dframe \in BOOLEAN /\ dctx \in Seq(Pos) /\ fpos \in Nat /\ file \in Seq(Int) /\ input \in Seq(Int)
  BY DEF FsInv, ReadersTypeOK, WrittenTypeOK
<1>4. dframe' \in BOOLEAN
  BY <1>1, <1>3 DEF DropCache, InFrame, FrameAfter
<1>5. dctx' \in Seq(Pos) /\ astray' \in BOOLEAN
  <2>1. astray \in BOOLEAN
    BY DEF FsInv, ReadersTypeOK
  <2> QED BY <1>1, <1>2, <1>3, <2>1
<1>6. ReadersTypeOK'
  BY <1>1, <1>2, <1>4, <1>5 DEF FsInv, ReadersTypeOK
<1>7. WrittenTypeOK' /\ WriteInv'
  BY <1>1, WrittenStays
<1>8. ASSUME ~astray' PROVE ~dframe' /\ dctx' = <<>>
  <2>1. /\ Frames(dframe, Rest, FALSE)
        /\ dctx # <<>> => dframe
        /\ fpos = 0 => ~remaining /\ ~dframe
        /\ fpos <= Len(file)
    BY <1>1, <1>8 DEF FsInv, ReadInv
  <2>2. CASE fpos = 0
    BY <1>1, <2>1, <2>2 DEF DropCache
  <2>3. CASE fpos # 0
    <3>1. fpos \notin 1..(Len(file) - 1)
      BY <1>1, <1>8
    <3>2. fpos >= Len(file)
      BY <1>3, <2>1, <2>3, <3>1, LenProperties
    <3>3. From(file, fpos) = <<>>
      BY <1>3, <3>2, Pieces
    <3>4. CASE remaining
      <4>1. Rest = input
        BY <1>3, <3>3, <3>4, ConcatEmptySeq DEF Rest
      <4>2. FrameAfter(dframe, input) = FALSE
        BY <2>1, <4>1 DEF Frames
      <4> QED BY <1>1, <3>4, <4>2 DEF DropCache, InFrame
    <3>5. CASE ~remaining
      <4>1. Rest = <<>>
        BY <1>2, <3>3, <3>5, ConcatEmptySeq DEF Rest
      <4>2. dframe = FALSE
        BY <1>3, <2>1, <4>1, FramesOfNothing DEF Frames
      <4> QED BY <1>1, <2>1, <3>5, <4>2 DEF DropCache
    <3> QED BY <3>4, <3>5
  <2> QED BY <2>2, <2>3
<1>9. ReadInv'
  <2>1. CASE astray'
    BY <2>1 DEF ReadInv
  <2>2. CASE ~astray'
    BY <1>1, <1>4, <1>8, <2>2, FromTheStart
  <2> QED BY <2>1, <2>2
<1> QED BY <1>6, <1>7, <1>9 DEF FsInv

(* What a call of the decompressor leaves, when it is given the next part  *)
(* of a stream of frames.                                                  *)
LEMMA DecompressTakes ==
  ASSUME NEW in \in Seq(Int), NEW o \in Outcomes(in),
         dctx \in Seq(Pos), DOutSize \in Nat
  PROVE  LET in1 == UpTo(in, o.taken)
             all == dctx \o Bytes(in1)
         IN  /\ in1 \in Seq(Int) /\ From(in, o.taken) \in Seq(Int)
             /\ in1 \o From(in, o.taken) = in
             /\ o.taken \in Nat
             /\ ~(o.taken < Len(in)) => From(in, o.taken) = <<>>
             /\ UpTo(all, o.given) \in Seq(Pos) /\ From(all, o.given) \in Seq(Pos)
             /\ UpTo(all, o.given) \o From(all, o.given) = all
             /\ From(all, o.given) # <<>> => \A i \in 1..Len(in1) : in1[i] # End
<1> DEFINE in1 == UpTo(in, o.taken)
           all == dctx \o Bytes(in1)
<1>1. /\ o.taken \in 0..Len(in) /\ o.given \in 0..DOutSize
      /\ o.given < Len(all) => ~Contains(in1, End)
  BY DEF Outcomes
<1>2. o.taken \in Nat /\ o.given \in Nat /\ Len(in) \in Nat
  BY <1>1, LenProperties
<1>3. /\ in1 \in Seq(Int) /\ From(in, o.taken) \in Seq(Int)
      /\ in1 \o From(in, o.taken) = in
      /\ o.taken >= Len(in) => From(in, o.taken) = <<>>
  BY <1>2, Pieces
<1> HIDE DEF in1
<1>4. all \in Seq(Pos)
  <2>1. Bytes(in1) \in Seq(Pos)
    BY <1>3, BytesType
  <2> QED BY <2>1, PosConcat
<1> HIDE DEF all
<1>5. /\ UpTo(all, o.given) \in Seq(Pos) /\ From(all, o.given) \in Seq(Pos)
      /\ UpTo(all, o.given) \o From(all, o.given) = all
      /\ o.given >= Len(all) => From(all, o.given) = <<>>
  BY <1>2, <1>4, Pieces
<1>6. Len(all) \in Nat
  BY <1>4, LenProperties
<1>7. From(all, o.given) # <<>> => o.given < Len(all)
  BY <1>2, <1>5, <1>6
<1>8. ~Contains(in1, End) => \A i \in 1..Len(in1) : in1[i] # End
  BY DEF Contains
<1>9. ~(o.taken < Len(in)) => o.taken >= Len(in)
  BY <1>2
<1> QED BY <1>1, <1>2, <1>3, <1>5, <1>7, <1>8, <1>9 DEF in1, all

(* Four sequences in a row, and what moves from one to the next; each has  *)
(* a name, so that it is found as one fact.                                *)
Regrouped(a, b, u, v) == (a \o (b \o u)) \o v = (a \o b) \o (u \o v)
Moved(g, d, x, r, o1, d1) ==
    o1 \o d1 = d \o Bytes(x)
    => ((g \o o1) \o d1) \o Bytes(r) = ((g \o <<>>) \o d) \o Bytes(x \o r)

LEMMA Regroup ==
  ASSUME NEW a \in Seq(Pos), NEW b \in Seq(Pos), NEW u \in Seq(Pos), NEW v \in Seq(Pos)
  PROVE  Regrouped(a, b, u, v)
<1>1. a \o b \in Seq(Pos)
  BY PosConcat
<1>2. a \o (b \o u) = (a \o b) \o u
  BY PosAssociative
<1>3. ((a \o b) \o u) \o v = (a \o b) \o (u \o v)
  BY <1>1, PosAssociative
<1> QED BY <1>2, <1>3 DEF Regrouped

(* The bytes go from the input to the output in order. *)
LEMMA BytesMove ==
  ASSUME NEW g \in Seq(Pos), NEW d \in Seq(Pos), NEW x \in Seq(Int), NEW r \in Seq(Int),
         NEW o1 \in Seq(Pos), NEW d1 \in Seq(Pos)
  PROVE  Moved(g, d, x, r, o1, d1)
<1> DEFINE X == Bytes(x)
           R == Bytes(r)
<1>1. X \in Seq(Pos) /\ R \in Seq(Pos)
  BY BytesType
<1>2. Bytes(x \o r) = X \o R
  BY BytesConcat
<1> HIDE DEF X, R
<1>3. (g \o o1) \o d1 = g \o (o1 \o d1)
  BY PosAssociative
<1>4. (g \o (d \o X)) \o R = (g \o d) \o (X \o R)
  <2>1. Regrouped(g, d, X, R)
    BY <1>1, Regroup
  <2> QED BY <2>1 DEF Regrouped
<1>5. g \o <<>> = g
  BY ConcatEmptySeq
<1> QED BY <1>2, <1>3, <1>4, <1>5 DEF Moved, X, R

LEMMA DecompressPieceKeeps == ASSUME FsInv, ~damaged, DecompressPiece PROVE FsInv'
<1> DEFINE piece == UpTo(From(file, fpos), DInSize)
           in    == IF remaining THEN input ELSE piece
           rest  == From(file, fpos')
<1>1. /\ open = "read" /\ wanted > 0 /\ output = <<>>
      /\ UNCHANGED <<open, accepted, todo, cache, started, cctx, cframe, file, damaged>>
      /\ UNCHANGED <<got, astray>>
  BY DEF DecompressPiece, written
<1>2. /\ fpos \in Nat /\ file \in Seq(Int) /\ input \in Seq(Int) /\ dctx \in Seq(Pos)
      /\ got \in Seq(Pos) /\ dframe \in BOOLEAN /\ remaining \in BOOLEAN
      /\ DInSize \in Nat /\ DOutSize \in Nat /\ wanted \in Nat
  BY FsAssumption DEF FsInv, ReadersTypeOK, WrittenTypeOK
<1>3. WrittenTypeOK' /\ WriteInv'
  BY <1>1, WrittenStays
<1>4. piece \in Seq(Int) /\ Len(piece) \in Nat
  <2> DEFINE r == From(file, fpos)
  <2>1. r \in Seq(Int)
    BY <1>2, Pieces
  <2> HIDE DEF r
  <2>2. UpTo(r, DInSize) \in Seq(Int)
    BY <1>2, <2>1, Pieces
  <2> QED BY <2>2, LenProperties DEF r
<1>5. in \in Seq(Int)
  BY <1>2, <1>4
<1>6. ASSUME ~remaining /\ piece = <<>>, wanted' = 0,
             UNCHANGED <<fpos, input, remaining, dctx, dframe, output, read_failed>>
      PROVE  FsInv'
  <2>1. Rest' = Rest
    BY <1>1, <1>6 DEF Rest
  <2>2. ReadersTypeOK'
    BY <1>1, <1>6 DEF FsInv, ReadersTypeOK
  <2>3. ReadInv'
    BY <1>1, <1>6, <2>1 DEF FsInv, ReadInv
  <2> QED BY <1>3, <2>2, <2>3 DEF FsInv
<1>7. ASSUME ~(~remaining /\ piece = <<>>),
             fpos' = IF remaining THEN fpos ELSE fpos + Len(piece)
      PROVE  /\ fpos' \in Nat /\ rest \in Seq(Int)
             /\ ~astray => /\ in \o rest = Rest
                           /\ fpos' # 0 /\ fpos' <= Len(file)
                           /\ Framed(dframe, in)
                           /\ ~read_failed
  <2>1. fpos' \in Nat
    <3> HIDE DEF piece
    <3> QED BY <1>2, <1>4, <1>7
  <2>2. rest \in Seq(Int)
    BY <1>2, <2>1, Pieces
  <2>3. ASSUME ~astray
        PROVE  in \o rest = Rest /\ fpos' # 0 /\ fpos' <= Len(file) /\ Framed(dframe, in) /\ ~read_failed
    <3>1. /\ ~read_failed /\ Frames(dframe, Rest, FALSE)
          /\ fpos = 0 => ~remaining /\ ~dframe
          /\ fpos <= Len(file)
      BY <1>1, <2>3 DEF FsInv, ReadInv
    <3>2. in \o rest = Rest /\ fpos' # 0 /\ fpos' <= Len(file)
      <4>1. CASE remaining
        BY <1>7, <3>1, <4>1 DEF Rest
      <4>2. CASE ~remaining
        <5>1. fpos \in 0..Len(file)
          BY <1>2, <3>1, LenProperties
        <5>2. fpos + Len(piece) \in 0..Len(file) /\ piece \o From(file, fpos + Len(piece)) = From(file, fpos)
          BY <1>2, <5>1, NextPiece
        <5>3. From(file, fpos) \in Seq(Int)
          BY <1>2, Pieces
        <5>4. Rest = From(file, fpos)
          BY <4>2, <5>3, ConcatEmptySeq DEF Rest
        <5>5. Len(piece) # 0
          BY <1>4, <1>7, <4>2, EmptySeq
        <5> HIDE DEF piece
        <5>6. fpos' = fpos + Len(piece) /\ in = piece
          BY <1>7, <4>2
        <5>7. fpos' # 0
          BY <1>2, <1>4, <5>5, <5>6
        <5>8. fpos' <= Len(file)
          <6>1. Len(file) \in Nat
            BY <1>2, LenProperties
          <6> QED BY <5>2, <5>6, <6>1
        <5>9. in \o rest = Rest
          BY <5>2, <5>4, <5>6 DEF rest
        <5> QED BY <5>7, <5>8, <5>9
      <4> QED BY <4>1, <4>2
    <3> HIDE DEF in, rest
    <3>3. Frames(dframe, in \o rest, FALSE)
      BY <3>1, <3>2
    <3>4. Framed(dframe, in)
      BY <1>2, <1>5, <2>2, <3>3, FramesSplit
    <3> QED BY <3>1, <3>2, <3>4
  <2> QED BY <2>1, <2>2, <2>3
<1> HIDE DEF piece, in, rest
<1>8. WellFormed(in) <=> Framed(dframe, in)
  BY DEF WellFormed, Framed, InFrame
<1>9. ASSUME ~(~remaining /\ piece = <<>>),
             fpos' = IF remaining THEN fpos ELSE fpos + Len(piece),
             ~WellFormed(in),
             read_failed' = TRUE, wanted' = 0, input' = in,
             UNCHANGED <<remaining, dctx, dframe, output>>
      PROVE  FsInv'
  <2>1. fpos' \in Nat /\ astray
    BY <1>7, <1>8, <1>9
  <2>2. ReadersTypeOK'
    BY <1>1, <1>5, <1>9, <2>1 DEF FsInv, ReadersTypeOK
  <2>3. ReadInv'
    BY <1>1, <2>1 DEF ReadInv
  <2> QED BY <1>3, <2>2, <2>3 DEF FsInv
<1>10. ASSUME ~(~remaining /\ piece = <<>>),
              fpos' = IF remaining THEN fpos ELSE fpos + Len(piece),
              WellFormed(in), NEW o \in Outcomes(in),
              output' = UpTo(dctx \o Bytes(UpTo(in, o.taken)), o.given),
              dctx' = From(dctx \o Bytes(UpTo(in, o.taken)), o.given),
              dframe' = InFrame(UpTo(in, o.taken)),
              input' = From(in, o.taken),
              remaining' = (o.taken < Len(in)),
              UNCHANGED <<wanted, read_failed>>
       PROVE  FsInv'
  <2> DEFINE in1 == UpTo(in, o.taken)
             in2 == From(in, o.taken)
             all == dctx \o Bytes(in1)
  <2>1. /\ in1 \in Seq(Int) /\ in2 \in Seq(Int) /\ in1 \o in2 = in
        /\ o.taken \in Nat
        /\ ~(o.taken < Len(in)) => in2 = <<>>
        /\ output' \in Seq(Pos) /\ dctx' \in Seq(Pos) /\ output' \o dctx' = all
        /\ dctx' # <<>> => \A i \in 1..Len(in1) : in1[i] # End
    BY <1>2, <1>5, <1>10, DecompressTakes
  <2>2. dframe' = FrameAfter(dframe, in1) /\ input' = in2 /\ fpos' \in Nat
    BY <1>7, <1>10 DEF InFrame
  <2> HIDE DEF in1, in2
  <2>3. dframe' \in BOOLEAN
    BY <2>2 DEF FrameAfter
  <2>4. remaining' \in BOOLEAN
    BY <1>10
  <2>5. ReadersTypeOK'
    BY <1>1, <1>2, <1>10, <2>1, <2>2, <2>3, <2>4 DEF FsInv, ReadersTypeOK
  <2>6. ASSUME ~astray PROVE ReadInv'
    <3>1. /\ in \o rest = Rest /\ rest \in Seq(Int)
          /\ fpos' # 0 /\ fpos' <= Len(file) /\ Framed(dframe, in) /\ ~read_failed
      BY <1>7, <1>10, <2>6
    <3>2. /\ ((got \o output) \o dctx) \o Bytes(Rest) = Bytes(file)
          /\ Frames(dframe, Rest, FALSE)
          /\ dctx # <<>> => dframe
      BY <1>1, <2>6 DEF FsInv, ReadInv
    <3>3. (IF remaining' THEN input' ELSE <<>>) = in2
      BY <1>10, <2>1, <2>2
    <3>4. Rest' = in2 \o rest
      BY <1>1, <3>3 DEF Rest, rest
    <3> DEFINE left == in2 \o rest
    <3>5. left \in Seq(Int)
      BY <2>1, <3>1, IntConcat
    <3>6. in1 \o left = Rest
      <4>1. (in1 \o in2) \o rest = in1 \o left
        BY <2>1, <3>1, IntAssociative
      <4> QED BY <2>1, <3>1, <4>1
    <3> HIDE DEF left
    <3>7. Framed(dframe, in1) /\ Frames(FrameAfter(dframe, in1), left, FALSE)
      <4>1. Frames(dframe, in1 \o left, FALSE)
        BY <3>2, <3>6
      <4>2. in1 \in Seq(Int) /\ dframe \in BOOLEAN
        BY <1>2, <2>1
      <4> QED BY <3>5, <4>1, <4>2, FramesSplit
    <3>8. ((got' \o output') \o dctx') \o Bytes(left) = Bytes(file)
      <4> HIDE DEF all
      <4>1. output' \o dctx' = dctx \o Bytes(in1)
        BY <2>1 DEF all
      <4> DEFINE o1 == output'
                 d1 == dctx'
      <4>2. o1 \o d1 = dctx \o Bytes(in1)
        BY <4>1
      <4>3. o1 \in Seq(Pos) /\ d1 \in Seq(Pos) /\ in1 \in Seq(Int)
        BY <2>1
      <4>5. got \in Seq(Pos) /\ dctx \in Seq(Pos)
        BY <1>2
      <4> HIDE DEF o1, d1
      <4>6. Moved(got, dctx, in1, left, o1, d1)
        BY <3>5, <4>3, <4>5, BytesMove
      <4>4. ((got \o o1) \o d1) \o Bytes(left) = ((got \o <<>>) \o dctx) \o Bytes(in1 \o left)
        BY <4>2, <4>6 DEF Moved
      <4> QED BY <1>1, <3>2, <3>6, <4>4 DEF o1, d1
    <3>9. dctx' # <<>> => dframe'
      <4> SUFFICES ASSUME dctx' # <<>> PROVE dframe'
        OBVIOUS
      <4>1. \A i \in 1..Len(in1) : in1[i] # End
        BY <2>1
      <4>2. dframe \/ in1 # <<>>
        <5> SUFFICES ASSUME ~dframe, in1 = <<>> PROVE FALSE
          OBVIOUS
        <5>1. dctx = <<>> /\ all = <<>>
          BY <3>2, BytesEmpty, ConcatEmptySeq
        <5>2. Len(output' \o dctx') = Len(output') + Len(dctx') /\ Len(output') \in Nat /\ Len(dctx') \in Nat
          BY <2>1, ConcatProperties, LenProperties
        <5>3. Len(dctx') = 0
          BY <2>1, <5>1, <5>2, EmptySeq
        <5> QED BY <2>1, <5>3, EmptySeq
      <4>3. FrameAfter(dframe, in1)
        BY <1>2, <2>1, <3>7, <4>1, <4>2, FramedWithin
      <4> QED BY <2>2, <4>3
    <3>10. Frames(dframe', Rest', FALSE)
      BY <2>2, <3>4, <3>7 DEF left
    <3>11. ((got' \o output') \o dctx') \o Bytes(Rest') = Bytes(file')
      BY <1>1, <3>4, <3>8 DEF left
    <3>12. ~read_failed' /\ fpos' # 0 /\ fpos' <= Len(file')
      BY <1>1, <1>10, <3>1
    <3> QED BY <3>9, <3>10, <3>11, <3>12 DEF ReadInv
  <2>7. ReadInv'
    <3>1. CASE ~astray
      BY <2>6, <3>1
    <3>2. CASE astray
      BY <1>1, <3>2 DEF ReadInv
    <3> QED BY <3>1, <3>2
  <2> QED BY <1>3, <2>5, <2>7 DEF FsInv
<1> QED BY <1>6, <1>9, <1>10 DEF DecompressPiece, piece, in
-----------------------------------------------------------------------------
LEMMA FsNextKeeps == FsInv /\ [FsNext]_fsVars => FsInv'
<1> SUFFICES ASSUME FsInv, [FsNext]_fsVars PROVE FsInv'
  OBVIOUS
<1>1. CASE UNCHANGED fsVars
  <2>1. Stream' = Stream /\ Rest' = Rest
    BY <1>1 DEF fsVars, written, readers, Stream, Rest
  <2> QED BY <1>1, <2>1
       DEF fsVars, written, readers, FsInv, WrittenTypeOK, ReadersTypeOK, WriteInv, ReadInv
<1>2. ASSUME ~damaged, NEW n \in 1..MaxBytes, Write(n) PROVE FsInv'
  BY <1>2, WriteKeeps
<1>3. ASSUME ~damaged, WritePiece PROVE FsInv'
  BY <1>3, WritePieceKeeps
<1>4. ASSUME ~damaged, SeekWrite PROVE FsInv'
  BY <1>4, SeekWriteKeeps
<1>5. ASSUME ~damaged, CloseWrite PROVE FsInv'
  BY <1>5, CloseWriteKeeps
<1>6. ASSUME ~damaged, OpenRead PROVE FsInv'
  BY <1>6, OpenReadKeeps
<1>7. ASSUME ~damaged, NEW n \in 1..MaxRead, Read(n) PROVE FsInv'
  BY <1>7, ReadKeeps
<1>8. ASSUME ~damaged, CopyPiece PROVE FsInv'
  BY <1>8, CopyPieceKeeps
<1>9. ASSUME ~damaged, DecompressPiece PROVE FsInv'
  BY <1>9, DecompressPieceKeeps
<1>10. ASSUME ~damaged, SeekRead PROVE FsInv'
  BY <1>10, SeekReadKeeps
<1> QED BY <1>1, <1>2, <1>3, <1>4, <1>5, <1>6, <1>7, <1>8, <1>9, <1>10 DEF FsNext

LEMMA FsInvAlways == FsSpec => []FsInv
  BY InitFsInv, FsNextKeeps, PTL DEF FsSpec

LEMMA PrefixOfConcat ==
  ASSUME NEW s \in Seq(Pos), NEW t \in Seq(Pos)
  PROVE  IsPrefix(s, s \o t)
<1> DEFINE c == s \o t
           p == SubSeq(c, 1, Len(s))
<1>1. /\ c \in Seq(Pos) /\ Len(c) = Len(s) + Len(t) /\ Len(s) \in Nat /\ Len(t) \in Nat
      /\ \A i \in 1..Len(s) + Len(t) : c[i] = IF i <= Len(s) THEN s[i] ELSE t[i - Len(s)]
  BY ConcatProperties, LenProperties
<1> HIDE DEF c
<1>2. /\ p \in Seq(Pos) /\ Len(p) = (IF 1 <= Len(s) THEN Len(s) - 1 + 1 ELSE 0)
      /\ \A i \in 1..Len(s) - 1 + 1 : p[i] = c[1 + i - 1]
  <2>1. \A i \in 1..Len(s) : c[i] \in Pos
    <3>1. \A i \in 1..Len(c) : c[i] \in Pos
      BY <1>1, ElementOfSeq
    <3> QED BY <1>1, <3>1
  <2> QED BY <1>1, <2>1, SubSeqProperties
<1> HIDE DEF p
<1>3. Len(p) = Len(s)
  BY <1>1, <1>2
<1>4. ASSUME NEW i \in 1..Len(s) PROVE p[i] = s[i]
  BY <1>1, <1>2
<1>5. p = s
  BY <1>2, <1>3, <1>4, SeqEqual
<1>6. SubSeq(s, 1, Len(s)) = s
  BY SubSeqFull
<1>7. Len(s) <= Len(c)
  BY <1>1
<1> QED BY <1>5, <1>6, <1>7 DEF IsPrefix, p, c

LEMMA WriteFollows == FsInv => WriteExact
<1> SUFFICES ASSUME FsInv, ~damaged
             PROVE  /\ Bytes(file) \o Bytes(cctx) \o cache \o todo = [i \in 1..accepted |-> i]
                    /\ open # "write" => Bytes(file) = [i \in 1..accepted |-> i]
  BY DEF WriteExact
<1>1. file \in Seq(Int) /\ cctx \in Seq(Int)
  BY DEF FsInv, WrittenTypeOK
<1>2. Bytes(Stream) = Bytes(file) \o Bytes(cctx)
  BY <1>1, BytesConcat DEF Stream
<1>3. (Bytes(Stream) \o cache) \o todo = Numbers(accepted)
  BY WriterFacts
<1>4. open # "write" => Bytes(file) = Numbers(accepted)
  BY ClosedFacts
<1> QED BY <1>2, <1>3, <1>4 DEF Numbers

LEMMA ReadFollows == FsInv => ReadExact
<1> SUFFICES ASSUME FsInv, open = "read", ~damaged, ~astray
             PROVE  ~read_failed /\ IsPrefix(got, Bytes(file))
  BY DEF ReadExact
<1>1. ~read_failed /\ ((got \o output) \o dctx) \o Bytes(Rest) = Bytes(file)
  BY DEF FsInv, ReadInv
<1>2. /\ got \in Seq(Pos) /\ output \in Seq(Pos) /\ dctx \in Seq(Pos)
      /\ input \in Seq(Int) /\ file \in Seq(Int) /\ fpos \in Nat
  BY DEF FsInv, ReadersTypeOK, WrittenTypeOK
<1>3. Bytes(Rest) \in Seq(Pos)
  <2>1. From(file, fpos) \in Seq(Int)
    BY <1>2, Pieces
  <2>2. (IF remaining THEN input ELSE <<>>) \in Seq(Int)
    BY <1>2, EmptySeq
  <2>3. Rest \in Seq(Int)
    BY <2>1, <2>2, IntConcat DEF Rest
  <2> QED BY <2>3, BytesType
<1> DEFINE R == Bytes(Rest)
           od == output \o dctx
<1>4. od \in Seq(Pos) /\ R \in Seq(Pos)
  BY <1>2, <1>3, PosConcat
<1>5. (got \o output) \o dctx = got \o od
  BY <1>2, PosAssociative
<1> HIDE DEF R, od
<1>6. (got \o od) \o R = got \o (od \o R) /\ od \o R \in Seq(Pos)
  <2>1. got \in Seq(Pos) /\ od \in Seq(Pos) /\ R \in Seq(Pos)
    BY <1>2, <1>4
  <2>2. (got \o od) \o R = got \o (od \o R)
    BY <2>1, PosAssociative
  <2> QED BY <2>1, <2>2, PosConcat
<1>7. got \o (od \o R) = Bytes(file)
  BY <1>1, <1>5, <1>6 DEF R
<1>8. IsPrefix(got, got \o (od \o R))
  BY <1>2, <1>6, PrefixOfConcat
<1> QED BY <1>1, <1>7, <1>8

(* However the bytes are cut into calls, none of them is lost, doubled or  *)
(* moved between vfs_write, the cache, the compressor and the file, and a  *)
(* closed file has all of them, unless the system failed to write.         *)
THEOREM WriteAlwaysExact == FsSpec => []WriteExact
  BY WriteFollows, FsInvAlways, PTL

(* What is read from the start of a file, or from where it was rewound to, *)
(* is what was written, whatever the sizes of the buffers; reading does    *)
(* not fail unless a seek left a frame whose rest was not loaded.          *)
THEOREM ReadAlwaysExact == FsSpec => []ReadExact
  BY ReadFollows, FsInvAlways, PTL

-----------------------------------------------------------------------------
(***************************************************************************)
(* The console, for any size of its buffer, length of a line and input.    *)
(***************************************************************************)

(***************************************************************************)
(* The console: what cutting a sequence of positions into lines does.      *)
(***************************************************************************)
Cuts == [made : Seq(Seq(Pos)), line : Seq(Pos), long : SUBSET Pos]
NoCut == [made |-> <<>>, line |-> <<>>, long |-> {}]

CutScan(t, s) ==
    CHOOSE f : f = [n \in 0..Len(s) |->
        IF n = 0 THEN [made |-> <<>>, line |-> <<>>, long |-> {}] ELSE Token(t, f[n - 1], s[n])]

LEMMA TextFacts ==
  ASSUME NEW t, NEW s
  PROVE  Text(t, s) \subseteq ToSet(s) /\ \A x \in ToSet(s) : x \in Text(t, s) <=> t[x] = "text"
  BY DEF Text

(* What one more character does, by its kind. *)
LEMMA TokenCases ==
  ASSUME NEW t, NEW c \in Cuts, NEW x
  PROVE  /\ t[x] \notin LineEnd /\ ~(t[x] = "space" /\ c.line = <<>>) =>
               Token(t, c, x) = [made |-> c.made, line |-> Append(c.line, x), long |-> c.long]
         /\ t[x] \notin LineEnd /\ t[x] = "space" /\ c.line = <<>> => Token(t, c, x) = c
         /\ t[x] \in LineEnd /\ c.line = <<>> => Token(t, c, x) = c
         /\ t[x] \in LineEnd /\ c.line # <<>> /\ Len(c.line) < LineMax =>
               Token(t, c, x) = [made |-> Append(c.made, c.line), line |-> <<>>, long |-> c.long]
         /\ t[x] \in LineEnd /\ c.line # <<>> /\ ~(Len(c.line) < LineMax) =>
               Token(t, c, x) = [made |-> c.made, line |-> <<>>,
                                 long |-> c.long \cup Text(t, c.line)]
<1> DEFINE m == c.made
           l == c.line
           g == c.long
<1>1. c = [made |-> m, line |-> l, long |-> g]
  BY DEF Cuts
<1> HIDE DEF m, l, g
<1>2. c.made = m /\ c.line = l /\ c.long = g
  BY <1>1
<1> QED BY <1>1, <1>2 DEF Token, Request

LEMMA TokenType ==
  ASSUME NEW t, NEW c \in Cuts, NEW x \in Pos
  PROVE  Token(t, c, x) \in Cuts
<1>1. c.made \in Seq(Seq(Pos)) /\ c.line \in Seq(Pos) /\ c.long \in SUBSET Pos
  BY DEF Cuts
<1>2. Append(c.line, x) \in Seq(Pos) /\ Append(c.made, c.line) \in Seq(Seq(Pos))
  BY <1>1, AppendProperties
<1>3. <<>> \in Seq(Pos)
  BY EmptySeq
<1>4. Text(t, c.line) \subseteq Pos
  <2>1. ToSet(c.line) \subseteq Pos
    BY <1>1, InToSet, ElementOfSeq
  <2> QED BY <2>1, TextFacts
<1>5. c.long \cup Text(t, c.line) \in SUBSET Pos
  BY <1>1, <1>4
<1> DEFINE m == c.made
           l == c.line
           g == c.long
           a == Append(l, x)
           b == Append(m, l)
           h == g \cup Text(t, l)
<1>6. /\ m \in Seq(Seq(Pos)) /\ l \in Seq(Pos) /\ g \in SUBSET Pos
      /\ a \in Seq(Pos) /\ b \in Seq(Seq(Pos)) /\ h \in SUBSET Pos
  BY <1>1, <1>2, <1>5
<1> HIDE DEF m, l, g, a, b, h
<1>7. /\ [made |-> m, line |-> a, long |-> g] \in Cuts
      /\ [made |-> b, line |-> <<>>, long |-> g] \in Cuts
      /\ [made |-> m, line |-> <<>>, long |-> h] \in Cuts
  BY <1>3, <1>6 DEF Cuts
<1>8. CASE t[x] \notin LineEnd /\ ~(t[x] = "space" /\ c.line = <<>>)
  BY <1>7, <1>8, TokenCases DEF m, l, g, a
<1>9. CASE \/ t[x] \notin LineEnd /\ t[x] = "space" /\ c.line = <<>>
           \/ t[x] \in LineEnd /\ c.line = <<>>
  BY <1>9, TokenCases
<1>10. CASE t[x] \in LineEnd /\ c.line # <<>> /\ Len(c.line) < LineMax
  <2>1. Token(t, c, x) = [made |-> b, line |-> <<>>, long |-> g]
    BY <1>10, TokenCases DEF m, l, g, b
  <2> QED BY <1>7, <2>1
<1>11. CASE t[x] \in LineEnd /\ c.line # <<>> /\ ~(Len(c.line) < LineMax)
  <2>1. Token(t, c, x) = [made |-> m, line |-> <<>>, long |-> h]
    BY <1>11, TokenCases DEF m, l, g, h
  <2> QED BY <1>7, <2>1
<1> QED BY <1>8, <1>9, <1>10, <1>11

LEMMA CutScanFacts ==
  ASSUME NEW t, NEW s \in Seq(Pos)
  PROVE  /\ CutScan(t, s)[0] = NoCut
         /\ \A n \in 1..Len(s) : CutScan(t, s)[n] = Token(t, CutScan(t, s)[n - 1], s[n])
         /\ \A n \in 0..Len(s) : CutScan(t, s)[n] \in Cuts
<1> DEFINE F == [ce \in Cuts \X Pos |-> Token(t, ce[1], ce[2])]
           Is(f) == f = [n \in 0..Len(s) |->
               IF n = 0 THEN [made |-> <<>>, line |-> <<>>, long |-> {}] ELSE Token(t, f[n - 1], s[n])]
<1>0. Len(s) \in Nat /\ \A n \in 1..Len(s) : s[n] \in Pos
  BY LenProperties, ElementOfSeq
<1>1. F \in [Cuts \X Pos -> Cuts]
  BY TokenType
<1>2. NoCut \in Cuts
  BY EmptySeq DEF NoCut, Cuts
<1>3. PICK f : IsScan(f, NoCut, F, s)
  <2> HIDE DEF F
  <2> QED BY <1>1, <1>2, ScanExists
<1>4. /\ f \in [0..Len(s) -> Cuts] /\ f[0] = NoCut
      /\ \A n \in 1..Len(s) : f[n] = F[<<f[n - 1], s[n]>>]
  <2> HIDE DEF F
  <2>1. ScansWithin(f, Cuts, NoCut, F, s)
    BY <1>1, <1>2, <1>3, ScanFacts, Zenon
  <2> QED BY <2>1 DEF ScansWithin
<1>5. ASSUME NEW n \in 1..Len(s) PROVE f[n] = Token(t, f[n - 1], s[n])
  <2>1. n - 1 \in 0..Len(s) /\ s[n] \in Pos
    BY <1>0
  <2>2. f[n - 1] \in Cuts
    BY <1>4, <2>1
  <2>3. F[<<f[n - 1], s[n]>>] = Token(t, f[n - 1], s[n])
    BY <2>1, <2>2
  <2> QED BY <1>4, <2>3, Zenon
<1> HIDE DEF F
<1>6. Is(f)
  <2> DEFINE r == [n \in 0..Len(s) |->
               IF n = 0 THEN [made |-> <<>>, line |-> <<>>, long |-> {}] ELSE Token(t, f[n - 1], s[n])]
  <2>1. ASSUME NEW n \in 0..Len(s) PROVE f[n] = r[n]
    <3>1. CASE n = 0
      BY <1>4, <3>1 DEF NoCut
    <3>2. CASE n # 0
      BY <1>0, <1>5, <3>2
    <3> QED BY <3>1, <3>2
  <2>2. f = [n \in 0..Len(s) |-> f[n]]
    BY <1>4
  <2> QED BY <2>1, <2>2
<1>7. Is(CutScan(t, s))
  <2>1. CutScan(t, s) = CHOOSE g : Is(g)
    BY DEF CutScan
  <2> HIDE DEF Is
  <2> QED BY <1>6, <2>1
<1> DEFINE b == CutScan(t, s)
<1> HIDE DEF b
<1>8. Is(b)
  BY <1>7 DEF b
<1>9. b[0] = NoCut /\ \A n \in 1..Len(s) : b[n] = Token(t, b[n - 1], s[n])
  <2>1. b[0] = NoCut
    BY <1>0, <1>8 DEF NoCut
  <2>2. ASSUME NEW n \in 1..Len(s) PROVE b[n] = Token(t, b[n - 1], s[n])
    <3>1. n \in 0..Len(s) /\ n # 0
      BY <1>0
    <3> QED BY <1>8, <3>1
  <2> QED BY <2>1, <2>2
<1> HIDE DEF Is
<1> DEFINE S == {n \in Nat : n <= Len(s) => b[n] \in Cuts}
<1>10. S = Nat
  <2>1. 0 \in S
    BY <1>2, <1>9
  <2>2. ASSUME NEW n \in S PROVE n + 1 \in S
    <3> SUFFICES ASSUME n + 1 <= Len(s) PROVE b[n + 1] \in Cuts
      OBVIOUS
    <3>1. b[n] \in Cuts /\ s[n + 1] \in Pos
      BY <1>0
    <3>2. b[n + 1] = Token(t, b[n], s[n + 1])
      BY <1>0, <1>9
    <3> QED BY <3>1, <3>2, TokenType
  <2> HIDE DEF S
  <2>3. S \subseteq Nat
    BY DEF S
  <2> QED BY <2>1, <2>2, <2>3, SetInduction
<1>11. \A n \in 0..Len(s) : b[n] \in Cuts
  BY <1>0, <1>10
<1> QED BY <1>9, <1>11 DEF b

LEMMA CutIsScan == ASSUME NEW t, NEW s PROVE Cut(t, s) = CutScan(t, s)[Len(s)]
  BY DEF Cut, CutScan

LEMMA CutType ==
  ASSUME NEW t, NEW s \in Seq(Pos)
  PROVE  /\ Cut(t, s) \in Cuts /\ Cut(t, s).made \in Seq(Seq(Pos))
         /\ Cut(t, s).line \in Seq(Pos) /\ Cut(t, s).long \in SUBSET Pos
<1>1. Len(s) \in 0..Len(s)
  BY LenProperties
<1>2. Cut(t, s) \in Cuts
  BY <1>1, CutIsScan, CutScanFacts
<1> QED BY <1>2 DEF Cuts

LEMMA CutEmpty == ASSUME NEW t PROVE Cut(t, <<>>) = NoCut
<1>1. <<>> \in Seq(Pos) /\ Len(<<>>) = 0
  BY EmptySeq
<1>2. CutScan(t, <<>>)[0] = NoCut
  BY <1>1, CutScanFacts
<1> QED BY <1>1, <1>2, CutIsScan

LEMMA CutAppend ==
  ASSUME NEW t, NEW s \in Seq(Pos), NEW e \in Pos
  PROVE  Cut(t, Append(s, e)) = Token(t, Cut(t, s), e)
<1> DEFINE a == Append(s, e)
           b == CutScan(t, s)
           c == CutScan(t, a)
<1>1. /\ a \in Seq(Pos) /\ Len(a) = Len(s) + 1 /\ a[Len(s) + 1] = e /\ Len(s) \in Nat
      /\ \A i \in 1..Len(s) : a[i] = s[i]
  BY AppendProperties, LenProperties
<1> HIDE DEF a
<1>2. b[0] = NoCut /\ \A n \in 1..Len(s) : b[n] = Token(t, b[n - 1], s[n])
  BY CutScanFacts
<1>3. c[0] = NoCut /\ \A n \in 1..Len(a) : c[n] = Token(t, c[n - 1], a[n])
  BY <1>1, CutScanFacts
<1>4. Cut(t, s) = b[Len(s)] /\ Cut(t, a) = c[Len(s) + 1]
  BY <1>1, CutIsScan
<1> HIDE DEF b, c
<1> DEFINE S == {n \in Nat : n <= Len(s) => c[n] = b[n]}
<1>5. S = Nat
  <2>1. 0 \in S
    BY <1>2, <1>3
  <2>2. ASSUME NEW n \in S PROVE n + 1 \in S
    <3> SUFFICES ASSUME n + 1 <= Len(s) PROVE c[n + 1] = b[n + 1]
      OBVIOUS
    <3>1. c[n] = b[n] /\ n + 1 \in 1..Len(s) /\ n + 1 \in 1..Len(a) /\ (n + 1) - 1 = n
      BY <1>1
    <3>2. b[n + 1] = Token(t, b[n], s[n + 1])
      BY <1>2, <3>1
    <3>3. c[n + 1] = Token(t, c[n], a[n + 1])
      BY <1>3, <3>1
    <3> QED BY <1>1, <3>1, <3>2, <3>3
  <2> HIDE DEF S
  <2>3. S \subseteq Nat
    BY DEF S
  <2> QED BY <2>1, <2>2, <2>3, SetInduction
<1>6. c[Len(s)] = b[Len(s)]
  BY <1>1, <1>5
<1>7. Len(s) + 1 \in 1..Len(a) /\ (Len(s) + 1) - 1 = Len(s)
  BY <1>1
<1>8. c[Len(s) + 1] = Token(t, c[Len(s)], a[Len(s) + 1])
  BY <1>3, <1>7
<1> QED BY <1>1, <1>4, <1>6, <1>8 DEF a

LEMMA LinesAppend ==
  ASSUME NEW m \in Seq(Seq(Pos)), NEW r \in Seq(Seq(Pos)), NEW l \in Seq(Pos)
  PROVE  m \o Append(r, l) = Append(m \o r, l)
<1> DEFINE S == Seq(Pos)
<1>1. m \in Seq(S) /\ r \in Seq(S) /\ l \in S
  OBVIOUS
<1> HIDE DEF S
<1> QED BY <1>1, ConcatAppend

(* After a whole line, the next part is cut as if it was alone. *)
LEMMA CutJoin ==
  ASSUME NEW t, NEW s \in Seq(Pos), NEW u \in Seq(Pos), Cut(t, s).line = <<>>
  PROVE  /\ Cut(t, s \o u).made = Cut(t, s).made \o Cut(t, u).made
         /\ Cut(t, s \o u).line = Cut(t, u).line
<1> DEFINE m == Cut(t, s).made
           Joined(v) == /\ Cut(t, s \o v).made = m \o Cut(t, v).made
                        /\ Cut(t, s \o v).line = Cut(t, v).line
           P == {v \in Seq(Pos) : Joined(v)}
<1>0. m \in Seq(Seq(Pos))
  BY CutType
<1>1. <<>> \in P
  <2>1. Cut(t, <<>>).made = <<>> /\ Cut(t, <<>>).line = <<>>
    BY CutEmpty DEF NoCut
  <2>2. s \o <<>> = s /\ m \o <<>> = m /\ <<>> \in Seq(Pos)
    BY <1>0, ConcatEmptySeq, EmptySeq
  <2> HIDE DEF m
  <2>3. Cut(t, s \o <<>>).made = m \o Cut(t, <<>>).made
    BY <2>1, <2>2 DEF m
  <2>4. Cut(t, s \o <<>>).line = Cut(t, <<>>).line
    BY <2>1, <2>2
  <2> QED BY <2>2, <2>3, <2>4
<1>2. ASSUME NEW v \in P, NEW e \in Pos PROVE Append(v, e) \in P
  <2> DEFINE c == Cut(t, v)
             d == Cut(t, s \o v)
  <2>1. v \in Seq(Pos) /\ d.made = m \o c.made /\ d.line = c.line
    OBVIOUS
  <2>2. /\ s \o v \in Seq(Pos) /\ Append(v, e) \in Seq(Pos)
        /\ s \o Append(v, e) = Append(s \o v, e)
    BY <2>1, ConcatProperties, AppendProperties, ConcatAppend
  <2>3. Cut(t, Append(v, e)) = Token(t, c, e)
    BY <2>1, CutAppend
  <2>4. Cut(t, s \o Append(v, e)) = Token(t, d, e)
    BY <2>2, CutAppend
  <2>5. c.made \in Seq(Seq(Pos)) /\ c.line \in Seq(Pos) /\ c \in Cuts /\ d \in Cuts
    BY <2>1, <2>2, CutType
  <2> HIDE DEF m, c, d
  <2>6. m \o Append(c.made, c.line) = Append(m \o c.made, c.line)
    <3> DEFINE r == c.made
               l == c.line
    <3>1. m \in Seq(Seq(Pos)) /\ r \in Seq(Seq(Pos)) /\ l \in Seq(Pos)
      BY <1>0, <2>5
    <3> HIDE DEF r, l
    <3>2. m \o Append(r, l) = Append(m \o r, l)
      BY <3>1, LinesAppend
    <3> QED BY <3>2 DEF r, l
  <2>7. /\ Token(t, d, e).made = m \o Token(t, c, e).made
        /\ Token(t, d, e).line = Token(t, c, e).line
    <3>1. CASE t[e] \notin LineEnd /\ ~(t[e] = "space" /\ c.line = <<>>)
      <4>1. Token(t, c, e) = [made |-> c.made, line |-> Append(c.line, e), long |-> c.long]
        BY <2>1, <2>5, <3>1, TokenCases
      <4>2. Token(t, d, e) = [made |-> d.made, line |-> Append(d.line, e), long |-> d.long]
        BY <2>1, <2>5, <3>1, TokenCases
      <4> QED BY <2>1, <4>1, <4>2
    <3>2. CASE t[e] \notin LineEnd /\ t[e] = "space" /\ c.line = <<>>
      <4>1. Token(t, c, e) = c
        BY <2>1, <2>5, <3>2, TokenCases
      <4>2. Token(t, d, e) = d
        BY <2>1, <2>5, <3>2, TokenCases
      <4> QED BY <2>1, <4>1, <4>2
    <3>3. CASE t[e] \in LineEnd /\ c.line = <<>>
      <4>1. Token(t, c, e) = c
        BY <2>1, <2>5, <3>3, TokenCases
      <4>2. Token(t, d, e) = d
        BY <2>1, <2>5, <3>3, TokenCases
      <4> QED BY <2>1, <4>1, <4>2
    <3>4. CASE t[e] \in LineEnd /\ c.line # <<>> /\ Len(c.line) < LineMax
      <4>1. Token(t, c, e) = [made |-> Append(c.made, c.line), line |-> <<>>, long |-> c.long]
        BY <2>1, <2>5, <3>4, TokenCases
      <4>2. Token(t, d, e) = [made |-> Append(d.made, d.line), line |-> <<>>, long |-> d.long]
        <5>1. d.line # <<>> /\ Len(d.line) < LineMax
          BY <2>1, <3>4
        <5> QED BY <2>5, <3>4, <5>1, TokenCases
      <4>3. Token(t, c, e).made = Append(c.made, c.line) /\ Token(t, c, e).line = <<>>
        BY <4>1
      <4>4. Token(t, d, e).made = Append(d.made, d.line) /\ Token(t, d, e).line = <<>>
        BY <4>2
      <4>5. Append(d.made, d.line) = Append(m \o c.made, c.line)
        BY <2>1
      <4> QED BY <2>6, <4>3, <4>4, <4>5
    <3>5. CASE t[e] \in LineEnd /\ c.line # <<>> /\ ~(Len(c.line) < LineMax)
      <4>1. Token(t, c, e) = [made |-> c.made, line |-> <<>>, long |-> c.long \cup Text(t, c.line)]
        BY <2>1, <2>5, <3>5, TokenCases
      <4>2. Token(t, d, e) = [made |-> d.made, line |-> <<>>, long |-> d.long \cup Text(t, d.line)]
        BY <2>1, <2>5, <3>5, TokenCases
      <4> QED BY <2>1, <4>1, <4>2
    <3> QED BY <3>1, <3>2, <3>3, <3>4, <3>5
  <2>8. Joined(Append(v, e))
    BY <2>3, <2>4, <2>7
  <2> HIDE DEF Joined
  <2> QED BY <2>2, <2>8
<1>3. P = Seq(Pos)
  <2> HIDE DEF P
  <2>1. P \in SUBSET Seq(Pos)
    BY DEF P
  <2> QED BY <1>1, <1>2, <2>1, SeqInduction
<1> HIDE DEF Joined
<1>4. Joined(u)
  BY <1>3
<1> QED BY <1>4 DEF Joined, m

(* What is typed later does not change how earlier text is cut. *)
LEMMA CutSame ==
  ASSUME NEW t \in Seq(Typed), NEW kind \in Typed, NEW s \in Seq(1..Len(t))
  PROVE  Cut(Append(t, kind), s) = Cut(t, s)
<1> DEFINE t2 == Append(t, kind)
           E == 1..Len(t)
           Within(v) == ToSet(Cut(t, v).line) \subseteq E
           P == {v \in Seq(E) : Cut(t2, v) = Cut(t, v) /\ Within(v)}
<1>1. E \subseteq Pos
  BY LenProperties DEF Pos
<1>2. \A i \in E : t2[i] = t[i]
  BY AppendProperties
<1> HIDE DEF t2, E
<1>0. ToSet(<<>>) = {} /\ <<>> \in Seq(E)
  BY EmptySeq DEF ToSet
<1>3. <<>> \in P
  <2>1. Cut(t2, <<>>) = NoCut /\ Cut(t, <<>>) = NoCut /\ Cut(t, <<>>).line = <<>>
    BY CutEmpty DEF NoCut
  <2> QED BY <1>0, <2>1
<1>4. ASSUME NEW v \in P, NEW e \in E PROVE Append(v, e) \in P
  <2>1. v \in Seq(E) /\ Cut(t2, v) = Cut(t, v) /\ Append(v, e) \in Seq(E)
    BY AppendProperties
  <2>2. v \in Seq(Pos) /\ e \in Pos
    BY <1>1, <2>1, SeqMonotonic
  <2> DEFINE c == Cut(t, v)
  <2>3. Cut(t2, Append(v, e)) = Token(t2, c, e)
    BY <2>1, <2>2, CutAppend
  <2>4. Cut(t, Append(v, e)) = Token(t, c, e)
    BY <2>2, CutAppend
  <2>5. c \in Cuts /\ c.line \in Seq(Pos) /\ ToSet(c.line) \subseteq E
    BY <2>2, CutType
  <2> HIDE DEF c
  <2>6. Text(t2, c.line) = Text(t, c.line)
    BY <1>2, <2>5 DEF Text
  <2>7. t2[e] = t[e]
    BY <1>2
  <2>8. Token(t2, c, e) = Token(t, c, e)
    BY <2>6, <2>7 DEF Token, Request
  <2>9. ToSet(Token(t, c, e).line) \subseteq E
    <3>1. ToSet(Append(c.line, e)) = ToSet(c.line) \cup {e} /\ ToSet(<<>>) = {}
      BY <1>0, <2>2, <2>5, AppendFacts
    <3>2. \/ Token(t, c, e).line = Append(c.line, e) \/ Token(t, c, e).line = <<>>
          \/ Token(t, c, e).line = c.line
      <4>1. CASE t[e] \notin LineEnd /\ ~(t[e] = "space" /\ c.line = <<>>)
        BY <2>5, <4>1, TokenCases
      <4>2. CASE t[e] \notin LineEnd /\ t[e] = "space" /\ c.line = <<>>
        BY <2>5, <4>2, TokenCases
      <4>3. CASE t[e] \in LineEnd /\ c.line = <<>>
        BY <2>5, <4>3, TokenCases
      <4>4. CASE t[e] \in LineEnd /\ c.line # <<>> /\ Len(c.line) < LineMax
        BY <2>5, <4>4, TokenCases
      <4>5. CASE t[e] \in LineEnd /\ c.line # <<>> /\ ~(Len(c.line) < LineMax)
        BY <2>5, <4>5, TokenCases
      <4> QED BY <4>1, <4>2, <4>3, <4>4, <4>5
    <3> QED BY <2>5, <3>1, <3>2
  <2> QED BY <2>1, <2>3, <2>4, <2>8, <2>9
<1>5. P = Seq(E)
  <2> HIDE DEF P
  <2>1. P \in SUBSET Seq(E)
    BY DEF P
  <2> QED BY <1>3, <1>4, <2>1, SeqInduction
<1> QED BY <1>5 DEF t2, E

(* Ends of lines and spaces alone make no request. *)
LEMMA CutEnds ==
  ASSUME NEW t, NEW s \in Seq({x \in Pos : t[x] \in Typed \ {"text"}})
  PROVE  Cut(t, s) = NoCut
<1> DEFINE E == {x \in Pos : t[x] \in Typed \ {"text"}}
           P == {v \in Seq(E) : Cut(t, v) = NoCut}
<1>1. E \subseteq Pos /\ \A x \in E : t[x] \in LineEnd \/ t[x] = "space"
  BY DEF Typed
<1> HIDE DEF E
<1>2. <<>> \in P
  BY CutEmpty, EmptySeq
<1>3. ASSUME NEW v \in P, NEW e \in E PROVE Append(v, e) \in P
  <2>1. v \in Seq(E) /\ Cut(t, v) = NoCut /\ Append(v, e) \in Seq(E)
    BY AppendProperties
  <2>2. v \in Seq(Pos) /\ e \in Pos
    BY <1>1, <2>1, SeqMonotonic
  <2>3. Cut(t, Append(v, e)) = Token(t, Cut(t, v), e)
    BY <2>2, CutAppend
  <2>4. Token(t, NoCut, e) = NoCut
    BY <1>1 DEF Token, Request, NoCut
  <2> QED BY <2>1, <2>3, <2>4
<1>4. P = Seq(E)
  <2> HIDE DEF P
  <2>1. P \in SUBSET Seq(E)
    BY DEF P
  <2> QED BY <1>2, <1>3, <2>1, SeqInduction
<1> QED BY <1>4 DEF E

LEMMA CutBlank ==
  ASSUME NEW t \in Seq(Typed), NEW s \in Seq(Pos), ToSet(s) \subseteq 1..Len(t),
         Text(t, s) = {}
  PROVE  Cut(t, s) = NoCut
<1> DEFINE E == {x \in Pos : t[x] \in Typed \ {"text"}}
<1>1. ASSUME NEW k \in 1..Len(s) PROVE s[k] \in E
  <2>1. s[k] \in ToSet(s) /\ s[k] \in Pos
    BY InToSet, ElementOfSeq
  <2>2. t[s[k]] # "text"
    BY <2>1, TextFacts
  <2>3. t[s[k]] \in Typed
    BY <2>1, ElementOfSeq
  <2> QED BY <2>1, <2>2, <2>3
<1> HIDE DEF E
<1>2. s \in Seq(E)
  <2>1. Len(s) \in Nat /\ s \in [1..Len(s) -> Pos]
    BY LenProperties
  <2>2. s \in [1..Len(s) -> E]
    BY <1>1, <2>1
  <2> QED BY <2>1, <2>2
<1> QED BY <1>2, CutEnds DEF E

LEMMA CutClosed ==
  ASSUME NEW t, NEW s \in Seq(Pos), NEW e \in Pos, t[e] \in LineEnd
  PROVE  Cut(t, Append(s, e)).line = <<>>
<1> DEFINE c == Cut(t, s)
<1>1. Cut(t, Append(s, e)) = Token(t, c, e) /\ c \in Cuts
  BY CutAppend, CutType
<1> HIDE DEF c
<1>2. CASE c.line = <<>>
  BY <1>1, <1>2, TokenCases
<1>3. CASE c.line # <<>> /\ Len(c.line) < LineMax
  BY <1>1, <1>3, TokenCases
<1>4. CASE c.line # <<>> /\ ~(Len(c.line) < LineMax)
  BY <1>1, <1>4, TokenCases
<1> QED BY <1>2, <1>3, <1>4
-----------------------------------------------------------------------------
(***************************************************************************)
(* Lines of rising positions: none is taken twice or after a later one.    *)
(***************************************************************************)
Before(a, b) == \A x \in ToSet(a), y \in ToSet(b) : x < y
Ordered(r) == \A i, j \in 1..Len(r) : i < j => Before(r[i], r[j])
WithinSet(r, S) == \A i \in 1..Len(r) : ToSet(r[i]) \subseteq S
Rising(s) == \A i, j \in 1..Len(s) : i < j => s[i] < s[j]

CutFits(t, s) ==
    LET c == Cut(t, s)
    IN  /\ WithinSet(c.made, ToSet(s)) /\ ToSet(c.line) \subseteq ToSet(s)
        /\ Ordered(c.made)
        /\ \A i \in 1..Len(c.made) : Before(c.made[i], c.line)

LEMMA RisingAppend ==
  ASSUME NEW s \in Seq(Pos), NEW e \in Pos, Rising(Append(s, e))
  PROVE  Rising(s) /\ \A x \in ToSet(s) : x < e
<1> DEFINE a == Append(s, e)
<1>1. /\ Len(a) = Len(s) + 1 /\ a[Len(s) + 1] = e /\ Len(s) \in Nat
      /\ \A i \in 1..Len(s) : a[i] = s[i]
  BY AppendProperties, LenProperties
<1>2. Rising(a)
  OBVIOUS
<1> HIDE DEF a
<1>3. Rising(s)
  BY <1>1, <1>2 DEF Rising
<1>4. ASSUME NEW x \in ToSet(s) PROVE x < e
  <2>1. PICK i \in 1..Len(s) : x = s[i]
    BY InToSet
  <2>2. i \in 1..Len(a) /\ Len(s) + 1 \in 1..Len(a) /\ i < Len(s) + 1
    BY <1>1
  <2>3. a[i] < a[Len(s) + 1]
    BY <1>2, <2>2 DEF Rising
  <2> QED BY <1>1, <2>1, <2>3
<1> QED BY <1>3, <1>4

LEMMA OrderedAppend ==
  ASSUME NEW r \in Seq(Seq(Pos)), NEW l \in Seq(Pos),
         Ordered(r), \A i \in 1..Len(r) : Before(r[i], l)
  PROVE  Ordered(Append(r, l))
<1> DEFINE a == Append(r, l)
<1>1. /\ Len(a) = Len(r) + 1 /\ a[Len(r) + 1] = l /\ Len(r) \in Nat
      /\ \A i \in 1..Len(r) : a[i] = r[i]
  BY AppendProperties, LenProperties
<1> HIDE DEF a
<1>2. ASSUME NEW i \in 1..Len(a), NEW j \in 1..Len(a), i < j PROVE Before(a[i], a[j])
  <2>1. i \in 1..Len(r) /\ (j \in 1..Len(r) \/ j = Len(r) + 1)
    BY <1>1, <1>2
  <2> QED BY <1>1, <1>2, <2>1 DEF Ordered
<1> QED BY <1>2 DEF Ordered, a

LEMMA WithinAppend ==
  ASSUME NEW S, NEW r \in Seq(Seq(Pos)), NEW l \in Seq(Pos),
         WithinSet(r, S), ToSet(l) \subseteq S
  PROVE  WithinSet(Append(r, l), S)
<1> DEFINE a == Append(r, l)
<1>1. /\ Len(a) = Len(r) + 1 /\ a[Len(r) + 1] = l /\ Len(r) \in Nat
      /\ \A i \in 1..Len(r) : a[i] = r[i]
  BY AppendProperties, LenProperties
<1> HIDE DEF a
<1>2. ASSUME NEW i \in 1..Len(a) PROVE ToSet(a[i]) \subseteq S
  <2>1. i \in 1..Len(r) \/ i = Len(r) + 1
    BY <1>1
  <2> QED BY <1>1, <2>1 DEF WithinSet
<1> QED BY <1>2 DEF WithinSet, a

LEMMA CutsRising ==
  ASSUME NEW t, NEW s \in Seq(Pos), Rising(s)
  PROVE  CutFits(t, s)
<1> DEFINE P == {v \in Seq(Pos) : Rising(v) => CutFits(t, v)}
<1>0. ToSet(<<>>) = {} /\ Len(<<>>) = 0 /\ <<>> \in Seq(Pos)
  BY EmptySeq DEF ToSet
<1>1. <<>> \in P
  <2>1. Cut(t, <<>>).made = <<>> /\ Cut(t, <<>>).line = <<>>
    BY CutEmpty DEF NoCut
  <2>2. CutFits(t, <<>>)
    BY <1>0, <2>1 DEF CutFits, WithinSet, Ordered
  <2> QED BY <1>0, <2>2
<1>2. ASSUME NEW v \in P, NEW e \in Pos PROVE Append(v, e) \in P
  <2> DEFINE c == Cut(t, v)
             a == Append(v, e)
             d == Cut(t, a)
  <2>1. v \in Seq(Pos) /\ a \in Seq(Pos)
    BY AppendProperties
  <2> SUFFICES ASSUME Rising(a) PROVE CutFits(t, a)
    BY <2>1
  <2>2. Rising(v) /\ \A x \in ToSet(v) : x < e
    BY <2>1, RisingAppend
  <2>3. CutFits(t, v)
    BY <2>2
  <2>4. ToSet(a) = ToSet(v) \cup {e}
    BY <2>1, AppendFacts
  <2>5. d = Token(t, c, e)
    BY <2>1, CutAppend
  <2>6. c.made \in Seq(Seq(Pos)) /\ c.line \in Seq(Pos) /\ c \in Cuts
    BY <2>1, CutType
  <2>7. /\ WithinSet(c.made, ToSet(v)) /\ ToSet(c.line) \subseteq ToSet(v)
        /\ Ordered(c.made)
        /\ \A i \in 1..Len(c.made) : Before(c.made[i], c.line)
    BY <2>3 DEF CutFits
  <2> HIDE DEF a, c, d
  <2>8. WithinSet(c.made, ToSet(a)) /\ ToSet(c.line) \subseteq ToSet(a)
    BY <2>4, <2>7 DEF WithinSet
  <2>9. CASE t[e] \notin LineEnd /\ ~(t[e] = "space" /\ c.line = <<>>)
    <3> DEFINE l == Append(c.line, e)
    <3>1. d.made = c.made /\ d.line = l
      BY <2>5, <2>6, <2>9, TokenCases
    <3>2. ToSet(l) = ToSet(c.line) \cup {e}
      BY <2>6, AppendFacts
    <3> HIDE DEF l
    <3>3. ASSUME NEW i \in 1..Len(c.made) PROVE Before(c.made[i], l)
      <4>1. \A x \in ToSet(c.made[i]) : x < e
        BY <2>2, <2>7 DEF WithinSet
      <4> QED BY <2>7, <3>2, <4>1 DEF Before
    <3>4. ToSet(l) \subseteq ToSet(a)
      BY <2>4, <2>8, <3>2
    <3> QED BY <2>7, <2>8, <3>1, <3>3, <3>4 DEF CutFits, d
  <2>10. CASE \/ t[e] \notin LineEnd /\ t[e] = "space" /\ c.line = <<>>
              \/ t[e] \in LineEnd /\ c.line = <<>>
    <3>1. d = c
      BY <2>5, <2>6, <2>10, TokenCases
    <3> QED BY <2>7, <2>8, <3>1 DEF CutFits, d
  <2>11. CASE t[e] \in LineEnd /\ c.line # <<>> /\ Len(c.line) < LineMax
    <3> DEFINE r == Append(c.made, c.line)
    <3>1. d.made = r /\ d.line = <<>>
      <4>1. d = [made |-> r, line |-> <<>>, long |-> c.long]
        BY <2>5, <2>6, <2>11, TokenCases
      <4> QED BY <4>1
    <3>2. Ordered(r)
      BY <2>6, <2>7, OrderedAppend
    <3>3. WithinSet(r, ToSet(a))
      BY <2>6, <2>8, WithinAppend
    <3> HIDE DEF r
    <3>4. \A i \in 1..Len(r) : Before(r[i], <<>>)
      BY <1>0 DEF Before
    <3> QED BY <1>0, <3>1, <3>2, <3>3, <3>4 DEF CutFits, d
  <2>12. CASE t[e] \in LineEnd /\ c.line # <<>> /\ ~(Len(c.line) < LineMax)
    <3>1. d.made = c.made /\ d.line = <<>>
      BY <2>5, <2>6, <2>12, TokenCases
    <3>2. \A i \in 1..Len(c.made) : Before(c.made[i], <<>>)
      BY <1>0 DEF Before
    <3> QED BY <1>0, <2>7, <2>8, <3>1, <3>2 DEF CutFits, d
  <2> QED BY <2>9, <2>10, <2>11, <2>12
<1>3. P = Seq(Pos)
  <2> HIDE DEF P
  <2>1. P \in SUBSET Seq(Pos)
    BY DEF P
  <2> QED BY <1>1, <1>2, <2>1, SeqInduction
<1> QED BY <1>3

(***************************************************************************)
(* What is cut is all in a line, in the one that is not closed, or was too *)
(* long, and in one of these only.                                         *)
(***************************************************************************)
Taken(r) == UNION {ToSet(r[i]) : i \in 1..Len(r)}

CutKept(t, s) ==
    LET c == Cut(t, s)
    IN  /\ Taken(c.made) \subseteq ToSet(s) /\ ToSet(c.line) \subseteq ToSet(s)
        /\ c.long \subseteq Text(t, s)
        /\ Taken(c.made) \cap c.long = {} /\ ToSet(c.line) \cap c.long = {}
        /\ Taken(c.made) \cap ToSet(c.line) = {}
        /\ Text(t, s) \subseteq Taken(c.made) \cup ToSet(c.line) \cup c.long

LEMMA TakenAppend ==
  ASSUME NEW r \in Seq(Seq(Pos)), NEW l \in Seq(Pos)
  PROVE  Taken(Append(r, l)) = Taken(r) \cup ToSet(l)
<1> DEFINE a == Append(r, l)
<1>1. /\ Len(a) = Len(r) + 1 /\ a[Len(r) + 1] = l /\ Len(r) \in Nat
      /\ \A i \in 1..Len(r) : a[i] = r[i]
  BY AppendProperties, LenProperties
<1> HIDE DEF a
<1>2. ASSUME NEW x PROVE x \in Taken(a) <=> x \in Taken(r) \/ x \in ToSet(l)
  <2>1. x \in Taken(a) <=> \E i \in 1..Len(a) : x \in ToSet(a[i])
    BY DEF Taken
  <2>2. x \in Taken(r) <=> \E i \in 1..Len(r) : x \in ToSet(r[i])
    BY DEF Taken
  <2>3. \A i : i \in 1..Len(a) <=> i \in 1..Len(r) \/ i = Len(r) + 1
    BY <1>1
  <2> QED BY <1>1, <2>1, <2>2, <2>3
<1> QED BY <1>2 DEF a

LEMMA CutsKept ==
  ASSUME NEW t, NEW s \in Seq(Pos), Rising(s)
  PROVE  CutKept(t, s)
<1> DEFINE P == {v \in Seq(Pos) : Rising(v) => CutKept(t, v)}
<1>0. ToSet(<<>>) = {} /\ Len(<<>>) = 0 /\ <<>> \in Seq(Pos) /\ Taken(<<>>) = {}
  BY EmptySeq DEF ToSet, Taken
<1>1. <<>> \in P
  <2>1. Cut(t, <<>>).made = <<>> /\ Cut(t, <<>>).line = <<>> /\ Cut(t, <<>>).long = {}
    BY CutEmpty DEF NoCut
  <2>2. CutKept(t, <<>>)
    BY <1>0, <2>1 DEF CutKept, Text
  <2> QED BY <1>0, <2>2
<1>2. ASSUME NEW v \in P, NEW e \in Pos PROVE Append(v, e) \in P
  <2> DEFINE c == Cut(t, v)
             a == Append(v, e)
             d == Cut(t, a)
  <2>1. v \in Seq(Pos) /\ a \in Seq(Pos)
    BY AppendProperties
  <2> SUFFICES ASSUME Rising(a) PROVE CutKept(t, a)
    BY <2>1
  <2>2. Rising(v) /\ e \notin ToSet(v)
    <3>1. Rising(v) /\ (\A x \in ToSet(v) : x < e) /\ ~(e < e)
      BY <2>1, RisingAppend DEF Pos
    <3> QED BY <3>1, Zenon
  <2>3. CutKept(t, v)
    BY <2>2
  <2>4. ToSet(a) = ToSet(v) \cup {e}
    BY <2>1, AppendFacts
  <2>5. d = Token(t, c, e)
    BY <2>1, CutAppend
  <2>6. c.made \in Seq(Seq(Pos)) /\ c.line \in Seq(Pos) /\ c \in Cuts
    BY <2>1, CutType
  <2>7. /\ Taken(c.made) \subseteq ToSet(v) /\ ToSet(c.line) \subseteq ToSet(v)
        /\ c.long \subseteq Text(t, v)
        /\ Taken(c.made) \cap c.long = {} /\ ToSet(c.line) \cap c.long = {}
        /\ Taken(c.made) \cap ToSet(c.line) = {}
        /\ Text(t, v) \subseteq Taken(c.made) \cup ToSet(c.line) \cup c.long
    BY <2>3 DEF CutKept
  <2> HIDE DEF a, c, d
  <2>8. /\ Text(t, v) \subseteq Text(t, a) /\ Text(t, a) \subseteq Text(t, v) \cup {e}
        /\ t[e] # "text" => Text(t, a) = Text(t, v)
        /\ Text(t, v) \subseteq ToSet(v) /\ ToSet(v) \subseteq ToSet(a)
        /\ Text(t, c.line) \subseteq ToSet(c.line)
        /\ Text(t, v) \cap ToSet(c.line) \subseteq Text(t, c.line)
    BY <2>4 DEF Text
  <2>9. CASE t[e] \notin LineEnd /\ ~(t[e] = "space" /\ c.line = <<>>)
    <3> DEFINE l == Append(c.line, e)
    <3>1. d.made = c.made /\ d.line = l /\ d.long = c.long
      BY <2>5, <2>6, <2>9, TokenCases
    <3>2. ToSet(l) = ToSet(c.line) \cup {e}
      BY <2>6, AppendFacts
    <3> HIDE DEF l
    <3>3. e \notin Taken(c.made) /\ e \notin c.long
      BY <2>2, <2>7, <2>8
    <3> QED BY <2>4, <2>7, <2>8, <3>1, <3>2, <3>3 DEF CutKept, d
  <2>10. CASE \/ t[e] \notin LineEnd /\ t[e] = "space" /\ c.line = <<>>
              \/ t[e] \in LineEnd /\ c.line = <<>>
    <3>1. d = c /\ t[e] # "text"
      BY <2>5, <2>6, <2>10, TokenCases DEF LineEnd
    <3> QED BY <2>7, <2>8, <3>1 DEF CutKept, d
  <2>11. CASE t[e] \in LineEnd /\ c.line # <<>> /\ Len(c.line) < LineMax
    <3> DEFINE r == Append(c.made, c.line)
    <3>1. d.made = r /\ d.line = <<>> /\ d.long = c.long
      BY <2>5, <2>6, <2>11, TokenCases
    <3>2. Taken(r) = Taken(c.made) \cup ToSet(c.line)
      BY <2>6, TakenAppend
    <3> HIDE DEF r
    <3>3. t[e] # "text"
      BY <2>11 DEF LineEnd
    <3> QED BY <1>0, <2>7, <2>8, <3>1, <3>2, <3>3 DEF CutKept, d
  <2>12. CASE t[e] \in LineEnd /\ c.line # <<>> /\ ~(Len(c.line) < LineMax)
    <3>1. d.made = c.made /\ d.line = <<>> /\ d.long = c.long \cup Text(t, c.line)
      BY <2>5, <2>6, <2>12, TokenCases
    <3>2. t[e] # "text"
      BY <2>12 DEF LineEnd
    <3>3. Text(t, c.line) \subseteq Text(t, v)
      BY <2>7 DEF Text
    <3> QED BY <1>0, <2>7, <2>8, <3>1, <3>2, <3>3 DEF CutKept, d
  <2> QED BY <2>9, <2>10, <2>11, <2>12
<1>3. P = Seq(Pos)
  <2> HIDE DEF P
  <2>1. P \in SUBSET Seq(Pos)
    BY DEF P
  <2> QED BY <1>1, <1>2, <2>1, SeqInduction
<1> QED BY <1>3

LEMMA TakenJoin ==
  ASSUME NEW r \in Seq(Seq(Pos)), NEW q \in Seq(Seq(Pos))
  PROVE  Taken(r \o q) = Taken(r) \cup Taken(q)
<1> DEFINE c == r \o q
<1>1. /\ Len(c) = Len(r) + Len(q) /\ Len(r) \in Nat /\ Len(q) \in Nat
      /\ \A i \in 1..Len(r) + Len(q) : c[i] = IF i <= Len(r) THEN r[i] ELSE q[i - Len(r)]
  BY ConcatProperties, LenProperties
<1> HIDE DEF c
<1>2. ASSUME NEW i \in 1..Len(r) PROVE i \in 1..Len(c) /\ c[i] = r[i]
  BY <1>1
<1>3. ASSUME NEW i \in 1..Len(q) PROVE Len(r) + i \in 1..Len(c) /\ c[Len(r) + i] = q[i]
  <2>1. Len(r) + i \in 1..Len(r) + Len(q) /\ ~(Len(r) + i <= Len(r)) /\ Len(r) + i - Len(r) = i
    BY <1>1
  <2> QED BY <1>1, <2>1
<1>4. Taken(r) \cup Taken(q) \subseteq Taken(c)
  BY <1>2, <1>3 DEF Taken
<1>5. ASSUME NEW i \in 1..Len(c) PROVE ToSet(c[i]) \subseteq Taken(r) \cup Taken(q)
  <2>1. CASE i <= Len(r)
    <3>1. i \in 1..Len(r) /\ c[i] = r[i]
      BY <1>1, <2>1
    <3> QED BY <3>1 DEF Taken
  <2>2. CASE ~(i <= Len(r))
    <3>1. i - Len(r) \in 1..Len(q) /\ c[i] = q[i - Len(r)]
      BY <1>1, <2>2
    <3> QED BY <3>1 DEF Taken
  <2> QED BY <2>1, <2>2
<1>6. Taken(c) \subseteq Taken(r) \cup Taken(q)
  BY <1>5 DEF Taken
<1> QED BY <1>4, <1>6 DEF c

LEMMA TakenWithin ==
  ASSUME NEW r, NEW S, WithinSet(r, S)
  PROVE  Taken(r) \subseteq S
  BY DEF Taken, WithinSet

LEMMA JoinOrdered ==
  ASSUME NEW r \in Seq(Seq(Pos)), NEW q \in Seq(Seq(Pos)), NEW d \in Nat, NEW e \in Nat,
         Ordered(r), Ordered(q), WithinSet(r, 1..d), WithinSet(q, d + 1..e), d <= e
  PROVE  Ordered(r \o q) /\ WithinSet(r \o q, 1..e)
<1> DEFINE c == r \o q
<1>1. /\ Len(c) = Len(r) + Len(q) /\ Len(r) \in Nat /\ Len(q) \in Nat
      /\ \A i \in 1..Len(r) + Len(q) : c[i] = IF i <= Len(r) THEN r[i] ELSE q[i - Len(r)]
  BY ConcatProperties, LenProperties
<1> HIDE DEF c
<1>2. ASSUME NEW i \in 1..Len(c) PROVE ToSet(c[i]) \subseteq 1..e
  <2>1. CASE i <= Len(r)
    <3>1. i \in 1..Len(r) /\ c[i] = r[i]
      BY <1>1, <2>1
    <3>2. ToSet(c[i]) \subseteq 1..d
      BY <3>1 DEF WithinSet
    <3> QED BY <3>2
  <2>2. CASE i > Len(r)
    <3>1. i - Len(r) \in 1..Len(q) /\ c[i] = q[i - Len(r)]
      BY <1>1, <2>2
    <3>2. ToSet(c[i]) \subseteq d + 1..e
      BY <3>1 DEF WithinSet
    <3> QED BY <3>2
  <2> QED BY <1>1, <2>1, <2>2
<1>3. ASSUME NEW i \in 1..Len(c), NEW j \in 1..Len(c), i < j PROVE Before(c[i], c[j])
  <2>1. CASE j <= Len(r)
    <3>1. i \in 1..Len(r) /\ j \in 1..Len(r) /\ c[i] = r[i] /\ c[j] = r[j]
      BY <1>1, <1>3, <2>1
    <3> QED BY <1>3, <3>1 DEF Ordered
  <2>2. CASE i > Len(r)
    <3>1. /\ i - Len(r) \in 1..Len(q) /\ j - Len(r) \in 1..Len(q) /\ i - Len(r) < j - Len(r)
          /\ c[i] = q[i - Len(r)] /\ c[j] = q[j - Len(r)]
      <4>1. i \in 1..Len(r) + Len(q) /\ j \in 1..Len(r) + Len(q) /\ ~(i <= Len(r)) /\ ~(j <= Len(r))
        BY <1>1, <1>3, <2>2
      <4>2. i - Len(r) \in 1..Len(q) /\ j - Len(r) \in 1..Len(q) /\ i - Len(r) < j - Len(r)
        BY <1>1, <1>3, <4>1
      <4>3. c[i] = q[i - Len(r)]
        BY <1>1, <4>1
      <4>4. c[j] = q[j - Len(r)]
        BY <1>1, <4>1
      <4> QED BY <4>2, <4>3, <4>4
    <3> DEFINE k == i - Len(r)
               l == j - Len(r)
    <3>2. k \in 1..Len(q) /\ l \in 1..Len(q) /\ k < l /\ c[i] = q[k] /\ c[j] = q[l]
      BY <3>1
    <3> HIDE DEF k, l
    <3>3. Before(q[k], q[l])
      BY <3>2 DEF Ordered
    <3> QED BY <3>2, <3>3
  <2>3. CASE i <= Len(r) /\ j > Len(r)
    <3>1. i \in 1..Len(r) /\ c[i] = r[i]
      BY <1>1, <2>3
    <3>2. j - Len(r) \in 1..Len(q) /\ c[j] = q[j - Len(r)]
      BY <1>1, <2>3
    <3>3. ToSet(c[i]) \subseteq 1..d
      BY <3>1 DEF WithinSet
    <3>4. ToSet(c[j]) \subseteq d + 1..e
      BY <3>2 DEF WithinSet
    <3>5. ASSUME NEW x \in ToSet(c[i]), NEW y \in ToSet(c[j]) PROVE x < y
      <4>1. x \in 1..d /\ y \in d + 1..e
        BY <3>3, <3>4
      <4> QED BY <4>1
    <3> QED BY <3>5 DEF Before
  <2> QED BY <1>1, <2>1, <2>2, <2>3
<1>4. Ordered(c)
  BY <1>3 DEF Ordered
<1>5. WithinSet(c, 1..e)
  BY <1>2 DEF WithinSet
<1> QED BY <1>4, <1>5 DEF c

LEMMA PositionsFacts ==
  ASSUME NEW i \in Pos, NEW j \in Nat, i <= j + 1
  PROVE  /\ Positions(i, j) \in Seq(Pos) /\ Len(Positions(i, j)) = j - i + 1
         /\ \A k \in 1..j - i + 1 : Positions(i, j)[k] = i + k - 1
         /\ ToSet(Positions(i, j)) = i..j
         /\ Rising(Positions(i, j))
<1> DEFINE s == Positions(i, j)
           n == j - i + 1
<1>1. i \in Nat /\ i >= 1 /\ n \in Nat
  BY DEF Pos
<1>2. s = [k \in 1..n |-> i + k - 1]
  BY DEF Positions
<1>3. \A k \in 1..n : i + k - 1 \in Pos
  BY <1>1 DEF Pos
<1> HIDE DEF s
<1>4. s \in [1..n -> Pos]
  BY <1>2, <1>3
<1> HIDE DEF n
<1>5. s \in Seq(Pos) /\ Len(s) = n
  BY <1>1, <1>4
<1>6. \A k \in 1..n : s[k] = i + k - 1
  BY <1>2
<1>7. Rising(s)
  BY <1>1, <1>5, <1>6 DEF Rising
<1>8. ASSUME NEW x PROVE x \in ToSet(s) <=> x \in i..j
  <2>1. x \in ToSet(s) <=> \E k \in 1..n : x = s[k]
    BY <1>5, InToSet
  <2>2. ASSUME x \in i..j PROVE \E k \in 1..n : x = s[k]
    <3>1. x - i + 1 \in 1..n /\ i + (x - i + 1) - 1 = x
      BY <1>1, <2>2 DEF n
    <3> QED BY <1>6, <3>1
  <2>3. ASSUME NEW k \in 1..n, x = s[k] PROVE x \in i..j
    <3>1. x = i + k - 1
      BY <1>6, <2>3
    <3> QED BY <1>1, <3>1 DEF n
  <2> QED BY <2>1, <2>2, <2>3
<1> QED BY <1>5, <1>6, <1>7, <1>8 DEF s, n

LEMMA PositionsJoin ==
  ASSUME NEW i \in Pos, NEW j \in Nat, NEW k \in Nat, i <= j + 1, j <= k
  PROVE  Positions(i, j) \o Positions(j + 1, k) = Positions(i, k)
<1> DEFINE a == Positions(i, j)
           b == Positions(j + 1, k)
           u == Positions(i, k)
           c == a \o b
<1>0. i \in Nat /\ i >= 1 /\ j + 1 \in Pos /\ j + 1 <= k + 1 /\ i <= k + 1
  BY DEF Pos
<1>1. /\ a \in Seq(Pos) /\ Len(a) = j - i + 1
      /\ \A x \in 1..j - i + 1 : a[x] = i + x - 1
  BY PositionsFacts
<1>2. /\ b \in Seq(Pos) /\ Len(b) = k - (j + 1) + 1
      /\ \A x \in 1..k - (j + 1) + 1 : b[x] = (j + 1) + x - 1
  BY <1>0, PositionsFacts
<1>3. /\ u \in Seq(Pos) /\ Len(u) = k - i + 1
      /\ \A x \in 1..k - i + 1 : u[x] = i + x - 1
  BY <1>0, PositionsFacts
<1> HIDE DEF a, b, u
<1>4. /\ c \in Seq(Pos) /\ Len(c) = Len(a) + Len(b)
      /\ \A x \in 1..Len(a) + Len(b) : c[x] = IF x <= Len(a) THEN a[x] ELSE b[x - Len(a)]
  BY <1>1, <1>2, ConcatProperties
<1> HIDE DEF c
<1>5. /\ Len(a) \in Nat /\ Len(b) \in Nat /\ Len(a) + Len(b) = Len(u) /\ Len(c) = Len(u)
      /\ Len(a) = j - i + 1 /\ Len(b) = k - (j + 1) + 1
  BY <1>0, <1>1, <1>2, <1>3, <1>4
<1>6. ASSUME NEW x \in 1..Len(u) PROVE c[x] = u[x]
  <2>1. u[x] = i + x - 1 /\ c[x] = IF x <= Len(a) THEN a[x] ELSE b[x - Len(a)]
    <3>1. x \in 1..k - i + 1 /\ x \in 1..Len(a) + Len(b)
      BY <1>3, <1>5
    <3> QED BY <1>3, <1>4, <3>1
  <2>2. CASE x <= Len(a)
    <3>1. x \in 1..j - i + 1
      BY <1>5, <2>2
    <3> QED BY <1>1, <2>1, <2>2, <3>1
  <2>3. CASE ~(x <= Len(a))
    <3>1. x - Len(a) \in 1..k - (j + 1) + 1 /\ (j + 1) + (x - Len(a)) - 1 = i + x - 1
      BY <1>0, <1>5, <2>3
    <3>2. b[x - Len(a)] = (j + 1) + (x - Len(a)) - 1
      BY <1>2, <3>1
    <3> QED BY <2>1, <2>3, <3>1, <3>2
  <2> QED BY <2>2, <2>3
<1>7. c = u
  BY <1>3, <1>4, <1>5, <1>6, SeqEqual
<1> QED BY <1>7 DEF a, b, c, u

LEMMA PositionsAppend ==
  ASSUME NEW i \in Pos, NEW j \in Nat, i <= j
  PROVE  Positions(i, j - 1) \in Seq(Pos) /\ Positions(i, j) = Append(Positions(i, j - 1), j)
<1>1. j - 1 \in Nat /\ j \in Pos /\ i <= (j - 1) + 1 /\ j - 1 <= j /\ (j - 1) + 1 = j /\ i \in Nat
  BY DEF Pos
<1> DEFINE a == Positions(i, j - 1)
           b == Positions(j, j)
<1>2. a \in Seq(Pos)
  BY <1>1, PositionsFacts
<1>3. a \o b = Positions(i, j)
  <2> DEFINE h == j - 1
  <2>1. h \in Nat /\ i <= h + 1 /\ h <= j /\ h + 1 = j
    BY <1>1
  <2> HIDE DEF h
  <2>2. Positions(i, h) \o Positions(h + 1, j) = Positions(i, j)
    BY <2>1, PositionsJoin
  <2> QED BY <2>1, <2>2 DEF h
<1>4. b = <<j>>
  <2>1. j - j + 1 = 1 /\ j + 1 - 1 = j
    BY <1>1
  <2>2. b \in Seq(Pos) /\ Len(b) = 1 /\ b[1] = j
    <3>1. /\ b \in Seq(Pos) /\ Len(b) = j - j + 1
          /\ \A x \in 1..j - j + 1 : b[x] = j + x - 1
      <4>1. j <= j + 1
        BY <1>1
      <4> QED BY <1>1, <4>1, PositionsFacts
    <3> HIDE DEF b
    <3> QED BY <1>1, <2>1, <3>1
  <2> HIDE DEF b
  <2>3. <<j>> \in Seq(Pos) /\ Len(<<j>>) = 1 /\ <<j>>[1] = j
    BY <1>1
  <2>4. \A x \in 1..1 : b[x] = <<j>>[x]
    BY <2>2, <2>3
  <2> QED BY <2>2, <2>3, <2>4, SeqEqual
<1> HIDE DEF a, b
<1>5. Append(a, j) = a \o <<j>>
  BY <1>1, <1>2, AppendIsConcat
<1> QED BY <1>2, <1>3, <1>4, <1>5 DEF a
-----------------------------------------------------------------------------
(***************************************************************************)
(* The inductive invariant.  The buffer holds the positions from the last  *)
(* end of a piece up to what was read; the requests are about positions    *)
(* before those, in order; and of the text there, all is in a request or   *)
(* dropped, and none is both.                                              *)
(***************************************************************************)
Done == nread - Len(buffer)

ConsoleTypeOK ==
    /\ typed \in Seq(Typed) /\ nread \in 0..Len(typed)
    /\ requests \in Seq(Seq(Pos))
    /\ Len(buffer) \in 0..nread /\ Len(buffer) < BufferLen
    /\ buffer = Positions(Done + 1, nread)

RequestsInv ==
    /\ Ordered(requests) /\ WithinSet(requests, 1..Done)
    /\ lost \subseteq 1..Done
    /\ Taken(requests) \cap lost = {}
    /\ Text(typed, Positions(1, Done)) \subseteq Taken(requests) \cup lost
    /\ lost = {} => /\ Cut(typed, Positions(1, Done)).made = requests
                    /\ Cut(typed, Positions(1, Done)).line = <<>>

ConsoleInv == ConsoleTypeOK /\ RequestsInv

LEMMA InitConsoleInv == ConsoleInit => ConsoleInv
<1> SUFFICES ASSUME ConsoleInit PROVE ConsoleInv
  OBVIOUS
<1>1. /\ typed = <<>> /\ nread = 0 /\ buffer = <<>> /\ requests = <<>> /\ lost = {}
      /\ BufferLen \in Nat \ {0}
  BY ConsoleAssumption DEF ConsoleInit
<1>2. Len(<<>>) = 0 /\ <<>> \in Seq(Typed) /\ <<>> \in Seq(Seq(Pos))
  BY EmptySeq
<1>3. Positions(1, 0) = <<>>
  <2>1. 1 \in Pos /\ 0 \in Nat /\ 1 <= 0 + 1 /\ 0 - 1 + 1 = 0
    BY DEF Pos
  <2>2. Positions(1, 0) \in Seq(Pos) /\ Len(Positions(1, 0)) = 0 - 1 + 1
    BY <2>1, PositionsFacts
  <2> QED BY <2>1, <2>2, EmptySeq
<1>4. Done = 0 /\ 0 + 1 = 1
  <2>1. Len(buffer) = 0
    BY <1>1, <1>2
  <2>2. nread = 0
    BY <1>1
  <2> QED BY <2>1, <2>2 DEF Done
<1>5. ConsoleTypeOK
  BY <1>1, <1>2, <1>3, <1>4 DEF ConsoleTypeOK
<1>6. Cut(typed, <<>>).made = <<>> /\ Cut(typed, <<>>).line = <<>>
  BY CutEmpty DEF NoCut
<1>7. Text(typed, <<>>) = {} /\ Taken(<<>>) = {}
  BY <1>2 DEF Text, Taken, ToSet
<1>8. RequestsInv
  BY <1>1, <1>2, <1>3, <1>4, <1>6, <1>7 DEF RequestsInv, Ordered, WithinSet
<1> QED BY <1>5, <1>8 DEF ConsoleInv

LEMMA DoneFacts ==
  ASSUME ConsoleTypeOK
  PROVE  /\ Done \in Nat /\ Done <= nread /\ nread \in Nat /\ Len(buffer) \in Nat
         /\ Done + Len(buffer) = nread /\ nread <= Len(typed) /\ Len(typed) \in Nat
         /\ buffer \in Seq(Pos)
<1>1. Len(typed) \in Nat /\ nread \in 0..Len(typed) /\ Len(buffer) \in 0..nread
  BY LenProperties DEF ConsoleTypeOK
<1>2. Done \in Nat /\ Done <= nread /\ nread \in Nat /\ Done + Len(buffer) = nread
  BY <1>1 DEF Done
<1>3. buffer \in Seq(Pos)
  <2>1. Done + 1 \in Pos /\ Done + 1 <= nread + 1
    BY <1>2 DEF Pos
  <2>2. Positions(Done + 1, nread) \in Seq(Pos)
    BY <1>2, <2>1, PositionsFacts
  <2> QED BY <2>2 DEF ConsoleTypeOK
<1> QED BY <1>1, <1>2, <1>3

LEMMA TypeKeeps == ASSUME ConsoleInv, Type PROVE ConsoleInv'
<1>1. PICK kind \in Typed : typed' = Append(typed, kind)
  BY DEF Type
<1>2. UNCHANGED <<nread, buffer, requests, lost>>
  BY DEF Type
<1>3. ConsoleTypeOK
  BY DEF ConsoleInv
<1>4. typed \in Seq(Typed)
  BY <1>3 DEF ConsoleTypeOK
<1>5. typed' \in Seq(Typed) /\ Len(typed') = Len(typed) + 1
  BY <1>1, <1>4, AppendProperties
<1>6. Done' = Done
  BY <1>2 DEF Done
<1>7. nread' \in 0..Len(typed')
  BY <1>2, <1>3, <1>5, DoneFacts
<1>8. ConsoleTypeOK'
  BY <1>2, <1>3, <1>5, <1>6, <1>7 DEF ConsoleTypeOK
<1>9. /\ Cut(typed', Positions(1, Done)) = Cut(typed, Positions(1, Done))
      /\ Text(typed', Positions(1, Done)) = Text(typed, Positions(1, Done))
  <2> DEFINE s == Positions(1, Done)
             E == 1..Len(typed)
  <2>1. 1 \in Pos /\ Done \in Nat /\ 1 <= Done + 1 /\ Done <= Len(typed) /\ Len(typed) \in Nat
    BY <1>3, DoneFacts DEF Pos
  <2>2. s \in Seq(Pos) /\ ToSet(s) = 1..Done
    BY <2>1, PositionsFacts
  <2> HIDE DEF s
  <2>3. \A i \in 1..Len(s) : s[i] \in E
    <3> SUFFICES ASSUME NEW i \in 1..Len(s) PROVE s[i] \in E
      OBVIOUS
    <3>1. s[i] \in ToSet(s)
      BY <2>2, InToSet
    <3> QED BY <2>1, <2>2, <3>1
  <2> HIDE DEF E
  <2>4. s \in Seq(E)
    <3>1. Len(s) \in Nat /\ s \in [1..Len(s) -> Pos]
      BY <2>2, LenProperties
    <3>2. s \in [1..Len(s) -> E]
      BY <2>3, <3>1
    <3> QED BY <3>1, <3>2
  <2>5. Cut(Append(typed, kind), s) = Cut(typed, s)
    BY <1>4, <2>4, CutSame DEF E
  <2>6. \A x \in ToSet(s) : typed'[x] = typed[x]
    <3>1. \A i \in 1..Len(typed) : typed'[i] = typed[i]
      BY <1>1, <1>4, AppendProperties
    <3>2. 1..Done \subseteq 1..Len(typed)
      BY <2>1
    <3> QED BY <2>2, <3>1, <3>2
  <2>7. Text(typed', s) = Text(typed, s)
    BY <2>6 DEF Text
  <2> QED BY <1>1, <2>5, <2>7 DEF s
<1>10. RequestsInv'
  BY <1>2, <1>6, <1>9 DEF ConsoleInv, RequestsInv
<1> QED BY <1>8, <1>10 DEF ConsoleInv

(* Text up to a position, and the text behind it. *)
LEMMA TextJoin ==
  ASSUME NEW d \in Nat, NEW h \in Nat, d <= h
  PROVE  Text(typed, Positions(1, h)) =
           Text(typed, Positions(1, d)) \cup Text(typed, Positions(d + 1, h))
<1>1. 1 \in Pos /\ d + 1 \in Pos /\ 1 <= h + 1 /\ 1 <= d + 1 /\ d + 1 <= h + 1
  BY DEF Pos
<1>2. /\ ToSet(Positions(1, h)) = 1..h /\ ToSet(Positions(1, d)) = 1..d
      /\ ToSet(Positions(d + 1, h)) = d + 1..h
  BY <1>1, PositionsFacts
<1>3. 1..h = (1..d) \cup (d + 1..h)
  OBVIOUS
<1> QED BY <1>2, <1>3 DEF Text

(* What is read is dropped: the requests stay as they were. *)
LEMMA DropKeeps ==
  ASSUME ConsoleInv, NEW h \in Nat, Done <= h, h <= Len(typed), Done' = h,
         UNCHANGED <<typed, requests>>,
         lost' = lost \cup Text(typed, Positions(Done + 1, h))
  PROVE  RequestsInv'
<1> DEFINE whole == Positions(Done + 1, h)
           new == Text(typed, whole)
<1>1. /\ Ordered(requests) /\ WithinSet(requests, 1..Done)
      /\ lost \subseteq 1..Done
      /\ Taken(requests) \cap lost = {}
      /\ Text(typed, Positions(1, Done)) \subseteq Taken(requests) \cup lost
  BY DEF ConsoleInv, RequestsInv
<1>2. Done \in Nat /\ typed \in Seq(Typed) /\ Len(typed) \in Nat
  BY DoneFacts DEF ConsoleInv, ConsoleTypeOK
<1>3. 1..Done \subseteq 1..h /\ Done + 1..h \subseteq 1..h /\ Done + 1..h \subseteq 1..Len(typed)
  BY <1>2
<1>4. whole \in Seq(Pos) /\ ToSet(whole) = Done + 1..h
  <2>1. Done + 1 \in Pos /\ Done + 1 <= h + 1
    BY <1>2 DEF Pos
  <2> QED BY <2>1, PositionsFacts
<1>5. Text(typed, Positions(1, h)) = Text(typed, Positions(1, Done)) \cup new
  BY <1>2, TextJoin
<1>6. lost = {} => /\ Cut(typed, Positions(1, Done)).made = requests
                   /\ Cut(typed, Positions(1, Done)).line = <<>>
  BY DEF ConsoleInv, RequestsInv
<1>7. Positions(1, Done) \in Seq(Pos) /\ Positions(1, Done) \o whole = Positions(1, h)
  <2>1. 1 \in Pos /\ 1 <= Done + 1
    BY <1>2 DEF Pos
  <2> QED BY <1>2, <2>1, PositionsFacts, PositionsJoin
<1>8. lost' = lost \cup new
  OBVIOUS
<1>9. requests \in Seq(Seq(Pos))
  BY DEF ConsoleInv, ConsoleTypeOK
<1> HIDE DEF whole
<1>10. new \subseteq Done + 1..h
  BY <1>4, TextFacts
<1>11. new = {} => Cut(typed, whole) = NoCut
  BY <1>2, <1>3, <1>4, CutBlank
<1> HIDE DEF new
<1>12. WithinSet(requests, 1..h)
  BY <1>1, <1>3 DEF WithinSet
<1>13. Taken(requests) \cap new = {}
  <2>1. Taken(requests) \subseteq 1..Done
    BY <1>1, TakenWithin
  <2>2. (1..Done) \cap (Done + 1..h) = {}
    BY <1>2
  <2> QED BY <1>10, <2>1, <2>2
<1>14. lost' \subseteq 1..h /\ Taken(requests) \cap lost' = {}
  BY <1>1, <1>3, <1>8, <1>10, <1>13
<1>15. Text(typed, Positions(1, h)) \subseteq Taken(requests) \cup lost'
  BY <1>1, <1>5, <1>8
<1>16. ASSUME lost' = {}
       PROVE  /\ Cut(typed, Positions(1, h)).made = requests
              /\ Cut(typed, Positions(1, h)).line = <<>>
  <2> DEFINE s == Positions(1, Done)
  <2>1. Cut(typed, s).made = requests /\ Cut(typed, s).line = <<>> /\ s \in Seq(Pos)
    BY <1>6, <1>7, <1>8, <1>16
  <2>2. Cut(typed, whole).made = <<>> /\ Cut(typed, whole).line = <<>>
    BY <1>8, <1>11, <1>16 DEF NoCut
  <2>3. s \o whole = Positions(1, h)
    BY <1>7
  <2> HIDE DEF s
  <2>4. /\ Cut(typed, s \o whole).made = requests \o <<>>
        /\ Cut(typed, s \o whole).line = <<>>
    BY <1>4, <2>1, <2>2, CutJoin
  <2>5. requests \o <<>> = requests
    BY <1>9, ConcatEmptySeq
  <2> QED BY <2>3, <2>4, <2>5
<1> QED BY <1>1, <1>12, <1>14, <1>15, <1>16 DEF RequestsInv

LEMMA ConsoleReadKeeps == ASSUME ConsoleInv, ConsoleRead PROVE ConsoleInv'
<1> DEFINE room == BufferLen - Len(buffer)
           n == IF Len(typed) - nread < room THEN Len(typed) - nread ELSE room
           piece == Positions(nread + 1, nread + n)
           whole == Gathered(piece)
           h == nread + n
           cut == Cut(typed, whole)
<1>1. ConsoleTypeOK /\ RequestsInv /\ nread < Len(typed) /\ UNCHANGED typed /\ nread' = h
  BY DEF ConsoleInv, ConsoleRead
<1>2. /\ Done \in Nat /\ Done <= nread /\ nread \in Nat /\ Len(buffer) \in Nat
      /\ Done + Len(buffer) = nread /\ nread <= Len(typed) /\ Len(typed) \in Nat
      /\ buffer \in Seq(Pos)
  BY <1>1, DoneFacts
<1>3. BufferLen \in Nat /\ Len(buffer) < BufferLen
  BY <1>1, ConsoleAssumption DEF ConsoleTypeOK
<1>4. n \in Nat /\ n >= 1 /\ n <= room /\ h <= Len(typed) /\ h \in Nat /\ nread < h
  BY <1>1, <1>2, <1>3
<1>5. nread + 1 \in Pos /\ Done + 1 \in Pos /\ 1 \in Pos /\ h \in Pos
  BY <1>2, <1>4 DEF Pos
<1>6.    IF buffer = <<>> /\ typed[nread + 1] = "lf"
         THEN lost' = lost \cup Text(typed, piece) /\ UNCHANGED <<buffer, requests>>
         ELSE IF typed[h] = "lf"
         THEN requests' = requests \o cut.made /\ buffer' = <<>> /\ lost' = lost \cup cut.long
         ELSE /\ IF Len(whole) = BufferLen
                 THEN buffer' = <<>> /\ lost' = lost \cup Text(typed, whole)
                 ELSE buffer' = whole /\ UNCHANGED lost
              /\ UNCHANGED requests
  BY DEF ConsoleRead
<1> HIDE DEF cut
<1> HIDE DEF n
<1>7. /\ piece \in Seq(Pos) /\ Len(piece) = n /\ ToSet(piece) = nread + 1..h /\ Rising(piece)
      /\ \A k \in 1..n : piece[k] = nread + k
  <2>1. nread + 1 <= h + 1 /\ h - (nread + 1) + 1 = n
    BY <1>2, <1>4
  <2>2. /\ piece \in Seq(Pos) /\ Len(piece) = h - (nread + 1) + 1
        /\ \A k \in 1..h - (nread + 1) + 1 : piece[k] = (nread + 1) + k - 1
        /\ ToSet(piece) = nread + 1..h /\ Rising(piece)
    BY <1>4, <1>5, <2>1, PositionsFacts
  <2> HIDE DEF piece, h
  <2>3. ASSUME NEW k \in 1..n PROVE piece[k] = nread + k
    <3>1. piece[k] = (nread + 1) + k - 1
      BY <2>1, <2>2
    <3> QED BY <1>2, <1>4, <3>1
  <2> QED BY <2>1, <2>2, <2>3
<1> HIDE DEF h, piece
<1>8. whole = Positions(Done + 1, h)
  <2>1. buffer = Positions(Done + 1, nread)
    BY <1>1 DEF ConsoleTypeOK
  <2>2. Done + 1 <= nread + 1 /\ nread <= h
    BY <1>2, <1>4
  <2>3. Positions(Done + 1, nread) \o Positions(nread + 1, h) = Positions(Done + 1, h)
    BY <1>2, <1>4, <1>5, <2>2, PositionsJoin
  <2> QED BY <2>1, <2>3 DEF Gathered, piece, h
<1> HIDE DEF whole
<1>9. whole \in Seq(Pos) /\ Len(whole) = Len(buffer) + n /\ ToSet(whole) = Done + 1..h /\ Rising(whole)
  <2>1. Done + 1 <= h + 1
    BY <1>2, <1>4
  <2>2. /\ whole \in Seq(Pos) /\ Len(whole) = h - (Done + 1) + 1
        /\ ToSet(whole) = Done + 1..h /\ Rising(whole)
    BY <1>4, <1>5, <1>8, <2>1, PositionsFacts
  <2>3. h - (Done + 1) + 1 = Len(buffer) + n
    BY <1>2, <1>4 DEF h
  <2> QED BY <2>2, <2>3
<1>10. /\ Positions(1, Done) \in Seq(Pos) /\ Positions(1, Done) \o whole = Positions(1, h)
  <2>1. 1 <= Done + 1 /\ Done <= h
    BY <1>2, <1>4
  <2>2. Positions(1, Done) \o Positions(Done + 1, h) = Positions(1, h)
    BY <1>2, <1>4, <1>5, <2>1, PositionsJoin
  <2> QED BY <1>2, <1>5, <1>8, <2>1, <2>2, PositionsFacts
<1>11. typed' \in Seq(Typed) /\ nread' \in 0..Len(typed')
  BY <1>1, <1>2, <1>4 DEF ConsoleTypeOK
<1>12. requests \in Seq(Seq(Pos))
  BY <1>1 DEF ConsoleTypeOK
<1>13. ASSUME buffer' = <<>>
       PROVE  /\ Done' = h
              /\ requests' \in Seq(Seq(Pos)) => ConsoleTypeOK'
  <2>1. Len(buffer') = 0
    BY <1>13, EmptySeq
  <2>2. Done' = h
    BY <1>1, <1>4, <2>1 DEF Done
  <2>3. Positions(h + 1, h) = <<>>
    <3>1. h + 1 \in Pos /\ h + 1 <= h + 1 /\ h - (h + 1) + 1 = 0
      BY <1>4 DEF Pos
    <3>2. Positions(h + 1, h) \in Seq(Pos) /\ Len(Positions(h + 1, h)) = h - (h + 1) + 1
      BY <1>4, <3>1, PositionsFacts
    <3> QED BY <3>1, <3>2, EmptySeq
  <2>4. buffer' = Positions(Done' + 1, nread')
    BY <1>1, <1>13, <2>2, <2>3
  <2>5. Len(buffer') \in 0..nread' /\ Len(buffer') < BufferLen
    BY <1>1, <1>3, <1>4, <2>1, ConsoleAssumption
  <2> QED BY <1>11, <2>2, <2>4, <2>5 DEF ConsoleTypeOK
<1>14. CASE buffer = <<>> /\ typed[nread + 1] = "lf"
  <2>1. lost' = lost \cup Text(typed, piece) /\ buffer' = <<>> /\ UNCHANGED requests
    BY <1>6, <1>14
  <2>2. Done' = h /\ ConsoleTypeOK'
    BY <1>12, <1>13, <2>1
  <2>3. piece = Positions(Done + 1, h)
    <3>1. Len(buffer) = 0
      BY <1>14, EmptySeq
    <3>2. Done = nread
      BY <1>2, <3>1
    <3> QED BY <3>2 DEF piece, h
  <2>4. Done <= h
    BY <1>2, <1>4
  <2>5. RequestsInv'
    BY <1>1, <1>4, <2>1, <2>2, <2>3, <2>4, DropKeeps DEF ConsoleInv
  <2> QED BY <2>2, <2>5 DEF ConsoleInv
<1>15. CASE ~(buffer = <<>> /\ typed[nread + 1] = "lf") /\ typed[h] = "lf"
  <2> DEFINE q == cut.made
             new == cut.long
  <2>1. requests' = requests \o q /\ buffer' = <<>> /\ lost' = lost \cup new
    BY <1>6, <1>15
  <2>2. Cut(typed, whole).line = <<>>
    <3>1. Done + 1 <= h
      BY <1>2, <1>4
    <3>2. Positions(Done + 1, h - 1) \in Seq(Pos) /\ whole = Append(Positions(Done + 1, h - 1), h)
      BY <1>4, <1>5, <1>8, <3>1, PositionsAppend
    <3> QED BY <1>5, <1>15, <3>2, CutClosed DEF LineEnd
  <2>3. q \in Seq(Seq(Pos))
    BY <1>9, CutType DEF cut
  <2>4. Ordered(q) /\ WithinSet(q, Done + 1..h)
    BY <1>9, CutsRising DEF CutFits, cut
  <2>5. /\ Taken(q) \subseteq Done + 1..h
        /\ new \subseteq Done + 1..h
        /\ Taken(q) \cap new = {}
        /\ Text(typed, whole) \subseteq Taken(q) \cup new
    <3>1. CutKept(typed, whole)
      BY <1>9, CutsKept
    <3>2. ToSet(<<>>) = {}
      BY EmptySeq DEF ToSet
    <3>3. /\ Taken(q) \subseteq ToSet(whole) /\ new \subseteq Text(typed, whole)
          /\ Taken(q) \cap new = {}
          /\ Text(typed, whole) \subseteq Taken(q) \cup ToSet(<<>>) \cup new
      BY <2>2, <3>1 DEF CutKept, cut
    <3> HIDE DEF q, new
    <3> QED BY <1>9, <3>2, <3>3, TextFacts
  <2>6. q = Cut(typed, whole).made
    BY DEF cut
  <2> HIDE DEF q, new
  <2>7. requests' \in Seq(Seq(Pos))
    BY <1>12, <2>1, <2>3, ConcatProperties
  <2>8. Done' = h /\ ConsoleTypeOK'
    BY <1>13, <2>1, <2>7
  <2>9. Ordered(requests') /\ WithinSet(requests', 1..h)
    <3>1. Ordered(requests) /\ WithinSet(requests, 1..Done) /\ Done <= h
      BY <1>1, <1>2, <1>4 DEF RequestsInv
    <3> QED BY <1>2, <1>4, <1>12, <2>1, <2>3, <2>4, <3>1, JoinOrdered
  <2>10. /\ lost \subseteq 1..Done /\ Taken(requests) \cap lost = {}
         /\ Taken(requests) \subseteq 1..Done
         /\ Text(typed, Positions(1, Done)) \subseteq Taken(requests) \cup lost
    BY <1>1, TakenWithin DEF RequestsInv
  <2>11. (1..Done) \cap (Done + 1..h) = {} /\ 1..Done \subseteq 1..h /\ Done + 1..h \subseteq 1..h
    BY <1>2, <1>4
  <2>12. Taken(requests') = Taken(requests) \cup Taken(q)
    BY <1>12, <2>1, <2>3, TakenJoin
  <2>13. lost' \subseteq 1..h
    BY <2>1, <2>5, <2>10, <2>11
  <2>14. Taken(requests') \cap lost' = {}
    BY <2>1, <2>5, <2>10, <2>11, <2>12
  <2>15. Text(typed, Positions(1, h)) \subseteq Taken(requests') \cup lost'
    <3>1. Done <= h
      BY <1>2, <1>4
    <3>2. Text(typed, Positions(1, h)) = Text(typed, Positions(1, Done)) \cup Text(typed, whole)
      BY <1>2, <1>4, <1>8, <3>1, TextJoin
    <3> QED BY <2>1, <2>5, <2>10, <2>12, <3>2
  <2>16. ASSUME lost' = {}
         PROVE  /\ Cut(typed, Positions(1, h)).made = requests'
                /\ Cut(typed, Positions(1, h)).line = <<>>
    <3> DEFINE s == Positions(1, Done)
    <3>1. Cut(typed, s).made = requests /\ Cut(typed, s).line = <<>> /\ s \in Seq(Pos)
      BY <1>1, <1>10, <2>1, <2>16 DEF RequestsInv
    <3>2. s \o whole = Positions(1, h)
      BY <1>10
    <3> HIDE DEF s
    <3>3. /\ Cut(typed, s \o whole).made = requests \o q
          /\ Cut(typed, s \o whole).line = <<>>
      BY <1>9, <2>2, <2>6, <3>1, CutJoin
    <3> QED BY <2>1, <3>2, <3>3
  <2>17. RequestsInv'
    BY <1>1, <2>8, <2>9, <2>13, <2>14, <2>15, <2>16 DEF RequestsInv
  <2> QED BY <2>8, <2>17 DEF ConsoleInv
<1>16. CASE /\ ~(buffer = <<>> /\ typed[nread + 1] = "lf") /\ typed[h] # "lf"
            /\ Len(whole) = BufferLen
  <2>1. buffer' = <<>> /\ lost' = lost \cup Text(typed, whole) /\ UNCHANGED requests
    BY <1>6, <1>16
  <2>2. Done' = h /\ ConsoleTypeOK'
    BY <1>12, <1>13, <2>1
  <2>3. Done <= h
    BY <1>2, <1>4
  <2>4. RequestsInv'
    BY <1>1, <1>4, <1>8, <2>1, <2>2, <2>3, DropKeeps DEF ConsoleInv
  <2> QED BY <2>2, <2>4 DEF ConsoleInv
<1>17. CASE /\ ~(buffer = <<>> /\ typed[nread + 1] = "lf") /\ typed[h] # "lf"
            /\ Len(whole) # BufferLen
  <2>1. buffer' = whole /\ UNCHANGED <<requests, lost>>
    BY <1>6, <1>17
  <2>2. Len(buffer') = Len(buffer) + n
    BY <1>9, <2>1
  <2>3. Done' = Done
    BY <1>1, <1>2, <1>4, <2>2 DEF Done, h
  <2>4. Len(buffer') \in 0..nread' /\ Len(buffer') < BufferLen
    BY <1>1, <1>2, <1>3, <1>4, <1>9, <1>17, <2>2 DEF h
  <2>5. ConsoleTypeOK'
    BY <1>1, <1>8, <1>11, <1>12, <2>1, <2>3, <2>4 DEF ConsoleTypeOK
  <2>6. RequestsInv'
    BY <1>1, <2>1, <2>3 DEF RequestsInv
  <2> QED BY <2>5, <2>6 DEF ConsoleInv
<1> QED BY <1>14, <1>15, <1>16, <1>17
-----------------------------------------------------------------------------
LEMMA ConsoleInvAlways == ConsoleInit /\ [][ConsoleNext]_consoleVars => []ConsoleInv
<1>1. ConsoleInv /\ [ConsoleNext]_consoleVars => ConsoleInv'
  <2> SUFFICES ASSUME ConsoleInv, [ConsoleNext]_consoleVars PROVE ConsoleInv'
    OBVIOUS
  <2>1. CASE Type
    BY <2>1, TypeKeeps
  <2>2. CASE ConsoleRead
    BY <2>2, ConsoleReadKeeps
  <2>3. CASE UNCHANGED consoleVars
    <3>1. Done' = Done
      BY <2>3 DEF consoleVars, Done
    <3> QED BY <2>3, <3>1 DEF consoleVars, ConsoleInv, ConsoleTypeOK, RequestsInv
  <2> QED BY <2>1, <2>2, <2>3 DEF ConsoleNext
<1> QED BY <1>1, InitConsoleInv, PTL

LEMMA LinesFollow == ConsoleInv => LinesExact
<1> SUFFICES ASSUME ConsoleInv PROVE LinesExact
  OBVIOUS
<1> DEFINE read == Positions(1, Done)
<1>1. lost = {} => requests = Cut(typed, read).made
  BY DEF ConsoleInv, RequestsInv
<1>2. ASSUME NEW i \in 1..Len(requests), NEW j \in 1..Len(requests), i < j,
             NEW x \in Text(typed, requests[i]), NEW y \in Text(typed, requests[j])
      PROVE  x < y
  BY <1>2, TextFacts DEF ConsoleInv, RequestsInv, Ordered, Before
<1>3. ASSUME NEW x \in Text(typed, read)
      PROVE  x \in lost <=> \A i \in 1..Len(requests) : x \notin Text(typed, requests[i])
  <2>1. typed[x] = "text" /\ (x \in lost <=> x \notin Taken(requests))
    BY DEF ConsoleInv, RequestsInv, Text
  <2>2. x \in Taken(requests) <=> \E i \in 1..Len(requests) : x \in ToSet(requests[i])
    BY DEF Taken
  <2>3. \A i \in 1..Len(requests) : x \in ToSet(requests[i]) <=> x \in Text(typed, requests[i])
    BY <2>1, TextFacts
  <2> QED BY <2>1, <2>2, <2>3
<1> QED BY <1>1, <1>2, <1>3 DEF LinesExact, Done

(* However the input is cut into pieces, the requests are the lines that   *)
(* were typed, whole and in order, as long as nothing was dropped; and     *)
(* when something was, each character of text is in one request or was     *)
(* dropped, and later text is never taken first.                           *)
THEOREM LinesAlwaysExact == ConsoleInit /\ [][ConsoleNext]_consoleVars => []LinesExact
  BY LinesFollow, ConsoleInvAlways, PTL
==============================================================================
