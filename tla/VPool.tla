------------------------------- MODULE VPool -------------------------------
(***************************************************************************)
(* What a client of a memory pool may rely on (src/vmem_pool.h), without   *)
(* the linked list, the extents or the order of reuse: a bounded set of    *)
(* blocks, each of which is either available or lent to one client.        *)
(* Blocks are numbered in the order in which their memory is obtained: a   *)
(* pool that promised max blocks owns none beyond number max.              *)
(***************************************************************************)
EXTENDS Integers

CONSTANTS Blocks,       \* the blocks a pool can ever own
          Sizes,        \* the sizes a client asks for
          CounterMod    \* the statistics counters wrap at CounterMod

VARIABLES avail,        \* blocks the pool can hand out at once
          used,         \* blocks lent to clients
          size,         \* bytes in a block, 0 before the pool is created
          max,          \* the number of blocks promised at creation
          failed        \* refused requests (mod CounterMod)

vars == <<avail, used, size, max, failed>>

Init ==
    /\ avail = {}
    /\ used = {}
    /\ size = 0
    /\ max = 0
    /\ failed = 0

(* A pool is created with a promise of n blocks, some of them at hand. *)
Create ==
    /\ size = 0
    /\ size' \in Nat \ {0}
    /\ max' \in Nat \ {0}
    /\ avail' \in SUBSET Blocks
    /\ avail' # {}
    /\ avail' \subseteq 1..max'
    /\ UNCHANGED <<used, failed>>

(* A request that fits gets a block nobody holds. Fresh memory is brought *)
(* in only with the last available block, and never beyond the promise.   *)
Take ==
    /\ size # 0
    /\ \E b \in avail :
          /\ used' = used \cup {b}
          /\ avail \ {b} \subseteq avail'
          /\ avail' \cap used' = {}
          /\ avail' \subseteq Blocks
          /\ avail' # avail \ {b} => avail = {b}
          /\ avail' \cup used' \subseteq 1..max
    /\ UNCHANGED <<size, max, failed>>

(* A request is refused only when it is too large or nothing is available. *)
Refuse(sz) ==
    /\ size # 0
    /\ sz > size \/ avail = {}
    /\ failed' = (failed + 1) % CounterMod
    /\ UNCHANGED <<avail, used, size, max>>

Release(b) ==
    /\ b \in used
    /\ used' = used \ {b}
    /\ avail' = avail \cup {b}
    /\ UNCHANGED <<size, max, failed>>

Next ==
    \/ Create
    \/ Take
    \/ \E sz \in Sizes : Refuse(sz)
    \/ \E b \in Blocks : Release(b)

Spec == Init /\ [][Next]_vars
=============================================================================
