------------------------------ MODULE VMemPool ------------------------------
(***************************************************************************)
(* The pool allocator of src/vmem_pool.c.  A pool lends fixed size blocks. *)
(* Free blocks form a singly linked list whose link is the first word of   *)
(* the block itself (word), entered at head and left at tail.  Memory is   *)
(* obtained from the C library one extent of max_elem blocks at a time,    *)
(* when the last free block is handed out.                                 *)
(*                                                                         *)
(* Blocks are numbered in the order in which their memory is obtained:     *)
(* extent k holds the blocks k * max_elem + 1 .. (k + 1) * max_elem.       *)
(*                                                                         *)
(* The callers serialise the operations (alloc_lock of src/vmem.c), so an  *)
(* operation is one step.                                                  *)
(***************************************************************************)
EXTENDS Integers, SequencesExt

CONSTANTS NrElems,      \* values of nr_elem passed to vmem_pool_create
          Sizes,        \* sizes passed to vmem_pool_create and _alloc
          MaxBlocks,    \* numbers the blocks: no nr_elem exceeds it
          PtrSize,      \* sizeof(void *)
          Align,        \* yalignof(ymax_align_t)
          SplitElems,   \* 50 in vmem_pool_get_elem
          SplitBytes,   \* 20 * 1024 in vmem_pool_get_elem
          CounterMod    \* total and failed wrap here (2^64 in the program)

ASSUME PoolAssumption ==
    /\ MaxBlocks \in Nat
    /\ NrElems \subseteq 1..MaxBlocks
    /\ Sizes \subseteq Nat \ {0}
    /\ PtrSize \in Nat \ {0}
    /\ Align \in Nat \ {0}
    /\ SplitElems \in Nat \ {0}
    /\ SplitBytes \in Nat
    /\ CounterMod \in Nat \ {0}

Blocks == 1..MaxBlocks
Nil  == 0              \* the null pointer
USER  == -1             \* a word that is not the pool's to read

VARIABLES size,         \* bytes in a block; 0: no pool yet
          max_elem,     \* blocks in an extent
          extents,      \* number of entries of pool_list
          head, tail,   \* ends of the free list
          word,         \* the first word of every block
          max, current, lowest, total, failed,    \* pool_stats_t
          used,         \* history: the blocks clients hold
          free,         \* history: the free blocks, oldest first
          oom           \* history: malloc has refused an extent

stats == <<max, current, lowest, total, failed>>
listVars == <<size, max_elem, extents, head, tail, word, stats, used, free, oom>>
-----------------------------------------------------------------------------
(* Blocks that have memory, and the test that an address lies in an extent. *)
Carved == extents * max_elem
InPool(b) == \E k \in 0..extents - 1 : b \in k * max_elem + 1 .. (k + 1) * max_elem

RoundUp(n, unit) == ((n + unit - 1) \div unit) * unit
BlockSize(sz) == RoundUp(IF sz >= PtrSize THEN sz ELSE PtrSize, Align)

(* A large pool is obtained in fifths or fourths when it divides evenly. *)
GetElem(nr, bs) ==
    LET large == nr >= SplitElems /\ bs * nr >= SplitBytes
    IN  IF large /\ nr % 5 = 0 THEN nr \div 5
        ELSE IF large /\ nr % 4 = 0 THEN nr \div 4
        ELSE nr

CanExtend == Carved < max

(* The words after an extent of e blocks is linked together behind block c. *)
Linked(w, c, e) ==
    [b \in Blocks |-> IF b \in c + 1 .. c + e
                     THEN IF b = c + e THEN Nil ELSE b + 1
                     ELSE w[b]]

Fresh(c, e) == [i \in 1..e |-> c + i]

Bump(counter) == (counter + 1) % CounterMod
-----------------------------------------------------------------------------
ListInit ==
    /\ size = 0
    /\ max_elem = 0
    /\ extents = 0
    /\ head = Nil
    /\ tail = Nil
    /\ word = [b \in Blocks |-> USER]
    /\ max = 0 /\ current = 0 /\ lowest = 0 /\ total = 0 /\ failed = 0
    /\ used = {}
    /\ free = <<>>
    /\ oom = FALSE

(* vmem_pool_create.  Zero arguments and failures of malloc return NULL    *)
(* and leave nothing behind.                                               *)
Create(nr, sz) ==
    /\ size = 0
    /\ size' = BlockSize(sz)
    /\ max_elem' = GetElem(nr, size')
    /\ max' = nr /\ current' = nr /\ lowest' = nr
    /\ extents' = 1
    /\ head' = 1
    /\ tail' = max_elem'
    /\ word' = Linked(word, 0, max_elem')
    /\ free' = Fresh(0, max_elem')
    /\ UNCHANGED <<total, failed, used, oom>>

(* Variant: a request that fits is refused while blocks are left to lend. *)
AllocRefusedAtLimit(sz) ==
    /\ size # 0
    /\ sz > size \/ head = tail
    /\ failed' = Bump(failed)
    /\ UNCHANGED <<size, max_elem, extents, head, tail, word, max, current,
                   lowest, total, used, free, oom>>

(* vmem_pool_alloc, the early returns. *)
AllocRefused(sz) ==
    /\ size # 0
    /\ sz > size \/ head = Nil
    /\ failed' = Bump(failed)
    /\ UNCHANGED <<size, max_elem, extents, head, tail, word, max, current,
                   lowest, total, used, free, oom>>

(* Variant: tail still points to the last block after it was handed out. *)
TakeFirstKeepsTail ==
    /\ word' = [word EXCEPT ![head] = USER]
    /\ head' = word[head]
    /\ free' = Tail(free)
    /\ oom' = (oom \/ word[head] = Nil)
    /\ UNCHANGED <<tail, extents>>

(* The list after its first block is taken: more blocks follow, or it is   *)
(* extended, or (at the limit, or malloc failed) it stays empty.           *)
TakeFirst ==
    \/ /\ word[head] # Nil
       /\ head' = word[head]
       /\ word' = [word EXCEPT ![head] = USER]
       /\ free' = Tail(free)
       /\ UNCHANGED <<tail, extents, oom>>
    \/ /\ word[head] = Nil
       /\ CanExtend
       /\ extents' = extents + 1
       /\ head' = Carved + 1
       /\ tail' = Carved + max_elem
       /\ word' = Linked([word EXCEPT ![head] = USER], Carved, max_elem)
       /\ free' = Tail(free) \o Fresh(Carved, max_elem)
       /\ UNCHANGED oom
    \/ /\ word[head] = Nil
       /\ head' = Nil
       /\ tail' = Nil
       /\ word' = [word EXCEPT ![head] = USER]
       /\ free' = Tail(free)
       /\ oom' = (oom \/ CanExtend)
       /\ UNCHANGED extents

(* vmem_pool_alloc, the block handed out is the head of the list.  The     *)
(* client writes to its block: the word is no longer a link.               *)
PoolAlloc(sz) ==
    /\ size # 0
    /\ sz <= size
    /\ head # Nil
    /\ TakeFirst
    /\ used' = used \cup {head}
    /\ current' = current - 1
    /\ total' = Bump(total)
    /\ lowest' = IF current' < lowest THEN current' ELSE lowest
    /\ UNCHANGED <<size, max_elem, max, failed>>

(* Variant: the new block is not marked as the end of the list. *)
FreeLeavesLink(b) ==
    /\ b \in used
    /\ InPool(b)
    /\ word' = IF tail = Nil THEN word ELSE [word EXCEPT ![tail] = b]
    /\ tail' = b
    /\ head' = IF head = Nil THEN b ELSE head
    /\ current' = current + 1
    /\ used' = used \ {b}
    /\ free' = Append(free, b)
    /\ UNCHANGED <<size, max_elem, extents, max, lowest, total, failed, oom>>

(* vmem_pool_free of a block a client holds.  An address outside the pool  *)
(* is handed back and nothing changes.                                     *)
PoolFree(b) ==
    /\ b \in used
    /\ InPool(b)
    /\ word' = IF tail = Nil THEN [word EXCEPT ![b] = Nil]
                              ELSE [word EXCEPT ![b] = Nil, ![tail] = b]
    /\ tail' = b
    /\ head' = IF head = Nil THEN b ELSE head
    /\ current' = current + 1
    /\ used' = used \ {b}
    /\ free' = Append(free, b)
    /\ UNCHANGED <<size, max_elem, extents, max, lowest, total, failed, oom>>

ListNext ==
    \/ \E nr \in NrElems, sz \in Sizes : Create(nr, sz)
    \/ \E sz \in Sizes : AllocRefused(sz)
    \/ \E sz \in Sizes : PoolAlloc(sz)
    \/ \E b \in Blocks : PoolFree(b)

ListSpec == ListInit /\ [][ListNext]_listVars
-----------------------------------------------------------------------------
(* Types of the variables; counters are natural numbers, so current does   *)
(* not run below zero.                                                     *)
ListTypeOK ==
    /\ size \in Nat /\ max_elem \in Nat /\ extents \in Nat
    /\ head \in Blocks \cup {Nil}
    /\ tail \in Blocks \cup {Nil}
    /\ word \in [Blocks -> Blocks \cup {Nil, USER}]
    /\ max \in 0..MaxBlocks
    /\ current \in Nat /\ lowest \in Nat /\ total \in Nat /\ failed \in Nat
    /\ used \in SUBSET Blocks
    /\ free \in Seq(Blocks)
    /\ oom \in BOOLEAN

FreeBlocks == ToSet(free)

(* A list entered at h, left at t and linked by w represents sequence f. *)
Represents(h, t, w, f) ==
    /\ \A i, j \in 1..Len(f) : f[i] = f[j] => i = j
    /\ f = <<>> => h = Nil /\ t = Nil
    /\ f # <<>> => h = f[1] /\ t = f[Len(f)] /\ w[t] = Nil
    /\ \A i \in 1..Len(f) - 1 : w[f[i]] = f[i + 1]

(* Following the links from head visits exactly the free blocks, oldest    *)
(* first, without a cycle, and ends at tail: alloc (157-166) and free      *)
(* (205-211) never lose a block, hand one out twice or leave tail behind.  *)
FreeListExact == Represents(head, tail, word, free)

(* Every block with memory is free or held by a client and never both, and *)
(* no more blocks exist than were asked for in vmem_pool_create.           *)
Conservation ==
    /\ FreeBlocks \cap used = {}
    /\ FreeBlocks \cup used = 1..Carved
    /\ Carved <= max

(* current (135, 168, 213) counts what is left of the nr_elem blocks.      *)
CurrentExact ==
    /\ current = max - Cardinality(used)
    /\ lowest <= current

(* Unless malloc refused an extent, a pool delivers all nr_elem blocks: it *)
(* is never empty while current says that blocks are left.                 *)
PromisedCapacity == current > 0 /\ head = Nil => oom

(* The shape of a pool: whole extents, at most five, make up nr_elem.      *)
Shape ==
    /\ size = 0 => /\ max = 0 /\ current = 0 /\ lowest = 0
                   /\ max_elem = 0 /\ extents = 0
                   /\ used = {} /\ free = <<>>
    /\ size # 0 => /\ max_elem > 0 /\ extents > 0
                   /\ \E k \in 1..5 : max = k * max_elem

(* A pool without free blocks has all its extents, unless malloc refused.  *)
FullyGrown == free = <<>> => ~CanExtend \/ oom

(* The inductive invariant.                                                *)
ListInv ==
    /\ ListTypeOK /\ Shape /\ FreeListExact /\ Conservation /\ CurrentExact
    /\ FullyGrown

(* vmem_pool.c writes the link word of free blocks only: the memory of a   *)
(* block that stays lent is not changed by any operation.                  *)
LentWordsKept == \A b \in used \cap used' : word'[b] = word[b]
LentUntouched == [][LentWordsKept]_listVars

Lender == INSTANCE VPool WITH avail <- FreeBlocks

(* The linked list implements the set of blocks of VPool.                  *)
PoolSpec == Lender!Spec
=============================================================================
