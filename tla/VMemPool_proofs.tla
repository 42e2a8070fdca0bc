--------------------------- MODULE VMemPool_proofs ---------------------------
(***************************************************************************)
(* Proofs about the pool allocator, for every number of blocks, block size *)
(* and alignment.                                                          *)
(***************************************************************************)
EXTENDS VMemPool, VSeqFacts, FiniteSetTheorems

(* What vmem_pool_get_elem returns divides nr_elem by at most five: whole  *)
(* extents add up to exactly the blocks that were asked for.               *)
LEMMA GetElemDivides ==
    ASSUME NEW nr \in Nat \ {0}, NEW bs \in Nat
    PROVE  /\ GetElem(nr, bs) \in 1..nr
           /\ \E k \in 1..5 : nr = k * GetElem(nr, bs)
<1> DEFINE e == GetElem(nr, bs)
<1>1. CASE ~(nr >= SplitElems /\ bs * nr >= SplitBytes)
  <2>1. e = nr /\ nr = 1 * e
    BY <1>1 DEF GetElem
  <2> QED
    BY <2>1
<1>2. CASE nr >= SplitElems /\ bs * nr >= SplitBytes
  <2>1. CASE nr % 5 = 0
    <3>1. e = nr \div 5
      BY <1>2, <2>1 DEF GetElem
    <3>2. nr = 5 * (nr \div 5)
      BY <2>1
    <3> QED
      BY <3>1, <3>2
  <2>2. CASE nr % 5 # 0 /\ nr % 4 = 0
    <3>1. e = nr \div 4
      BY <1>2, <2>2 DEF GetElem
    <3>2. nr = 4 * (nr \div 4)
      BY <2>2
    <3> QED
      BY <3>1, <3>2
  <2>3. CASE nr % 5 # 0 /\ nr % 4 # 0
    <3>1. e = nr /\ nr = 1 * e
      BY <1>2, <2>3 DEF GetElem
    <3> QED
      BY <3>1
  <2> QED
    BY <2>1, <2>2, <2>3
<1> QED
  BY <1>1, <1>2

(* A pool that may be extended has room for a whole extent.                *)
LEMMA RoomForExtent ==
    ASSUME NEW n \in Nat, NEW k \in Nat, NEW e \in Nat, n * e < k * e
    PROVE  (n + 1) * e <= k * e
<1>1. n < k
  <2> SUFFICES ASSUME k <= n PROVE FALSE
    OBVIOUS
  <2>1. PICK d \in Nat : n = k + d
    BY n - k \in Nat
  <2>2. n * e = k * e + d * e
    BY <2>1
  <2>3. d * e \in Nat
    OBVIOUS
  <2> QED
    BY <2>2, <2>3
<1>2. PICK d \in Nat : k = n + 1 + d
  BY <1>1, k - (n + 1) \in Nat
<1>3. k * e = (n + 1) * e + d * e
  BY <1>2
<1>4. d * e \in Nat /\ (n + 1) * e \in Nat
  OBVIOUS
<1> QED
  BY <1>3, <1>4
-----------------------------------------------------------------------------
(***************************************************************************)
(* The linked list: what pop, push and the building of an extent do to the *)
(* sequence a list represents.                                             *)
(***************************************************************************)
Word == Blocks \cup {Nil, USER}

(* The empty list. *)
LEMMA EmptyList ==
    /\ ToSet(<<>>) = {}
    /\ \A w : Represents(Nil, Nil, w, <<>>)
BY DEF ToSet, Represents

(* Popping the first of several blocks. *)
LEMMA PopFirst ==
    ASSUME NEW w \in [Blocks -> Word], NEW f \in Seq(Blocks), NEW h, NEW t,
           Represents(h, t, w, f), f # <<>>, w[h] # Nil
    PROVE  /\ Represents(w[h], t, [w EXCEPT ![h] = USER], Tail(f))
           /\ Tail(f) # <<>>
           /\ h \in ToSet(f)
           /\ ToSet(Tail(f)) = ToSet(f) \ {h}
           /\ w[h] \in Blocks
<1> DEFINE g == Tail(f)
           v == [w EXCEPT ![h] = USER]
<1>1. Len(f) \in Nat /\ Len(f) > 0 /\ h = f[1] /\ t = f[Len(f)] /\ w[t] = Nil
  BY DEF Represents
<1>2. Len(f) # 1
  BY <1>1
<1>3. /\ g \in Seq(Blocks) /\ Len(g) = Len(f) - 1
      /\ \A i \in 1..Len(g) : g[i] = f[i + 1]
  BY <1>1
<1>4. w[h] = f[2] /\ f[2] \in Blocks
  <2>1. 1 \in 1..Len(f) - 1 /\ 2 \in 1..Len(f)
    BY <1>1, <1>2
  <2>2. w[f[1]] = f[1 + 1]
    BY <2>1 DEF Represents
  <2> QED
    BY <1>1, <2>1, <2>2
<1>5. g # <<>> /\ w[h] = g[1] /\ t = g[Len(g)]
  <2>1. Len(g) \in Nat /\ Len(g) > 0
    BY <1>1, <1>2, <1>3
  <2>2. g # <<>>
    <3> DEFINE m == Len(g)
    <3>1. m > 0 /\ m \in Nat
      BY <2>1
    <3> HIDE DEF m
    <3>2. m # 0
      BY <3>1
    <3> USE DEF m
    <3> QED
      BY <3>2, EmptySeq, Zenon
  <2>3. g[1] = f[1 + 1] /\ g[Len(g)] = f[Len(g) + 1]
    BY <1>3, <2>1
  <2> QED
    BY <1>1, <1>3, <1>4, <2>2, <2>3
<1>6. \A i \in 1..Len(g) : g[i] # h /\ g[i] \in Blocks
  BY <1>1, <1>3 DEF Represents
<1>7. \A i, j \in 1..Len(g) : g[i] = g[j] => i = j
  BY <1>1, <1>3 DEF Represents
<1>8. \A i \in 1..Len(g) - 1 : v[g[i]] = g[i + 1]
  <2> TAKE i \in 1..Len(g) - 1
  <2>1. g[i] # h /\ g[i] \in Blocks /\ g[i] = f[i + 1] /\ g[i + 1] = f[i + 2]
    BY <1>3, <1>6
  <2>2. w[f[i + 1]] = f[i + 2]
    BY <1>1, <1>3 DEF Represents
  <2> QED
    BY <2>1, <2>2
<1>9. v[t] = Nil
  BY <1>1, <1>5, <1>6
<1>10. ToSet(g) = ToSet(f) \ {h}
  <2>1. ASSUME NEW b \in ToSet(g) PROVE b \in ToSet(f) \ {h}
    BY <1>1, <1>3, <1>6 DEF ToSet
  <2>2. ASSUME NEW b \in ToSet(f), b # h PROVE b \in ToSet(g)
    <3>1. PICK i \in 1..Len(f) : b = f[i]
      BY DEF ToSet
    <3>2. i - 1 \in 1..Len(g) /\ g[i - 1] = b
      BY <1>1, <1>3, <2>2, <3>1
    <3> QED
      BY <1>3, <3>2, InToSet
  <2> QED
    BY <2>1, <2>2
<1>11. h \in ToSet(f)
  BY <1>1 DEF ToSet
<1> QED
  BY <1>4, <1>5, <1>7, <1>8, <1>9, <1>10, <1>11 DEF Represents

(* A list whose first block has no successor holds that block alone. *)
LEMMA PopLast ==
    ASSUME NEW w \in [Blocks -> Word], NEW f \in Seq(Blocks), NEW h, NEW t,
           Represents(h, t, w, f), f # <<>>, w[h] = Nil
    PROVE  /\ Tail(f) = <<>>
           /\ ToSet(f) = {h}
<1> DEFINE n == Len(f)
<1>0. n \in Nat /\ n > 0
  BY EmptySeq
<1>1. h = f[1]
  BY DEF Represents
<1>2. n = 1
  <2> HIDE DEF n
  <2> SUFFICES ASSUME n >= 2 PROVE FALSE
    BY <1>0
  <2> USE DEF n
  <2>1. 1 \in 1..Len(f) - 1 /\ 2 \in 1..Len(f)
    BY <1>0
  <2>2. w[f[1]] = f[1 + 1] /\ f[2] \in Blocks
    BY <2>1 DEF Represents
  <2> QED
    BY <1>1, <2>2 DEF Blocks, Nil
<1>3. ToSet(f) = {h}
  BY <1>1, <1>2 DEF ToSet
<1>4. Tail(f) = <<>>
  <2>1. Tail(f) \in Seq(Blocks) /\ Len(Tail(f)) = 0
    BY <1>1, <1>2
  <2> QED
    BY <2>1, EmptySeq
<1> QED
  BY <1>3, <1>4

(* An extent linked together behind block c represents its blocks.         *)
LEMMA FreshList ==
    ASSUME NEW w \in [Blocks -> Word], NEW c \in Nat, NEW e \in Nat \ {0},
           c + e <= MaxBlocks
    PROVE  /\ Represents(c + 1, c + e, Linked(w, c, e), Fresh(c, e))
           /\ Fresh(c, e) \in Seq(Blocks)
           /\ Fresh(c, e) # <<>>
           /\ ToSet(Fresh(c, e)) = c + 1 .. c + e
           /\ Linked(w, c, e) \in [Blocks -> Word]
<1> USE PoolAssumption DEF Blocks
<1> DEFINE g == Fresh(c, e)
<1>1. /\ g \in Seq(Blocks) /\ Len(g) = e
      /\ \A i \in 1..e : g[i] = c + i /\ g[i] \in Blocks
  BY DEF Fresh
<1>2. g # <<>>
  BY <1>1
<1>3. \A b \in c + 1 .. c + e : b \in Blocks
  OBVIOUS
<1>4. \A i \in 1..e - 1 : Linked(w, c, e)[g[i]] = g[i + 1]
  BY <1>1 DEF Linked
<1>5. Linked(w, c, e)[c + e] = Nil
  BY <1>3 DEF Linked
<1>6. ToSet(g) = c + 1 .. c + e
  <2>1. ASSUME NEW b \in c + 1 .. c + e PROVE b \in ToSet(g)
    <3>1. b - c \in 1..e /\ g[b - c] = b
      BY <1>1
    <3> QED
      BY <1>1, <3>1, InToSet
  <2>2. ToSet(g) \subseteq c + 1 .. c + e
    BY <1>1 DEF ToSet
  <2> QED
    BY <2>1, <2>2
<1>7. Linked(w, c, e) \in [Blocks -> Word]
  BY DEF Linked, Word, Nil
<1> QED
  BY <1>1, <1>2, <1>4, <1>5, <1>6, <1>7 DEF Represents

(* Appending a block behind the tail, or to an empty list.                 *)
LEMMA PushLast ==
    ASSUME NEW w \in [Blocks -> Word], NEW f \in Seq(Blocks), NEW h, NEW t,
           NEW b \in Blocks, Represents(h, t, w, f), b \notin ToSet(f),
           NEW v, t = Nil => v = [w EXCEPT ![b] = Nil],
           t # Nil => v = [w EXCEPT ![b] = Nil, ![t] = b]
    PROVE  /\ Represents(IF h = Nil THEN b ELSE h, b, v, Append(f, b))
           /\ v \in [Blocks -> Word]
           /\ ToSet(Append(f, b)) = ToSet(f) \cup {b}
<1> DEFINE g == Append(f, b)
           n == Len(f)
<1>1. /\ n \in Nat /\ g \in Seq(Blocks) /\ Len(g) = n + 1 /\ g[n + 1] = b /\ g # <<>>
      /\ \A i \in 1..n : g[i] = f[i] /\ f[i] \in Blocks /\ f[i] # b
  <2>1. n \in Nat /\ g \in Seq(Blocks) /\ Len(g) = n + 1 /\ g[n + 1] = b
    OBVIOUS
  <2>2. \A i \in 1..n : g[i] = f[i] /\ f[i] \in Blocks
    OBVIOUS
  <2>3. \A i \in 1..n : f[i] # b
    BY DEF ToSet
  <2>4. g # <<>>
    <3>1. g[n + 1] = b /\ n + 1 \in 1..Len(g)
      BY <2>1
    <3> QED
      BY <2>1, <3>1, EmptySeq
  <2> QED
    BY <2>1, <2>2, <2>3, <2>4
<1>2. \A i, j \in 1..n + 1 : g[i] = g[j] => i = j
  <2> SUFFICES ASSUME NEW i \in 1..n + 1, NEW j \in 1..n + 1, g[i] = g[j]
               PROVE  i = j
    OBVIOUS
  <2>1. CASE i \in 1..n /\ j \in 1..n
    <3>1. f[i] = f[j]
      BY <1>1, <2>1
    <3> QED
      BY <2>1, <3>1 DEF Represents
  <2>2. CASE i = n + 1 \/ j = n + 1
    BY <1>1, <2>2
  <2> QED
    BY <1>1, <2>1, <2>2
<1>3. v \in [Blocks -> Word]
  BY DEF Word
<1>4. ToSet(g) = ToSet(f) \cup {b}
  <2>1. ToSet(f) \cup {b} \subseteq ToSet(g)
    <3>1. b \in ToSet(g)
      BY <1>1 DEF ToSet
    <3>2. ASSUME NEW x \in ToSet(f) PROVE x \in ToSet(g)
      <4>1. PICK i \in 1..n : x = f[i]
        BY DEF ToSet
      <4>2. i \in 1..Len(g) /\ g[i] = x
        BY <1>1, <4>1
      <4> QED
        BY <4>2 DEF ToSet
    <3> QED
      BY <3>1, <3>2
  <2>2. ASSUME NEW x \in ToSet(g) PROVE x \in ToSet(f) \cup {b}
    <3>1. PICK i \in 1..n + 1 : x = g[i]
      BY <1>1 DEF ToSet
    <3>2. i \in 1..n => x = f[i]
      BY <1>1, <3>1
    <3> QED
      BY <1>1, <3>1, <3>2 DEF ToSet
  <2> QED
    BY <2>1, <2>2
<1>5. CASE f = <<>>
  <2>1. n = 0 /\ h = Nil /\ t = Nil /\ v = [w EXCEPT ![b] = Nil]
    BY <1>5 DEF Represents
  <2>2. Represents(b, b, v, g)
    BY <1>1, <1>2, <2>1 DEF Represents
  <2> QED
    BY <1>3, <1>4, <2>1, <2>2
<1>6. CASE f # <<>>
  <2>1. n > 0 /\ h = f[1] /\ t = f[n] /\ t \in Blocks /\ h \in Blocks /\ t # b
    BY <1>1, <1>6 DEF Represents
  <2>2. h # Nil /\ t # Nil
    BY <2>1 DEF Blocks, Nil
  <2>3. v = [w EXCEPT ![b] = Nil, ![t] = b]
    BY <2>2
  <2>4. v[b] = Nil /\ v[t] = b
    BY <2>1, <2>3
  <2>5. \A i \in 1..n : v[g[i]] = g[i + 1]
    <3> TAKE i \in 1..n
    <3>1. CASE i = n
      BY <1>1, <2>1, <2>4, <3>1
    <3>2. CASE i # n
      <4>1. f[i] # t /\ f[i] # b /\ f[i] \in Blocks /\ w[f[i]] = f[i + 1]
        BY <1>1, <2>1, <3>2 DEF Represents
      <4>2. v[f[i]] = w[f[i]]
        BY <2>3, <4>1
      <4>3. g[i] = f[i] /\ g[i + 1] = f[i + 1]
        BY <1>1, <3>2
      <4> QED
        BY <4>1, <4>2, <4>3
    <3> QED
      BY <3>1, <3>2
  <2>6. Represents(h, b, v, g)
    BY <1>1, <1>2, <2>1, <2>4, <2>5 DEF Represents
  <2> QED
    BY <1>3, <1>4, <2>2, <2>6
<1> QED
  BY <1>5, <1>6
-----------------------------------------------------------------------------
(* Rounding up loses nothing: a block holds the size it was created for.   *)
LEMMA BlockSizeFits ==
    ASSUME NEW sz \in Nat \ {0}
    PROVE  BlockSize(sz) \in Nat /\ BlockSize(sz) >= sz /\ BlockSize(sz) > 0
<1> USE PoolAssumption
<1> DEFINE n == IF sz >= PtrSize THEN sz ELSE PtrSize
           q == (n + Align - 1) \div Align
           r == (n + Align - 1) % Align
<1>1. n \in Nat /\ n >= sz /\ n > 0
  OBVIOUS
<1>2. q \in Nat /\ r \in 0..Align - 1 /\ n + Align - 1 = Align * q + r
  <2> HIDE DEF n
  <2>1. n + Align - 1 \in Nat
    BY <1>1
  <2> QED
    BY <2>1
<1>3. Align * q >= n /\ q * Align = Align * q /\ q * Align \in Nat
  <2> HIDE DEF n, q, r
  <2> QED
    BY <1>1, <1>2
<1>4. BlockSize(sz) = q * Align
  BY DEF BlockSize, RoundUp
<1> QED
  BY <1>1, <1>3, <1>4

(* No pool satisfies the inductive invariant: nothing is free or lent.     *)
LEMMA InitIInv == ListInit => ListInv
<1> SUFFICES ASSUME ListInit PROVE ListInv
  OBVIOUS
<1> USE PoolAssumption DEF ListInit
<1>1. ListTypeOK
  <2>1. free \in Seq(Blocks)
    BY EmptySeq
  <2>2. word \in [Blocks -> Blocks \cup {Nil, USER}]
    OBVIOUS
  <2>3. head \in Blocks \cup {Nil} /\ tail \in Blocks \cup {Nil} /\ max \in 0..MaxBlocks
    OBVIOUS
  <2> QED
    BY <2>1, <2>2, <2>3 DEF ListTypeOK
<1>2. ToSet(free) = {} /\ 1..Carved = {} /\ Carved = 0
  BY DEF ToSet, Carved
<1>3. Represents(head, tail, word, free)
  BY DEF Represents
<1>4. CurrentExact
  BY FS_EmptySet DEF CurrentExact
<1>5. Shape /\ FullyGrown
  BY <1>2 DEF Shape, FullyGrown, CanExtend
<1> QED
  BY <1>1, <1>2, <1>3, <1>4, <1>5
     DEF ListInv, FreeListExact, Conservation, FreeBlocks

(* A created pool satisfies it: its first extent is linked in order.       *)
LEMMA CreateIInv ==
    ASSUME ListInv, NEW nr \in NrElems, NEW sz \in Sizes, Create(nr, sz)
    PROVE  ListInv'
<1> USE PoolAssumption
<1> DEFINE e == GetElem(nr, BlockSize(sz))
<1>1. nr \in Nat \ {0} /\ nr <= MaxBlocks
  OBVIOUS
<1>2. BlockSize(sz) \in Nat \ {0}
  BY BlockSizeFits
<1>3. e \in 1..nr /\ \E k \in 1..5 : nr = k * e
  BY <1>1, <1>2, GetElemDivides
<1>4. /\ size = 0 /\ size' = BlockSize(sz) /\ max_elem' = e /\ extents' = 1
      /\ max' = nr /\ current' = nr /\ lowest' = nr
      /\ head' = 1 /\ tail' = e /\ word' = Linked(word, 0, e)
      /\ free' = Fresh(0, e)
      /\ total' = total /\ failed' = failed /\ used' = used /\ oom' = oom
  BY DEF Create
<1>5. used = {} /\ word \in [Blocks -> Word]
  BY <1>4 DEF ListInv, Shape, ListTypeOK, Word
<1> HIDE DEF e
<1>6. /\ Represents(1, e, Linked(word, 0, e), Fresh(0, e))
      /\ Fresh(0, e) \in Seq(Blocks)
      /\ Fresh(0, e) # <<>>
      /\ ToSet(Fresh(0, e)) = 1..e
      /\ Linked(word, 0, e) \in [Blocks -> Word]
  <2>1. 0 + e <= MaxBlocks /\ 0 + 1 = 1 /\ 0 + e = e /\ e \in Nat \ {0}
    BY <1>1, <1>3
  <2> QED
    BY <2>1, <1>5, FreshList
<1>7. ListTypeOK'
  BY <1>1, <1>2, <1>3, <1>4, <1>6 DEF ListInv, ListTypeOK, Blocks, Word
<1>8. Shape'
  BY <1>2, <1>3, <1>4 DEF Shape
<1>9. FreeListExact'
  BY <1>4, <1>6 DEF FreeListExact
<1>10. Conservation'
  <2>1. Carved' = e
    BY <1>3, <1>4 DEF Carved
  <2> QED
    BY <1>3, <1>4, <1>5, <1>6, <2>1 DEF Conservation, FreeBlocks
<1>11. CurrentExact'
  BY <1>1, <1>4, <1>5, FS_EmptySet DEF CurrentExact
<1>12. FullyGrown'
  BY <1>4, <1>6 DEF FullyGrown
<1> QED
  BY <1>7, <1>8, <1>9, <1>10, <1>11, <1>12 DEF ListInv

(* A refused request only counts.                                          *)
LEMMA AllocRefusedIInv ==
    ASSUME ListInv, NEW sz \in Sizes, AllocRefused(sz)
    PROVE  ListInv'
<1> USE PoolAssumption DEF AllocRefused
<1>1. ListTypeOK'
  BY DEF ListInv, ListTypeOK, Bump
<1>2. Shape' /\ FreeListExact' /\ CurrentExact'
  BY DEF ListInv, Shape, FreeListExact, CurrentExact
<1>3. Conservation' /\ FullyGrown'
  BY DEF ListInv, Conservation, FullyGrown, FreeBlocks, CanExtend, Carved
<1> QED
  BY <1>1, <1>2, <1>3 DEF ListInv
(* The cardinality of a set of lent blocks, all of which have memory.      *)
LEMMA LentCount ==
    ASSUME NEW n \in Nat, NEW S \in SUBSET (1..n)
    PROVE  IsFiniteSet(S) /\ Cardinality(S) \in Nat /\ Cardinality(S) <= n
<1>1. IsFiniteSet(1..n) /\ Cardinality(1..n) = n
  <2>1. 1 \in Int /\ n \in Int
    OBVIOUS
  <2>2. /\ IsFiniteSet(1..n)
        /\ Cardinality(1..n) = IF 1 > n THEN 0 ELSE n - 1 + 1
    BY <2>1, FS_Interval
  <2> QED
    BY <2>2
<1>2. IsFiniteSet(S) /\ Cardinality(S) <= Cardinality(1..n)
  BY <1>1, FS_Subset
<1> QED
  BY <1>1, <1>2, FS_CardinalityType

(* vmem_pool_free preserves it: the block becomes the tail of the list.    *)
LEMMA FreeIInv ==
    ASSUME ListInv, NEW b \in Blocks, PoolFree(b)
    PROVE  ListInv'
<1> USE PoolAssumption
<1>1. /\ b \in used /\ tail' = b /\ head' = IF head = Nil THEN b ELSE head
      /\ word' = IF tail = Nil THEN [word EXCEPT ![b] = Nil]
                                ELSE [word EXCEPT ![b] = Nil, ![tail] = b]
      /\ current' = current + 1 /\ used' = used \ {b} /\ free' = Append(free, b)
      /\ size' = size /\ max_elem' = max_elem /\ extents' = extents
      /\ max' = max /\ lowest' = lowest /\ total' = total /\ failed' = failed
      /\ oom' = oom
  BY DEF PoolFree
<1>2. /\ word \in [Blocks -> Word] /\ free \in Seq(Blocks)
      /\ Represents(head, tail, word, free) /\ b \notin ToSet(free)
  BY <1>1 DEF ListInv, ListTypeOK, FreeListExact, Conservation, FreeBlocks, Word
<1>3. /\ Represents(head', tail', word', free')
      /\ word' \in [Blocks -> Word]
      /\ ToSet(free') = ToSet(free) \cup {b}
  <2>1. /\ Represents(IF head = Nil THEN b ELSE head, b, word', Append(free, b))
        /\ word' \in [Blocks -> Word]
        /\ ToSet(Append(free, b)) = ToSet(free) \cup {b}
    <3>1. /\ tail = Nil => word' = [word EXCEPT ![b] = Nil]
          /\ tail # Nil => word' = [word EXCEPT ![b] = Nil, ![tail] = b]
      BY <1>1
    <3> HIDE <1>1
    <3> QED
      BY <1>2, <3>1, PushLast
  <2> QED
    BY <1>1, <2>1
<1>4. Carved' = Carved /\ Carved \in Nat /\ used \subseteq 1..Carved /\ Carved <= max
  BY <1>1 DEF ListInv, ListTypeOK, Conservation, Carved
<1>5. CurrentExact'
  <2>1. IsFiniteSet(used) /\ Cardinality(used) \in Nat
    BY <1>4, LentCount
  <2>2. Cardinality(used \ {b}) = Cardinality(used) - 1
    BY <1>1, <2>1, FS_RemoveElement
  <2> QED
    BY <1>1, <2>1, <2>2 DEF ListInv, ListTypeOK, CurrentExact
<1>6. ListTypeOK'
  <2>1. free' \in Seq(Blocks)
    BY <1>1, <1>2
  <2> QED
    BY <1>1, <1>3, <2>1 DEF ListInv, ListTypeOK, Word
<1>7. Shape'
  BY <1>1 DEF ListInv, Shape
<1>8. Conservation'
  BY <1>1, <1>3, <1>4 DEF ListInv, Conservation, FreeBlocks
<1>9. FullyGrown'
  <2>1. free' # <<>>
    BY <1>1, <1>2
  <2> QED
    BY <2>1 DEF FullyGrown
<1> QED
  BY <1>3, <1>5, <1>6, <1>7, <1>8, <1>9 DEF ListInv, FreeListExact
(* A block is handed out: what holds of the counters in every case.        *)
LEMMA TakeCounters ==
    ASSUME ListInv, NEW sz \in Sizes, PoolAlloc(sz), head \in ToSet(free)
    PROVE  CurrentExact' /\ current' \in Nat /\ lowest' \in Nat
<1>1. /\ head \notin used /\ head \in 1..Carved /\ used \subseteq 1..Carved
      /\ Carved \in Nat /\ Carved <= max /\ max \in Nat
  BY PoolAssumption DEF ListInv, ListTypeOK, Conservation, FreeBlocks, Carved
<1>2. used \cup {head} \subseteq 1..Carved
  BY <1>1
<1> DEFINE n == Cardinality(used)
           m == Cardinality(used \cup {head})
<1>3. IsFiniteSet(used) /\ n \in Nat
  BY <1>1, LentCount
<1>4. m = n + 1
  BY <1>1, <1>3, FS_AddElement
<1>5. m \in Nat /\ m <= Carved
  BY <1>1, <1>2, LentCount
<1>6. current = max - n /\ lowest \in Nat /\ lowest <= current
  BY DEF ListInv, ListTypeOK, CurrentExact
<1>7. /\ used' = used \cup {head} /\ max' = max /\ current' = current - 1
      /\ lowest' = IF current' < lowest THEN current' ELSE lowest
  BY DEF PoolAlloc
<1>8. Cardinality(used') = m
  BY <1>7
<1> HIDE DEF n, m
<1>9. current' = max - m /\ current' \in Nat
  BY <1>1, <1>3, <1>4, <1>5, <1>6, <1>7
<1>10. lowest' <= current' /\ lowest' \in Nat
  BY <1>6, <1>7, <1>9
<1> QED
  BY <1>7, <1>8, <1>9, <1>10 DEF CurrentExact

(* More blocks follow the one handed out.                                  *)
LEMMA TakeSome ==
    ASSUME ListInv, NEW sz \in Sizes, PoolAlloc(sz), word[head] # Nil,
           head' = word[head], word' = [word EXCEPT ![head] = USER],
           free' = Tail(free), tail' = tail, extents' = extents, oom' = oom
    PROVE  ListInv'
<1>1. /\ used' = used \cup {head} /\ head # Nil /\ size # 0 /\ size' = size
      /\ max_elem' = max_elem /\ max' = max /\ failed' = failed
      /\ total' = Bump(total)
  BY DEF PoolAlloc
<1>2. /\ word \in [Blocks -> Word] /\ free \in Seq(Blocks)
      /\ Represents(head, tail, word, free)
  BY DEF ListInv, ListTypeOK, FreeListExact, Word
<1>3. free # <<>>
  BY <1>1, <1>2 DEF Represents
<1>4. /\ Represents(word[head], tail, [word EXCEPT ![head] = USER], Tail(free))
      /\ Tail(free) # <<>> /\ head \in ToSet(free)
      /\ ToSet(Tail(free)) = ToSet(free) \ {head}
      /\ word[head] \in Blocks
  BY <1>2, <1>3, PopFirst
<1>5. CurrentExact' /\ current' \in Nat /\ lowest' \in Nat
  BY <1>4, TakeCounters
<1>6. head \in Blocks
  BY <1>1 DEF ListInv, ListTypeOK
<1>7. ListTypeOK'
  <2>1. free' \in Seq(Blocks)
    BY <1>2, <1>3
  <2>2. used' \in SUBSET Blocks
    BY <1>1, <1>6 DEF ListInv, ListTypeOK
  <2>3. word' \in [Blocks -> Blocks \cup {Nil, USER}]
    BY DEF ListInv, ListTypeOK
  <2>4. total' \in Nat
    BY <1>1, PoolAssumption DEF ListInv, ListTypeOK, Bump
  <2> QED
    BY <1>1, <1>4, <1>5, <2>1, <2>2, <2>3, <2>4 DEF ListInv, ListTypeOK
<1>8. Shape'
  BY <1>1 DEF ListInv, Shape
<1>9. Conservation'
  <2>1. Carved' = Carved
    BY <1>1 DEF Carved
  <2> QED
    BY <1>1, <1>4, <2>1 DEF ListInv, Conservation, FreeBlocks
<1>10. FullyGrown'
  BY <1>4 DEF FullyGrown
<1>11. FreeListExact'
  BY <1>4 DEF FreeListExact
<1> QED
  BY <1>5, <1>7, <1>8, <1>9, <1>10, <1>11 DEF ListInv
(* The last block is handed out and a fresh extent takes its place.        *)
LEMMA TakeAndExtend ==
    ASSUME ListInv, NEW sz \in Sizes, PoolAlloc(sz), word[head] = Nil, CanExtend,
           extents' = extents + 1,
           head' = Carved + 1, tail' = Carved + max_elem,
           word' = Linked([word EXCEPT ![head] = USER], Carved, max_elem),
           free' = Tail(free) \o Fresh(Carved, max_elem), oom' = oom
    PROVE  ListInv'
<1> DEFINE w == [word EXCEPT ![head] = USER]
           c == Carved
           e == max_elem
<1>1. /\ used' = used \cup {head} /\ head # Nil /\ size # 0 /\ size' = size
      /\ max_elem' = max_elem /\ max' = max /\ failed' = failed
      /\ total' = Bump(total)
  BY DEF PoolAlloc
<1>2. /\ word \in [Blocks -> Word] /\ free \in Seq(Blocks)
      /\ Represents(head, tail, word, free)
      /\ head \in Blocks
  BY <1>1 DEF ListInv, ListTypeOK, FreeListExact, Word
<1>3. free # <<>>
  BY <1>1, <1>2 DEF Represents
<1>4. Tail(free) = <<>> /\ ToSet(free) = {head}
  BY <1>2, <1>3, PopLast
<1>5. CurrentExact' /\ current' \in Nat /\ lowest' \in Nat
  BY <1>4, TakeCounters
<1>6. /\ c \in Nat /\ e \in Nat \ {0} /\ c < max /\ max \in Nat /\ max <= MaxBlocks
      /\ Carved' = c + e
  BY <1>1, PoolAssumption DEF ListInv, ListTypeOK, Shape, CanExtend, Carved
<1>7. c + e <= max
  <2>1. PICK k \in 1..5 : max = k * e
    BY <1>1 DEF ListInv, Shape
  <2>2. extents \in Nat /\ k \in Nat /\ extents * e < k * e
    BY <1>6, <2>1 DEF ListInv, ListTypeOK, Carved
  <2>3. (extents + 1) * e <= k * e
    BY <1>6, <2>2, RoomForExtent
  <2>4. (extents + 1) * e = c + e
    BY <1>6, <2>2 DEF Carved
  <2> QED
    BY <2>1, <2>3, <2>4
<1>8. w \in [Blocks -> Word]
  BY <1>2 DEF Word
<1>9. /\ Represents(c + 1, c + e, Linked(w, c, e), Fresh(c, e))
      /\ Fresh(c, e) \in Seq(Blocks) /\ Fresh(c, e) # <<>>
      /\ ToSet(Fresh(c, e)) = c + 1 .. c + e
      /\ Linked(w, c, e) \in [Blocks -> Word]
  <2> HIDE DEF w, c, e
  <2>1. c + e <= MaxBlocks
    BY <1>6, <1>7, PoolAssumption
  <2> QED
    BY <1>6, <1>8, <2>1, FreshList
<1>10. free' = Fresh(c, e)
  BY <1>4, <1>9, ConcatEmptySeq
<1> HIDE DEF w, c, e
<1>11. /\ head' = c + 1 /\ tail' = c + e /\ word' = Linked(w, c, e)
  BY DEF w, c, e
<1>12. FreeListExact'
  BY <1>9, <1>10, <1>11 DEF FreeListExact
<1>13. ListTypeOK'
  <2>1. used' \in SUBSET Blocks
    BY <1>1, <1>2 DEF ListInv, ListTypeOK
  <2>2. head' \in Blocks /\ tail' \in Blocks
    BY <1>6, <1>7, <1>11, PoolAssumption DEF Blocks
  <2>3. total' \in Nat /\ extents' \in Nat
    BY <1>1, PoolAssumption DEF ListInv, ListTypeOK, Bump
  <2> QED
    BY <1>1, <1>5, <1>9, <1>10, <1>11, <2>1, <2>2, <2>3 DEF ListInv, ListTypeOK, Word
<1>14. Shape'
  BY <1>1 DEF ListInv, Shape, ListTypeOK
<1>15. Conservation'
  <2>1. used \cup {head} = 1..c
    BY <1>4 DEF ListInv, Conservation, FreeBlocks, c
  <2>2. FreeBlocks' = c + 1 .. c + e
    BY <1>9, <1>10 DEF FreeBlocks
  <2> QED
    BY <1>1, <1>6, <1>7, <2>1, <2>2 DEF Conservation
<1>16. FullyGrown'
  BY <1>9, <1>10 DEF FullyGrown
<1> QED
  BY <1>5, <1>12, <1>13, <1>14, <1>15, <1>16 DEF ListInv

(* The last block is handed out and the list stays empty.                  *)
LEMMA TakeLast ==
    ASSUME ListInv, NEW sz \in Sizes, PoolAlloc(sz), word[head] = Nil,
           head' = Nil, tail' = Nil, word' = [word EXCEPT ![head] = USER],
           free' = Tail(free), oom' = (oom \/ CanExtend), extents' = extents
    PROVE  ListInv'
<1>1. /\ used' = used \cup {head} /\ head # Nil /\ size # 0 /\ size' = size
      /\ max_elem' = max_elem /\ max' = max /\ failed' = failed
      /\ total' = Bump(total)
  BY DEF PoolAlloc
<1>2. /\ word \in [Blocks -> Word] /\ free \in Seq(Blocks)
      /\ Represents(head, tail, word, free)
      /\ head \in Blocks
  BY <1>1 DEF ListInv, ListTypeOK, FreeListExact, Word
<1>3. free # <<>>
  BY <1>1, <1>2 DEF Represents
<1>4. Tail(free) = <<>> /\ ToSet(free) = {head}
  BY <1>2, <1>3, PopLast
<1>5. CurrentExact' /\ current' \in Nat /\ lowest' \in Nat
  BY <1>4, TakeCounters
<1>6. free' = <<>> /\ ToSet(free') = {} /\ free' \in Seq(Blocks)
  BY <1>4, EmptySeq, EmptyList, Zenon
<1>7. ListTypeOK'
  <2>1. used' \in SUBSET Blocks
    BY <1>1, <1>2 DEF ListInv, ListTypeOK
  <2>2. word' \in [Blocks -> Blocks \cup {Nil, USER}]
    BY DEF ListInv, ListTypeOK
  <2>3. total' \in Nat
    BY <1>1, PoolAssumption DEF ListInv, ListTypeOK, Bump
  <2>4. oom' \in BOOLEAN
    BY DEF ListInv, ListTypeOK, CanExtend
  <2> QED
    BY <1>1, <1>5, <1>6, <2>1, <2>2, <2>3, <2>4 DEF ListInv, ListTypeOK
<1>8. Shape'
  BY <1>1 DEF ListInv, Shape
<1>9. Carved' = Carved
  BY <1>1 DEF Carved
<1>10. Conservation'
  BY <1>1, <1>4, <1>6, <1>9 DEF ListInv, Conservation, FreeBlocks
<1>11. FullyGrown'
  BY <1>1, <1>9 DEF FullyGrown, CanExtend
<1>12. FreeListExact'
  <2>1. Represents(Nil, Nil, word', <<>>)
    BY EmptyList
  <2> QED
    BY <1>6, <2>1 DEF FreeListExact
<1> QED
  BY <1>5, <1>7, <1>8, <1>10, <1>11, <1>12 DEF ListInv

(* vmem_pool_alloc preserves it, in all three ways the list can go on.     *)
LEMMA AllocIInv ==
    ASSUME ListInv, NEW sz \in Sizes, PoolAlloc(sz)
    PROVE  ListInv'
BY TakeSome, TakeAndExtend, TakeLast DEF PoolAlloc, TakeFirst

(* The inductive invariant of the pool: the linked list represents the     *)
(* free blocks, blocks are conserved, and the counters are exact.          *)
THEOREM Invariance == ListSpec => []ListInv
<1>1. ListInit => ListInv
  BY InitIInv
<1>2. ListInv /\ [ListNext]_listVars => ListInv'
  <2> SUFFICES ASSUME ListInv, [ListNext]_listVars PROVE ListInv'
    OBVIOUS
  <2>1. ASSUME NEW nr \in NrElems, NEW sz \in Sizes, Create(nr, sz) PROVE ListInv'
    BY <2>1, CreateIInv
  <2>2. ASSUME NEW sz \in Sizes, AllocRefused(sz) PROVE ListInv'
    BY <2>2, AllocRefusedIInv
  <2>3. ASSUME NEW sz \in Sizes, PoolAlloc(sz) PROVE ListInv'
    BY <2>3, AllocIInv
  <2>4. ASSUME NEW b \in Blocks, PoolFree(b) PROVE ListInv'
    BY <2>4, FreeIInv
  <2>5. CASE UNCHANGED listVars
    BY <2>5 DEF listVars, stats, ListInv, ListTypeOK, Shape, FreeListExact, Conservation,
                CurrentExact, FullyGrown, FreeBlocks, Carved, CanExtend
  <2> QED
    BY <2>1, <2>2, <2>3, <2>4, <2>5 DEF ListNext
<1> QED
  BY <1>1, <1>2, PTL DEF ListSpec

(* The free list visits exactly the free blocks, oldest first.             *)
THEOREM ListAlwaysExact == ListSpec => []FreeListExact
<1>1. ListInv => FreeListExact
  BY DEF ListInv
<1> QED
  BY Invariance, <1>1, PTL

(* No block is lost, lent twice, or obtained beyond nr_elem.               *)
THEOREM BlocksConserved == ListSpec => []Conservation
<1>1. ListInv => Conservation
  BY DEF ListInv
<1> QED
  BY Invariance, <1>1, PTL

(* stats.current is what nr_elem leaves after the lent blocks.             *)
THEOREM CurrentAlwaysExact == ListSpec => []CurrentExact
<1>1. ListInv => CurrentExact
  BY DEF ListInv
<1> QED
  BY Invariance, <1>1, PTL
-----------------------------------------------------------------------------
(* current never claims blocks an empty pool cannot deliver, unless malloc *)
(* refused an extent.                                                      *)
THEOREM CapacityKept == ListSpec => []PromisedCapacity
<1>1. ListInv => PromisedCapacity
  <2> SUFFICES ASSUME ListInv, current > 0, head = Nil, ~oom PROVE FALSE
    BY DEF PromisedCapacity
  <2>1. free \in Seq(Blocks) /\ Represents(head, tail, word, free)
    BY DEF ListInv, ListTypeOK, FreeListExact
  <2>2. free = <<>>
    <3> SUFFICES ASSUME free # <<>> PROVE FALSE
      OBVIOUS
    <3>1. head = free[1] /\ 1 \in 1..Len(free)
      BY <2>1, EmptySeq DEF Represents
    <3>2. head \in Blocks
      BY <2>1, <3>1
    <3> QED
      BY <3>2 DEF Blocks, Nil
  <2>3. FreeBlocks = {}
    BY <2>2, EmptyList, Zenon DEF FreeBlocks
  <2>4. used = 1..Carved /\ Carved \in Nat /\ Carved = max
    BY <2>2, <2>3, PoolAssumption
       DEF ListInv, ListTypeOK, Conservation, FullyGrown, CanExtend, Carved
  <2>5. Cardinality(1..Carved) = Carved
    BY <2>4, FS_Interval
  <2> QED
    BY <2>4, <2>5 DEF ListInv, CurrentExact
<1> QED
  BY <1>1, Invariance, PTL

(* The link words of lent blocks belong to their clients.                  *)
THEOREM LentMemorySafe == ListSpec => LentUntouched
<1>1. ListInv /\ [ListNext]_listVars => [LentWordsKept]_listVars
  <2> SUFFICES ASSUME ListInv, [ListNext]_listVars, NEW b \in used \cap used'
               PROVE  word'[b] = word[b]
    BY DEF LentWordsKept
  <2>1. /\ b \in Blocks /\ b \notin ToSet(free) /\ word \in [Blocks -> Word]
        /\ b \in 1..Carved /\ used \in SUBSET Blocks /\ free \in Seq(Blocks)
    BY DEF ListInv, ListTypeOK, Conservation, FreeBlocks, Word
  <2>2. ASSUME NEW nr \in NrElems, NEW sz \in Sizes, Create(nr, sz)
        PROVE  word'[b] = word[b]
    BY <2>2 DEF ListInv, Shape, Create
  <2>3. ASSUME NEW sz \in Sizes, AllocRefused(sz) PROVE word'[b] = word[b]
    BY <2>3 DEF AllocRefused
  <2>4. ASSUME NEW sz \in Sizes, PoolAlloc(sz) PROVE word'[b] = word[b]
    <3>1. head = free[1] /\ 1 \in 1..Len(free)
      BY <2>1, <2>4, EmptySeq DEF PoolAlloc, ListInv, FreeListExact, Represents
    <3>2. b # head
      BY <2>1, <3>1 DEF ToSet
    <3>3. CASE word' = [word EXCEPT ![head] = USER]
      BY <2>1, <3>2, <3>3
    <3>4. CASE word' = Linked([word EXCEPT ![head] = USER], Carved, max_elem)
      <4>1. b \notin Carved + 1 .. Carved + max_elem
        BY <2>1 DEF ListInv, ListTypeOK, Carved
      <4> QED
        BY <2>1, <3>2, <3>4, <4>1 DEF Linked
    <3> QED
      BY <2>4, <3>3, <3>4 DEF PoolAlloc, TakeFirst
  <2>5. ASSUME NEW c \in Blocks, PoolFree(c) PROVE word'[b] = word[b]
    <3>1. b # c
      BY <2>5 DEF PoolFree
    <3>2. tail # Nil => b # tail
      <4> SUFFICES ASSUME tail # Nil PROVE tail \in ToSet(free)
        BY <2>1
      <4>1. tail = free[Len(free)] /\ Len(free) \in 1..Len(free)
        BY <2>1, EmptySeq DEF ListInv, FreeListExact, Represents
      <4> QED
        BY <4>1 DEF ToSet
    <3> QED
      BY <2>1, <2>5, <3>1, <3>2 DEF PoolFree
  <2>6. CASE UNCHANGED listVars
    BY <2>6 DEF listVars
  <2> QED
    BY <2>2, <2>3, <2>4, <2>5, <2>6 DEF ListNext
<1> QED
  BY <1>1, Invariance, PTL DEF LentUntouched, ListSpec
(* What the clients of a pool can see of the invariant.                    *)
Bounded ==
    /\ max \in Nat
    /\ FreeBlocks \cap used = {} /\ FreeBlocks \subseteq Blocks
    /\ FreeBlocks \cup used \subseteq 1..max
    /\ size # 0 => FreeBlocks \cup used # {}

(* The inductive invariant implies it. *)
LEMMA InvBounded == ListInv => Bounded
<1> SUFFICES ASSUME ListInv PROVE Bounded
  OBVIOUS
<1>1. /\ FreeBlocks \cap used = {} /\ FreeBlocks \cup used = 1..Carved
      /\ Carved <= max /\ Carved \in Nat /\ max \in Nat /\ max <= MaxBlocks
      /\ MaxBlocks \in Nat
  BY PoolAssumption DEF ListInv, ListTypeOK, Conservation, Carved
<1>2. FreeBlocks \subseteq Blocks
  BY <1>1 DEF Blocks
<1>3. FreeBlocks \cup used \subseteq 1..max
  BY <1>1
<1>4. size # 0 => FreeBlocks \cup used # {}
  <2> SUFFICES ASSUME size # 0 PROVE 1 \in 1..Carved
    BY <1>1
  <2>1. max_elem \in Nat /\ max_elem > 0 /\ extents \in Nat /\ extents > 0
    BY DEF ListInv, Shape, ListTypeOK
  <2> QED
    BY <2>1 DEF Carved
<1> QED
  BY <1>1, <1>2, <1>3, <1>4 DEF Bounded

(* The same of the next state.                                             *)
LEMMA InvBoundedNext == ListInv' => Bounded'
BY InvBounded, PTL

(* Handing out the head is taking an available block.                      *)
LEMMA AllocRefines ==
    ASSUME ListInv, ListInv', NEW sz \in Sizes, PoolAlloc(sz)
    PROVE  Lender!Take
<1>1. /\ free \in Seq(Blocks) /\ Represents(head, tail, word, free)
      /\ word \in [Blocks -> Word] /\ head # Nil
  BY DEF ListInv, ListTypeOK, FreeListExact, Word, PoolAlloc
<1>2. free # <<>>
  BY <1>1 DEF Represents
<1>3. head \in FreeBlocks
  <2>1. head = free[1] /\ 1 \in 1..Len(free)
    BY <1>1, <1>2, EmptySeq DEF Represents
  <2> QED
    BY <2>1 DEF FreeBlocks, ToSet
<1>4. /\ FreeBlocks \ {head} \subseteq FreeBlocks'
      /\ FreeBlocks' # FreeBlocks \ {head} => FreeBlocks = {head}
  <2>1. CASE word[head] # Nil
    <3>1. free' = Tail(free)
      BY <2>1 DEF PoolAlloc, TakeFirst
    <3>2. ToSet(Tail(free)) = ToSet(free) \ {head}
      BY <1>1, <1>2, <2>1, PopFirst
    <3> QED
      BY <3>1, <3>2 DEF FreeBlocks
  <2>2. CASE word[head] = Nil
    BY <1>1, <1>2, <2>2, PopLast DEF FreeBlocks
  <2> QED
    BY <2>1, <2>2
<1>5. /\ FreeBlocks' \cap used' = {} /\ FreeBlocks' \subseteq Blocks
      /\ FreeBlocks' \cup used' \subseteq 1..max'
  BY InvBoundedNext DEF Bounded
<1>7. /\ used' = used \cup {head} /\ size # 0
      /\ size' = size /\ max' = max /\ failed' = failed
  BY DEF PoolAlloc
<1>8. FreeBlocks' \cup used' \subseteq 1..max
  BY <1>5, <1>7
<1>9. FreeBlocks' \in SUBSET Blocks /\ FreeBlocks' \cap used' = {}
  BY <1>5
<1> HIDE DEF FreeBlocks
<1>10. \E b \in FreeBlocks :
          /\ used' = used \cup {b}
          /\ FreeBlocks \ {b} \subseteq FreeBlocks'
          /\ FreeBlocks' \cap used' = {}
          /\ FreeBlocks' \subseteq Blocks
          /\ FreeBlocks' # FreeBlocks \ {b} => FreeBlocks = {b}
          /\ FreeBlocks' \cup used' \subseteq 1..max
  BY <1>3, <1>4, <1>7, <1>8, <1>9, Zenon
<1>11. UNCHANGED <<size, max, failed>>
  BY <1>7
<1> QED
  BY <1>7, <1>10, <1>11, Zenon DEF Lender!Take

(* Creating a pool promises blocks and has some of them at hand.           *)
LEMMA CreateRefines ==
    ASSUME ListInv, ListInv', NEW nr \in NrElems, NEW sz \in Sizes, Create(nr, sz)
    PROVE  Lender!Create
<1>1. /\ size = 0 /\ size' = BlockSize(sz) /\ max' = nr
      /\ used' = used /\ failed' = failed
      /\ max_elem' = GetElem(nr, BlockSize(sz)) /\ extents' = 1
  BY DEF Create
<1>2. size' \in Nat \ {0} /\ max' \in Nat \ {0}
  BY <1>1, BlockSizeFits, PoolAssumption
<1>3. /\ FreeBlocks' \in SUBSET Blocks
      /\ FreeBlocks' \cup used' \subseteq 1..max'
      /\ FreeBlocks' \cup used' # {}
  BY <1>2, InvBoundedNext DEF Bounded
<1>4. used' = {}
  BY <1>1 DEF ListInv, Shape
<1>5. FreeBlocks' # {} /\ FreeBlocks' \subseteq 1..max'
  BY <1>3, <1>4
<1>6. UNCHANGED <<used, failed>>
  BY <1>1
<1> QED
  BY <1>1, <1>2, <1>3, <1>5, <1>6, Zenon DEF Lender!Create

(* The linked list implements the bounded set of blocks of VPool: what its *)
(* clients see of vmem_pool_alloc and vmem_pool_free is that set.          *)
THEOREM PoolRefinement == ListSpec => PoolSpec
<1>1. ListInit => Lender!Init
  <2> SUFFICES ASSUME ListInit PROVE Lender!Init
    OBVIOUS
  <2>1. FreeBlocks = {}
    BY EmptyList DEF ListInit, FreeBlocks
  <2> QED
    BY <2>1 DEF ListInit, Lender!Init
<1>2. ListInv /\ ListInv' /\ [ListNext]_listVars => [Lender!Next]_(Lender!vars)
  <2> SUFFICES ASSUME ListInv, ListInv', [ListNext]_listVars
               PROVE  Lender!Next \/ UNCHANGED Lender!vars
    OBVIOUS
  <2>1. ASSUME NEW nr \in NrElems, NEW sz \in Sizes, Create(nr, sz)
        PROVE  Lender!Next
    BY <2>1, CreateRefines DEF Lender!Next
  <2>2. ASSUME NEW sz \in Sizes, AllocRefused(sz) PROVE Lender!Next
    <3>1. head = Nil => FreeBlocks = {}
      <4> SUFFICES ASSUME head = Nil PROVE free = <<>>
        BY EmptyList, Zenon DEF FreeBlocks
      <4> SUFFICES ASSUME free # <<>> PROVE FALSE
        OBVIOUS
      <4>1. head = free[1] /\ 1 \in 1..Len(free) /\ free \in Seq(Blocks)
        BY EmptySeq DEF ListInv, ListTypeOK, FreeListExact, Represents
      <4>2. head \in Blocks
        BY <4>1
      <4> QED
        BY <4>2 DEF Blocks, Nil
    <3>2. FreeBlocks' = FreeBlocks
      BY <2>2 DEF AllocRefused, FreeBlocks
    <3>3. Lender!Refuse(sz)
      BY <2>2, <3>1, <3>2 DEF AllocRefused, Bump, Lender!Refuse
    <3> QED
      BY <3>3 DEF Lender!Next
  <2>3. ASSUME NEW sz \in Sizes, PoolAlloc(sz) PROVE Lender!Next
    BY <2>3, AllocRefines DEF Lender!Next
  <2>4. ASSUME NEW b \in Blocks, PoolFree(b) PROVE Lender!Next
    <3>1. free \in Seq(Blocks) /\ free' = Append(free, b)
      BY <2>4 DEF ListInv, ListTypeOK, PoolFree
    <3>2. FreeBlocks' = FreeBlocks \cup {b}
      <4>1. b \in used /\ used' = used \ {b} /\ Carved' = Carved
        BY <2>4 DEF PoolFree, Carved
      <4>2. /\ FreeBlocks \cup used = FreeBlocks' \cup used'
            /\ FreeBlocks \cap used = {} /\ FreeBlocks' \cap used' = {}
        BY <4>1 DEF ListInv, Conservation
      <4> QED
        BY <4>1, <4>2
    <3>3. Lender!Release(b)
      BY <2>4, <3>2 DEF PoolFree, Lender!Release
    <3> QED
      BY <3>3 DEF Lender!Next
  <2>5. CASE UNCHANGED listVars
    BY <2>5 DEF listVars, stats, Lender!vars, FreeBlocks
  <2> QED
    BY <2>1, <2>2, <2>3, <2>4, <2>5 DEF ListNext
<1> QED
  BY <1>1, <1>2, Invariance, PTL DEF ListSpec, PoolSpec, Lender!Spec
=============================================================================
