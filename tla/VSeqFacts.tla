------------------------------ MODULE VSeqFacts ------------------------------
(***************************************************************************)
(* Facts about the sequences that stand for the linked lists of the code,  *)
(* cited by the proofs of the modules that use such lists.                 *)
(***************************************************************************)
EXTENDS Integers, VList, SequenceTheorems, NaturalsInduction, WellFoundedInduction, TLAPS

(* No element occurs twice. *)
Distinct(s) == \A i, j \in 1..Len(s) : s[i] = s[j] => i = j

(* The elements of a sequence, by index. *)
LEMMA InToSet ==
    ASSUME NEW S, NEW f \in Seq(S), NEW x
    PROVE  x \in ToSet(f) <=> \E i \in 1..Len(f) : x = f[i]
BY DEF ToSet

(* What taking out element i leaves. *)
LEMMA RemoveAtIndex ==
    ASSUME NEW S, NEW s \in Seq(S), NEW i \in 1..Len(s)
    PROVE  /\ RemoveAt(s, i) \in Seq(S)
           /\ Len(RemoveAt(s, i)) = Len(s) - 1
           /\ \A j \in 1..Len(s) - 1 :
                 RemoveAt(s, i)[j] = IF j < i THEN s[j] ELSE s[j + 1]
<1> DEFINE n == Len(s)
           l == SubSeq(s, 1, i - 1)
           r == SubSeq(s, i + 1, n)
<1>1. n \in Nat /\ i \in Int /\ 1 <= i /\ i <= n /\ \A j \in 1..n : s[j] \in S
  BY LenProperties, ElementOfSeq
<1>2. /\ l \in Seq(S) /\ Len(l) = i - 1
      /\ \A j \in 1..i - 1 : l[j] = s[j]
  <2>1. \A j \in 1..i - 1 : s[j] \in S
    BY <1>1
  <2>2. /\ l \in Seq(S) /\ Len(l) = IF 1 <= i - 1 THEN i - 1 - 1 + 1 ELSE 0
        /\ \A j \in 1..i - 1 - 1 + 1 : l[j] = s[1 + j - 1]
    BY <1>1, <2>1, SubSeqProperties
  <2> HIDE DEF l
  <2> QED
    BY <1>1, <2>2
<1>3. /\ r \in Seq(S) /\ Len(r) = n - i
      /\ \A j \in 1..n - i : r[j] = s[i + j]
  <2>1. \A j \in i + 1..n : s[j] \in S
    BY <1>1
  <2>2. /\ r \in Seq(S) /\ Len(r) = IF i + 1 <= n THEN n - (i + 1) + 1 ELSE 0
        /\ \A j \in 1..n - (i + 1) + 1 : r[j] = s[i + 1 + j - 1]
    BY <1>1, <2>1, SubSeqProperties
  <2> HIDE DEF r, n
  <2> QED
    BY <1>1, <2>2
<1>4. RemoveAt(s, i) = l \o r
  BY DEF RemoveAt
<1> HIDE DEF l, r, n
<1>5. /\ l \o r \in Seq(S) /\ Len(l \o r) = Len(l) + Len(r)
      /\ \A j \in 1..Len(l) + Len(r) :
            (l \o r)[j] = IF j <= Len(l) THEN l[j] ELSE r[j - Len(l)]
  BY <1>2, <1>3, ConcatProperties
<1>6. Len(l) + Len(r) = n - 1
  BY <1>1, <1>2, <1>3
<1>7. ASSUME NEW j \in 1..n - 1
      PROVE  (l \o r)[j] = IF j < i THEN s[j] ELSE s[j + 1]
  <2>1. CASE j < i
    BY <1>1, <1>2, <1>5, <1>6, <2>1
  <2>2. CASE ~(j < i)
    <3>1. j - (i - 1) \in 1..n - i /\ i + (j - (i - 1)) = j + 1
      BY <1>1, <2>2
    <3>2. (l \o r)[j] = r[j - (i - 1)]
      BY <1>1, <1>2, <1>5, <1>6, <2>2
    <3> QED
      BY <1>3, <2>2, <3>1, <3>2
  <2> QED
    BY <2>1, <2>2
<1> QED
  BY <1>4, <1>5, <1>6, <1>7 DEF n

(* Taking an element out of either part of a concatenation.                *)
LEMMA RemoveFromFirst ==
    ASSUME NEW S, NEW s \in Seq(S), NEW t \in Seq(S), NEW i \in 1..Len(s)
    PROVE  RemoveAt(s \o t, i) = RemoveAt(s, i) \o t
<1> DEFINE n == Len(s)
           m == Len(t)
           c == s \o t
           u == RemoveAt(s, i)
           p == RemoveAt(c, i)
           q == u \o t
<1>1. n \in Nat /\ m \in Nat /\ i \in Int /\ 1 <= i /\ i <= n
  BY LenProperties
<1>2. /\ c \in Seq(S) /\ Len(c) = n + m
      /\ \A j \in 1..n + m : c[j] = IF j <= n THEN s[j] ELSE t[j - n]
  BY ConcatProperties
<1>3. /\ u \in Seq(S) /\ Len(u) = n - 1
      /\ \A j \in 1..n - 1 : u[j] = IF j < i THEN s[j] ELSE s[j + 1]
  BY RemoveAtIndex
<1>4. /\ q \in Seq(S) /\ Len(q) = Len(u) + m
      /\ \A j \in 1..Len(u) + m : q[j] = IF j <= Len(u) THEN u[j] ELSE t[j - Len(u)]
  <2> HIDE DEF u
  <2> QED
    BY <1>3, ConcatProperties
<1>5. /\ p \in Seq(S) /\ Len(p) = Len(c) - 1
      /\ \A j \in 1..Len(c) - 1 :
            p[j] = IF j < i THEN c[j] ELSE c[j + 1]
  <2>1. i \in 1..Len(c)
    BY <1>1, <1>2
  <2> QED
    BY <1>2, <2>1, RemoveAtIndex
<1> HIDE DEF u, p, q, n, m, c
<1>6. Len(p) = n + m - 1 /\ Len(q) = n + m - 1
  BY <1>1, <1>2, <1>3, <1>4, <1>5
<1>7. ASSUME NEW j \in 1..n + m - 1 PROVE p[j] = q[j]
  <2>0. j \in 1..Len(c) - 1
    BY <1>1, <1>2
  <2>1. CASE j < i
    BY <1>1, <1>2, <1>3, <1>4, <1>5, <2>1
  <2>2. CASE i <= j /\ j <= n - 1
    <3>1. p[j] = c[j + 1]
      BY <1>1, <1>5, <2>0, <2>2
    <3>2. c[j + 1] = s[j + 1]
      <4>1. j + 1 \in 1..n + m /\ j + 1 <= n
        BY <1>1, <2>2
      <4> QED
        BY <1>2, <4>1
    <3>3. q[j] = u[j] /\ u[j] = s[j + 1]
      BY <1>1, <1>3, <1>4, <2>2
    <3> QED
      BY <3>1, <3>2, <3>3
  <2>3. CASE n - 1 < j
    <3>1. p[j] = c[j + 1] /\ j + 1 \in 1..n + m
      <4>1. p[j] = c[j + 1]
        BY <1>1, <1>5, <2>0, <2>3
      <4> QED
        BY <1>1, <4>1
    <3>2. c[j + 1] = t[j + 1 - n]
      BY <1>1, <1>2, <2>3, <3>1
    <3>3. q[j] = t[j - (n - 1)]
      BY <1>1, <1>3, <1>4, <2>3
    <3>4. j + 1 - n = j - (n - 1)
      BY <1>1
    <3> QED
      BY <3>1, <3>2, <3>3, <3>4
  <2> QED
    BY <1>1, <2>1, <2>2, <2>3
<1>8. p = q
  BY <1>4, <1>5, <1>6, <1>7, SeqEqual
<1> QED
  BY <1>8 DEF p, q, u, c

(* The same for an element of the second part.                             *)
LEMMA RemoveFromSecond ==
    ASSUME NEW S, NEW s \in Seq(S), NEW t \in Seq(S), NEW i \in 1..Len(t)
    PROVE  RemoveAt(s \o t, Len(s) + i) = s \o RemoveAt(t, i)
<1> DEFINE n == Len(s)
           m == Len(t)
           c == s \o t
           u == RemoveAt(t, i)
           p == RemoveAt(c, n + i)
           q == s \o u
<1>1. n \in Nat /\ m \in Nat /\ i \in Int /\ 1 <= i /\ i <= m
  BY LenProperties
<1>2. /\ c \in Seq(S) /\ Len(c) = n + m
      /\ \A j \in 1..n + m : c[j] = IF j <= n THEN s[j] ELSE t[j - n]
  BY ConcatProperties
<1>3. /\ u \in Seq(S) /\ Len(u) = m - 1
      /\ \A j \in 1..m - 1 : u[j] = IF j < i THEN t[j] ELSE t[j + 1]
  BY RemoveAtIndex
<1>4. /\ q \in Seq(S) /\ Len(q) = n + Len(u)
      /\ \A j \in 1..n + Len(u) : q[j] = IF j <= n THEN s[j] ELSE u[j - n]
  <2> HIDE DEF u
  <2> QED
    BY <1>3, ConcatProperties
<1>5. /\ p \in Seq(S) /\ Len(p) = Len(c) - 1
      /\ \A j \in 1..Len(c) - 1 :
            p[j] = IF j < n + i THEN c[j] ELSE c[j + 1]
  <2>1. n + i \in 1..Len(c)
    BY <1>1, <1>2
  <2> HIDE DEF n
  <2> QED
    BY <1>2, <2>1, RemoveAtIndex
<1> HIDE DEF u, p, q, n, m, c
<1>6. Len(p) = n + m - 1 /\ Len(q) = n + m - 1
  BY <1>1, <1>2, <1>3, <1>4, <1>5
<1>7. ASSUME NEW j \in 1..n + m - 1 PROVE p[j] = q[j]
  <2>0. j \in 1..Len(c) - 1
    BY <1>1, <1>2
  <2>1. CASE j <= n
    <3>1. p[j] = c[j]
      BY <1>1, <1>5, <2>0, <2>1
    <3>2. c[j] = s[j]
      BY <1>1, <1>2, <2>1
    <3>3. q[j] = s[j]
      <4>1. j \in 1..n + Len(u)
        BY <1>1, <1>3
      <4> QED
        BY <1>4, <2>1, <4>1
    <3> QED
      BY <3>1, <3>2, <3>3
  <2>2. CASE n < j /\ j < n + i
    <3>1. p[j] = t[j - n]
      <4>1. p[j] = c[j]
        BY <1>1, <1>5, <2>0, <2>2
      <4>2. c[j] = t[j - n]
        BY <1>1, <1>2, <2>2
      <4> QED
        BY <4>1, <4>2
    <3>2. q[j] = u[j - n] /\ j - n \in 1..m - 1 /\ j - n < i
      BY <1>1, <1>3, <1>4, <2>2
    <3> QED
      BY <1>3, <3>1, <3>2
  <2>3. CASE n + i <= j
    <3>1. p[j] = t[j + 1 - n]
      <4>1. p[j] = c[j + 1]
        BY <1>1, <1>5, <2>0, <2>3
      <4>2. c[j + 1] = t[j + 1 - n]
        <5>1. j + 1 \in 1..n + m /\ ~(j + 1 <= n)
          BY <1>1, <2>3
        <5> QED
          BY <1>1, <1>2, <5>1
      <4> QED
        BY <4>1, <4>2
    <3>2. q[j] = u[j - n] /\ j - n \in 1..m - 1 /\ ~(j - n < i) /\ j - n + 1 = j + 1 - n
      BY <1>1, <1>3, <1>4, <2>3
    <3> QED
      BY <1>3, <3>1, <3>2
  <2> QED
    BY <1>1, <2>1, <2>2, <2>3
<1>8. p = q
  BY <1>4, <1>5, <1>6, <1>7, SeqEqual
<1> QED
  BY <1>8 DEF p, q, u, c, n

(* The elements of a sequence that grows at its end. *)
LEMMA AppendFacts ==
    ASSUME NEW S, NEW s \in Seq(S), NEW a \in S
    PROVE  /\ Append(s, a) \in Seq(S)
           /\ ToSet(Append(s, a)) = ToSet(s) \cup {a}
           /\ Distinct(s) /\ a \notin ToSet(s) => Distinct(Append(s, a))
<1> DEFINE n == Len(s)
           p == Append(s, a)
<1>1. n \in Nat
  BY LenProperties
<1>2. /\ p \in Seq(S) /\ Len(p) = n + 1 /\ p[n + 1] = a
      /\ \A j \in 1..n : p[j] = s[j]
  BY AppendProperties
<1>3. /\ \A x : x \in ToSet(s) <=> \E i \in 1..n : x = s[i]
      /\ \A x : x \in ToSet(p) <=> \E i \in 1..n + 1 : x = p[i]
  <2> HIDE DEF p
  <2> QED
    BY <1>2, InToSet
<1> HIDE DEF n, p
<1>4. \A i \in 1..n + 1 : i \in 1..n \/ i = n + 1
  BY <1>1
<1>5. 1..n \subseteq 1..n + 1 /\ n + 1 \in 1..n + 1
  BY <1>1
<1>6. ToSet(p) = ToSet(s) \cup {a}
  BY <1>2, <1>3, <1>4, <1>5
<1>7. ASSUME Distinct(s), a \notin ToSet(s) PROVE Distinct(p)
  <2>1. \A i, j \in 1..n : s[i] = s[j] => i = j
    BY <1>7 DEF Distinct, n
  <2> QED
    BY <1>2, <1>3, <1>4, <1>7, <2>1 DEF Distinct
<1> QED
  BY <1>2, <1>6, <1>7 DEF p

(* The elements of a concatenation. *)
LEMMA ConcatFacts ==
    ASSUME NEW S, NEW s \in Seq(S), NEW t \in Seq(S)
    PROVE  /\ s \o t \in Seq(S)
           /\ ToSet(s \o t) = ToSet(s) \cup ToSet(t)
           /\ Distinct(s \o t) => Distinct(s) /\ ToSet(s) \cap ToSet(t) = {}
<1> DEFINE n == Len(s)
           m == Len(t)
           c == s \o t
<1>1. n \in Nat /\ m \in Nat
  BY LenProperties
<1>2. /\ c \in Seq(S) /\ Len(c) = n + m
      /\ \A j \in 1..n + m : c[j] = IF j <= n THEN s[j] ELSE t[j - n]
  BY ConcatProperties
<1>3. /\ \A x : x \in ToSet(s) <=> \E i \in 1..n : x = s[i]
      /\ \A x : x \in ToSet(t) <=> \E i \in 1..m : x = t[i]
      /\ \A x : x \in ToSet(c) <=> \E i \in 1..n + m : x = c[i]
  <2>1. \A x : x \in ToSet(c) <=> \E i \in 1..n + m : x = c[i]
    <3> HIDE DEF c, n, m
    <3> QED
      BY <1>2, InToSet
  <2> QED
    BY <2>1, InToSet
<1> HIDE DEF n, m, c
<1>4. /\ \A i \in 1..n : i \in 1..n + m /\ c[i] = s[i]
      /\ \A i \in 1..m : n + i \in 1..n + m /\ c[n + i] = t[i]
  <2>1. ASSUME NEW i \in 1..n PROVE i \in 1..n + m /\ c[i] = s[i]
    BY <1>1, <1>2
  <2>2. ASSUME NEW i \in 1..m PROVE n + i \in 1..n + m /\ c[n + i] = t[i]
    <3>1. n + i \in 1..n + m /\ ~(n + i <= n) /\ (n + i) - n = i
      BY <1>1
    <3> QED
      BY <1>2, <3>1
  <2> QED
    BY <2>1, <2>2
<1>5. \A i \in 1..n + m : \/ i \in 1..n /\ c[i] = s[i]
                          \/ i - n \in 1..m /\ c[i] = t[i - n]
  <2> TAKE i \in 1..n + m
  <2>1. i \in 1..n \/ (~(i <= n) /\ i - n \in 1..m)
    BY <1>1
  <2> QED
    BY <1>1, <1>2, <2>1
<1>6. ToSet(c) = ToSet(s) \cup ToSet(t)
  <2>1. ASSUME NEW x \in ToSet(c) PROVE x \in ToSet(s) \cup ToSet(t)
    BY <1>3, <1>5
  <2>2. ASSUME NEW x \in ToSet(s) PROVE x \in ToSet(c)
    BY <1>3, <1>4
  <2>3. ASSUME NEW x \in ToSet(t) PROVE x \in ToSet(c)
    BY <1>3, <1>4
  <2> QED
    BY <2>1, <2>2, <2>3
<1>7. ASSUME Distinct(c) PROVE Distinct(s) /\ ToSet(s) \cap ToSet(t) = {}
  <2>1. \A i, j \in 1..n + m : c[i] = c[j] => i = j
    BY <1>2, <1>7 DEF Distinct
  <2>2. \A i, j \in 1..n : s[i] = s[j] => i = j
    BY <1>4, <2>1
  <2>3. ASSUME NEW x \in ToSet(s), x \in ToSet(t) PROVE FALSE
    <3>1. PICK i \in 1..n : x = s[i]
      BY <1>3
    <3>2. PICK j \in 1..m : x = t[j]
      BY <1>3, <2>3
    <3>3. i = n + j
      BY <1>4, <2>1, <3>1, <3>2
    <3> QED
      BY <1>1, <3>3
  <2> QED
    BY <2>2, <2>3 DEF Distinct, n
<1> QED
  BY <1>2, <1>6, <1>7 DEF c

(* Appending to the second part appends to the whole. *)
LEMMA ConcatAppend ==
    ASSUME NEW S, NEW s \in Seq(S), NEW t \in Seq(S), NEW a \in S
    PROVE  s \o Append(t, a) = Append(s \o t, a)
<1>1. <<a>> \in Seq(S) /\ s \o t \in Seq(S)
  BY ConcatProperties
<1>2. s \o (t \o <<a>>) = (s \o t) \o <<a>>
  BY <1>1, ConcatAssociative
<1>3. Append(t, a) = t \o <<a>>
  BY AppendIsConcat
<1>4. Append(s \o t, a) = (s \o t) \o <<a>>
  BY <1>1, AppendIsConcat
<1> QED
  BY <1>2, <1>3, <1>4, Zenon

(* A sequence without repetitions loses exactly the element taken out. *)
LEMMA RemoveFacts ==
    ASSUME NEW S, NEW s \in Seq(S), NEW i \in 1..Len(s), Distinct(s)
    PROVE  /\ RemoveAt(s, i) \in Seq(S)
           /\ Distinct(RemoveAt(s, i))
           /\ ToSet(RemoveAt(s, i)) = ToSet(s) \ {s[i]}
<1> DEFINE n == Len(s)
           p == RemoveAt(s, i)
<1>1. n \in Nat /\ i \in Int /\ 1 <= i /\ i <= n
  BY LenProperties
<1>2. /\ p \in Seq(S) /\ Len(p) = n - 1
      /\ \A j \in 1..n - 1 : p[j] = IF j < i THEN s[j] ELSE s[j + 1]
  BY RemoveAtIndex
<1>3. /\ \A x : x \in ToSet(s) <=> \E k \in 1..n : x = s[k]
      /\ \A x : x \in ToSet(p) <=> \E k \in 1..n - 1 : x = p[k]
  <2> HIDE DEF p
  <2> QED
    BY <1>2, InToSet
<1>4. \A j, k \in 1..n : s[j] = s[k] => j = k
  BY DEF Distinct
<1> HIDE DEF n, p
<1>5. ASSUME NEW j \in 1..n - 1, NEW k \in 1..n - 1, p[j] = p[k] PROVE j = k
  <2> DEFINE f(x) == IF x < i THEN x ELSE x + 1
  <2>1. f(j) \in 1..n /\ f(k) \in 1..n /\ (f(j) = f(k) => j = k)
    BY <1>1
  <2>2. p[j] = s[f(j)] /\ p[k] = s[f(k)]
    BY <1>1, <1>2
  <2> QED
    BY <1>4, <1>5, <2>1, <2>2
<1>6. ASSUME NEW x \in ToSet(p) PROVE x \in ToSet(s) \ {s[i]}
  <2>1. PICK j \in 1..n - 1 : x = p[j]
    BY <1>3
  <2>2. PICK k \in 1..n : x = s[k] /\ k # i
    <3>1. CASE j < i
      BY <1>1, <1>2, <2>1, <3>1
    <3>2. CASE ~(j < i)
      <4>1. x = s[j + 1] /\ j + 1 \in 1..n /\ j + 1 # i
        BY <1>1, <1>2, <2>1, <3>2
      <4> QED
        BY <4>1
    <3> QED
      BY <3>1, <3>2
  <2> QED
    BY <1>1, <1>3, <1>4, <2>2
<1>7. ASSUME NEW x \in ToSet(s), x # s[i] PROVE x \in ToSet(p)
  <2>1. PICK k \in 1..n : x = s[k]
    BY <1>3
  <2>2. CASE k < i
    <3>1. k \in 1..n - 1 /\ p[k] = s[k]
      BY <1>1, <1>2, <2>2
    <3> QED
      BY <1>3, <2>1, <3>1
  <2>3. CASE i < k
    <3>1. k - 1 \in 1..n - 1 /\ ~(k - 1 < i) /\ k - 1 + 1 = k
      BY <1>1, <2>3
    <3>2. p[k - 1] = s[k]
      BY <1>2, <3>1
    <3> QED
      BY <1>3, <2>1, <3>1, <3>2
  <2> QED
    BY <1>1, <1>7, <2>1, <2>2, <2>3
<1>8. Distinct(p)
  BY <1>2, <1>5 DEF Distinct
<1>9. ToSet(p) = ToSet(s) \ {s[i]}
  BY <1>6, <1>7
<1> QED
  BY <1>2, <1>8, <1>9 DEF p

(* The tail of a list is what taking out its first element leaves. *)
LEMMA TailRemoves ==
    ASSUME NEW S, NEW s \in Seq(S), s # <<>>
    PROVE  /\ 1 \in 1..Len(s) /\ Head(s) = s[1] /\ Head(s) \in S
           /\ Tail(s) = RemoveAt(s, 1)
<1> DEFINE n == Len(s)
           p == RemoveAt(s, 1)
<1>1. n \in Nat /\ n > 0 /\ \A j \in 1..n : s[j] \in S
  BY EmptySeq, LenProperties, ElementOfSeq
<1>2. 1 \in 1..n
  BY <1>1
<1>3. /\ p \in Seq(S) /\ Len(p) = n - 1
      /\ \A j \in 1..n - 1 : p[j] = IF j < 1 THEN s[j] ELSE s[j + 1]
  BY <1>2, RemoveAtIndex
<1>4. /\ Head(s) = s[1] /\ Tail(s) \in Seq(S) /\ Len(Tail(s)) = n - 1
      /\ \A j \in 1..n - 1 : Tail(s)[j] = s[j + 1]
  BY HeadTailProperties
<1> HIDE DEF n, p
<1>5. \A j \in 1..n - 1 : p[j] = Tail(s)[j]
  BY <1>1, <1>3, <1>4
<1>6. Tail(s) = p
  BY <1>3, <1>4, <1>5, SeqEqual
<1> QED
  BY <1>1, <1>2, <1>4, <1>6 DEF n, p
(* Unlinking an element from a list, if it is in the list. *)
LEMMA UnlinkFacts ==
    ASSUME NEW S, NEW list \in Seq(S), NEW a
    PROVE  /\ Unlink(list, a) \in Seq(S)
           /\ a \notin ToSet(list) => Unlink(list, a) = list
           /\ a \in ToSet(list) => \E i \in 1..Len(list) :
                 list[i] = a /\ Unlink(list, a) = RemoveAt(list, i)
<1>1. CASE a \notin ToSet(list)
  BY <1>1 DEF Unlink
<1>2. CASE a \in ToSet(list)
  <2> DEFINE k == CHOOSE i \in 1..Len(list) : list[i] = a
  <2>1. k \in 1..Len(list) /\ list[k] = a
    BY <1>2, InToSet
  <2>2. Unlink(list, a) = RemoveAt(list, k)
    BY <1>2 DEF Unlink
  <2> HIDE DEF k
  <2> QED
    BY <1>2, <2>1, <2>2, RemoveAtIndex
<1> QED
  BY <1>1, <1>2

(* A list without repetitions loses the element unlinked and nothing else. *)
LEMMA UnlinkDistinct ==
    ASSUME NEW S, NEW list \in Seq(S), NEW a, Distinct(list)
    PROVE  /\ Unlink(list, a) \in Seq(S)
           /\ Distinct(Unlink(list, a))
           /\ ToSet(Unlink(list, a)) = ToSet(list) \ {a}
<1>1. CASE a \notin ToSet(list)
  <2>1. Unlink(list, a) = list
    BY <1>1, UnlinkFacts
  <2> QED
    BY <1>1, <2>1
<1>2. CASE a \in ToSet(list)
  <2>1. PICK i \in 1..Len(list) : list[i] = a /\ Unlink(list, a) = RemoveAt(list, i)
    BY <1>2, UnlinkFacts
  <2> QED
    BY <2>1, RemoveFacts
<1> QED
  BY <1>1, <1>2

(* The elements of a list are its first one and those of its tail. *)
LEMMA HeadTailFacts ==
    ASSUME NEW S, NEW s \in Seq(S), s # <<>>
    PROVE  /\ Head(s) \in S /\ Tail(s) \in Seq(S)
           /\ s = <<Head(s)>> \o Tail(s)
           /\ ToSet(s) = {Head(s)} \cup ToSet(Tail(s))
<1> DEFINE n == Len(s)
           h == Head(s)
           t == Tail(s)
<1>1. n \in Nat /\ n # 0 /\ s[1] \in S /\ h = s[1] /\ t \in Seq(S)
  BY EmptySeq, LenProperties, ElementOfSeq, HeadTailProperties
<1>2. SubSeq(s, 1, n) = s /\ t = SubSeq(s, 2, n)
  BY SubSeqFull, TailIsSubSeq
<1>3. 1 \in 1..n /\ n \in 1..n
  BY <1>1
<1>4. SubSeq(s, 1, n) = <<s[1]>> \o SubSeq(s, 1 + 1, n)
  BY <1>3, SubSeqRecursiveFirst
<1>5. s = <<h>> \o t
  BY <1>1, <1>2, <1>4
<1> DEFINE a == <<h>>
<1>6. a \in Seq(S) /\ ToSet(a) = {h} /\ s = a \o t
  BY <1>1, <1>5 DEF ToSet
<1> HIDE DEF a
<1>7. ToSet(a \o t) = ToSet(a) \cup ToSet(t)
  BY <1>1, <1>6, ConcatFacts
<1>8. ToSet(s) = {h} \cup ToSet(t)
  BY <1>6, <1>7
<1> QED
  BY <1>1, <1>5, <1>8

(* The tail of a list without repetitions lacks exactly the first element. *)
LEMMA TailDistinct ==
    ASSUME NEW S, NEW s \in Seq(S), s # <<>>, Distinct(s)
    PROVE  /\ Head(s) \in S /\ Head(s) \in ToSet(s)
           /\ Tail(s) \in Seq(S) /\ Distinct(Tail(s))
           /\ ToSet(Tail(s)) = ToSet(s) \ {Head(s)}
<1>1. /\ 1 \in 1..Len(s) /\ Head(s) = s[1] /\ Head(s) \in S
      /\ Tail(s) = RemoveAt(s, 1)
  BY TailRemoves
<1>2. Head(s) \in ToSet(s)
  BY <1>1, InToSet
<1>3. /\ RemoveAt(s, 1) \in Seq(S) /\ Distinct(RemoveAt(s, 1))
      /\ ToSet(RemoveAt(s, 1)) = ToSet(s) \ {s[1]}
  BY <1>1, RemoveFacts
<1> QED
  BY <1>1, <1>2, <1>3

(* The first element of t moves to the end of s. *)
LEMMA MoveHead ==
    ASSUME NEW S, NEW s \in Seq(S), NEW t \in Seq(S), t # <<>>
    PROVE  /\ Append(s, Head(t)) \in Seq(S)
           /\ Append(s, Head(t)) \o Tail(t) = s \o t
<1> DEFINE h == Head(t)
           r == Tail(t)
<1>1. h \in S /\ r \in Seq(S) /\ t = <<h>> \o r
  BY HeadTailFacts
<1> HIDE DEF h, r
<1>2. <<h>> \in Seq(S)
  BY <1>1
<1>3. Append(s, h) = s \o <<h>> /\ Append(s, h) \in Seq(S)
  BY <1>1, AppendIsConcat, AppendProperties
<1> DEFINE a == <<h>>
<1>4. (s \o a) \o r = s \o (a \o r)
  <2>1. a \in Seq(S)
    BY <1>2
  <2> HIDE DEF a
  <2> QED
    BY <1>1, <2>1, ConcatAssociative
<1>5. Append(s, h) \o r = s \o t
  BY <1>1, <1>3, <1>4
<1> QED
  BY <1>3, <1>5 DEF h, r
-----------------------------------------------------------------------------
(* Induction, for a set of numbers instead of a predicate. *)
LEMMA SetInduction ==
  ASSUME NEW S \in SUBSET Nat, 0 \in S, \A n \in S : n + 1 \in S
  PROVE  S = Nat
<1> DEFINE R == {ss \in Nat \X Nat : ss[1] < ss[2]}
<1>1. IsWellFoundedOn(R, Nat)
  BY NatLessThanWellFounded DEF OpToRel
<1>2. \A x \in Nat, y \in Nat : y < x => <<y, x>> \in R
  OBVIOUS
<1> HIDE DEF R
<1> DEFINE T == Nat \ S
<1>3. SUFFICES ASSUME T # {} PROVE FALSE
  BY DEF T
<1>4. PICK x \in T : \A y \in T : ~(<<y, x>> \in R)
  BY <1>1, <1>3, WFMin
<1>5. x # 0 /\ x - 1 \in Nat /\ x - 1 < x
  BY <1>4
<1>6. x - 1 \in S
  BY <1>2, <1>4, <1>5
<1> QED BY <1>4, <1>5, <1>6

(* What a recursive function that scans a sequence s computes: from a, one *)
(* step of F per element.                                                  *)
ScanStep(F, x, e) == F[<<x, e>>]
IsScan(f, a, F, s) ==
    f = [n \in 0..Len(s) |-> IF n = 0 THEN a ELSE ScanStep(F, f[n - 1], s[n])]

LEMMA ScanExists ==
  ASSUME NEW A, NEW E, NEW a \in A, NEW F \in [A \X E -> A], NEW s \in Seq(E)
  PROVE  \E f : IsScan(f, a, F, s)
<1> DEFINE Scan(f, k) == /\ f = [n \in 0..k |-> f[n]] /\ f[0] = a
                         /\ \A n \in 1..k : f[n] = ScanStep(F, f[n - 1], s[n])
           S == {k \in Nat : k <= Len(s) => \E f : Scan(f, k)}
<1>0. Len(s) \in Nat
  OBVIOUS
<1>1. 0 \in S
  <2> DEFINE f == [n \in 0..0 |-> a]
  <2>1. Scan(f, 0)
    OBVIOUS
  <2> HIDE DEF f, Scan
  <2> QED BY <2>1
<1>2. ASSUME NEW k \in S PROVE k + 1 \in S
  <2> SUFFICES ASSUME k + 1 <= Len(s) PROVE \E f : Scan(f, k + 1)
    OBVIOUS
  <2>1. PICK f : Scan(f, k)
    BY <1>0
  <2>4. \A n \in 1..k : f[n] = ScanStep(F, f[n - 1], s[n])
    BY <2>1, Zenon
  <2> DEFINE g == [n \in 0..(k + 1) |-> IF n = k + 1 THEN ScanStep(F, f[k], s[k + 1]) ELSE f[n]]
  <2>2. g = [n \in 0..(k + 1) |-> g[n]] /\ g[0] = a
    BY <2>1
  <2>3. ASSUME NEW n \in 1..(k + 1) PROVE g[n] = ScanStep(F, g[n - 1], s[n])
    <3>1. g[n - 1] = f[n - 1]
      OBVIOUS
    <3>2. CASE n = k + 1
      BY <3>1, <3>2
    <3>3. CASE n # k + 1
      <4>1. f[n] = ScanStep(F, f[n - 1], s[n])
        BY <2>4, <3>3
      <4>2. g[n] = f[n]
        BY <3>3
      <4> QED BY <3>1, <4>1, <4>2
    <3> QED BY <3>2, <3>3
  <2>6. Scan(g, k + 1)
    BY <2>2, <2>3
  <2> HIDE DEF g, Scan
  <2> QED BY <2>6
<1>3. Len(s) \in S
  <2>1. S = Nat
    <3> HIDE DEF S
    <3>1. S \subseteq Nat
      BY DEF S
    <3> QED BY <1>1, <1>2, <3>1, SetInduction
  <2> HIDE DEF Scan
  <2> QED BY <1>0, <2>1
<1>4. PICK f : Scan(f, Len(s))
  <2> HIDE DEF Scan
  <2> QED BY <1>0, <1>3
<1>5. \A n \in 1..Len(s) : f[n] = ScanStep(F, f[n - 1], s[n])
  BY <1>4, Zenon
<1>6. IsScan(f, a, F, s)
  <2> DEFINE r == [n \in 0..Len(s) |-> IF n = 0 THEN a ELSE ScanStep(F, f[n - 1], s[n])]
  <2>1. ASSUME NEW n \in 0..Len(s) PROVE f[n] = r[n]
    <3>1. CASE n = 0
      BY <1>4, <3>1
    <3>2. CASE n # 0
      <4>1. f[n] = ScanStep(F, f[n - 1], s[n])
        BY <1>0, <1>5, <3>2
      <4> QED BY <3>2, <4>1
    <3> QED BY <3>1, <3>2
  <2>2. f = r
    BY <1>4, <2>1
  <2> QED BY <2>2 DEF IsScan
<1> QED BY <1>6

ScansWithin(f, A, a, F, s) ==
    /\ f \in [0..Len(s) -> A] /\ f[0] = a
    /\ \A n \in 1..Len(s) : f[n] = F[<<f[n - 1], s[n]>>]

LEMMA ScanFacts ==
  ASSUME NEW A, NEW E, NEW a \in A, NEW F \in [A \X E -> A], NEW s \in Seq(E),
         NEW f, IsScan(f, a, F, s)
  PROVE  ScansWithin(f, A, a, F, s)
<1>0. Len(s) \in Nat /\ \A n \in 1..Len(s) : s[n] \in E
  OBVIOUS
<1>1. f[0] = a /\ \A n \in 1..Len(s) : f[n] = ScanStep(F, f[n - 1], s[n])
  BY <1>0 DEF IsScan
<1>2. \A x \in A, e \in E : ScanStep(F, x, e) \in A
  BY DEF ScanStep
<1> DEFINE S == {n \in Nat : n <= Len(s) => f[n] \in A}
<1>3. 0 \in S
  BY <1>1
<1>4. ASSUME NEW n \in S PROVE n + 1 \in S
  <2> SUFFICES ASSUME n + 1 <= Len(s) PROVE f[n + 1] \in A
    OBVIOUS
  <2>1. f[n] \in A /\ s[n + 1] \in E
    BY <1>0
  <2>2. f[n + 1] = ScanStep(F, f[n], s[n + 1])
    BY <1>0, <1>1
  <2> QED BY <1>2, <2>1, <2>2
<1>5. S = Nat
  <2> HIDE DEF S
  <2>1. S \subseteq Nat
    BY DEF S
  <2> QED BY <1>3, <1>4, <2>1, SetInduction
<1>6. \A n \in 0..Len(s) : f[n] \in A
  BY <1>0, <1>5
<1>7. f = [n \in 0..Len(s) |-> f[n]]
  BY DEF IsScan
<1>8. f \in [0..Len(s) -> A]
  BY <1>6, <1>7
<1> QED BY <1>1, <1>8 DEF ScanStep, ScansWithin

(* Induction on sequences, for a set of them. *)
LEMMA SeqInduction ==
  ASSUME NEW E, NEW P \in SUBSET Seq(E), <<>> \in P,
         \A s \in P, e \in E : Append(s, e) \in P
  PROVE  P = Seq(E)
<1> DEFINE S == {n \in Nat : \A s \in Seq(E) : Len(s) = n => s \in P}
<1>1. 0 \in S
  <2>1. ASSUME NEW s \in Seq(E), Len(s) = 0 PROVE s = <<>>
    BY <2>1, EmptySeq
  <2> QED BY <2>1
<1>2. ASSUME NEW n \in S PROVE n + 1 \in S
  <2> SUFFICES ASSUME NEW s \in Seq(E), Len(s) = n + 1 PROVE s \in P
    OBVIOUS
  <2>1. s # <<>>
    BY EmptySeq
  <2>2. PICK t \in Seq(E), e \in E : s = Append(t, e)
    BY <2>1, SequenceEmptyOrAppend
  <2>3. Len(t) = n
    <3>1. Len(s) = Len(t) + 1 /\ Len(t) \in Nat
      BY <2>2, AppendProperties, LenProperties
    <3> QED BY <3>1
  <2> QED BY <2>2, <2>3
<1>3. S = Nat
  <2> HIDE DEF S
  <2>1. S \subseteq Nat
    BY DEF S
  <2> QED BY <1>1, <1>2, <2>1, SetInduction
<1>4. ASSUME NEW s \in Seq(E) PROVE s \in P
  <2>1. Len(s) \in S
    BY <1>3, LenProperties
  <2> QED BY <2>1
<1> QED BY <1>4
=============================================================================
