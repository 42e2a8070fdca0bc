---------------------------- MODULE VTimer_proofs ----------------------------
(***************************************************************************)
(* Proofs about the timers of a thread, for any set of timers and any      *)
(* number of descriptors, whatever the other threads do with theirs.       *)
(***************************************************************************)
EXTENDS VTimer, VSeqFacts

(* The doubly linked list whose nodes are those of a sequence. *)
Linked(l, nx, pv, head) ==
    /\ head = IF Len(l) = 0 THEN NoTimer ELSE l[1]
    /\ \A i \in 1..Len(l) :
          /\ nx[l[i]] = IF i = Len(l) THEN NoTimer ELSE l[i + 1]
          /\ pv[l[i]] = IF i = 1 THEN NoTimer ELSE l[i - 1]

(* What it takes for the list of the code to be exact. *)
ListIs ==
    /\ Linked(list, next, prev, g_head)
    /\ Distinct(list)
    /\ \A t \in Timer : type[t] # "free" <=> t \in ToSet(list)

LEMMA ListLinked == list \in Seq(Timer) => (ListExact <=> ListIs)
<1> SUFFICES ASSUME list \in Seq(Timer) PROVE ListExact <=> ListIs
  OBVIOUS
<1> DEFINE n == Len(list)
<1>1. n \in Nat
  BY LenProperties
<1> HIDE DEF n
<1>2. At(1) = IF n = 0 THEN NoTimer ELSE list[1]
  BY <1>1 DEF At, n
<1>3. \A i \in 1..n : /\ At(i + 1) = IF i = n THEN NoTimer ELSE list[i + 1]
                      /\ At(i - 1) = IF i = 1 THEN NoTimer ELSE list[i - 1]
  BY <1>1 DEF At, n
<1> QED
  BY <1>2, <1>3 DEF ListExact, ListIs, Linked, Distinct, n

(* A list with a new head. *)
LEMMA InsertLinked ==
    ASSUME TypeOK, Linked(list, next, prev, g_head), Distinct(list),
           NEW t \in Timer, t \notin ToSet(list), Insert(t)
    PROVE  /\ list' \in Seq(Timer) /\ Distinct(list')
           /\ ToSet(list') = ToSet(list) \cup {t}
           /\ Linked(list', next', prev', g_head')
<1> DEFINE n == Len(list)
           c == list'
<1>1. list \in Seq(Timer) /\ <<t>> \in Seq(Timer) /\ Len(<<t>>) = 1 /\ <<t>>[1] = t
  BY DEF TypeOK
<1>2. n \in Nat /\ \A j \in 1..n : list[j] \in Timer /\ list[j] # t /\ list[j] # NoTimer
  BY <1>1, LenProperties, ElementOfSeq, InToSet, TimerAssumption
<1>3. c \in Seq(Timer) /\ Len(c) = n + 1
      /\ \A j \in 1..n + 1 : c[j] = IF j <= 1 THEN <<t>>[j] ELSE list[j - 1]
  <2>1. c = <<t>> \o list
    BY DEF Insert
  <2> QED
    BY <1>1, <1>2, <2>1, ConcatProperties
<1>4. c[1] = t /\ \A j \in 2..n + 1 : c[j] = list[j - 1]
  BY <1>1, <1>2, <1>3
<1>5. /\ g_head = IF n = 0 THEN NoTimer ELSE list[1]
      /\ \A i \in 1..n : /\ next[list[i]] = IF i = n THEN NoTimer ELSE list[i + 1]
                         /\ prev[list[i]] = IF i = 1 THEN NoTimer ELSE list[i - 1]
  BY DEF Linked
<1>6. ToSet(c) = ToSet(list) \cup {t}
  <2> DEFINE u == <<t>>
  <2>1. u \in Seq(Timer) /\ Len(u) = 1 /\ u[1] = t /\ c = u \o list
    BY DEF Insert
  <2> HIDE DEF u, c
  <2>2. ToSet(c) = ToSet(u) \cup ToSet(list)
    BY <1>1, <2>1, ConcatFacts
  <2>3. ToSet(u) = {t}
    BY <2>1, InToSet
  <2> QED
    BY <2>2, <2>3
<1>7. Distinct(c)
  <2>1. \A i, j \in 1..n : list[i] = list[j] => i = j
    BY DEF Distinct
  <2> HIDE DEF n, c
  <2>2. \A i, j \in 1..n + 1 : c[i] = c[j] => i = j
    BY <1>2, <1>4, <2>1
  <2> QED
    BY <1>3, <2>2 DEF Distinct
<1>8. /\ next' = [next EXCEPT ![t] = g_head] /\ g_head' = t
      /\ prev' = Set([prev EXCEPT ![t] = NoTimer], g_head, t)
      /\ next \in [Timer -> Timer \cup {NoTimer}] /\ prev \in [Timer -> Timer \cup {NoTimer}]
  BY DEF Insert, TypeOK
<1> HIDE DEF n, c
<1>9. \A i \in 1..n + 1 : next'[c[i]] = IF i = n + 1 THEN NoTimer ELSE c[i + 1]
  <2>1. next'[c[1]] = IF n = 0 THEN NoTimer ELSE c[2]
    BY <1>2, <1>4, <1>5, <1>8
  <2>2. ASSUME NEW i \in 2..n + 1
        PROVE  next'[c[i]] = IF i = n + 1 THEN NoTimer ELSE c[i + 1]
    <3>1. i - 1 \in 1..n /\ c[i] = list[i - 1] /\ c[i] # t
      BY <1>2, <1>4
    <3>2. next'[c[i]] = next[list[i - 1]]
      BY <1>2, <1>8, <3>1
    <3>3. i # n + 1 => c[i + 1] = list[i]
      BY <1>2, <1>4
    <3> QED
      BY <1>2, <1>5, <3>1, <3>2, <3>3
  <2> QED
    BY <1>2, <2>1, <2>2
<1>10. \A i \in 1..n + 1 : prev'[c[i]] = IF i = 1 THEN NoTimer ELSE c[i - 1]
  <2>1. CASE n = 0
    BY <1>4, <1>5, <1>8, <2>1 DEF Set
  <2>2. CASE n # 0
    <3> DEFINE h == list[1]
    <3>1. g_head = h /\ h # NoTimer /\ h # t /\ h \in Timer
      <4>1. 1 \in 1..n
        BY <1>2, <2>2
      <4> QED
        BY <1>2, <1>5, <2>2, <4>1
    <3> HIDE DEF h
    <3>2. prev' = [[prev EXCEPT ![t] = NoTimer] EXCEPT ![h] = t]
      BY <1>8, <3>1 DEF Set
    <3>3. prev'[t] = NoTimer /\ prev'[h] = t
          /\ \A x \in Timer : x # t /\ x # h => prev'[x] = prev[x]
      BY <1>8, <3>1, <3>2
    <3>4. ASSUME NEW i \in 3..n + 1
          PROVE  prev'[c[i]] = c[i - 1]
      <4>1. i - 1 \in 2..n /\ c[i] = list[i - 1] /\ c[i - 1] = list[i - 2]
        BY <1>2, <1>4
      <4>2. list[i - 1] # h
        <5>1. i - 1 \in 1..n /\ 1 \in 1..n /\ i - 1 # 1
          BY <1>2, <4>1
        <5>2. \A j, k \in 1..n : list[j] = list[k] => j = k
          BY DEF Distinct, n
        <5> QED
          BY <5>1, <5>2 DEF h
      <4>3. prev'[c[i]] = prev[list[i - 1]] /\ prev[list[i - 1]] = list[i - 2]
        <5>1. i - 1 \in 1..n /\ i - 1 # 1 /\ (i - 1) - 1 = i - 2
          BY <1>2, <4>1
        <5> QED
          BY <1>2, <1>5, <3>3, <4>1, <4>2, <5>1
      <4> QED
        BY <4>1, <4>3
    <3> QED
      BY <1>2, <1>4, <2>2, <3>3, <3>4 DEF h
  <2> QED
    BY <2>1, <2>2
<1>11. Linked(c, next', prev', g_head')
  <2>1. g_head' = c[1] /\ Len(c) = n + 1 /\ Len(c) # 0
    BY <1>2, <1>3, <1>4, <1>8
  <2> QED
    BY <1>9, <1>10, <2>1 DEF Linked
<1> QED
  BY <1>3, <1>6, <1>7, <1>11 DEF c

(* A list without one of its nodes. *)
LEMMA DelinkLinked ==
    ASSUME TypeOK, Linked(list, next, prev, g_head), Distinct(list),
           NEW t \in Timer, t \in ToSet(list), Delink(t)
    PROVE  /\ list' \in Seq(Timer) /\ Distinct(list')
           /\ ToSet(list') = ToSet(list) \ {t}
           /\ Linked(list', next', prev', g_head')
<1> DEFINE n == Len(list)
           p == list'
<1>1. list \in Seq(Timer) /\ list' = Unlink(list, t)
  BY DEF TypeOK, Delink
<1>2. /\ p \in Seq(Timer) /\ Distinct(p) /\ ToSet(p) = ToSet(list) \ {t}
  BY <1>1, UnlinkDistinct
<1>3. PICK k \in 1..n : list[k] = t /\ p = RemoveAt(list, k)
  BY <1>1, UnlinkFacts
<1>4. n \in Nat /\ n # 0 /\ \A j \in 1..n : list[j] \in Timer /\ list[j] # NoTimer
  BY <1>1, <1>3, LenProperties, ElementOfSeq, TimerAssumption
<1>5. Len(p) = n - 1 /\ \A j \in 1..n - 1 : p[j] = IF j < k THEN list[j] ELSE list[j + 1]
  BY <1>1, <1>3, RemoveAtIndex
<1>6. /\ g_head = list[1]
      /\ \A i \in 1..n : /\ next[list[i]] = IF i = n THEN NoTimer ELSE list[i + 1]
                         /\ prev[list[i]] = IF i = 1 THEN NoTimer ELSE list[i - 1]
  BY <1>4 DEF Linked
<1>7. \A i, j \in 1..n : list[i] = list[j] => i = j
  BY DEF Distinct
<1>8. next \in [Timer -> Timer \cup {NoTimer}] /\ prev \in [Timer -> Timer \cup {NoTimer}]
  BY DEF TypeOK
<1> HIDE DEF n, p
<1>9. /\ g_head' = IF k = 1 THEN next[t] ELSE g_head
      /\ \A x \in Timer : x # t =>
            /\ next'[x] = IF k # 1 /\ x = prev[t] THEN next[t] ELSE next[x]
            /\ prev'[x] = IF x = next[t] THEN IF k = 1 THEN NoTimer ELSE prev[t] ELSE prev[x]
  <2>1. prev[t] = (IF k = 1 THEN NoTimer ELSE list[k - 1]) /\ next[t] \in Timer \cup {NoTimer}
    BY <1>3, <1>6, <1>8
  <2>2. CASE k = 1
    <3>1. t = g_head
      BY <1>3, <1>6, <2>2
    <3>2. /\ g_head' = next[t] /\ next' = [next EXCEPT ![t] = NoTimer]
          /\ prev' = [Set(prev, next[t], NoTimer) EXCEPT ![t] = NoTimer]
      BY <3>1 DEF Delink
    <3>3. CASE next[t] = NoTimer
      BY <1>8, <2>2, <3>2, <3>3, TimerAssumption DEF Set
    <3>4. CASE next[t] # NoTimer
      <4>1. prev' = [[prev EXCEPT ![next[t]] = NoTimer] EXCEPT ![t] = NoTimer]
        BY <3>2, <3>4 DEF Set
      <4> QED
        BY <1>8, <2>1, <2>2, <3>2, <3>4, <4>1
    <3> QED
      BY <3>3, <3>4
  <2>3. CASE k # 1
    <3>1. t # g_head
      BY <1>3, <1>4, <1>6, <1>7, <2>3
    <3>2. prev[t] \in Timer /\ prev[t] # NoTimer
      BY <1>3, <1>4, <2>1, <2>3
    <3>3. /\ g_head' = g_head
          /\ next' = [[next EXCEPT ![prev[t]] = next[t]] EXCEPT ![t] = NoTimer]
          /\ prev' = [Set(prev, next[t], prev[t]) EXCEPT ![t] = NoTimer]
      BY <3>1, <3>2 DEF Delink, Set
    <3>4. \A x \in Timer : x # t => next'[x] = IF x = prev[t] THEN next[t] ELSE next[x]
      BY <1>8, <3>2, <3>3
    <3>5. CASE next[t] = NoTimer
      BY <1>8, <2>3, <3>3, <3>4, <3>5, TimerAssumption DEF Set
    <3>6. CASE next[t] # NoTimer
      <4>1. prev' = [[prev EXCEPT ![next[t]] = prev[t]] EXCEPT ![t] = NoTimer]
        BY <3>3, <3>6 DEF Set
      <4> QED
        BY <1>8, <2>1, <2>3, <3>3, <3>4, <3>6, <4>1
    <3> QED
      BY <3>5, <3>6
  <2> QED
    BY <2>2, <2>3
<1>10. /\ next[t] = IF k = n THEN NoTimer ELSE list[k + 1]
       /\ prev[t] = IF k = 1 THEN NoTimer ELSE list[k - 1]
  BY <1>3, <1>6
<1>11. \A j \in 1..n - 1 :
          /\ j < k  => p[j] = list[j] /\ p[j] # t
          /\ j >= k => p[j] = list[j + 1] /\ p[j] # t
  BY <1>3, <1>4, <1>5, <1>7
<1>12. \A j \in 1..n - 1 : next'[p[j]] = IF j = n - 1 THEN NoTimer ELSE p[j + 1]
  <2> TAKE j \in 1..n - 1
  <2>1. CASE j < k - 1
    <3>1. p[j] = list[j] /\ j \in 1..n /\ j # n - 1 /\ p[j + 1] = list[j + 1] /\ p[j] # t
      BY <1>3, <1>4, <1>11, <2>1
    <3>2. k # 1 => prev[t] # p[j]
      BY <1>3, <1>4, <1>7, <1>10, <2>1, <3>1
    <3> QED
      BY <1>4, <1>6, <1>9, <3>1, <3>2
  <2>2. CASE j = k - 1
    <3>1. p[j] = list[j] /\ j \in 1..n /\ k # 1 /\ p[j] = prev[t] /\ p[j] # t
      BY <1>3, <1>4, <1>10, <1>11, <2>2
    <3>2. next'[p[j]] = next[t]
      BY <1>4, <1>9, <3>1
    <3>3. j # n - 1 => p[j + 1] = list[k + 1]
      BY <1>3, <1>4, <1>11, <2>2
    <3> QED
      BY <1>3, <1>4, <1>10, <2>2, <3>2, <3>3
  <2>3. CASE j >= k
    <3>1. p[j] = list[j + 1] /\ j + 1 \in 1..n /\ p[j] # t
      BY <1>3, <1>4, <1>11, <2>3
    <3>2. k # 1 => prev[t] # p[j]
      BY <1>3, <1>4, <1>7, <1>10, <2>3, <3>1
    <3>3. next'[p[j]] = next[list[j + 1]]
      BY <1>4, <1>9, <3>1, <3>2
    <3>4. j # n - 1 => p[j + 1] = list[j + 2]
      BY <1>3, <1>4, <1>11, <2>3
    <3> QED
      BY <1>4, <1>6, <3>1, <3>3, <3>4
  <2> QED
    BY <1>3, <1>4, <2>1, <2>2, <2>3
<1>13. \A j \in 1..n - 1 : prev'[p[j]] = IF j = 1 THEN NoTimer ELSE p[j - 1]
  <2> TAKE j \in 1..n - 1
  <2>1. CASE j < k
    <3>1. p[j] = list[j] /\ j \in 1..n /\ (j # 1 => p[j - 1] = list[j - 1]) /\ p[j] # t
      BY <1>3, <1>4, <1>11, <2>1
    <3>2. next[t] # p[j]
      BY <1>3, <1>4, <1>7, <1>10, <2>1, <3>1
    <3> QED
      BY <1>4, <1>6, <1>9, <3>1, <3>2
  <2>2. CASE j = k
    <3>1. p[j] = list[j + 1] /\ j + 1 \in 1..n /\ p[j] = next[t] /\ p[j] # t
      BY <1>3, <1>4, <1>10, <1>11, <2>2
    <3>2. prev'[p[j]] = IF k = 1 THEN NoTimer ELSE prev[t]
      BY <1>4, <1>9, <3>1
    <3>3. j # 1 => p[j - 1] = list[k - 1]
      BY <1>3, <1>4, <1>11, <2>2
    <3> QED
      BY <1>3, <1>4, <1>10, <2>2, <3>2, <3>3
  <2>3. CASE j > k
    <3>1. p[j] = list[j + 1] /\ j + 1 \in 1..n /\ j # 1 /\ p[j - 1] = list[j] /\ p[j] # t
      BY <1>3, <1>4, <1>11, <2>3
    <3>2. next[t] # p[j]
      BY <1>3, <1>4, <1>7, <1>10, <2>3, <3>1
    <3> QED
      BY <1>4, <1>6, <1>9, <3>1, <3>2
  <2> QED
    BY <1>3, <1>4, <2>1, <2>2, <2>3
<1>14. g_head' = IF n - 1 = 0 THEN NoTimer ELSE p[1]
  BY <1>3, <1>4, <1>6, <1>9, <1>10, <1>11
<1>15. Linked(p, next', prev', g_head')
  BY <1>4, <1>5, <1>12, <1>13, <1>14 DEF Linked
<1> QED
  BY <1>2, <1>15 DEF p
-----------------------------------------------------------------------------
(* The initial state satisfies the inductive invariant. *)
LEMMA InitIInv == Init => IInv
<1> SUFFICES ASSUME Init PROVE IInv
  OBVIOUS
<1>1. list = <<>> /\ <<>> \in Seq(Timer) /\ Len(<<>>) = 0 /\ ToSet(<<>>) = {}
  BY EmptySeq DEF Init, ToSet
<1>2. TypeOK
  BY <1>1, TimerAssumption DEF Init, TypeOK
<1>3. ListExact
  BY <1>1 DEF Init, ListExact, At
<1>4. DescriptorsOwned /\ EventsHeld
  BY TimerAssumption DEF Init, DescriptorsOwned, EventsHeld
<1> QED
  BY <1>2, <1>3, <1>4 DEF IInv

(* The list is exact when it is linked as the sequence says. *)
LEMMA ListFacts ==
    ASSUME IInv
    PROVE  /\ list \in Seq(Timer) /\ Distinct(list)
           /\ Linked(list, next, prev, g_head)
           /\ \A t \in Timer : type[t] # "free" <=> t \in ToSet(list)
BY ListLinked DEF IInv, TypeOK, ListIs

(* A new timer, whatever becomes of its start. *)
LEMMA CreateList ==
    ASSUME IInv, NEW t \in Timer, NEW k \in Relative \cup Absolute, Create(t, k)
    PROVE  /\ ListExact'
           /\ type' = [type EXCEPT ![t] = k] /\ type' \in [Timer -> {"free"} \cup Relative \cup Absolute]
           /\ next' \in [Timer -> Timer \cup {NoTimer}] /\ prev' \in [Timer -> Timer \cup {NoTimer}]
           /\ g_head' \in Timer \cup {NoTimer} /\ list' \in Seq(Timer)
           /\ closing = NoTimer /\ type[t] = "free" /\ k # "free" /\ t \notin held
           /\ timer_fd[t] = NoFd
<1>1. closing = NoTimer /\ type[t] = "free" /\ type' = [type EXCEPT ![t] = k] /\ Insert(t)
  BY DEF Create
<1>2. k # "free"
  BY DEF Relative, Absolute
<1>3. t \notin ToSet(list)
  BY <1>1, ListFacts
<1>4. /\ list' \in Seq(Timer) /\ Distinct(list')
      /\ ToSet(list') = ToSet(list) \cup {t}
      /\ Linked(list', next', prev', g_head')
  BY <1>1, <1>3, ListFacts, InsertLinked DEF IInv
<1>5. type' \in [Timer -> {"free"} \cup Relative \cup Absolute]
  BY <1>1 DEF IInv, TypeOK
<1>6. \A u \in Timer : type'[u] # "free" <=> u \in ToSet(list')
  BY <1>1, <1>2, <1>4, ListFacts DEF IInv, TypeOK
<1>7. ListExact'
  <2>1. (list \in Seq(Timer) => (ListExact <=> ListIs))'
    BY ListLinked, PTL
  <2> QED
    BY <1>4, <1>6, <2>1 DEF ListIs
<1>8. /\ next' \in [Timer -> Timer \cup {NoTimer}] /\ prev' \in [Timer -> Timer \cup {NoTimer}]
      /\ g_head' \in Timer \cup {NoTimer}
  BY <1>1 DEF Insert, Set, IInv, TypeOK
<1>9. t \notin held /\ timer_fd[t] = NoFd
  BY <1>1, TimerAssumption DEF IInv, EventsHeld, DescriptorsOwned, Absolute
<1> QED
  BY <1>1, <1>2, <1>4, <1>5, <1>7, <1>8, <1>9

(* A timer that is freed. *)
LEMMA DeleteList ==
    ASSUME IInv, NEW t \in Timer, type[t] # "free", Delink(t), FreeMemory(t)
    PROVE  /\ ListExact'
           /\ type' = [type EXCEPT ![t] = "free"] /\ type' \in [Timer -> {"free"} \cup Relative \cup Absolute]
           /\ next' \in [Timer -> Timer \cup {NoTimer}] /\ prev' \in [Timer -> Timer \cup {NoTimer}]
           /\ g_head' \in Timer \cup {NoTimer} /\ list' \in Seq(Timer)
<1>1. type' = [type EXCEPT ![t] = "free"]
  BY DEF FreeMemory
<1>2. t \in ToSet(list)
  BY ListFacts
<1>3. /\ list' \in Seq(Timer) /\ Distinct(list')
      /\ ToSet(list') = ToSet(list) \ {t}
      /\ Linked(list', next', prev', g_head')
  BY <1>2, ListFacts, DelinkLinked DEF IInv
<1>4. type' \in [Timer -> {"free"} \cup Relative \cup Absolute]
  BY <1>1 DEF IInv, TypeOK
<1>5. \A u \in Timer : type'[u] # "free" <=> u \in ToSet(list')
  BY <1>1, <1>3, ListFacts DEF IInv, TypeOK
<1>6. ListExact'
  <2>1. (list \in Seq(Timer) => (ListExact <=> ListIs))'
    BY ListLinked, PTL
  <2> QED
    BY <1>3, <1>5, <2>1 DEF ListIs
<1>7. /\ next' \in [Timer -> Timer \cup {NoTimer}] /\ prev' \in [Timer -> Timer \cup {NoTimer}]
      /\ g_head' \in Timer \cup {NoTimer}
  BY DEF Delink, Set, IInv, TypeOK
<1> QED
  BY <1>1, <1>3, <1>4, <1>6, <1>7
-----------------------------------------------------------------------------
(* A start succeeds, or fails with the timer in the list. *)
LEMMA StartIInv ==
    ASSUME IInv, NEW t \in Timer, NEW k \in Relative \cup Absolute,
           Start(t, k) \/ StartFails(t, k)
    PROVE  IInv'
<1>1. /\ Create(t, k)
      /\ \/ NeedsNoFd(t, k) \/ OpenFd(t, k)
         \/ k \in Absolute /\ UNCHANGED <<timer_fd, fds>>
      /\ state' = [state EXCEPT ![t] = "running"]
      /\ \/ armed' = armed \cup {t} /\ held' = held \cup {t}
         \/ UNCHANGED <<armed, held>>
      /\ UNCHANGED <<due, running, closing, stolen>>
  BY DEF Start, StartFails
<1>2. /\ ListExact'
      /\ type' = [type EXCEPT ![t] = k] /\ type' \in [Timer -> {"free"} \cup Relative \cup Absolute]
      /\ next' \in [Timer -> Timer \cup {NoTimer}] /\ prev' \in [Timer -> Timer \cup {NoTimer}]
      /\ g_head' \in Timer \cup {NoTimer} /\ list' \in Seq(Timer)
      /\ closing = NoTimer /\ type[t] = "free" /\ k # "free" /\ t \notin held
      /\ timer_fd[t] = NoFd
  BY <1>1, CreateList
<1>3. \/ UNCHANGED <<timer_fd, fds>>
      \/ /\ k \in Absolute
         /\ \E f \in Fd : /\ fds[f] = "closed"
                          /\ timer_fd' = [timer_fd EXCEPT ![t] = f]
                          /\ fds' = [fds EXCEPT ![f] = t]
  BY <1>1 DEF NeedsNoFd, OpenFd
<1>4. TypeOK'
  BY <1>1, <1>2, <1>3 DEF IInv, TypeOK
<1>5. DescriptorsOwned'
  <2>1. CASE UNCHANGED <<timer_fd, fds>>
    BY <1>1, <1>2, <2>1 DEF IInv, TypeOK, DescriptorsOwned
  <2>2. ASSUME k \in Absolute, NEW f \in Fd, fds[f] = "closed",
               timer_fd' = [timer_fd EXCEPT ![t] = f], fds' = [fds EXCEPT ![f] = t]
        PROVE  DescriptorsOwned'
    <3>1. \A u \in Timer : u # "closed"
      BY TimerAssumption
    <3>2. \A u \in Timer : timer_fd'[u] # NoFd => type'[u] \in Absolute /\ fds'[timer_fd'[u]] = u
      BY <1>2, <2>2, <3>1, TimerAssumption DEF IInv, TypeOK, DescriptorsOwned
    <3>3. \A g \in Fd : fds'[g] \in Timer => timer_fd'[fds'[g]] = g
      BY <1>2, <2>2, <3>1, TimerAssumption DEF IInv, TypeOK, DescriptorsOwned
    <3> QED
      BY <1>1, <1>2, <3>2, <3>3 DEF DescriptorsOwned
  <2> QED
    BY <1>3, <2>1, <2>2
<1>6. EventsHeld'
  BY <1>1, <1>2, TimerAssumption DEF IInv, TypeOK, EventsHeld
<1> QED
  BY <1>2, <1>4, <1>5, <1>6 DEF IInv

(* The descriptor of a timer could not be added to the loop. *)
LEMMA CreateFailsIInv ==
    ASSUME IInv, NEW t \in Timer, NEW k \in Relative \cup Absolute, CreateFails(t, k)
    PROVE  IInv'
<1>1. PICK f \in Fd : /\ Create(t, k) /\ k \in Absolute
                      /\ fds[f] = "closed" /\ timer_fd' = [timer_fd EXCEPT ![t] = f]
                      /\ closing' = t
                      /\ UNCHANGED <<state, fds, armed, due, held, running, stolen>>
  BY DEF CreateFails
<1>2. /\ ListExact'
      /\ type' = [type EXCEPT ![t] = k] /\ type' \in [Timer -> {"free"} \cup Relative \cup Absolute]
      /\ next' \in [Timer -> Timer \cup {NoTimer}] /\ prev' \in [Timer -> Timer \cup {NoTimer}]
      /\ g_head' \in Timer \cup {NoTimer} /\ list' \in Seq(Timer)
      /\ closing = NoTimer /\ type[t] = "free" /\ k # "free" /\ t \notin held
      /\ timer_fd[t] = NoFd
  BY <1>1, CreateList
<1>3. TypeOK'
  BY <1>1, <1>2 DEF IInv, TypeOK
<1>4. DescriptorsOwned'
  <2>1. \A u \in Timer : u # t => timer_fd'[u] = timer_fd[u] /\ type'[u] = type[u]
    BY <1>1, <1>2 DEF IInv, TypeOK
  <2>2. \A u \in Timer : timer_fd'[u] # NoFd =>
           closing' = u \/ (type'[u] \in Absolute /\ fds'[timer_fd'[u]] = u)
    BY <1>1, <1>2, <2>1, TimerAssumption DEF IInv, TypeOK, DescriptorsOwned
  <2>3. \A g \in Fd : fds'[g] \in Timer => timer_fd'[fds'[g]] = g
    BY <1>1, <1>2, <2>1, TimerAssumption DEF IInv, TypeOK, DescriptorsOwned
  <2>4. type'[t] \in Absolute /\ timer_fd'[t] = f /\ f # NoFd /\ fds'[f] \notin Timer
    BY <1>1, <1>2, TimerAssumption DEF IInv, TypeOK
  <2> QED
    BY <1>1, <2>2, <2>3, <2>4 DEF DescriptorsOwned
<1>5. EventsHeld'
  BY <1>1, <1>2, TimerAssumption DEF IInv, TypeOK, EventsHeld
<1> QED
  BY <1>2, <1>3, <1>4, <1>5 DEF IInv

(* A timer is deleted, by its owner or after its creation failed. *)
LEMMA DeleteIInv ==
    ASSUME IInv, NEW t \in Timer, Delete(t) \/ DeleteClosed(t)
    PROVE  IInv'
<1>1. /\ Delink(t) /\ CloseFd(t) /\ FreeMemory(t) /\ running' = running /\ closing' = NoTimer
      /\ \/ closing = NoTimer /\ t \in held
         \/ closing = t /\ t \notin held
      /\ armed' = armed \ {t} /\ due' = due \ {t} /\ held' = held \ {t}
  <2>1. CASE Delete(t)
    BY <2>1 DEF Delete
  <2>2. CASE DeleteClosed(t)
    <3>1. t \notin held /\ t \notin armed /\ t \notin due
      BY <2>2 DEF IInv, EventsHeld, DeleteClosed
    <3> QED
      BY <2>2, <3>1 DEF DeleteClosed, IInv, TypeOK
  <2> QED
    BY <2>1, <2>2
<1>2. type[t] # "free"
  BY <1>1, TimerAssumption DEF IInv, EventsHeld, DescriptorsOwned, Absolute
<1>3. /\ ListExact'
      /\ type' = [type EXCEPT ![t] = "free"] /\ type' \in [Timer -> {"free"} \cup Relative \cup Absolute]
      /\ next' \in [Timer -> Timer \cup {NoTimer}] /\ prev' \in [Timer -> Timer \cup {NoTimer}]
      /\ g_head' \in Timer \cup {NoTimer} /\ list' \in Seq(Timer)
  BY <1>1, <1>2, DeleteList
<1>4. /\ state' = [state EXCEPT ![t] = "created"]
      /\ timer_fd' = [timer_fd EXCEPT ![t] = NoFd]
  BY <1>1 DEF FreeMemory
<1>5. \/ timer_fd[t] = NoFd /\ UNCHANGED <<fds, stolen>>
      \/ /\ timer_fd[t] # NoFd /\ timer_fd[t] \in Fd
         /\ fds' = [fds EXCEPT ![timer_fd[t]] = "closed"]
         /\ stolen' \in BOOLEAN
  BY <1>1 DEF CloseFd, IInv, TypeOK
<1>6. TypeOK'
  BY <1>1, <1>3, <1>4, <1>5 DEF IInv, TypeOK
<1>7. DescriptorsOwned'
  <2>1. timer_fd[t] # NoFd => fds[timer_fd[t]] = t \/ fds[timer_fd[t]] \notin Timer
    BY <1>1, TimerAssumption DEF IInv, DescriptorsOwned
  <2>2. ASSUME NEW u \in Timer, timer_fd'[u] # NoFd
        PROVE  type'[u] \in Absolute /\ fds'[timer_fd'[u]] = u
    <3>1. u # t /\ timer_fd'[u] = timer_fd[u] /\ type'[u] = type[u]
      BY <1>3, <1>4, <2>2 DEF IInv, TypeOK
    <3>2. type[u] \in Absolute /\ fds[timer_fd[u]] = u /\ timer_fd[u] \in Fd
      BY <1>1, <2>2, <3>1, TimerAssumption DEF IInv, TypeOK, DescriptorsOwned
    <3>3. timer_fd[t] # timer_fd[u]
      BY <2>1, <3>1, <3>2, <2>2
    <3> QED
      BY <1>5, <3>1, <3>2, <3>3 DEF IInv, TypeOK
  <2>3. ASSUME NEW g \in Fd, fds'[g] \in Timer
        PROVE  timer_fd'[fds'[g]] = g
    <3>1. fds'[g] = fds[g] /\ g # timer_fd[t]
      BY <1>5, <2>3, TimerAssumption DEF IInv, TypeOK
    <3>2. timer_fd[fds[g]] = g
      BY <2>3, <3>1 DEF IInv, DescriptorsOwned
    <3> QED
      BY <1>4, <2>3, <3>1, <3>2 DEF IInv, TypeOK
  <2> QED
    BY <1>1, <2>2, <2>3 DEF DescriptorsOwned
<1>8. EventsHeld'
  <2>1. \A u \in Timer : u # t => type'[u] = type[u] /\ state'[u] = state[u]
    BY <1>3, <1>4 DEF IInv, TypeOK
  <2> QED
    BY <1>1, <2>1, TimerAssumption DEF IInv, TypeOK, EventsHeld
<1> QED
  BY <1>3, <1>6, <1>7, <1>8 DEF IInv

(* A timer expires, or its callback runs. *)
LEMMA EventIInv ==
    ASSUME IInv, NEW t \in Timer, Expire(t) \/ Callback(t)
    PROVE  IInv'
<1>1. /\ UNCHANGED <<type, timer_fd, listVars, fds, held, closing, stolen>>
      /\ running' \in {running, t}
  BY DEF Expire, Callback
<1>2. TypeOK'
  BY <1>1 DEF Expire, Callback, IInv, TypeOK, listVars
<1>3. ListExact' /\ DescriptorsOwned'
  BY <1>1 DEF IInv, ListExact, At, DescriptorsOwned, listVars
<1>4. EventsHeld'
  <2>1. CASE Expire(t)
    BY <2>1 DEF Expire, IInv, TypeOK, EventsHeld
  <2>2. CASE Callback(t)
    BY <2>2 DEF Callback, IInv, TypeOK, EventsHeld, Relative, Absolute, OneShot
  <2> QED
    BY <2>1, <2>2
<1> QED
  BY <1>2, <1>3, <1>4 DEF IInv

(* A callback returns, or another thread opens or closes a descriptor. *)
LEMMA OtherIInv ==
    ASSUME IInv, Return \/ Others \/ UNCHANGED vars
    PROVE  IInv'
<1>1. /\ UNCHANGED <<type, state, timer_fd, listVars, armed, due, held, closing, stolen>>
      /\ running' \in {running, NoTimer}
      /\ \/ fds' = fds
         \/ \E f \in Fd : /\ fds[f] \in {"closed", "other"}
                          /\ \E x \in {"closed", "other"} : fds' = [fds EXCEPT ![f] = x]
  BY DEF Return, Others, vars
<1>2. TypeOK' /\ ListExact' /\ EventsHeld'
  BY <1>1 DEF IInv, TypeOK, ListExact, At, EventsHeld, listVars
<1>3. DescriptorsOwned'
  BY <1>1, TimerAssumption DEF IInv, TypeOK, DescriptorsOwned
<1> QED
  BY <1>2, <1>3 DEF IInv

LEMMA NextIInv == IInv /\ [Next]_vars => IInv'
<1> SUFFICES ASSUME IInv, [Next]_vars PROVE IInv'
  OBVIOUS
<1>1. CASE Return \/ Others \/ UNCHANGED vars
  BY <1>1, OtherIInv
<1>2. ASSUME NEW t \in Timer, NEW k \in Relative \cup Absolute,
             Start(t, k) \/ StartFails(t, k) \/ CreateFails(t, k)
      PROVE  IInv'
  BY <1>2, StartIInv, CreateFailsIInv
<1>3. ASSUME NEW t \in Timer,
             Delete(t) \/ DeleteClosed(t) \/ Expire(t) \/ Callback(t)
      PROVE  IInv'
  BY <1>3, DeleteIInv, EventIInv
<1> QED
  BY <1>1, <1>2, <1>3 DEF Next

(* The inductive invariant of the timers (src/vtimer.c) always holds: for  *)
(* any number of timers, whatever is created, deleted or fails to start.   *)
THEOREM Invariance == Spec => []IInv
<1>1. Init => IInv
  BY InitIInv
<1>2. IInv /\ [Next]_vars => IInv'
  BY NextIInv
<1> QED
  BY <1>1, <1>2, PTL DEF Spec

(* vtimer_dump_all meets each timer once and nothing else (160-172). *)
THEOREM ListAlwaysExact == Spec => []ListExact
<1>1. IInv => ListExact
  BY DEF IInv
<1> QED
  BY <1>1, Invariance, PTL

(* No descriptor is leaked or closed under a timer (214-248, 533-540). *)
THEOREM DescriptorsAlwaysOwned == Spec => []DescriptorsOwned
<1>1. IInv => DescriptorsOwned
  BY DEF IInv
<1> QED
  BY <1>1, Invariance, PTL
-----------------------------------------------------------------------------
(* What a step is for the clients of the timers. *)
LEMMA StartRefines ==
    ASSUME IInv, NEW t \in Timer, NEW k \in Relative \cup Absolute,
           Start(t, k) \/ StartFails(t, k) \/ CreateFails(t, k)
    PROVE  [Service!Next]_Service!vars
<1>1. Create(t, k) /\ UNCHANGED <<due, running>> /\ type' = [type EXCEPT ![t] = k]
  BY DEF Start, StartFails, CreateFails, Create
<1>2. t \notin held /\ Life[t] = "none"
  BY <1>1, CreateList DEF Life
<1>3. CASE armed' = armed \cup {t} /\ held' = held \cup {t}
  <2> DEFINE kind == IF k \in OneShot THEN "oneshot" ELSE "periodic"
  <2>1. Life' = [Life EXCEPT ![t] = kind]
    BY <1>1, <1>2, <1>3 DEF Life, IInv, TypeOK
  <2>2. (running # NoTimer)' = (running # NoTimer)
    BY <1>1
  <2>3. kind \in {"periodic", "oneshot"}
    OBVIOUS
  <2> HIDE DEF kind
  <2>4. Service!Start(t, kind)
    BY <1>2, <2>1, <2>2, Zenon DEF Service!Start
  <2> QED
    BY <2>3, <2>4 DEF Service!Next
<1>4. CASE UNCHANGED <<armed, held>>
  <2>1. Life' = Life
    BY <1>1, <1>2, <1>4 DEF Life, IInv, TypeOK
  <2> QED
    BY <1>1, <2>1 DEF Service!vars
<1> QED
  BY <1>3, <1>4 DEF Start, StartFails, CreateFails

LEMMA DeleteRefines ==
    ASSUME IInv, NEW t \in Timer, Delete(t) \/ DeleteClosed(t)
    PROVE  [Service!Next]_Service!vars
<1>1. UNCHANGED running /\ type' = [type EXCEPT ![t] = "free"]
  BY DEF Delete, DeleteClosed, FreeMemory
<1>2. CASE Delete(t)
  <2>1. t \in held /\ held' = held \ {t} /\ armed' = armed \ {t} /\ due' = due \ {t}
    BY <1>2 DEF Delete
  <2>2. Life[t] # "none"
    BY <2>1 DEF Life
  <2>3. Life' = [Life EXCEPT ![t] = "none"]
    BY <1>1, <2>1 DEF Life, IInv, TypeOK
  <2>4. (running # NoTimer)' = (running # NoTimer)
    BY <1>1
  <2>5. Service!Delete(t)
    BY <2>2, <2>3, <2>4, Zenon DEF Service!Delete
  <2> QED
    BY <2>5 DEF Service!Next
<1>3. CASE DeleteClosed(t)
  <2>1. t \notin held /\ UNCHANGED <<held, armed, due>>
    BY <1>3 DEF DeleteClosed, IInv, EventsHeld
  <2>2. Life' = Life
    BY <1>1, <2>1 DEF Life, IInv, TypeOK
  <2> QED
    BY <1>1, <2>2 DEF Service!vars
<1> QED
  BY <1>2, <1>3

LEMMA CallbackRefines ==
    ASSUME IInv, NEW t \in Timer, Callback(t)
    PROVE  Service!Call(t)
<1>1. /\ running = NoTimer /\ running' = t /\ t \in due /\ due' = due \ {t}
      /\ armed' = IF type[t] = "periodic" THEN armed \cup {t}
                  ELSE IF type[t] = "timeout" THEN armed \ {t} ELSE armed
      /\ UNCHANGED <<type, held>>
  BY DEF Callback
<1>2. t \in held /\ type[t] # "free" /\ (t \in armed => type[t] = "absperiodic")
  BY <1>1 DEF IInv, EventsHeld
<1>3. Life[t] = IF type[t] \in OneShot THEN "oneshot" ELSE "periodic"
  BY <1>1, <1>2 DEF Life
<1>4. Life' = [Life EXCEPT ![t] = IF Life[t] = "oneshot" THEN "expired" ELSE Life[t]]
  <2>1. Life'[t] = IF type[t] \in OneShot THEN "expired" ELSE "periodic"
    BY <1>1, <1>2 DEF Life, OneShot, IInv, TypeOK, Relative, Absolute
  <2>2. \A u \in Timer : u # t => Life'[u] = Life[u]
    BY <1>1 DEF Life
  <2>3. DOMAIN Life = Timer /\ DOMAIN Life' = Timer
    BY DEF Life
  <2> QED
    BY <1>3, <2>1, <2>2 DEF Life
<1>5. Life[t] \in {"periodic", "oneshot"}
  BY <1>3
<1>6. ~(running # NoTimer) /\ (running # NoTimer)' = TRUE
  BY <1>1, TimerAssumption
<1> QED
  BY <1>4, <1>5, <1>6, Zenon DEF Service!Call

LEMMA OthersRefine ==
    ASSUME IInv, Return \/ Others \/ UNCHANGED vars \/ \E t \in Timer : Expire(t)
    PROVE  [Service!Next]_Service!vars
<1>1. CASE Return
  <2>1. (running # NoTimer) /\ (running # NoTimer)' = FALSE
    BY <1>1 DEF Return
  <2>2. Life' = Life
    BY <1>1 DEF Return, Life
  <2>3. Service!Return
    BY <2>1, <2>2, Zenon DEF Service!Return
  <2> QED
    BY <2>3 DEF Service!Next
<1>2. CASE Others \/ UNCHANGED vars
  BY <1>2 DEF Others, vars, Life, Service!vars
<1>3. ASSUME NEW t \in Timer, Expire(t)
      PROVE  Service!vars' = Service!vars
  <2>1. UNCHANGED <<type, held, running>> /\ armed' \cup due' = armed \cup due
    BY <1>3 DEF Expire
  <2>2. Life' = Life
    BY <2>1 DEF Life
  <2> QED
    BY <2>1, <2>2 DEF Service!vars
<1> QED
  BY <1>1, <1>2, <1>3

(* The timers of src/vtimer.c implement what export/vtimer.h promises of   *)
(* them: a one-shot timer calls back once, one callback runs at a time,    *)
(* and a timer that was deleted never calls back.                          *)
THEOREM TimersRefinement == Spec => TimerSpec
<1>1. Init => Service!Init
  <2> SUFFICES ASSUME Init PROVE Service!Init
    OBVIOUS
  <2>1. Life = [t \in Timer |-> "none"] /\ ~(running # NoTimer)
    BY DEF Init, Life
  <2>2. (running # NoTimer) = FALSE
    BY <2>1
  <2> QED
    BY <2>1, <2>2, Zenon DEF Service!Init
<1>2. IInv /\ [Next]_vars => [Service!Next]_Service!vars
  <2> SUFFICES ASSUME IInv, [Next]_vars PROVE [Service!Next]_Service!vars
    OBVIOUS
  <2>1. CASE Return \/ Others \/ UNCHANGED vars \/ \E t \in Timer : Expire(t)
    BY <2>1, OthersRefine
  <2>2. ASSUME NEW t \in Timer, NEW k \in Relative \cup Absolute,
               Start(t, k) \/ StartFails(t, k) \/ CreateFails(t, k)
        PROVE  [Service!Next]_Service!vars
    BY <2>2, StartRefines
  <2>3. ASSUME NEW t \in Timer, Delete(t) \/ DeleteClosed(t)
        PROVE  [Service!Next]_Service!vars
    BY <2>3, DeleteRefines
  <2>4. ASSUME NEW t \in Timer, Callback(t)
        PROVE  [Service!Next]_Service!vars
    BY <2>4, CallbackRefines DEF Service!Next
  <2> QED
    BY <2>1, <2>2, <2>3, <2>4 DEF Next
<1> QED
  BY <1>1, <1>2, Invariance, PTL DEF Spec, TimerSpec, Service!Spec
=============================================================================
