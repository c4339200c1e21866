-------------------------- MODULE AlarmPool_proofs --------------------------
(***************************************************************************)
(* Proofs about AlarmPool, for every number of handles, alarms and         *)
(* arguments and every threshold, also when ZBOSS refuses to schedule: the *)
(* types, the soundness of the free list, the ownership of handles and of  *)
(* what ZBOSS holds, the truth of the low-handle flag, and that the alarms *)
(* implement AlarmService.                                                 *)
(***************************************************************************)
EXTENDS AlarmPool, FiniteSetTheorems, TLAPS

Lists == [head : Links, entries : [Handles -> Entries]]

-----------------------------------------------------------------------------
(* The free list *)

LEMMA EntriesLemma ==
    /\ \A n \in Links : FreeEntry(n) \in Entries /\ FreeEntry(n).pAlarm = None
                        /\ FreeEntry(n).nextFree = n
    /\ \A a \in Alarms, x \in Args : Entry(a, x) \in Entries /\ Entry(a, x).pAlarm = a
                                     /\ Entry(a, x).param = x /\ a # None
    /\ \A e \in Entries : e.pAlarm # None => e.pAlarm \in Alarms /\ e.param \in Args
  BY AlarmAssumption DEF Entries, FreeEntry, Entry

\* A handle that is not free has been taken before.
LEMMA TakenBefore ==
    ASSUME NEW l, NEW k \in 0..kMaxSize, LaidOut(l, k),
           NEW i \in Handles, i \notin FreeOf(l)
    PROVE  i < k
  <1>0. PICK n \in 0..kMaxSize :
            \E order \in Orders(n) : IsOrder(l, order, n) /\ Untouched(order, n, k)
    BY DEF LaidOut
  <1>1. PICK order \in Orders(n) : IsOrder(l, order, n) /\ Untouched(order, n, k)
    BY <1>0
  <1> SUFFICES ASSUME i >= k PROVE FALSE
    BY DEF Handles
  <1>2. n - (kMaxSize - 1 - i) \in 1..n /\ n - (kMaxSize - 1 - i) > n - (kMaxSize - k)
    BY <1>1, AlarmAssumption DEF Untouched, Handles
  <1>3. order[n - (kMaxSize - 1 - i)] = i
    BY <1>1, <1>2, AlarmAssumption DEF Untouched, Handles
  <1> QED BY <1>1, <1>2, <1>3 DEF IsOrder

\* Free puts a taken handle in front of the list and keeps the rest.
LEMMA FreedLaidOut ==
    ASSUME NEW l \in Lists, NEW k \in 0..kMaxSize, LaidOut(l, k),
           NEW i \in Handles, i \notin FreeOf(l)
    PROVE  /\ Freed(l, i) \in Lists
           /\ LaidOut(Freed(l, i), k)
           /\ FreeOf(Freed(l, i)) = FreeOf(l) \cup {i}
  <1>0. PICK n \in 0..kMaxSize :
            \E order \in Orders(n) : IsOrder(l, order, n) /\ Untouched(order, n, k)
    BY DEF LaidOut
  <1>1. PICK order \in Orders(n) : IsOrder(l, order, n) /\ Untouched(order, n, k)
    BY <1>0
  <1> DEFINE m == Freed(l, i)
             front == [j \in 1..(n + 1) |-> IF j = 1 THEN i ELSE order[j - 1]]
  <1>2. /\ m.head = i
        /\ m.entries \in [Handles -> Entries]
        /\ m.entries[i] = FreeEntry(l.head)
        /\ \A u \in Handles : u # i => m.entries[u] = l.entries[u]
    BY EntriesLemma DEF Freed, Lists
  <1>3. m \in Lists
    BY <1>2 DEF Lists, Links, Freed
  <1>4. FreeOf(m) = FreeOf(l) \cup {i}
    BY <1>2, EntriesLemma DEF FreeOf, Lists
  <1>5. \A j \in 1..n : order[j] \in Handles /\ order[j] # i
    BY <1>1 DEF IsOrder, Orders
  <1>6. n + 1 \in 0..kMaxSize
    <2>1. order \in Injection(1..n, Handles \ {i})
      BY <1>1, <1>5 DEF Injection, IsInjective, IsOrder, Orders
    <2>2. IsFiniteSet(Handles) /\ Cardinality(Handles) = kMaxSize
      BY AlarmAssumption, FS_Interval DEF Handles
    <2>3. IsFiniteSet(Handles \ {i}) /\ Cardinality(Handles \ {i}) = kMaxSize - 1
      BY <2>2, FS_RemoveElement
    <2>4. Cardinality(1..n) = n
      BY FS_Interval
    <2> QED BY <2>1, <2>3, <2>4, FS_Injection, AlarmAssumption
  <1>7. front \in Orders(n + 1)
    BY <1>1 DEF Orders
  <1>8. IsOrder(m, front, n + 1)
    <2>1. \A p, q \in 1..(n + 1) : front[p] = front[q] => p = q
      BY <1>1, <1>5 DEF IsOrder
    <2>2. {front[j] : j \in 1..(n + 1)} = FreeOf(m)
      <3>1. \A j \in 1..(n + 1) : front[j] \in FreeOf(l) \cup {i}
        BY <1>1 DEF IsOrder
      <3>2. \A u \in FreeOf(l) : \E j \in 1..(n + 1) : front[j] = u
        <4> SUFFICES ASSUME NEW u \in FreeOf(l) PROVE \E j \in 1..(n + 1) : front[j] = u
          OBVIOUS
        <4>1. PICK j \in 1..n : order[j] = u
          BY <1>1 DEF IsOrder
        <4>2. j + 1 \in 1..(n + 1) /\ front[j + 1] = u
          BY <4>1
        <4> QED BY <4>2
      <3>3. 1 \in 1..(n + 1) /\ front[1] = i
        OBVIOUS
      <3> QED BY <1>4, <3>1, <3>2, <3>3
    <2>3. m.head = front[1]
      BY <1>2
    <2>4. \A j \in 1..(n + 1) : m.entries[front[j]].nextFree
                                   = IF j = n + 1 THEN kFull ELSE front[j + 1]
      <3> SUFFICES ASSUME NEW j \in 1..(n + 1)
                   PROVE  m.entries[front[j]].nextFree = IF j = n + 1 THEN kFull ELSE front[j + 1]
        OBVIOUS
      <3>1. CASE j = 1
        <4>1. m.entries[front[j]].nextFree = l.head
          BY <1>2, <3>1, EntriesLemma DEF Lists
        <4>2. l.head = IF n = 0 THEN kFull ELSE order[1]
          BY <1>1 DEF IsOrder
        <4>3. n # 0 => front[2] = order[1]
          OBVIOUS
        <4> QED BY <3>1, <4>1, <4>2, <4>3
      <3>2. CASE j # 1
        <4>1. j - 1 \in 1..n /\ front[j] = order[j - 1]
          BY <3>2
        <4>2. m.entries[front[j]] = l.entries[order[j - 1]]
          BY <1>2, <1>5, <4>1
        <4>3. l.entries[order[j - 1]].nextFree = IF j - 1 = n THEN kFull ELSE order[j - 1 + 1]
          BY <1>1, <4>1 DEF IsOrder
        <4>4. j # n + 1 => front[j + 1] = order[j]
          BY <3>2
        <4> QED BY <3>2, <4>2, <4>3, <4>4
      <3> QED BY <3>1, <3>2
    <2> QED BY <2>1, <2>2, <2>3, <2>4 DEF IsOrder
  <1>9. Untouched(front, n + 1, k)
    <2>1. i < k
      BY TakenBefore
    <2>2. \A j \in 1..(n + 1) : j # 1 => j - 1 \in 1..n /\ front[j] = order[j - 1]
      OBVIOUS
    <2>3. kMaxSize - k <= n + 1 /\ kMaxSize - k \in Nat
      BY <1>1, AlarmAssumption DEF Untouched
    <2> SUFFICES ASSUME NEW j \in 1..(n + 1)
                 PROVE  IF j <= n + 1 - (kMaxSize - k)
                        THEN front[j] < k
                        ELSE front[j] = kMaxSize - 1 - (n + 1 - j)
      BY <2>3 DEF Untouched
    <2>4. CASE j = 1
      BY <1>1, <2>1, <2>4, AlarmAssumption DEF Untouched
    <2>5. CASE j # 1
      BY <1>1, <2>2, <2>5, AlarmAssumption DEF Untouched
    <2> QED BY <2>4, <2>5
  <1> QED BY <1>3, <1>4, <1>6, <1>7, <1>8, <1>9 DEF LaidOut

\* Allocate takes the head; a handle not taken before is taken only when no
\* other handle is free that was.
LEMMA TakenLaidOut ==
    ASSUME NEW l \in Lists, NEW k \in 0..kMaxSize, LaidOut(l, k), l.head # kFull,
           NEW a \in Alarms, NEW x \in Args
    PROVE  /\ Taken(l, a, x) \in Lists
           /\ l.head \in FreeOf(l)
           /\ FreeOf(Taken(l, a, x)) = FreeOf(l) \ {l.head}
           /\ \/ l.head < k /\ LaidOut(Taken(l, a, x), k)
              \/ /\ l.head = k /\ k + 1 \in 0..kMaxSize /\ LaidOut(Taken(l, a, x), k + 1)
                 /\ \A i \in 0..(k - 1) : i \notin FreeOf(l)
  <1>0. PICK n \in 0..kMaxSize :
            \E order \in Orders(n) : IsOrder(l, order, n) /\ Untouched(order, n, k)
    BY DEF LaidOut
  <1>1. PICK order \in Orders(n) : IsOrder(l, order, n) /\ Untouched(order, n, k)
    BY <1>0
  <1> DEFINE m == Taken(l, a, x)
             rest == [j \in 1..(n - 1) |-> order[j + 1]]
  <1>2. n # 0 /\ l.head = order[1] /\ 1 \in 1..n
    BY <1>1 DEF IsOrder
  <1>3. l.head \in FreeOf(l) /\ l.head \in Handles
    BY <1>1, <1>2 DEF IsOrder, FreeOf
  <1>4. /\ m.head = l.entries[l.head].nextFree
        /\ m.entries \in [Handles -> Entries]
        /\ m.entries[l.head] = Entry(a, x)
        /\ \A u \in Handles : u # l.head => m.entries[u] = l.entries[u]
    BY <1>3, EntriesLemma DEF Taken, Lists
  <1>5. l.entries[l.head].nextFree = IF n = 1 THEN kFull ELSE order[2]
    BY <1>1, <1>2 DEF IsOrder
  <1>6. m \in Lists
    BY <1>2, <1>4, <1>5 DEF Lists, Links, Taken, Orders
  <1>7. FreeOf(m) = FreeOf(l) \ {l.head}
    BY <1>3, <1>4, EntriesLemma DEF FreeOf
  <1>8. rest \in Orders(n - 1) /\ n - 1 \in 0..kMaxSize
    <2>1. order \in [1..n -> Handles] /\ \A j \in 1..(n - 1) : j + 1 \in 1..n
      BY DEF Orders
    <2>2. rest \in [1..(n - 1) -> Handles]
      BY <2>1
    <2> QED BY <1>2, <2>2, AlarmAssumption DEF Orders
  <1>9. \A j \in 1..(n - 1) : j + 1 \in 1..n /\ rest[j] = order[j + 1] /\ rest[j] # l.head
                              /\ rest[j] \in Handles
    BY <1>1, <1>2 DEF IsOrder, Orders
  <1>10. IsOrder(m, rest, n - 1)
    <2>1. \A p, q \in 1..(n - 1) : rest[p] = rest[q] => p = q
      BY <1>1, <1>9 DEF IsOrder
    <2>2. {rest[j] : j \in 1..(n - 1)} = FreeOf(m)
      <3>1. \A j \in 1..(n - 1) : rest[j] \in FreeOf(m)
        BY <1>1, <1>7, <1>9 DEF IsOrder
      <3>2. \A u \in FreeOf(m) : \E j \in 1..(n - 1) : rest[j] = u
        <4> SUFFICES ASSUME NEW u \in FreeOf(m) PROVE \E j \in 1..(n - 1) : rest[j] = u
          OBVIOUS
        <4>1. PICK j \in 1..n : order[j] = u
          BY <1>1, <1>7 DEF IsOrder
        <4>2. j - 1 \in 1..(n - 1)
          BY <1>2, <1>7, <4>1
        <4>3. rest[j - 1] = u
          BY <4>1, <4>2
        <4> QED BY <4>2, <4>3
      <3> QED BY <3>1, <3>2
    <2>3. m.head = IF n - 1 = 0 THEN kFull ELSE rest[1]
      BY <1>2, <1>4, <1>5
    <2>4. \A j \in 1..(n - 1) : m.entries[rest[j]].nextFree
                                   = IF j = n - 1 THEN kFull ELSE rest[j + 1]
      <3> SUFFICES ASSUME NEW j \in 1..(n - 1)
                   PROVE  m.entries[rest[j]].nextFree = IF j = n - 1 THEN kFull ELSE rest[j + 1]
        OBVIOUS
      <3>1. m.entries[rest[j]] = l.entries[order[j + 1]]
        BY <1>4, <1>9
      <3>2. l.entries[order[j + 1]].nextFree = IF j + 1 = n THEN kFull ELSE order[j + 1 + 1]
        BY <1>1, <1>9 DEF IsOrder
      <3>3. j # n - 1 => rest[j + 1] = order[j + 1 + 1]
        OBVIOUS
      <3> QED BY <3>1, <3>2, <3>3
    <2> QED BY <2>1, <2>2, <2>3, <2>4 DEF IsOrder
  <1>11. CASE kMaxSize - k < n
    <2>1. l.head < k
      BY <1>1, <1>2, <1>11, AlarmAssumption DEF Untouched
    <2>2. Untouched(rest, n - 1, k)
      BY <1>1, <1>2, <1>9, <1>11, AlarmAssumption DEF Untouched
    <2> QED BY <1>3, <1>6, <1>7, <1>8, <1>10, <2>1, <2>2 DEF LaidOut
  <1>12. CASE kMaxSize - k = n
    <2>1. l.head = k /\ k + 1 \in 0..kMaxSize
      BY <1>1, <1>2, <1>12, AlarmAssumption DEF Untouched
    <2>2. Untouched(rest, n - 1, k + 1)
      BY <1>1, <1>2, <1>9, <1>12, AlarmAssumption DEF Untouched
    <2>3. \A j \in 1..n : order[j] >= k
      BY <1>1, <1>12, AlarmAssumption DEF Untouched
    <2>4. \A i \in 0..(k - 1) : i \notin FreeOf(l)
      BY <1>1, <2>3 DEF IsOrder
    <2> QED BY <1>3, <1>6, <1>7, <1>8, <1>10, <2>1, <2>2, <2>4 DEF LaidOut
  <1> QED BY <1>1, <1>11, <1>12, AlarmAssumption DEF Untouched

-----------------------------------------------------------------------------
(* Handles and the queue *)

QOwned(q, hs) == \A e \in q : \E a \in Alarms : hs[a] = e.handle /\ Kind(a) = e.cb

\* The list, the alarms and the queue fit together; k is as in Peak.
Good(l, hs, q, k) == /\ l \in Lists
                     /\ hs \in [Alarms -> Handles \cup {kInvalidHandle}]
                     /\ q \in SUBSET Calls
                     /\ k \in 0..kMaxSize
                     /\ LaidOut(l, k)
                     /\ Owned(l, hs)
                     /\ QOwned(q, hs)

LEMMA InvalidLemma == kInvalidHandle \notin Handles
  BY AlarmAssumption DEF kInvalidHandle, kFull, Handles

\* An alarm gives back its handle; what else ZBOSS may know of it goes.
LEMMA GiveBack ==
    ASSUME NEW l, NEW hs, NEW q, NEW k, Good(l, hs, q, k), NEW a \in Alarms,
           hs[a] # kInvalidHandle
    PROVE  Good(Freed(l, hs[a]), [hs EXCEPT ![a] = kInvalidHandle],
                q \ {[cb |-> Kind(a), handle |-> hs[a]]}, k)
  <1> DEFINE i == hs[a]
             m == Freed(l, i)
             gs == [hs EXCEPT ![a] = kInvalidHandle]
             r == q \ {[cb |-> Kind(a), handle |-> i]}
  <1>1. i \in Handles /\ l.entries[i].pAlarm = a /\ i \notin FreeOf(l)
    BY AlarmAssumption DEF Good, Owned, FreeOf
  <1>2. m \in Lists /\ LaidOut(m, k) /\ FreeOf(m) = FreeOf(l) \cup {i}
    BY <1>1, FreedLaidOut DEF Good
  <1>3. \A u \in Handles : u # i => m.entries[u] = l.entries[u]
    BY <1>1 DEF Freed, Good, Lists
  <1>4. gs \in [Alarms -> Handles \cup {kInvalidHandle}]
        /\ gs[a] = kInvalidHandle /\ \A b \in Alarms : b # a => gs[b] = hs[b]
    BY DEF Good
  <1>5. Owned(m, gs)
    <2>1. ASSUME NEW u \in Handles \ FreeOf(m) PROVE gs[m.entries[u].pAlarm] = u
      <3>1. u # i /\ u \notin FreeOf(l) /\ m.entries[u] = l.entries[u]
        BY <1>2, <1>3
      <3>2. hs[l.entries[u].pAlarm] = u /\ l.entries[u].pAlarm \in Alarms
        BY <3>1, EntriesLemma DEF Good, Owned, FreeOf, Lists
      <3> QED BY <1>4, <3>1, <3>2
    <2>2. ASSUME NEW b \in Alarms, gs[b] # kInvalidHandle PROVE m.entries[gs[b]].pAlarm = b
      <3>1. b # a /\ gs[b] = hs[b] /\ l.entries[hs[b]].pAlarm = b /\ hs[b] \in Handles
        BY <1>4, <2>2 DEF Good, Owned
      <3> QED BY <1>1, <1>3, <3>1
    <2> QED BY <2>1, <2>2 DEF Owned
  <1>6. QOwned(r, gs)
    <2> SUFFICES ASSUME NEW e \in r PROVE \E b \in Alarms : gs[b] = e.handle /\ Kind(b) = e.cb
      BY DEF QOwned
    <2>1. PICK b \in Alarms : hs[b] = e.handle /\ Kind(b) = e.cb
      BY DEF Good, QOwned
    <2>2. b # a
      BY <2>1 DEF Good, Calls
    <2> QED BY <1>4, <2>1, <2>2
  <1> QED BY <1>2, <1>4, <1>5, <1>6 DEF Good

\* An alarm without a handle takes the head of the list.
LEMMA Take ==
    ASSUME NEW l, NEW hs, NEW q, NEW k, Good(l, hs, q, k), NEW a \in Alarms, NEW x \in Args,
           hs[a] = kInvalidHandle, l.head # kFull,
           NEW r, r \in {q, q \cup {[cb |-> Kind(a), handle |-> l.head]}}
    PROVE  \E n \in {k, k + 1} :
              /\ Good(Taken(l, a, x), [hs EXCEPT ![a] = l.head], r, n)
              /\ l.head < n
              /\ n = k + 1 => l.head = k /\ \A i \in 0..k : i \notin FreeOf(Taken(l, a, x))
  <1> DEFINE i == l.head
             m == Taken(l, a, x)
             gs == [hs EXCEPT ![a] = i]
  <1>1. /\ m \in Lists /\ i \in FreeOf(l) /\ FreeOf(m) = FreeOf(l) \ {i}
        /\ \/ i < k /\ LaidOut(m, k)
           \/ /\ i = k /\ k + 1 \in 0..kMaxSize /\ LaidOut(m, k + 1)
              /\ \A u \in 0..(k - 1) : u \notin FreeOf(l)
    BY TakenLaidOut DEF Good
  <1>2. i \in Handles /\ k \in 0..kMaxSize
    BY <1>1 DEF FreeOf, Good
  <1>3. m.entries[i] = Entry(a, x) /\ \A u \in Handles : u # i => m.entries[u] = l.entries[u]
    BY <1>2 DEF Taken, Good, Lists
  <1>4. /\ gs \in [Alarms -> Handles \cup {kInvalidHandle}]
        /\ gs[a] = i /\ \A b \in Alarms : b # a => gs[b] = hs[b]
    BY <1>2 DEF Good
  <1>5. Owned(m, gs)
    <2>1. ASSUME NEW u \in Handles \ FreeOf(m) PROVE gs[m.entries[u].pAlarm] = u
      <3>1. CASE u = i
        BY <1>3, <1>4, <3>1, EntriesLemma
      <3>2. CASE u # i
        <4>1. u \notin FreeOf(l) /\ m.entries[u] = l.entries[u]
          BY <1>1, <1>3, <2>1, <3>2
        <4>2. hs[l.entries[u].pAlarm] = u /\ l.entries[u].pAlarm \in Alarms
          BY <4>1, EntriesLemma DEF Good, Owned, FreeOf, Lists
        <4> QED BY <1>4, <4>1, <4>2, InvalidLemma
      <3> QED BY <3>1, <3>2
    <2>2. ASSUME NEW b \in Alarms, gs[b] # kInvalidHandle PROVE m.entries[gs[b]].pAlarm = b
      <3>1. CASE b = a
        BY <1>3, <1>4, <3>1, EntriesLemma
      <3>2. CASE b # a
        <4>1. gs[b] = hs[b] /\ l.entries[hs[b]].pAlarm = b /\ hs[b] \in Handles
          BY <1>4, <2>2, <3>2 DEF Good, Owned
        <4>2. hs[b] # i
          BY <1>1, <4>1, AlarmAssumption DEF FreeOf
        <4> QED BY <1>3, <4>1, <4>2
      <3> QED BY <3>1, <3>2
    <2> QED BY <2>1, <2>2 DEF Owned
  <1>6. QOwned(r, gs) /\ r \in SUBSET Calls
    <2>1. [cb |-> Kind(a), handle |-> i] \in Calls
      BY <1>2 DEF Calls, Kind
    <2>2. ASSUME NEW e \in q PROVE \E b \in Alarms : gs[b] = e.handle /\ Kind(b) = e.cb
      <3>1. PICK b \in Alarms : hs[b] = e.handle /\ Kind(b) = e.cb
        BY DEF Good, QOwned
      <3>2. b # a
        BY <3>1, InvalidLemma DEF Good, Calls
      <3> QED BY <1>4, <3>1, <3>2
    <2> QED BY <1>4, <2>1, <2>2 DEF QOwned, Good
  <1>7. CASE i < k /\ LaidOut(m, k)
    BY <1>1, <1>2, <1>4, <1>5, <1>6, <1>7 DEF Good
  <1>8. CASE /\ i = k /\ k + 1 \in 0..kMaxSize /\ LaidOut(m, k + 1)
             /\ \A u \in 0..(k - 1) : u \notin FreeOf(l)
    <2>1. \A u \in 0..k : u \notin FreeOf(m)
      BY <1>1, <1>2, <1>8
    <2> QED BY <1>1, <1>2, <1>4, <1>5, <1>6, <1>8, <2>1 DEF Good
  <1> QED BY <1>1, <1>7, <1>8

-----------------------------------------------------------------------------
(* How many alarms run *)

RunningAt(hs) == {a \in Alarms : hs[a] # kInvalidHandle}

LEMMA Crowding ==
    ASSUME NEW l, NEW hs, NEW q, NEW k, Good(l, hs, q, k)
    PROVE  /\ Cardinality(RunningAt(hs)) \in Nat
           /\ Cardinality(RunningAt(hs)) <= k
           /\ (\A i \in 0..(k - 1) : i \notin FreeOf(l)) => Cardinality(RunningAt(hs)) = k
  <1> DEFINE R == RunningAt(hs)
             K == 0..(k - 1)
             f == [a \in R |-> hs[a]]
             g == [i \in K |-> l.entries[i].pAlarm]
  <1>1. k \in Nat /\ IsFiniteSet(K) /\ Cardinality(K) = k /\ K \subseteq Handles
    BY FS_Interval, AlarmAssumption DEF Good, Handles
  <1>2. \A a \in R : hs[a] \in Handles /\ l.entries[hs[a]].pAlarm = a /\ hs[a] \notin FreeOf(l)
    BY AlarmAssumption DEF Good, Owned, RunningAt, FreeOf
  <1>3. \A a \in R : hs[a] \in K
    BY <1>1, <1>2, TakenBefore DEF Good, Handles
  <1>4. f \in Injection(R, K)
    BY <1>2, <1>3 DEF Injection, IsInjective
  <1>5. IsFiniteSet(R) /\ Cardinality(R) <= k /\ Cardinality(R) \in Nat
    <2> HIDE DEF f, R, K
    <2> QED BY <1>1, <1>4, FS_Injection, FS_CardinalityType
  <1>6. ASSUME \A i \in K : i \notin FreeOf(l) PROVE Cardinality(R) = k
    <2>1. \A i \in K : hs[l.entries[i].pAlarm] = i /\ l.entries[i].pAlarm \in Alarms
      BY <1>1, <1>6, EntriesLemma DEF Good, Owned, FreeOf, Lists
    <2>2. \A i \in K : l.entries[i].pAlarm \in R
      BY <1>1, <2>1, InvalidLemma DEF RunningAt
    <2>3. g \in Injection(K, R)
      BY <2>1, <2>2 DEF Injection, IsInjective
    <2>4. Cardinality(K) <= Cardinality(R)
      <3> HIDE DEF g, R, K
      <3> QED BY <1>5, <2>3, FS_Injection
    <2> QED BY <1>1, <1>5, <2>4
  <1> QED BY <1>5, <1>6

-----------------------------------------------------------------------------
(* The invariant *)

Rest == /\ g_RunningOutOfHandles \in BOOLEAN /\ crowded \in BOOLEAN
        /\ g_CounterOfDeath \in (1..kCounterOfDeathValue) \cup {kCounterOfDeathInactive}
        /\ running \in Frames \cup {NoFrame}
        /\ ticks \in 0..kCounterOfDeathValue
        /\ Counted

Level(k) == /\ g_RunningOutOfHandles <=> k > kLowOnHandlesThreshold
            /\ crowded <=> k > kLowOnHandlesThreshold

\* Inv without ticks, by the operators of the lemmas.
LEMMA InvIsGood ==
    Inv <=> Rest /\ \E k : Good(g_TimerList, h, queue, k) /\ Level(k)
  BY DEF Inv, TypeOK, HandlesOwned, QueueOwned, Peak, Counted, Rest, Good, Level, Lists, QOwned

LEMMA CreateGood ==
    Good(Create, [a \in Alarms |-> kInvalidHandle], {}, 0)
  <1> DEFINE order == [j \in 1..kMaxSize |-> j - 1]
  <1> DEFINE next(i) == IF i = kMaxSize - 1 THEN kFull ELSE i + 1
  <1>1. \A i \in Handles : next(i) \in Links /\ Create.entries[i] = FreeEntry(next(i))
    BY AlarmAssumption DEF Create, Links, Handles
  <1>2. Create \in Lists
    <2>1. \A i \in Handles : FreeEntry(next(i)) \in Entries
      BY <1>1, EntriesLemma
    <2>2. [i \in Handles |-> FreeEntry(next(i))] \in [Handles -> Entries]
      BY <2>1
    <2>3. 0 \in Links
      BY AlarmAssumption DEF Links, Handles
    <2> QED BY <2>2, <2>3 DEF Create, Lists
  <1>3. FreeOf(Create) = Handles
    BY <1>1, EntriesLemma DEF FreeOf
  <1>4. order \in Orders(kMaxSize) /\ kMaxSize \in 0..kMaxSize /\ kMaxSize # 0
    BY AlarmAssumption DEF Orders, Handles
  <1>5. \A j \in 1..kMaxSize : order[j] = j - 1 /\ j - 1 \in Handles
    BY AlarmAssumption DEF Handles
  <1>6. IsOrder(Create, order, kMaxSize)
    <2>1. \A p, q \in 1..kMaxSize : order[p] = order[q] => p = q
      BY <1>5
    <2>2. {order[j] : j \in 1..kMaxSize} = Handles
      <3>1. \A i \in Handles : i + 1 \in 1..kMaxSize /\ order[i + 1] = i
        BY AlarmAssumption DEF Handles
      <3> QED BY <1>5, <3>1
    <2>3. Create.head = order[1]
      BY <1>4, <1>5, AlarmAssumption DEF Create
    <2>4. \A j \in 1..kMaxSize : Create.entries[order[j]].nextFree
                                    = IF j = kMaxSize THEN kFull ELSE order[j + 1]
      <3> SUFFICES ASSUME NEW j \in 1..kMaxSize
                   PROVE  Create.entries[order[j]].nextFree = IF j = kMaxSize THEN kFull ELSE order[j + 1]
        OBVIOUS
      <3>1. Create.entries[order[j]].nextFree = next(j - 1)
        <4>1. j - 1 \in Handles /\ order[j] = j - 1
          BY <1>5
        <4> HIDE DEF order, next
        <4> QED BY <1>1, <4>1, EntriesLemma
      <3>2. j # kMaxSize => order[j + 1] = j
        BY AlarmAssumption
      <3> QED BY <3>1, <3>2, AlarmAssumption
    <2> QED BY <1>3, <1>4, <2>1, <2>2, <2>3, <2>4 DEF IsOrder
  <1>7. Untouched(order, kMaxSize, 0)
    BY <1>5, AlarmAssumption DEF Untouched
  <1>8. LaidOut(Create, 0)
    BY <1>4, <1>6, <1>7 DEF LaidOut
  <1> QED BY <1>2, <1>3, <1>8, AlarmAssumption DEF Good, Owned, QOwned

LEMMA NotLow == ~(0 > kLowOnHandlesThreshold)
  BY AlarmAssumption

LEMMA InitInv == Init => Inv
  <1> SUFFICES ASSUME Init PROVE Inv
    OBVIOUS
  <1>1. Good(g_TimerList, h, queue, 0)
    BY CreateGood DEF Init
  <1>2. Rest
    <2>1. Counted
      BY DEF Init, Counted
    <2>2. ticks \in 0..kCounterOfDeathValue
      BY AlarmAssumption DEF Init
    <2> QED BY <2>1, <2>2 DEF Init, Rest
  <1>3. Level(0)
    BY NotLow DEF Init, Level
  <1> QED BY <1>1, <1>2, <1>3, InvIsGood

\* Setup keeps the invariant: Cancel, then Allocate and the count.
LEMMA SetupToGood ==
    ASSUME NEW k, Good(g_TimerList, h, queue, k), Level(k),
           g_RunningOutOfHandles \in BOOLEAN, crowded \in BOOLEAN,
           NEW a \in Alarms, NEW x \in Args, SetupTo(a, x)
    PROVE  /\ \E n : Good(g_TimerList, h, queue, n)' /\ Level(n)'
           /\ g_RunningOutOfHandles' \in BOOLEAN /\ crowded' \in BOOLEAN
  <1> DEFINE l == Cancelled(a)
             hs == [h EXCEPT ![a] = kInvalidHandle]
             q == Unqueued(a)
  <1>1. Good(l, hs, q, k)
    <2>1. CASE IsRunning(a)
      BY <2>1, GiveBack DEF Cancelled, Unqueued, IsRunning
    <2>2. CASE ~IsRunning(a)
      <3>1. hs = h
        BY <2>2 DEF IsRunning, Good
      <3>2. q = queue
        BY <2>2, InvalidLemma DEF Unqueued, IsRunning, Good, Calls
      <3> QED BY <2>2, <3>1, <3>2 DEF Cancelled
    <2> QED BY <2>1, <2>2
  <1>2. hs[a] = kInvalidHandle
    BY DEF Good
  <1>3. crowded' = (crowded \/ Cardinality(RunningAt(h')) > kLowOnHandlesThreshold)
    BY DEF SetupTo, Crowd, RunningAt
  <1>4. CASE l.head = kFull
    <2>1. g_TimerList' = l /\ h' = hs /\ queue' = q
          /\ g_RunningOutOfHandles' = g_RunningOutOfHandles
      BY <1>4 DEF SetupTo
    <2>2. Good(g_TimerList', h', queue', k)
      BY <1>1, <2>1
    <2>3. Cardinality(RunningAt(h')) \in Nat /\ Cardinality(RunningAt(h')) <= k
      BY <2>2, Crowding
    <2>4. Level(k)'
      BY <1>3, <2>1, <2>3, AlarmAssumption DEF Level, Good
    <2> QED BY <1>3, <2>1, <2>2, <2>4
  <1>5. CASE l.head # kFull
    <2>1. /\ g_TimerList' = Taken(l, a, x)
          /\ h' = [hs EXCEPT ![a] = l.head]
          /\ queue' \in {q, q \cup {[cb |-> Kind(a), handle |-> l.head]}}
          /\ g_RunningOutOfHandles' = (g_RunningOutOfHandles \/ l.head >= kLowOnHandlesThreshold)
      BY <1>5 DEF SetupTo, Schedules, Low, Good
    <2>2. PICK n \in {k, k + 1} :
              /\ Good(g_TimerList', h', queue', n)
              /\ l.head < n
              /\ n = k + 1 => l.head = k /\ \A i \in 0..k : i \notin FreeOf(g_TimerList')
      <3> HIDE DEF l, hs, q
      <3>1. \E n \in {k, k + 1} :
               /\ Good(Taken(l, a, x), [hs EXCEPT ![a] = l.head], queue', n)
               /\ l.head < n
               /\ n = k + 1 => l.head = k /\ \A i \in 0..k : i \notin FreeOf(Taken(l, a, x))
        <4>1. PICK r : r = queue'
          OBVIOUS
        <4>2. r \in {q, q \cup {[cb |-> Kind(a), handle |-> l.head]}}
          BY <2>1, <4>1
        <4> QED BY <1>1, <1>2, <1>5, <4>1, <4>2, Take
      <3> QED BY <2>1, <3>1
    <2>3. Cardinality(RunningAt(h')) \in Nat /\ Cardinality(RunningAt(h')) <= n
      BY <2>2, Crowding
    <2>4. n = k + 1 => Cardinality(RunningAt(h')) = n
      <3> SUFFICES ASSUME n = k + 1 PROVE Cardinality(RunningAt(h')) = n
        OBVIOUS
      <3>1. \A i \in 0..(n - 1) : i \notin FreeOf(g_TimerList')
        BY <2>2 DEF Good
      <3> QED BY <2>2, <3>1, Crowding
    <2>5. k \in Nat /\ n \in Nat /\ l.head \in Nat
      <3>1. Taken(l, a, x) = Taken(l, a, x) /\ l \in Lists
        BY <1>1 DEF Good
      <3> QED BY <1>1, <1>5, <3>1 DEF Good, Lists, Links, Handles
    <2>6. Level(n)'
      <3> DEFINE low(i) == i > kLowOnHandlesThreshold
      <3>1. CASE n = k
        <4>1. /\ l.head >= kLowOnHandlesThreshold => low(n)
              /\ low(Cardinality(RunningAt(h'))) => low(n)
          BY <2>2, <2>3, <2>5, AlarmAssumption
        <4> QED BY <1>3, <2>1, <3>1, <4>1 DEF Level
      <3>2. CASE n = k + 1
        <4>1. /\ l.head >= kLowOnHandlesThreshold <=> low(n)
              /\ low(Cardinality(RunningAt(h'))) <=> low(n)
              /\ low(k) => low(n)
          BY <2>2, <2>4, <2>5, <3>2, AlarmAssumption
        <4> QED BY <1>3, <2>1, <3>2, <4>1 DEF Level
      <3> QED BY <2>2, <3>1, <3>2
    <2> QED BY <1>3, <2>1, <2>2, <2>6
  <1> QED BY <1>4, <1>5

LEMMA NextInv == Inv /\ [Next]_vars => Inv'
  <1> SUFFICES ASSUME Inv, [Next]_vars PROVE Inv'
    OBVIOUS
  <1>0. PICK k : Rest /\ Good(g_TimerList, h, queue, k) /\ Level(k)
    BY InvIsGood
  <1> SUFFICES Rest' /\ \E n : Good(g_TimerList, h, queue, n)' /\ Level(n)'
    BY DEF Inv, TypeOK, HandlesOwned, QueueOwned, Peak, Counted, Rest, Good, Level, Lists, QOwned
  <1>1. ASSUME NEW a \in Alarms, NEW x \in Args, Setup(a, x)
        PROVE  Rest' /\ \E n : Good(g_TimerList, h, queue, n)' /\ Level(n)'
    <2>1. /\ \E n : Good(g_TimerList, h, queue, n)' /\ Level(n)'
          /\ g_RunningOutOfHandles' \in BOOLEAN /\ crowded' \in BOOLEAN
      BY <1>0, <1>1, SetupToGood DEF Setup, Rest, Counted
    <2> QED BY <1>0, <1>1, <2>1 DEF Setup, Rest, Counted
  <1>2. CASE TimerGoesOn
    <2>1. running \in Frames
      BY <1>0, <1>2, AlarmAssumption DEF TimerGoesOn, Rest, NoFrame
    <2>2. PICK a \in Alarms, x \in Args : a = running.alarm /\ x = running.arg
      BY <2>1 DEF Frames
    <2>3. SetupTo(a, x)
      BY <1>2, <2>2 DEF TimerGoesOn
    <2>4. /\ \E n : Good(g_TimerList, h, queue, n)' /\ Level(n)'
          /\ g_RunningOutOfHandles' \in BOOLEAN /\ crowded' \in BOOLEAN
      BY <1>0, <2>3, SetupToGood DEF Rest
    <2> QED BY <1>0, <1>2, <2>4 DEF TimerGoesOn, Rest, Counted
  <1>3. ASSUME NEW a \in Alarms, Cancel(a)
        PROVE  Rest' /\ Good(g_TimerList, h, queue, k)' /\ Level(k)'
    <2>1. Good(g_TimerList', h', queue', k)
      BY <1>0, <1>3, GiveBack DEF Cancel, Cancelled, Unqueued, IsRunning
    <2> QED BY <1>0, <1>3, <2>1 DEF Cancel, Rest, Level, Counted
  <1>4. ASSUME NEW e \in Calls, OnScheduledAlarm(e)
        PROVE  Rest' /\ Good(g_TimerList, h, queue, k)' /\ Level(k)'
    <2>1. PICK a \in Alarms : h[a] = e.handle /\ Kind(a) = e.cb
      BY <1>0, <1>4 DEF OnScheduledAlarm, Good, QOwned
    <2>2. h[a] # kInvalidHandle /\ e.handle \in Handles
      BY <2>1, InvalidLemma DEF Calls
    <2>3. g_TimerList.entries[e.handle].pAlarm = a /\ g_TimerList.entries[e.handle] \in Entries
      BY <1>0, <2>1, <2>2 DEF Good, Owned, Lists
    <2>4. e = [cb |-> Kind(a), handle |-> h[a]]
      BY <2>1 DEF Calls
    <2>5. /\ g_TimerList' = Freed(g_TimerList, h[a])
          /\ h' = [h EXCEPT ![a] = kInvalidHandle]
          /\ queue' = queue \ {[cb |-> Kind(a), handle |-> h[a]]}
          /\ running' = [alarm |-> a, arg |-> g_TimerList.entries[e.handle].param]
      BY <1>4, <2>3, <2>4 DEF OnScheduledAlarm
    <2>6. Good(g_TimerList', h', queue', k)
      BY <1>0, <2>2, <2>5, GiveBack
    <2>7. running' \in Frames
      BY <2>3, <2>5, EntriesLemma, AlarmAssumption DEF Frames
    <2>8. UNCHANGED <<g_RunningOutOfHandles, g_CounterOfDeath, crowded, ticks>>
      BY <1>4 DEF OnScheduledAlarm
    <2> QED BY <1>0, <2>6, <2>7, <2>8 DEF Rest, Level, Counted
  <1>5. CASE \/ CallbackReturns \/ DeactivateCounterOfDeath \/ CheckCounterOfDeath
             \/ CheckDeathCount \/ UNCHANGED vars
    <2>1. UNCHANGED <<g_TimerList, h, queue, g_RunningOutOfHandles, crowded>>
      BY <1>5 DEF CallbackReturns, DeactivateCounterOfDeath, CheckCounterOfDeath, CheckDeathCount, vars
    <2>2. Good(g_TimerList, h, queue, k)' /\ Level(k)'
      BY <1>0, <2>1 DEF Level
    <2>3. Rest'
      BY <1>0, <1>5, AlarmAssumption
      DEF CallbackReturns, DeactivateCounterOfDeath, CheckCounterOfDeath, CheckDeathCount, vars,
          Rest, Counted, Ticking, kCounterOfDeathInactive
    <2> QED BY <2>2, <2>3
  <1>6. CASE Reboot
    <2>1. Good(g_TimerList', h', queue', 0)
      BY <1>6, CreateGood DEF Reboot
    <2>2. Rest'
      <3>1. Counted'
        BY <1>6 DEF Reboot, Counted
      <3>2. ticks' \in 0..kCounterOfDeathValue
        BY <1>6, AlarmAssumption DEF Reboot
      <3> QED BY <1>6, <3>1, <3>2 DEF Reboot, Rest
    <2>3. Level(0)'
      BY <1>6, NotLow DEF Reboot, Level
    <2> QED BY <2>1, <2>2, <2>3
  <1> QED BY <1>1, <1>2, <1>3, <1>4, <1>5, <1>6 DEF Next

LEMMA InvCorrect == Spec => []Inv
  BY InitInv, NextInv, PTL DEF Spec

\* Every variable keeps its type.
THEOREM TypeCorrect == Spec => []TypeOK
  <1>1. Inv => TypeOK
    BY DEF Inv
  <1> QED BY <1>1, InvCorrect, PTL

\* No handle is lost from the free list, shared or reached twice.
THEOREM FreeListIsSound == Spec => []FreeListSound
  <1>1. Inv => FreeListSound
    BY DEF Inv, Peak, LaidOut, FreeListSound
  <1> QED BY <1>1, InvCorrect, PTL

\* A taken handle belongs to exactly one alarm.
THEOREM HandlesAreOwned == Spec => []HandlesOwned
  <1>1. Inv => HandlesOwned
    BY DEF Inv
  <1> QED BY <1>1, InvCorrect, PTL

\* ZBOSS holds only alarms that are running.
THEOREM QueueIsOwned == Spec => []QueueOwned
  <1>1. Inv => QueueOwned
    BY DEF Inv
  <1> QED BY <1>1, InvCorrect, PTL

\* The flag tells whether more alarms than the threshold ran at once.
THEOREM FlagIsTrue == Spec => []LowWhenCrowded
  <1>1. Inv => LowWhenCrowded
    BY DEF Inv, Peak, LowWhenCrowded
  <1> QED BY <1>1, InvCorrect, PTL

\* A restart comes only after all the ticks of the counter while low.
THEOREM RebootsAreCounted == Spec => RebootIsCounted
  <1>1. Inv /\ Reboot => crowded /\ ticks = kCounterOfDeathValue - 1
    <2> SUFFICES ASSUME Inv, Reboot PROVE crowded /\ ticks = kCounterOfDeathValue - 1
      OBVIOUS
    <2>1. crowded
      BY DEF Inv, Peak, Reboot, Ticking
    <2>2. ticks = kCounterOfDeathValue - 1
      BY DEF Inv, Counted, Reboot, Ticking
    <2> QED BY <2>1, <2>2
  <1>2. Inv /\ [Next]_vars => [Reboot => crowded /\ ticks = kCounterOfDeathValue - 1]_vars
    BY <1>1
  <1> QED BY <1>2, InvCorrect, PTL DEF Spec, RebootIsCounted

-----------------------------------------------------------------------------
(* The alarms implement AlarmService *)

CallOf(a, i) == [cb |-> Kind(a), handle |-> i]
With(f, a, x) == [f EXCEPT ![a] = x]
Less(q, e)    == q \ {e}
More(q, e)    == q \cup {e}

\* The argument each alarm will be called with.
ArmedOf(l, hs, q) == [a \in Alarms |-> IF hs[a] # kInvalidHandle /\ CallOf(a, hs[a]) \in q
                                       THEN l.entries[hs[a]].param ELSE None]
armed == ArmedOf(g_TimerList, h, queue)

\* A running alarm is queued, if ZBOSS does not refuse: an alarm whose callback
\* runs has given its handle back before.
AllQueued(hs, q) == ~MayFail => \A a \in Alarms : hs[a] # kInvalidHandle => CallOf(a, hs[a]) \in q

\* An alarm that gives back its handle is not armed, the others are as before.
LEMMA GiveBackArmed ==
    ASSUME NEW l, NEW hs, NEW q, NEW k, Good(l, hs, q, k), NEW a \in Alarms,
           hs[a] # kInvalidHandle
    PROVE  /\ ArmedOf(Freed(l, hs[a]), With(hs, a, kInvalidHandle), Less(q, CallOf(a, hs[a])))
                  = With(ArmedOf(l, hs, q), a, None)
           /\ AllQueued(hs, q)
                  => AllQueued(With(hs, a, kInvalidHandle), Less(q, CallOf(a, hs[a])))
  <1> DEFINE i == hs[a]
             m == Freed(l, i)
             gs == [hs EXCEPT ![a] = kInvalidHandle]
             r == q \ {CallOf(a, i)}
  <1>1. i \in Handles /\ l.entries[i].pAlarm = a
    BY DEF Good, Owned
  <1>2. \A u \in Handles : u # i => m.entries[u] = l.entries[u]
    BY <1>1 DEF Freed, Good, Lists
  <1>3. gs[a] = kInvalidHandle /\ \A b \in Alarms : b # a => gs[b] = hs[b]
    BY DEF Good
  <1>4. ASSUME NEW b \in Alarms, b # a, hs[b] # kInvalidHandle
        PROVE  /\ hs[b] \in Handles /\ hs[b] # i
               /\ CallOf(b, hs[b]) \in r <=> CallOf(b, hs[b]) \in q
    <2>1. hs[b] \in Handles /\ l.entries[hs[b]].pAlarm = b
      BY <1>4 DEF Good, Owned
    <2>2. hs[b] # i
      BY <1>1, <1>4, <2>1
    <2> QED BY <2>1, <2>2 DEF CallOf
  <1>5. \A b \in Alarms : ArmedOf(m, gs, r)[b] = IF b = a THEN None ELSE ArmedOf(l, hs, q)[b]
    BY <1>2, <1>3, <1>4 DEF ArmedOf
  <1>6. ArmedOf(m, gs, r) = [ArmedOf(l, hs, q) EXCEPT ![a] = None]
    BY <1>5 DEF ArmedOf
  <1>7. AllQueued(hs, q) => AllQueued(gs, r)
    BY <1>3, <1>4 DEF AllQueued
  <1> QED BY <1>6, <1>7 DEF With, Less

\* An alarm that takes a handle is armed with its argument if ZBOSS has it.
LEMMA TakeArmed ==
    ASSUME NEW l, NEW hs, NEW q, NEW k, Good(l, hs, q, k), NEW a \in Alarms, NEW x \in Args,
           hs[a] = kInvalidHandle, l.head # kFull
    PROVE  /\ ArmedOf(Taken(l, a, x), With(hs, a, l.head), More(q, CallOf(a, l.head)))
                  = With(ArmedOf(l, hs, q), a, x)
           /\ ArmedOf(Taken(l, a, x), With(hs, a, l.head), q) = With(ArmedOf(l, hs, q), a, None)
           /\ AllQueued(hs, q) => AllQueued(With(hs, a, l.head), More(q, CallOf(a, l.head)))
  <1> DEFINE i == l.head
             m == Taken(l, a, x)
             gs == [hs EXCEPT ![a] = i]
             r == q \cup {CallOf(a, i)}
  <1>1. i \in FreeOf(l) /\ i \in Handles
    BY TakenLaidOut DEF Good, FreeOf
  <1>2. m.entries[i] = Entry(a, x) /\ \A u \in Handles : u # i => m.entries[u] = l.entries[u]
    BY <1>1 DEF Taken, Good, Lists
  <1>3. gs[a] = i /\ i # kInvalidHandle /\ \A b \in Alarms : b # a => gs[b] = hs[b]
    BY <1>1, InvalidLemma DEF Good
  <1>4. \A b \in Alarms : hs[b] # kInvalidHandle => hs[b] \in Handles /\ hs[b] # i
    <2>1. \A b \in Alarms : hs[b] # kInvalidHandle => hs[b] \in Handles /\ l.entries[hs[b]].pAlarm = b
      BY DEF Good, Owned
    <2>2. l.entries[i].pAlarm = None /\ None \notin Alarms
      BY <1>1, AlarmAssumption DEF FreeOf
    <2> QED BY <2>1, <2>2
  <1>5. CallOf(a, i) \notin q
    <2>1. \A b \in Alarms : hs[b] # i
      BY <1>3, <1>4
    <2> QED BY <2>1 DEF Good, QOwned, CallOf
  <1>6. \A b \in Alarms : b # a /\ hs[b] # kInvalidHandle
                            => (CallOf(b, hs[b]) \in r <=> CallOf(b, hs[b]) \in q)
    BY <1>4 DEF CallOf
  <1>7. Entry(a, x).param = x
    BY EntriesLemma
  <1>8. \A b \in Alarms : ArmedOf(m, gs, r)[b] = IF b = a THEN x ELSE ArmedOf(l, hs, q)[b]
    BY <1>2, <1>3, <1>4, <1>6, <1>7 DEF ArmedOf
  <1>9. \A b \in Alarms : ArmedOf(m, gs, q)[b] = IF b = a THEN None ELSE ArmedOf(l, hs, q)[b]
    BY <1>2, <1>3, <1>4, <1>5 DEF ArmedOf
  <1>10. ArmedOf(m, gs, r) = [ArmedOf(l, hs, q) EXCEPT ![a] = x]
    BY <1>8 DEF ArmedOf
  <1>11. ArmedOf(m, gs, q) = [ArmedOf(l, hs, q) EXCEPT ![a] = None]
    BY <1>9 DEF ArmedOf
  <1>12. AllQueued(hs, q) => AllQueued(gs, r)
    BY <1>3, <1>6 DEF AllQueued
  <1> QED BY <1>10, <1>11, <1>12 DEF With, More

\* As many others are armed as there are handles.
OthersArmed(f, a) == \E other \in [1..kMaxSize -> Alarms \ {a}] :
                        /\ \A i, j \in 1..kMaxSize : other[i] = other[j] => i = j
                        /\ \A i \in 1..kMaxSize : f[other[i]] # None

\* When the list is empty and ZBOSS does not refuse, as many alarms are armed
\* as there are handles.
LEMMA EmptyIsFull ==
    ASSUME NEW l, NEW hs, NEW q, NEW k, Good(l, hs, q, k), NEW a \in Alarms,
           hs[a] = kInvalidHandle, l.head = kFull, AllQueued(hs, q), ~MayFail
    PROVE  OthersArmed(ArmedOf(l, hs, q), a)
  <1>1. FreeOf(l) = {}
    <2>1. PICK n \in 0..kMaxSize : \E order \in Orders(n) : IsOrder(l, order, n)
      BY DEF Good, LaidOut
    <2>2. PICK order \in Orders(n) : IsOrder(l, order, n)
      BY <2>1
    <2>3. n = 0
      <3> SUFFICES ASSUME n # 0 PROVE FALSE
        OBVIOUS
      <3>1. order[1] \in Handles /\ l.head = order[1]
        BY <2>2 DEF Orders, IsOrder
      <3> QED BY <3>1, InvalidLemma DEF kInvalidHandle
    <2> QED BY <2>2, <2>3 DEF IsOrder
  <1> DEFINE other == [i \in 1..kMaxSize |-> l.entries[i - 1].pAlarm]
  <1>2. ASSUME NEW i \in 1..kMaxSize
        PROVE  /\ other[i] \in Alarms \ {a} /\ hs[other[i]] = i - 1
               /\ ArmedOf(l, hs, q)[other[i]] # None
    <2>1. i - 1 \in Handles /\ other[i] = l.entries[i - 1].pAlarm
      BY AlarmAssumption DEF Handles
    <2>2. /\ l.entries[i - 1].pAlarm \in Alarms /\ l.entries[i - 1].param \in Args
          /\ hs[l.entries[i - 1].pAlarm] = i - 1
      BY <1>1, <2>1, EntriesLemma DEF FreeOf, Good, Owned, Lists
    <2>3. hs[other[i]] # kInvalidHandle
      BY <2>1, <2>2, InvalidLemma
    <2>4. CallOf(other[i], hs[other[i]]) \in q
      BY <2>1, <2>2, <2>3 DEF AllQueued
    <2>5. ArmedOf(l, hs, q)[other[i]] = l.entries[i - 1].param
      BY <2>1, <2>2, <2>3, <2>4 DEF ArmedOf
    <2> QED BY <2>1, <2>2, <2>3, <2>5, AlarmAssumption
  <1>3. other \in [1..kMaxSize -> Alarms \ {a}]
    BY <1>2
  <1>4. \A i, j \in 1..kMaxSize : other[i] = other[j] => i = j
    <2> TAKE i, j \in 1..kMaxSize
    <2>1. hs[other[i]] = i - 1 /\ hs[other[j]] = j - 1
      BY <1>2
    <2> HIDE DEF other
    <2> QED BY <2>1
  <1> HIDE DEF other
  <1> QED BY <1>2, <1>3, <1>4 DEF OthersArmed

\* What Service says of the alarms, in terms of armed.
LEMMA ServiceArms ==
    /\ \A a \in Alarms : Service!Full(a) <=> OthersArmed(armed, a)
    /\ \A a, x : Service!Arm(a, x) <=> armed' = With(armed, a, x)
  BY DEF Service!Full, Service!Arm, OthersArmed, With, armed, ArmedOf, IsRunning, CallOf

\* Setup arms the alarm or, when that is refused, leaves it unarmed.
LEMMA SetupArms ==
    ASSUME NEW k, Good(g_TimerList, h, queue, k), AllQueued(h, queue),
           NEW a \in Alarms, NEW x \in Args, SetupTo(a, x)
    PROVE  /\ AllQueued(h', queue')
           /\ Service!Arm(a, x) \/ ((Service!Full(a) \/ MayFail) /\ Service!Arm(a, None))
  <1> DEFINE l == Cancelled(a)
             hs == With(h, a, kInvalidHandle)
             q == Unqueued(a)
  <1>1. /\ Good(l, hs, q, k) /\ AllQueued(hs, q)
        /\ ArmedOf(l, hs, q) = With(armed, a, None)
    <2>1. CASE IsRunning(a)
      <3>1. /\ l = Freed(g_TimerList, h[a]) /\ q = Less(queue, CallOf(a, h[a]))
            /\ h[a] # kInvalidHandle
        BY <2>1 DEF Cancelled, Unqueued, IsRunning, CallOf, Less
      <3>2. Good(l, hs, q, k)
        BY <2>1, GiveBack DEF Cancelled, Unqueued, IsRunning, With
      <3>3. /\ ArmedOf(Freed(g_TimerList, h[a]), hs, Less(queue, CallOf(a, h[a])))
                  = With(ArmedOf(g_TimerList, h, queue), a, None)
            /\ AllQueued(hs, Less(queue, CallOf(a, h[a])))
        BY <3>1, GiveBackArmed
      <3> QED BY <3>1, <3>2, <3>3 DEF armed
    <2>2. CASE ~IsRunning(a)
      <3>1. hs = h
        BY <2>2 DEF IsRunning, Good, With
      <3>2. q = queue
        BY <2>2, InvalidLemma DEF Unqueued, IsRunning, Good, Calls
      <3>3. armed[a] = None
        BY <2>2 DEF armed, ArmedOf, IsRunning
      <3>4. armed = With(armed, a, None)
        BY <3>3 DEF armed, ArmedOf, With
      <3> QED BY <2>2, <3>1, <3>2, <3>4 DEF Cancelled, armed
    <2> QED BY <2>1, <2>2
  <1>2. hs[a] = kInvalidHandle
    BY DEF Good, With
  <1>3. armed' = ArmedOf(g_TimerList', h', queue')
    BY DEF armed
  <1>4. CASE l.head = kFull
    <2>1. g_TimerList' = l /\ h' = hs /\ queue' = q
      BY <1>4 DEF SetupTo, With
    <2>2. armed' = With(armed, a, None)
      BY <1>1, <1>3, <2>1
    <2>3. ASSUME ~MayFail PROVE Service!Full(a)
      <3>1. OthersArmed(ArmedOf(l, hs, q), a)
        <4> HIDE DEF l, hs, q
        <4> QED BY <1>1, <1>2, <1>4, <2>3, EmptyIsFull
      <3>2. \A b \in Alarms \ {a} : With(armed, a, None)[b] = armed[b]
        BY DEF armed, ArmedOf, With
      <3>3. OthersArmed(armed, a)
        <4>1. OthersArmed(With(armed, a, None), a)
          BY <1>1, <3>1
        <4>2. PICK other \in [1..kMaxSize -> Alarms \ {a}] :
                  /\ \A i, j \in 1..kMaxSize : other[i] = other[j] => i = j
                  /\ \A i \in 1..kMaxSize : With(armed, a, None)[other[i]] # None
          BY <4>1 DEF OthersArmed
        <4>3. \A i \in 1..kMaxSize : armed[other[i]] # None
          BY <3>2, <4>2
        <4> QED BY <4>2, <4>3 DEF OthersArmed
      <3> QED BY <3>3, ServiceArms
    <2> QED BY <1>1, <2>1, <2>2, <2>3, ServiceArms
  <1>5. CASE l.head # kFull
    <2>1. /\ g_TimerList' = Taken(l, a, x)
          /\ h' = With(hs, a, l.head)
          /\ queue' = More(q, CallOf(a, l.head)) \/ (MayFail /\ queue' = q)
      BY <1>5 DEF SetupTo, Schedules, CallOf, Good, With, More
    <2>2. /\ ArmedOf(Taken(l, a, x), With(hs, a, l.head), More(q, CallOf(a, l.head)))
                = With(ArmedOf(l, hs, q), a, x)
          /\ ArmedOf(Taken(l, a, x), With(hs, a, l.head), q) = With(ArmedOf(l, hs, q), a, None)
          /\ AllQueued(With(hs, a, l.head), More(q, CallOf(a, l.head)))
      <3> HIDE DEF l, hs, q
      <3> QED BY <1>1, <1>2, <1>5, TakeArmed
    <2>3. \A y : With(ArmedOf(l, hs, q), a, y) = With(armed, a, y)
      BY <1>1 DEF armed, ArmedOf, With
    <2>4. CASE queue' = More(q, CallOf(a, l.head))
      BY <1>3, <2>1, <2>2, <2>3, <2>4, ServiceArms
    <2>5. CASE MayFail /\ queue' = q
      BY <1>3, <2>1, <2>2, <2>3, <2>5, ServiceArms DEF AllQueued
    <2> QED BY <2>1, <2>4, <2>5
  <1> QED BY <1>4, <1>5

\* A handle given back between two states.
LEMMA GiveBackStep ==
    ASSUME NEW k, Good(g_TimerList, h, queue, k), AllQueued(h, queue),
           NEW a \in Alarms, h[a] # kInvalidHandle,
           g_TimerList' = Freed(g_TimerList, h[a]),
           h' = [h EXCEPT ![a] = kInvalidHandle],
           queue' = queue \ {CallOf(a, h[a])}
    PROVE  AllQueued(h', queue') /\ armed' = With(armed, a, None)
  <1>1. /\ ArmedOf(Freed(g_TimerList, h[a]), With(h, a, kInvalidHandle), Less(queue, CallOf(a, h[a])))
              = With(ArmedOf(g_TimerList, h, queue), a, None)
        /\ AllQueued(With(h, a, kInvalidHandle), Less(queue, CallOf(a, h[a])))
    BY GiveBackArmed
  <1>2. h' = With(h, a, kInvalidHandle) /\ queue' = Less(queue, CallOf(a, h[a]))
    BY DEF With, Less
  <1>3. armed' = ArmedOf(g_TimerList', h', queue') /\ armed = ArmedOf(g_TimerList, h, queue)
    BY DEF armed
  <1> QED BY <1>1, <1>2, <1>3

LEMMA ServiceStep ==
    Inv /\ AllQueued(h, queue) /\ [Next]_vars
        => AllQueued(h, queue)' /\ [Service!Next]_<<armed, running>>
  <1> SUFFICES ASSUME Inv, AllQueued(h, queue), [Next]_vars
               PROVE  AllQueued(h', queue') /\ [Service!Next]_<<armed, running>>
    BY DEF AllQueued, CallOf
  <1>0. PICK k : Rest /\ Good(g_TimerList, h, queue, k) /\ Level(k)
    BY InvIsGood
  <1>10. armed' = ArmedOf(g_TimerList', h', queue')
    BY DEF armed
  <1>1. ASSUME NEW a \in Alarms, NEW x \in Args, Setup(a, x)
        PROVE  AllQueued(h', queue') /\ [Service!Next]_<<armed, running>>
    <2>1. /\ AllQueued(h', queue')
          /\ Service!Arm(a, x) \/ ((Service!Full(a) \/ MayFail) /\ Service!Arm(a, None))
      BY <1>0, <1>1, SetupArms DEF Setup
    <2>2. UNCHANGED running
      BY <1>1 DEF Setup
    <2>3. Service!Set(a, x) \/ Service!Refuse(a)
      BY <2>1, <2>2 DEF Service!Set, Service!Refuse
    <2> QED BY <2>1, <2>3 DEF Service!Next
  <1>2. CASE TimerGoesOn
    <2>1. running \in Frames /\ running # NoFrame
      BY <1>0, <1>2, AlarmAssumption DEF TimerGoesOn, Rest, NoFrame
    <2>2. running.alarm \in Alarms /\ running.arg \in Args
      BY <2>1 DEF Frames
    <2>3. SetupTo(running.alarm, running.arg) /\ running' = NoFrame
      BY <1>2 DEF TimerGoesOn
    <2> PICK a \in Alarms, x \in Args : running.alarm = a /\ running.arg = x
      BY <2>2
    <2>4. /\ AllQueued(h', queue')
          /\ Service!Arm(a, x) \/ ((Service!Full(a) \/ MayFail) /\ Service!Arm(a, None))
      BY <1>0, <2>3, SetupArms
    <2>5. \/ armed' = With(armed, running.alarm, running.arg)
          \/ (Service!Full(running.alarm) \/ MayFail) /\ armed' = With(armed, running.alarm, None)
      BY <2>4, ServiceArms
    <2>6. Service!GoesOn <=>
              /\ running # NoFrame
              /\ \/ armed' = With(armed, running.alarm, running.arg)
                 \/ (Service!Full(running.alarm) \/ MayFail) /\ armed' = With(armed, running.alarm, None)
              /\ running' = NoFrame
      BY DEF Service!GoesOn, Service!Arm, Service!NoFrame, NoFrame, With, armed, ArmedOf,
             IsRunning, CallOf
    <2>7. Service!GoesOn
      BY <2>1, <2>3, <2>5, <2>6
    <2> QED BY <2>4, <2>7 DEF Service!Next
  <1>3. ASSUME NEW a \in Alarms, Cancel(a)
        PROVE  AllQueued(h', queue') /\ [Service!Next]_<<armed, running>>
    <2>1. /\ h[a] # kInvalidHandle /\ g_TimerList' = Freed(g_TimerList, h[a])
          /\ h' = [h EXCEPT ![a] = kInvalidHandle] /\ queue' = queue \ {CallOf(a, h[a])}
          /\ UNCHANGED running
      BY <1>3 DEF Cancel, Cancelled, Unqueued, IsRunning, CallOf
    <2>2. AllQueued(h', queue') /\ armed' = With(armed, a, None)
      BY <1>0, <2>1, GiveBackStep
    <2>3. Service!Cancel(a)
      BY <2>1, <2>2, ServiceArms DEF Service!Cancel
    <2> QED BY <2>2, <2>3 DEF Service!Next
  <1>4. ASSUME NEW e \in Calls, OnScheduledAlarm(e)
        PROVE  AllQueued(h', queue') /\ [Service!Next]_<<armed, running>>
    <2>1. PICK a \in Alarms : h[a] = e.handle /\ Kind(a) = e.cb
      BY <1>0, <1>4 DEF OnScheduledAlarm, Good, QOwned
    <2>2. h[a] # kInvalidHandle /\ e.handle \in Handles
      BY <2>1, InvalidLemma DEF Calls
    <2>3. /\ g_TimerList.entries[e.handle].pAlarm = a
          /\ g_TimerList.entries[e.handle].param \in Args
      BY <1>0, <2>1, <2>2, EntriesLemma, AlarmAssumption DEF Good, Owned, Lists
    <2>4. e = CallOf(a, h[a])
      BY <2>1 DEF Calls, CallOf
    <2>5. /\ g_TimerList' = Freed(g_TimerList, h[a])
          /\ h' = [h EXCEPT ![a] = kInvalidHandle]
          /\ queue' = queue \ {CallOf(a, h[a])}
          /\ running' = [alarm |-> a, arg |-> g_TimerList.entries[e.handle].param]
          /\ running = NoFrame /\ e \in queue
      BY <1>4, <2>1, <2>3, <2>4 DEF OnScheduledAlarm
    <2>6. AllQueued(h', queue') /\ armed' = With(armed, a, None)
      BY <1>0, <2>2, <2>5, GiveBackStep
    <2>7. armed[a] = g_TimerList.entries[e.handle].param /\ armed[a] # None
      BY <2>1, <2>2, <2>3, <2>4, <2>5, AlarmAssumption DEF armed, ArmedOf
    <2>8. Service!GoesOff(a)
      <3>1. Service!GoesOff(a) <=> /\ armed[a] # None /\ running = Service!NoFrame
                                   /\ running' = [alarm |-> a, arg |-> armed[a]]
                                   /\ Service!Arm(a, None)
        BY DEF Service!GoesOff, armed, ArmedOf, IsRunning, CallOf
      <3> QED BY <2>5, <2>6, <2>7, <3>1, ServiceArms DEF Service!NoFrame, NoFrame
    <2> QED BY <2>6, <2>8 DEF Service!Next
  <1>5. CASE CallbackReturns
    <2>1. UNCHANGED <<g_TimerList, h, queue>> /\ running' = NoFrame
      BY <1>5 DEF CallbackReturns
    <2>2. armed' = armed
      BY <1>10, <2>1 DEF armed
    <2>3. Service!Return
      BY <2>1, <2>2 DEF Service!Return, Service!NoFrame, NoFrame, armed, ArmedOf, IsRunning, CallOf
    <2> QED BY <2>1, <2>3 DEF Service!Next
  <1>6. CASE DeactivateCounterOfDeath \/ CheckCounterOfDeath \/ CheckDeathCount \/ UNCHANGED vars
    <2>1. UNCHANGED <<g_TimerList, h, queue, running>>
      BY <1>6 DEF DeactivateCounterOfDeath, CheckCounterOfDeath, CheckDeathCount, vars
    <2> QED BY <1>10, <2>1 DEF armed
  <1>7. CASE Reboot
    <2>1. h' = [a \in Alarms |-> kInvalidHandle] /\ running' = NoFrame
      BY <1>7 DEF Reboot
    <2>2. armed' = [a \in Alarms |-> None] /\ AllQueued(h', queue')
      BY <1>10, <2>1 DEF ArmedOf, AllQueued
    <2>3. Service!Reboot
      BY <2>1, <2>2 DEF Service!Reboot, Service!NoFrame, NoFrame, armed, ArmedOf, IsRunning, CallOf
    <2> QED BY <2>2, <2>3 DEF Service!Next
  <1> QED BY <1>1, <1>2, <1>3, <1>4, <1>5, <1>6, <1>7 DEF Next

\* The alarms keep the promise of AlarmService: an alarm goes off once, with
\* the argument of its last Setup and not after a Cancel, and a Setup is refused
\* only when all handles are armed or ZBOSS refuses.
THEOREM AlarmsAreServed == Spec => ImplementsService
  <1>1. Init => AllQueued(h, queue) /\ Service!Init
    <2> SUFFICES ASSUME Init PROVE AllQueued(h, queue) /\ Service!Init
      OBVIOUS
    <2>1. h = [a \in Alarms |-> kInvalidHandle] /\ running = NoFrame
      BY DEF Init
    <2>2. armed = [a \in Alarms |-> None] /\ AllQueued(h, queue)
      BY <2>1 DEF armed, ArmedOf, AllQueued
    <2> QED BY <2>1, <2>2
        DEF Service!Init, Service!NoFrame, NoFrame, armed, ArmedOf, IsRunning, CallOf
  <1>2. <<armed, running>>' = <<armed, running>> <=> UNCHANGED <<armed, running>>
    OBVIOUS
  <1>3. Inv /\ AllQueued(h, queue) /\ [Next]_vars
            => AllQueued(h, queue)' /\ [Service!Next]_<<armed, running>>
    BY ServiceStep
  <1> QED BY <1>1, <1>3, InvCorrect, PTL
      DEF Spec, ImplementsService, Service!Spec, armed, ArmedOf, IsRunning, CallOf
=============================================================================
