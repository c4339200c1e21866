---------------------------- MODULE Tools_proofs ----------------------------
(***************************************************************************)
(* Proofs about RingBuffer, for every size the index type can count: the   *)
(* cells between the indices are those that hold an element, and the       *)
(* buffer is a queue that takes at least N elements.  And about            *)
(* FixedFunction, for any objects and callables: it invokes what it holds. *)
(***************************************************************************)
EXTENDS RingBuffer, FixedFunction, SequenceTheorems, TLAPS

K == kBufSize(N)

Inv == TypeOK /\ ElementsLive

-----------------------------------------------------------------------------
(* Arithmetic of the indices *)

\* An index is brought back into the buffer by at most one turn.
LEMMA Remainder ==
    ASSUME NEW k \in Nat, NEW i \in Nat, i < 2 * k
    PROVE  i % k = IF i < k THEN i ELSE i - k
  <1>1. CASE i < k
    BY <1>1
  <1>2. CASE i >= k
    BY <1>2
  <1> QED BY <1>1, <1>2

LEMMA Indices ==
    ASSUME TypeOK
    PROVE  /\ K \in Nat /\ N \in Nat /\ K > N /\ N > 0
           /\ Cells = 0..(K - 1) /\ m_Head \in 0..(K - 1) /\ m_Tail \in 0..(K - 1)
           /\ \A i \in Nat : i < 2 * K => Masked(i) = IF i < K THEN i ELSE i - K
           /\ size = IF m_Tail >= m_Head THEN m_Tail - m_Head ELSE m_Tail + K - m_Head
  <1>1. K \in Nat /\ N \in Nat /\ K > N /\ N > 0
    BY RingAssumption DEF TypeOK, K
  <1>2. Cells = 0..(K - 1) /\ m_Head \in 0..(K - 1) /\ m_Tail \in 0..(K - 1)
    BY DEF TypeOK, Cells, K
  <1>3. \A i \in Nat : i < 2 * K => Masked(i) = IF i < K THEN i ELSE i - K
    BY <1>1, Remainder DEF Masked, K
  <1>4. size = Masked(m_Tail + K - m_Head)
    BY DEF size, K
  <1>5. m_Tail + K - m_Head \in Nat /\ m_Tail + K - m_Head < 2 * K
    BY <1>1, <1>2
  <1>6. size = IF m_Tail >= m_Head THEN m_Tail - m_Head ELSE m_Tail + K - m_Head
    BY <1>1, <1>2, <1>3, <1>4, <1>5
  <1> QED BY <1>1, <1>2, <1>3, <1>6

\* The cells of the elements, oldest first, are all different.
LEMMA LiveCells ==
    ASSUME TypeOK
    PROVE  /\ size \in 0..(K - 1)
           /\ \A i \in 0..K : m_Head + i \in Nat /\ m_Head + i < 2 * K
           /\ \A i \in 1..size : Masked(m_Head + i) \in Cells
           /\ \A i, j \in 1..size : Masked(m_Head + i) = Masked(m_Head + j) => i = j
           /\ After(m_Tail) \notin Live /\ After(m_Tail) \in Cells
           /\ After(m_Head) \in Cells
           /\ IsEmpty <=> size = 0
           /\ HasRoom <=> size + 1 < K
  <1>1. size \in 0..(K - 1) /\ (IsEmpty <=> size = 0)
    BY Indices DEF IsEmpty
  <1>2. \A i \in 0..K : m_Head + i \in Nat /\ m_Head + i < 2 * K
    BY Indices
  <1>3. \A i \in 1..size : Masked(m_Head + i) = IF m_Head + i < K THEN m_Head + i ELSE m_Head + i - K
    BY <1>1, <1>2, Indices, SMTT(30)
  <1>4. After(m_Tail) = IF m_Tail + 1 < K THEN m_Tail + 1 ELSE 0
    BY Indices DEF After
  <1>5. After(m_Head) = IF m_Head + 1 < K THEN m_Head + 1 ELSE 0
    BY Indices DEF After
  <1>6. ASSUME NEW i \in 1..size
        PROVE  /\ Masked(m_Head + i) \in Cells /\ After(m_Tail) # Masked(m_Head + i)
               /\ \A j \in 1..size : Masked(m_Head + i) = Masked(m_Head + j) => i = j
    <2> DEFINE cell(n) == IF m_Head + n < K THEN m_Head + n ELSE m_Head + n - K
    <2>1. /\ K \in Nat /\ Cells = 0..(K - 1) /\ m_Head \in 0..(K - 1) /\ m_Tail \in 0..(K - 1)
          /\ size = IF m_Tail >= m_Head THEN m_Tail - m_Head ELSE m_Tail + K - m_Head
      BY Indices
    <2>2. \A n \in 1..size : Masked(m_Head + n) = cell(n)
      BY <1>3
    <2> HIDE DEF size
    <2>3. i \in Nat /\ i >= 1 /\ i <= size /\ size < K /\ size \in Nat
      BY <1>1, <1>6, <2>1
    <2>4. cell(i) \in 0..(K - 1)
      BY <2>1, <2>3
    <2>5. (IF m_Tail + 1 < K THEN m_Tail + 1 ELSE 0) # cell(i)
      BY <2>1, <2>3
    <2>6. \A j \in 1..size : cell(i) = cell(j) => i = j
      BY <2>1, <2>3
    <2> HIDE DEF cell
    <2> QED BY <1>4, <1>6, <2>1, <2>2, <2>4, <2>5, <2>6
  <1>7. After(m_Tail) \notin Live
    BY <1>6 DEF Live
  <1> HIDE DEF size
  <1>9. HasRoom <=> size + 1 < K
    <2>1. /\ K \in Nat /\ m_Head \in 0..(K - 1) /\ m_Tail \in 0..(K - 1)
          /\ size = IF m_Tail >= m_Head THEN m_Tail - m_Head ELSE m_Tail + K - m_Head
      BY Indices
    <2>2. HasRoom <=> (IF m_Tail + 1 < K THEN m_Tail + 1 ELSE 0) # m_Head
      BY <1>4 DEF HasRoom
    <2> QED BY <2>1, <2>2
  <1>10. After(m_Tail) \in Cells /\ After(m_Head) \in Cells
    <2>1. K \in Nat /\ Cells = 0..(K - 1) /\ m_Head \in 0..(K - 1) /\ m_Tail \in 0..(K - 1)
      BY Indices
    <2>2. After(m_Tail) \in 0..(K - 1)
      BY <1>4, <2>1
    <2>3. After(m_Head) \in 0..(K - 1)
      BY <1>5, <2>1
    <2> QED BY <2>1, <2>2, <2>3
  <1> QED BY <1>1, <1>2, <1>6, <1>7, <1>9, <1>10

\* The queue that the cells stand for.
Elements == /\ Queue \in Seq(Values) /\ Len(Queue) = size
            /\ \A i \in 1..size : Queue[i] = m_Buf[Masked(m_Head + i)]

LEMMA QueueFacts == Inv => Elements
  <1> SUFFICES ASSUME Inv PROVE Elements
    OBVIOUS
  <1>1. size \in Nat
    BY LiveCells, Indices DEF Inv
  <1>2. \A i \in 1..size : m_Buf[Masked(m_Head + i)] \in Values
    <2> TAKE i \in 1..size
    <2>1. Masked(m_Head + i) \in Cells /\ Masked(m_Head + i) \in Live
      BY LiveCells DEF Inv, Live
    <2> QED BY <2>1 DEF Inv, TypeOK, ElementsLive
  <1> HIDE DEF size
  <1> QED BY <1>1, <1>2 DEF Queue, Elements

-----------------------------------------------------------------------------
(* What a step does to the cells of the elements *)

\* A push appends the cell after the last.
LEMMA PushIndices ==
    ASSUME Inv, NEW v \in Values, Push(v)
    PROVE  /\ TypeOK' /\ size' = size + 1 /\ size \in Nat
           /\ \A i : Masked(i)' = Masked(i)
           /\ Masked(m_Head + (size + 1)) = After(m_Tail)
           /\ Live' = Live \cup {After(m_Tail)}
           /\ result' = <<"pushed", size + 1>>
  <1> DEFINE tail == After(m_Tail)
  <1>1. /\ HasRoom /\ m_Tail' = tail /\ m_Buf' = [m_Buf EXCEPT ![tail] = v] /\ UNCHANGED <<N, m_Head>>
        /\ result' = <<"pushed", Masked(K + tail - m_Head)>>
    BY DEF Push, K
  <1>2. \A i : Masked(i)' = Masked(i)
    BY <1>1 DEF Masked
  <1>3. /\ K \in Nat /\ K > 0 /\ K' = K /\ Cells' = Cells /\ Cells = 0..(K - 1)
        /\ m_Head \in 0..(K - 1) /\ m_Tail \in 0..(K - 1)
        /\ tail \in Cells /\ size + 1 < K /\ size \in 0..(K - 1)
        /\ size = IF m_Tail >= m_Head THEN m_Tail - m_Head ELSE m_Tail + K - m_Head
        /\ tail = IF m_Tail + 1 < K THEN m_Tail + 1 ELSE 0
    <2>1. tail = IF m_Tail + 1 < K THEN m_Tail + 1 ELSE 0
      BY Indices DEF Inv, After
    <2>2. K' = K /\ Cells' = Cells
      BY <1>1 DEF K, Cells
    <2> QED BY <1>1, <2>1, <2>2, Indices, LiveCells DEF Inv
  <1>4. TypeOK'
    <2>1. N \in Sizes /\ m_Buf \in [Cells -> Values \cup {Dead}]
      BY DEF Inv, TypeOK
    <2> QED BY <1>1, <1>3, <2>1 DEF TypeOK
  <1>7. \A i \in Nat : i < 2 * K => Masked(i) = IF i < K THEN i ELSE i - K
    BY Indices DEF Inv
  <1>5. size' = IF tail >= m_Head THEN tail - m_Head ELSE tail + K - m_Head
    <2> HIDE DEF size, tail
    <2>1. size' = Masked(tail + K - m_Head)
      BY <1>1, <1>2 DEF size, K
    <2> DEFINE i == tail + K - m_Head
    <2>2. i \in Nat /\ i < 2 * K
      BY <1>3
    <2>3. size' = IF i < K THEN i ELSE i - K
      <3> HIDE DEF i
      <3>1. Masked(i) = IF i < K THEN i ELSE i - K
        BY <1>7, <2>2
      <3> QED BY <2>1, <3>1 DEF i
    <2> QED BY <1>3, <2>3
  <1>6. size' = size + 1 /\ size \in Nat
    <2> HIDE DEF size, tail
    <2> QED BY <1>3, <1>5
  <1>10. Masked(m_Head + (size + 1)) = tail
    <2> HIDE DEF size, tail
    <2> DEFINE i == m_Head + (size + 1)
    <2>1. i \in Nat /\ i < 2 * K
      BY <1>3
    <2>2. (IF i < K THEN i ELSE i - K) = tail
      BY <1>3
    <2>3. Masked(i) = IF i < K THEN i ELSE i - K
      <3> HIDE DEF i
      <3> QED BY <1>7, <2>1
    <2> QED BY <2>2, <2>3
  <1>8. Live' = Live \cup {tail}
    <2>1. Live' = {Masked(m_Head + i) : i \in 1..(size + 1)}
      BY <1>1, <1>2, <1>6 DEF Live
    <2>2. 1..(size + 1) = (1..size) \cup {size + 1}
      BY <1>6
    <2> QED BY <1>10, <2>1, <2>2 DEF Live
  <1>9. result' = <<"pushed", size + 1>>
    <2>2. size' = Masked(tail + K - m_Head)
      BY <1>1, <1>2 DEF size, K
    <2>3. tail + K - m_Head = K + tail - m_Head
      BY <1>3
    <2> QED BY <1>1, <1>6, <2>2, <2>3
  <1> QED BY <1>2, <1>4, <1>6, <1>8, <1>9, <1>10

\* A pop, or a drop, takes the first cell away.
LEMMA PopIndices ==
    ASSUME Inv, Pop \/ Drop
    PROVE  /\ TypeOK' /\ size' = size - 1 /\ size \in Nat \ {0}
           /\ After(m_Head) = Masked(m_Head + 1)
           /\ \A i \in 1..size' : Masked(m_Head' + i) = Masked(m_Head + (i + 1))
           /\ Live' = Live \ {After(m_Head)}
  <1> DEFINE head == After(m_Head)
  <1>1. /\ ~IsEmpty /\ m_Head' = head /\ m_Buf' = [m_Buf EXCEPT ![head] = Dead] /\ UNCHANGED <<N, m_Tail>>
    BY DEF Pop, Drop, Destroys
  <1>2. \A i : Masked(i)' = Masked(i)
    BY <1>1 DEF Masked
  <1>3. /\ K \in Nat /\ K > 0 /\ K' = K /\ Cells' = Cells /\ Cells = 0..(K - 1)
        /\ m_Head \in 0..(K - 1) /\ m_Tail \in 0..(K - 1)
        /\ head \in Cells /\ size # 0 /\ size \in 0..(K - 1)
        /\ size = IF m_Tail >= m_Head THEN m_Tail - m_Head ELSE m_Tail + K - m_Head
        /\ head = IF m_Head + 1 < K THEN m_Head + 1 ELSE 0
    <2>1. head = IF m_Head + 1 < K THEN m_Head + 1 ELSE 0
      BY Indices DEF Inv, After
    <2>2. K' = K /\ Cells' = Cells
      BY <1>1 DEF K, Cells
    <2> QED BY <1>1, <2>1, <2>2, Indices, LiveCells DEF Inv
  <1>4. TypeOK'
    <2>1. N \in Sizes /\ m_Buf \in [Cells -> Values \cup {Dead}]
      BY DEF Inv, TypeOK
    <2> QED BY <1>1, <1>3, <2>1 DEF TypeOK
  <1>7. \A i \in Nat : i < 2 * K => Masked(i) = IF i < K THEN i ELSE i - K
    BY Indices DEF Inv
  <1>5. size' = IF m_Tail >= head THEN m_Tail - head ELSE m_Tail + K - head
    <2> HIDE DEF size, head
    <2>1. size' = Masked(m_Tail + K - head)
      BY <1>1, <1>2 DEF size, K
    <2> DEFINE i == m_Tail + K - head
    <2>2. i \in Nat /\ i < 2 * K
      BY <1>3
    <2>3. size' = IF i < K THEN i ELSE i - K
      <3> HIDE DEF i
      <3>1. Masked(i) = IF i < K THEN i ELSE i - K
        BY <1>7, <2>2
      <3> QED BY <2>1, <3>1 DEF i
    <2> QED BY <1>3, <2>3
  <1>6. size' = size - 1 /\ size \in Nat \ {0}
    <2> HIDE DEF size, head
    <2> QED BY <1>3, <1>5
  <1>8. \A i \in 1..size' : Masked(m_Head' + i) = Masked(m_Head + (i + 1))
    <2> SUFFICES ASSUME NEW i \in 1..(size - 1)
                 PROVE  Masked(head + i) = Masked(m_Head + (i + 1))
      BY <1>1, <1>2, <1>6
    <2> HIDE DEF size, head
    <2> DEFINE a == head + i
               b == m_Head + (i + 1)
    <2>1. i \in Nat /\ i >= 1 /\ i + 1 < K
      BY <1>3, <1>6
    <2>2. a \in Nat /\ a < 2 * K /\ b \in Nat /\ b < 2 * K
      BY <1>3, <2>1
    <2>3. (IF a < K THEN a ELSE a - K) = (IF b < K THEN b ELSE b - K)
      BY <1>3, <2>1
    <2>4. Masked(a) = (IF a < K THEN a ELSE a - K) /\ Masked(b) = (IF b < K THEN b ELSE b - K)
      <3> HIDE DEF a, b
      <3> QED BY <1>7, <2>2
    <2> QED BY <2>3, <2>4
  <1>9. head = Masked(m_Head + 1)
    BY DEF After
  <1>10. Live' = Live \ {head}
    <2>1. Live' = {Masked(m_Head + (i + 1)) : i \in 1..(size - 1)}
      <3>1. Live' = {Masked(m_Head' + i) : i \in 1..size'}
        BY <1>2 DEF Live
      <3> QED BY <1>6, <1>8, <3>1
    <2>2. \A i, j \in 1..size : Masked(m_Head + i) = Masked(m_Head + j) => i = j
      BY LiveCells DEF Inv
    <2> HIDE DEF size, head
    <2>3. \A c : c \in Live' <=> c \in Live /\ c # head
      <3> TAKE c
      <3>1. ASSUME NEW i \in 1..(size - 1), c = Masked(m_Head + (i + 1))
            PROVE  c \in Live /\ c # head
        <4>1. i + 1 \in 1..size /\ 1 \in 1..size /\ i + 1 # 1
          BY <1>6
        <4> QED BY <1>9, <2>2, <3>1, <4>1 DEF Live
      <3>2. ASSUME NEW j \in 1..size, c = Masked(m_Head + j), c # head
            PROVE  c \in Live'
        <4>1. j # 1
          BY <1>9, <3>2
        <4>2. (j - 1) \in 1..(size - 1) /\ (j - 1) + 1 = j
          BY <1>6, <4>1
        <4> QED BY <2>1, <3>2, <4>2
      <3> QED BY <2>1, <3>1, <3>2 DEF Live
    <2> QED BY <2>3
  <1> QED BY <1>4, <1>6, <1>8, <1>9, <1>10

\* Whatever is asked of the buffer leaves it as it is.
Asks == PushIsRefused \/ FindsEmpty \/ Peek \/ AskSize \/ Iterate

LEMMA AskFrame ==
    ASSUME Inv, Asks \/ UNCHANGED vars
    PROVE  Inv' /\ Queue' = Queue /\ UNCHANGED N
  <1>1. UNCHANGED <<N, m_Buf, m_Head, m_Tail>>
    BY DEF Asks, PushIsRefused, FindsEmpty, Peek, AskSize, Iterate, vars
  <1>2. UNCHANGED <<N, Queue, TypeOK, ElementsLive>>
    BY <1>1 DEF Queue, TypeOK, ElementsLive, Live, size, Masked, Cells
  <1> QED BY <1>2 DEF Inv

LEMMA InitInv == Init => Inv /\ size = 0
  <1> SUFFICES ASSUME Init PROVE Inv /\ size = 0
    OBVIOUS
  <1>1. TypeOK
    <2>1. N \in Sizes /\ m_Buf = [c \in Cells |-> Dead] /\ m_Head = 0 /\ m_Tail = 0
      BY DEF Init
    <2>2. 0 \in Cells
      BY <2>1, RingAssumption DEF Cells
    <2> QED BY <2>1, <2>2 DEF TypeOK
  <1>2. size = 0
    BY <1>1, Indices DEF Init
  <1>3. Live = {}
    BY <1>2 DEF Live
  <1>4. \A c \in Cells : m_Buf[c] = Dead
    BY DEF Init
  <1> QED BY <1>1, <1>2, <1>3, <1>4 DEF Inv, ElementsLive

LEMMA NextInv == Inv /\ [Next]_vars => Inv'
  <1> SUFFICES ASSUME Inv, [Next]_vars PROVE Inv'
    OBVIOUS
  <1>0. Dead \notin Values
    BY RingAssumption
  <1>1. ASSUME NEW v \in Values, Push(v) PROVE Inv'
    <2>1. TypeOK' /\ Live' = Live \cup {After(m_Tail)} /\ After(m_Tail) \in Cells
      BY <1>1, PushIndices, LiveCells DEF Inv
    <2>2. m_Buf' = [m_Buf EXCEPT ![After(m_Tail)] = v] /\ Cells' = Cells
      BY <1>1 DEF Push, Cells
    <2>3. \A c \in Cells : m_Buf'[c] = IF c = After(m_Tail) THEN v ELSE m_Buf[c]
      BY <2>2 DEF Inv, TypeOK
    <2> QED BY <1>0, <2>1, <2>2, <2>3 DEF Inv, ElementsLive
  <1>2. CASE Pop \/ Drop
    <2>1. TypeOK' /\ Live' = Live \ {After(m_Head)} /\ After(m_Head) \in Cells
      BY <1>2, PopIndices, LiveCells DEF Inv
    <2>2. m_Buf' = [m_Buf EXCEPT ![After(m_Head)] = Dead] /\ Cells' = Cells
      BY <1>2 DEF Pop, Drop, Destroys, Cells
    <2>3. \A c \in Cells : m_Buf'[c] = IF c = After(m_Head) THEN Dead ELSE m_Buf[c]
      BY <2>2 DEF Inv, TypeOK
    <2> QED BY <2>1, <2>2, <2>3 DEF Inv, ElementsLive
  <1>3. CASE Asks \/ UNCHANGED vars
    BY <1>3, AskFrame
  <1> QED BY <1>1, <1>2, <1>3 DEF Next, Asks

-----------------------------------------------------------------------------
\* The cells between the indices hold an element, and no others: none is
\* destroyed twice, written over alive or forgotten.
THEOREM CellsAreLive == Spec => []ElementsLive
  <1>1. Inv => ElementsLive
    BY DEF Inv
  <1> QED BY <1>1, InitInv, NextInv, PTL DEF Spec

LEMMA InitQueue == Init => F!Init
  <1> SUFFICES ASSUME Init PROVE F!Init
    OBVIOUS
  <1>1. Queue \in Seq(Values) /\ Len(Queue) = 0
    BY InitInv, QueueFacts DEF Elements
  <1> QED BY <1>1 DEF Init, F!Init

LEMMA NextQueue == Inv /\ Inv' /\ [Next]_vars => [F!Next]_(F!vars)
  <1> SUFFICES ASSUME Inv, Inv', [Next]_vars PROVE [F!Next]_(F!vars)
    OBVIOUS
  <1>0. /\ Queue \in Seq(Values) /\ Len(Queue) = size
        /\ \A i \in 1..size : Queue[i] = m_Buf[Masked(m_Head + i)]
    BY QueueFacts DEF Elements
  <1>12. /\ Queue' \in Seq(Values) /\ Len(Queue') = size'
        /\ \A i \in 1..size' : Queue'[i] = m_Buf'[Masked(m_Head' + i)]
    <2>1. Elements'
      BY QueueFacts, PTL
    <2>2. N' = N
      BY DEF Next, Push, PushIsRefused, Pop, Drop, FindsEmpty, Peek, AskSize, Iterate, vars
    <2>3. \A i : Masked(m_Head + i)' = Masked(m_Head' + i)
      BY <2>2 DEF Masked
    <2> QED BY <2>1, <2>3 DEF Elements
  <1>13. size \in Nat /\ (IsEmpty <=> Queue = <<>>)
    <2>1. size \in Nat /\ (IsEmpty <=> size = 0)
      BY LiveCells, Indices DEF Inv
    <2> QED BY <1>0, <2>1
  <1>1. ASSUME NEW v \in Values, Push(v) PROVE F!Push(v) /\ UNCHANGED N
    <2>1. /\ size' = size + 1 /\ Masked(m_Head + (size + 1)) = After(m_Tail)
          /\ result' = <<"pushed", size + 1>> /\ \A i : Masked(i)' = Masked(i)
      BY <1>1, PushIndices
    <2>2. m_Buf' = [m_Buf EXCEPT ![After(m_Tail)] = v] /\ UNCHANGED <<N, m_Head>>
      BY <1>1 DEF Push
    <2>3. \A c \in Cells : m_Buf'[c] = IF c = After(m_Tail) THEN v ELSE m_Buf[c]
      BY <2>2 DEF Inv, TypeOK
    <2>4. \A i \in 1..size : Queue'[i] = Queue[i]
      <3> TAKE i \in 1..size
      <3>1. i \in 1..size' /\ Masked(m_Head' + i) = Masked(m_Head + i)
        BY <1>13, <2>1, <2>2
      <3>2. Masked(m_Head + i) \in Cells /\ Masked(m_Head + i) # After(m_Tail)
        BY LiveCells DEF Inv, Live
      <3> QED BY <1>0, <1>12, <2>3, <3>1, <3>2
    <2>5. Queue'[size + 1] = v
      <3>1. size + 1 \in 1..size' /\ Masked(m_Head' + (size + 1)) = After(m_Tail)
        BY <1>13, <2>1, <2>2
      <3>2. After(m_Tail) \in Cells
        BY LiveCells DEF Inv
      <3> QED BY <1>12, <2>3, <3>1, <3>2
    <2>6. Queue' = Append(Queue, v)
      <3> HIDE DEF Queue, size
      <3> QED BY <1>0, <1>12, <1>13, <2>1, <2>4, <2>5
    <2> QED BY <1>0, <2>1, <2>2, <2>6 DEF F!Push
  <1>2. ASSUME Pop \/ Drop PROVE Queue # <<>> /\ Queue' = Tail(Queue) /\ UNCHANGED N
                                 /\ Head(Queue) = m_Buf[After(m_Head)]
    <2>1. /\ size' = size - 1 /\ size \in Nat \ {0} /\ After(m_Head) = Masked(m_Head + 1)
          /\ \A i \in 1..size' : Masked(m_Head' + i) = Masked(m_Head + (i + 1))
      BY <1>2, PopIndices
    <2>2. m_Buf' = [m_Buf EXCEPT ![After(m_Head)] = Dead] /\ UNCHANGED N /\ ~IsEmpty
      BY <1>2 DEF Pop, Drop, Destroys
    <2>3. \A c \in Cells : c # After(m_Head) => m_Buf'[c] = m_Buf[c]
      BY <2>2 DEF Inv, TypeOK
    <2>4. \A i \in 1..(size - 1) : Queue'[i] = Queue[i + 1]
      <3> TAKE i \in 1..(size - 1)
      <3>1. i \in 1..size' /\ i + 1 \in 1..size /\ 1 \in 1..size /\ i + 1 # 1
        BY <2>1
      <3>2. /\ Masked(m_Head + (i + 1)) \in Cells
            /\ Masked(m_Head + (i + 1)) # After(m_Head)
        BY <2>1, <3>1, LiveCells DEF Inv
      <3>3. Queue[i + 1] = m_Buf[Masked(m_Head + (i + 1))]
        BY <1>0, <3>1
      <3> QED BY <1>12, <2>1, <2>3, <3>1, <3>2, <3>3
    <2>5. Queue # <<>>
      BY <1>13, <2>2
    <2>6. Queue[1] = m_Buf[After(m_Head)]
      BY <1>0, <2>1
    <2> HIDE DEF Queue, size
    <2>7. Tail(Queue) \in Seq(Values) /\ Len(Tail(Queue)) = size - 1
          /\ \A i \in 1..(size - 1) : Tail(Queue)[i] = Queue[i + 1]
      BY <1>0, <2>1, <2>5
    <2>8. Queue' = Tail(Queue)
      BY <1>12, <2>1, <2>4, <2>7
    <2> QED BY <2>2, <2>5, <2>6, <2>8
  <1>3. CASE Pop
    BY <1>2, <1>3 DEF Pop, F!Next, F!Pop
  <1>4. CASE Drop
    BY <1>2, <1>4 DEF Drop, F!Next, F!Drop
  <1>5. ASSUME Asks \/ UNCHANGED vars PROVE Queue' = Queue /\ UNCHANGED N
    BY <1>5, AskFrame
  <1>6. CASE PushIsRefused
    <2>1. Len(Queue) >= N
      <3>1. ~(size + 1 < K) /\ K > N /\ K \in Nat /\ N \in Nat
        BY <1>6, LiveCells, Indices DEF PushIsRefused, Inv
      <3> HIDE DEF size
      <3> QED BY <1>0, <1>13, <3>1
    <2>2. result' = <<"refused">> /\ Asks
      BY <1>6 DEF PushIsRefused, Asks
    <2> QED BY <1>5, <2>1, <2>2 DEF F!Next, F!Refuse
  <1>7. CASE FindsEmpty
    BY <1>13, <1>5, <1>7 DEF FindsEmpty, Asks, F!Next, F!FindEmpty
  <1>8. CASE Peek
    <2>1. ~IsEmpty /\ result' = <<"peeked", m_Buf[After(m_Head)]>> /\ Asks
      BY <1>8 DEF Peek, Asks
    <2>2. Queue # <<>>
      BY <1>13, <2>1
    <2>3. 1 \in 1..size /\ After(m_Head) = Masked(m_Head + 1)
      BY <1>0, <1>13, <2>2 DEF After
    <2>4. Head(Queue) = m_Buf[After(m_Head)]
      BY <1>0, <2>2, <2>3
    <2> QED BY <1>5, <2>1, <2>2, <2>4 DEF F!Next, F!Peek
  <1>9. CASE AskSize
    <2>1. result' = <<"size", IF IsEmpty THEN 0 ELSE size>> /\ Asks
      BY <1>9 DEF AskSize, Asks
    <2>2. (IF IsEmpty THEN 0 ELSE size) = Len(Queue)
      BY <1>0, <1>13
    <2> QED BY <1>5, <2>1, <2>2 DEF F!Next, F!Size
  <1>10. CASE Iterate
    <2>1. result' = <<"visited", Queue>> /\ Asks
      BY <1>10 DEF Iterate, Asks, Queue
    <2> QED BY <1>5, <2>1 DEF F!Next, F!Iterate
  <1>11. CASE UNCHANGED vars
    BY <1>5, <1>11 DEF vars, F!vars
  <1> QED BY <1>1, <1>3, <1>4, <1>6, <1>7, <1>8, <1>9, <1>10, <1>11 DEF Next, F!Next

\* The ring buffer is a queue that takes at least N elements and gives them
\* back in their order, for every N that the index type can count.
THEOREM RefinesFifo == Spec => ImplementsFifo
  <1>1. Spec => []Inv
    BY InitInv, NextInv, PTL DEF Spec
  <1> QED BY <1>1, InitQueue, NextQueue, PTL DEF Spec, ImplementsFifo, F!Spec

-----------------------------------------------------------------------------
(* The function object *)

\* An object that holds a callable has it in its storage and takes it for what
\* it is.  One that was moved away keeps a table and holds nothing.
HoldsInv ==
    /\ m_Storage \in [Functions -> Callables \cup {Nothing}]
    /\ DOMAIN m_pTable = Functions
    /\ holds \in [Functions -> Callables \cup {Nothing}]
    /\ \A f \in Functions : holds[f] # Nothing =>
           m_Storage[f] = holds[f] /\ m_pTable[f] = GetVTableFor(holds[f])
    /\ RunsWhatWasAssigned

LEMMA InitHolds == FunctionInit => HoldsInv
  BY DEF FunctionInit, HoldsInv, RunsWhatWasAssigned

LEMMA StepHolds == HoldsInv /\ [FunctionNext]_(functionVars) => HoldsInv'
  <1> SUFFICES ASSUME HoldsInv, [FunctionNext]_(functionVars) PROVE HoldsInv'
    OBVIOUS
  <1>1. ASSUME NEW f \in Functions, NEW c \in Callables, AssignCallable(f, c)
        PROVE  HoldsInv'
    BY <1>1 DEF HoldsInv, AssignCallable, RunsWhatWasAssigned, GetVTableFor
  <1>2. ASSUME NEW f \in Functions, NEW g \in Functions, AssignCopy(f, g)
        PROVE  HoldsInv'
    BY <1>2 DEF HoldsInv, AssignCopy, TakesTable, RunsWhatWasAssigned,
                GetVTableFor
  <1>3. ASSUME NEW f \in Functions, NEW g \in Functions, AssignMove(f, g)
        PROVE  HoldsInv'
    BY <1>3 DEF HoldsInv, AssignMove, TakesTable, RunsWhatWasAssigned,
                GetVTableFor
  <1>4. ASSUME NEW f \in Functions, Invoke(f) PROVE HoldsInv'
    <2>1. /\ holds[f] # Nothing /\ UNCHANGED <<m_Storage, m_pTable, holds>>
          /\ called' = [ran |-> m_Storage[f], as |-> m_pTable[f], meant |-> holds[f]]
      BY <1>4 DEF Invoke
    <2>2. m_Storage[f] = holds[f] /\ m_pTable[f] = GetVTableFor(holds[f])
      BY <2>1 DEF HoldsInv
    <2>3. /\ called'.ran = m_Storage[f] /\ called'.as = m_pTable[f]
          /\ called'.meant = holds[f]
      BY <2>1
    <2>4. RunsWhatWasAssigned'
      BY <2>2, <2>3 DEF RunsWhatWasAssigned, GetVTableFor
    <2> QED BY <2>1, <2>4 DEF HoldsInv, GetVTableFor
  <1>5. CASE UNCHANGED functionVars
    BY <1>5 DEF functionVars, HoldsInv, RunsWhatWasAssigned, GetVTableFor
  <1> QED BY <1>1, <1>2, <1>3, <1>4, <1>5 DEF FunctionNext

\* However function objects are assigned, copied and moved among each other, an
\* invocation runs the callable assigned last, through the table of its type.
THEOREM FunctionsRunWhatTheyHold == FunctionSpec => []RunsWhatWasAssigned
  <1>1. HoldsInv => RunsWhatWasAssigned
    BY DEF HoldsInv
  <1> QED BY <1>1, InitHolds, StepHolds, PTL DEF FunctionSpec
=============================================================================
