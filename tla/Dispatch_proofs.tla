-------------------------- MODULE Dispatch_proofs --------------------------
(***************************************************************************)
(* Proofs about Dispatch, for every application and every device: code of  *)
(* the application finds the endpoints initialised, a device callback runs *)
(* the handlers declared for it, and the buffer of a signal is freed once. *)
(***************************************************************************)
EXTENDS Dispatch, SequenceTheorems, WellFoundedInduction, TLAPS

\* What is still to be initialised are endpoints of the device, each once;
\* those that are not among them are initialised, and nothing else runs before.
InitOnce ==
    /\ program \in Programs
    /\ ctx_initialized \in BOOLEAN
    /\ toInit \in Seq(Nat) /\ IsInjective(toInit)
    /\ ToSet(toInit) \subseteq DOMAIN fills
    /\ \A e \in DOMAIN fills :
           fills[e] = IF ~ctx_initialized \/ e \in ToSet(toInit) THEN 0 ELSE 1
    /\ DOMAIN fills = ToSet(program.eps)
    /\ frame # "signal" => toInit = <<>>
    /\ ~ctx_initialized => frame = "idle"
    /\ ran # <<>> => ctx_initialized /\ toInit = <<>>

\* The buffer is the library's while the handler of the signal runs.
BufferInv ==
    /\ mine \in BOOLEAN
    /\ frame \in {"idle", "callback", "undefined", "signal", "default", "returning"}
    /\ mine <=> frame \in {"signal", "default", "returning"}
    /\ ~misused

\* Places in a list, from the front to the back.
Ascending(q) == q \in Seq(Nat) /\ \A i, j \in 1..Len(q) : i < j => q[i] < q[j]

\* While a callback runs, those of its handlers that were looked at have run if
\* they are concerned; the others are in todo.
Remaining ==
    /\ input \in Params
    /\ Ascending(todo) /\ Ascending(ran)
    /\ \A i \in ToSet(ran), j \in ToSet(todo) : i < j
    /\ \A j \in ToSet(todo) : j \in DOMAIN program.callbacks /\ program.callbacks[j].id = input.id
    /\ ToSet(ran) \cup (ToSet(todo) \cap Concerned(input)) = Concerned(input)
    /\ ran = <<>> => status = "ok"

CallbackInv ==
    /\ program \in Programs
    /\ frame \in {"idle", "callback", "signal", "default", "returning"}
    /\ frame = "callback" => Remaining
    /\ frame \in {"signal", "default", "returning"} => input \notin Params
    /\ RightHandlersRan

-----------------------------------------------------------------------------
\* The first of a sequence that repeats nothing is not in the rest of it.
LEMMA TailOfInjective ==
    ASSUME NEW q \in Seq(Nat), q # <<>>, IsInjective(q)
    PROVE  /\ Tail(q) \in Seq(Nat) /\ IsInjective(Tail(q))
           /\ ToSet(Tail(q)) = ToSet(q) \ {Head(q)}
           /\ Head(q) \in ToSet(q)
  <1>1. /\ Tail(q) \in Seq(Nat) /\ Len(Tail(q)) = Len(q) - 1 /\ Len(q) \in Nat \ {0}
        /\ \A i \in 1..(Len(q) - 1) : Tail(q)[i] = q[i + 1]
        /\ Head(q) = q[1]
    OBVIOUS
  <1>2. DOMAIN q = 1..Len(q) /\ DOMAIN Tail(q) = 1..(Len(q) - 1)
    BY <1>1
  <1>3. \A i, j \in 1..Len(q) : q[i] = q[j] => i = j
    BY <1>2 DEF IsInjective
  <1>4. IsInjective(Tail(q))
    <2> SUFFICES ASSUME NEW i \in 1..(Len(q) - 1), NEW j \in 1..(Len(q) - 1),
                        Tail(q)[i] = Tail(q)[j]
                 PROVE  i = j
      BY <1>2 DEF IsInjective
    <2> QED BY <1>1, <1>3
  <1>5. ToSet(Tail(q)) = {q[i + 1] : i \in 1..(Len(q) - 1)}
    BY <1>1, <1>2 DEF ToSet
  <1>6. ToSet(q) = {q[i] : i \in 1..Len(q)}
    BY <1>2 DEF ToSet
  <1>7. ASSUME NEW e \in ToSet(Tail(q)) PROVE e \in ToSet(q) \ {Head(q)}
    <2>1. PICK i \in 1..(Len(q) - 1) : e = q[i + 1]
      BY <1>5, <1>7
    <2>2. i + 1 \in 1..Len(q) /\ 1 \in 1..Len(q) /\ i + 1 # 1
      BY <1>1
    <2> QED BY <1>1, <1>3, <1>6, <2>1, <2>2
  <1>8. ASSUME NEW e \in ToSet(q) \ {Head(q)} PROVE e \in ToSet(Tail(q))
    <2>1. PICK i \in 1..Len(q) : e = q[i]
      BY <1>6, <1>8
    <2>2. i - 1 \in 1..(Len(q) - 1) /\ (i - 1) + 1 = i
      BY <1>1, <2>1
    <2> QED BY <1>5, <2>1, <2>2
  <1>9. Head(q) \in ToSet(q)
    BY <1>1, <1>6
  <1> QED BY <1>1, <1>4, <1>7, <1>8, <1>9

-----------------------------------------------------------------------------
(* The table *)

\* A set of natural numbers that is not empty has a least member.
LEMMA LeastMember ==
    ASSUME NEW T, T \subseteq Nat, T # {}
    PROVE  \E n \in T : \A m \in T : n <= m
  <1> DEFINE R == OpToRel(<, Nat)
  <1>1. IsWellFoundedOn(R, Nat)
    BY NatLessThanWellFounded
  <1>2. \A x, y \in Nat : x < y => <<x, y>> \in R
    BY DEF OpToRel
  <1> HIDE DEF R
  <1>3. \E x \in T : \A y \in T : ~ (<<y, x>> \in R)
    BY <1>1, WFMin
  <1>4. PICK n \in T : \A y \in T : ~ (<<y, n>> \in R)
    BY <1>3
  <1>5. \A m \in T : ~ (m < n)
    BY <1>2, <1>4
  <1> QED BY <1>5

\* A greater place goes to the end.
LEMMA AppendAscending ==
    ASSUME NEW q, Ascending(q), NEW x \in Nat, \A y \in ToSet(q) : y < x
    PROVE  Ascending(Append(q, x)) /\ ToSet(Append(q, x)) = ToSet(q) \cup {x}
  <1> DEFINE r == Append(q, x)
  <1>1. /\ q \in Seq(Nat) /\ Len(q) \in Nat /\ r \in Seq(Nat) /\ Len(r) = Len(q) + 1
        /\ \A i \in 1..Len(q) : r[i] = q[i]
        /\ r[Len(q) + 1] = x
    BY DEF Ascending
  <1>2. DOMAIN q = 1..Len(q) /\ DOMAIN r = 1..(Len(q) + 1)
    BY <1>1
  <1> HIDE DEF r
  <1>3. ToSet(q) = {q[i] : i \in 1..Len(q)} /\ ToSet(r) = {r[i] : i \in 1..(Len(q) + 1)}
    BY <1>2 DEF ToSet
  <1>4. Ascending(r)
    <2> SUFFICES ASSUME NEW i \in 1..(Len(q) + 1), NEW j \in 1..(Len(q) + 1), i < j
                 PROVE  r[i] < r[j]
      BY <1>1 DEF Ascending
    <2>1. i \in 1..Len(q) /\ r[i] = q[i]
      BY <1>1, SMTT(30)
    <2>2. CASE j \in 1..Len(q)
      BY <1>1, <2>1, <2>2 DEF Ascending
    <2>3. CASE j = Len(q) + 1
      BY <1>1, <1>3, <2>1, <2>3
    <2> QED BY <1>1, <2>2, <2>3, SMTT(30)
  <1>5. ASSUME NEW e \in ToSet(r) PROVE e \in ToSet(q) \cup {x}
    <2>1. PICK i \in 1..(Len(q) + 1) : e = r[i]
      BY <1>3
    <2>2. i \in 1..Len(q) \/ i = Len(q) + 1
      BY <1>1
    <2>3. i \in 1..Len(q) => e = q[i]
      BY <1>1, <2>1
    <2>4. i = Len(q) + 1 => e = x
      BY <1>1, <2>1
    <2> QED BY <1>3, <2>2, <2>3, <2>4
  <1>6. ASSUME NEW e \in ToSet(q) \cup {x} PROVE e \in ToSet(r)
    <2>1. CASE e = x
      <3>1. Len(q) + 1 \in 1..(Len(q) + 1)
        BY <1>1
      <3> QED BY <1>1, <1>3, <2>1, <3>1
    <2>2. CASE e \in ToSet(q)
      <3>1. PICK i \in 1..Len(q) : e = q[i]
        BY <1>3, <2>2
      <3>2. i \in 1..(Len(q) + 1)
        BY <1>1
      <3> QED BY <1>1, <1>3, <3>1, <3>2
    <2> QED BY <2>1, <2>2
  <1> QED BY <1>4, <1>5, <1>6 DEF r

\* The first place is the smallest.
LEMMA TailAscending ==
    ASSUME NEW q, Ascending(q), q # <<>>
    PROVE  /\ Ascending(Tail(q)) /\ ToSet(Tail(q)) = ToSet(q) \ {Head(q)}
           /\ Head(q) \in ToSet(q) /\ Head(q) \in Nat
           /\ \A y \in ToSet(Tail(q)) : Head(q) < y
  <1>1. /\ q \in Seq(Nat) /\ Tail(q) \in Seq(Nat) /\ Len(Tail(q)) = Len(q) - 1
        /\ Len(q) \in Nat \ {0} /\ Head(q) = q[1] /\ Head(q) \in Nat
        /\ \A i \in 1..(Len(q) - 1) : Tail(q)[i] = q[i + 1]
    BY DEF Ascending
  <1>2. IsInjective(q)
    <2> SUFFICES ASSUME NEW i \in 1..Len(q), NEW j \in 1..Len(q), q[i] = q[j] PROVE i = j
      BY <1>1 DEF IsInjective
    <2>1. q[i] \in Nat /\ q[j] \in Nat
      BY <1>1
    <2>2. ~ (i < j) /\ ~ (j < i)
      BY <2>1 DEF Ascending
    <2> QED BY <1>1, <2>2
  <1>3. Ascending(Tail(q))
    <2> SUFFICES ASSUME NEW i \in 1..(Len(q) - 1), NEW j \in 1..(Len(q) - 1), i < j
                 PROVE  Tail(q)[i] < Tail(q)[j]
      BY <1>1 DEF Ascending
    <2>1. i + 1 \in 1..Len(q) /\ j + 1 \in 1..Len(q) /\ i + 1 < j + 1
      BY <1>1
    <2>2. q[i + 1] < q[j + 1]
      BY <2>1 DEF Ascending
    <2> QED BY <1>1, <2>2
  <1>4. ASSUME NEW y \in ToSet(Tail(q)) PROVE Head(q) < y
    <2>1. PICK i \in 1..(Len(q) - 1) : y = q[i + 1]
      BY <1>1 DEF ToSet
    <2>2. 1 \in 1..Len(q) /\ i + 1 \in 1..Len(q) /\ 1 < i + 1
      BY <1>1
    <2>3. q[1] < q[i + 1]
      BY <2>2 DEF Ascending
    <2> QED BY <1>1, <2>1, <2>3
  <1> QED BY <1>1, <1>2, <1>3, <1>4, TailOfInjective

\* f[i] holds the places, among the first i, of the handlers of the id.
Filters(f, list, id, n) ==
    /\ f \in [0..n -> Seq(Nat)]
    /\ f[0] = <<>>
    /\ \A i \in 1..n : f[i] = IF list[i].id = id THEN Append(f[i - 1], i) ELSE f[i - 1]

LEMMA FiltersExist ==
    ASSUME NEW n \in Nat, NEW list, NEW id
    PROVE  \E f : Filters(f, list, id, n)
  <1> DEFINE T == {k \in 0..n : ~ \E f : Filters(f, list, id, k)}
  <1>1. T \subseteq 0..n /\ T \subseteq Nat
    OBVIOUS
  <1>2. \A k \in 0..n : k \notin T <=> \E f : Filters(f, list, id, k)
    OBVIOUS
  <1> HIDE DEF T
  <1>3. SUFFICES ASSUME T # {} PROVE FALSE
    BY <1>2
  <1>4. PICK k \in T : \A m \in T : k <= m
    BY <1>1, <1>3, LeastMember
  <1>5. k # 0
    <2>1. Filters([i \in 0..0 |-> <<>>], list, id, 0)
      BY DEF Filters
    <2> QED BY <1>2, <2>1
  <1>6. k \in 1..n /\ k - 1 \in 0..n /\ k - 1 \in Nat
    BY <1>1, <1>4, <1>5
  <1>7. PICK f : Filters(f, list, id, k - 1)
    BY <1>2, <1>4, <1>6
  <1> DEFINE last == IF list[k].id = id THEN Append(f[k - 1], k) ELSE f[k - 1]
             g    == [i \in 0..k |-> IF i = k THEN last ELSE f[i]]
  <1>8. \A i \in 0..k : i # k => i \in 0..(k - 1)
    BY <1>6
  <1>9. last \in Seq(Nat)
    <2>1. f[k - 1] \in Seq(Nat)
      BY <1>6, <1>7 DEF Filters
    <2> QED BY <1>6, <2>1
  <1> HIDE DEF last
  <1>10. g \in [0..k -> Seq(Nat)] /\ g[0] = <<>>
    BY <1>6, <1>7, <1>8, <1>9 DEF Filters
  <1>11. \A i \in 1..k : g[i] = IF list[i].id = id THEN Append(g[i - 1], i) ELSE g[i - 1]
    <2> TAKE i \in 1..k
    <2>1. i \in 0..k /\ i - 1 \in 0..k /\ i - 1 # k
      BY <1>6
    <2>2. g[i - 1] = f[i - 1] /\ g[i] = IF i = k THEN last ELSE f[i]
      BY <2>1
    <2>3. i # k => i \in 1..(k - 1)
      BY <1>6
    <2> HIDE DEF g
    <2>4. CASE i = k
      BY <2>2, <2>4 DEF last
    <2>5. CASE i # k
      BY <1>7, <2>2, <2>3, <2>5 DEF Filters
    <2> QED BY <2>4, <2>5
  <1>12. Filters(g, list, id, k)
    <2> HIDE DEF g
    <2> QED BY <1>10, <1>11 DEF Filters
  <1> QED BY <1>1, <1>2, <1>4, <1>12

\* An entry of the table holds the places of the handlers of its id, in order.
LEMMA TableEntry ==
    ASSUME NEW list, NEW S, list \in Seq(S), NEW id
    PROVE  /\ Ascending(filter_handlers_by_cb_id(list, id))
           /\ ToSet(filter_handlers_by_cb_id(list, id)) = {i \in DOMAIN list : list[i].id = id}
  <1> DEFINE n == Len(list)
             D(f) == [i \in 0..n |-> IF i = 0 THEN <<>>
                                      ELSE IF list[i].id = id THEN Append(f[i - 1], i) ELSE f[i - 1]]
             f == CHOOSE f : f = D(f)
  <1>1. n \in Nat /\ DOMAIN list = 1..n
    OBVIOUS
  <1>2. f = D(f)
    <2> HIDE DEF n
    <2>1. PICK g : Filters(g, list, id, n)
      BY <1>1, FiltersExist
    <2>2. g = D(g)
      <3>1. \A i \in 0..n : i # 0 => i \in 1..n
        BY <1>1
      <3> QED BY <2>1, <3>1 DEF Filters
    <2> HIDE DEF D
    <2> QED BY <2>2
  <1>3. filter_handlers_by_cb_id(list, id) = f[n]
    BY DEF filter_handlers_by_cb_id
  <1> HIDE DEF f
  <1>4. f[0] = <<>> /\ \A i \in 1..n : f[i] = IF list[i].id = id THEN Append(f[i - 1], i) ELSE f[i - 1]
    <2> HIDE DEF n
    <2>1. 0 \in 0..n /\ \A i \in 1..n : i \in 0..n /\ i # 0
      BY <1>1
    <2> QED BY <1>2, <2>1
  <1> HIDE DEF n, D
  <1> DEFINE Upto(k) == {i \in 1..k : list[i].id = id}
             T == {k \in 0..n : ~ (Ascending(f[k]) /\ ToSet(f[k]) = Upto(k))}
  <1>5. T \subseteq Nat /\ T \subseteq 0..n
    BY <1>1
  <1>6. \A k \in 0..n : k \notin T <=> Ascending(f[k]) /\ ToSet(f[k]) = Upto(k)
    OBVIOUS
  <1> HIDE DEF T
  <1>7. T = {}
    <2> SUFFICES ASSUME T # {} PROVE FALSE
      OBVIOUS
    <2>1. PICK k \in T : \A m \in T : k <= m
      BY <1>5, LeastMember
    <2>2. k # 0
      <3>1. Ascending(<<>>) /\ ToSet(<<>>) = {} /\ Upto(0) = {}
        BY DEF Ascending, ToSet
      <3>2. 0 \in 0..n
        BY <1>1
      <3> QED BY <1>4, <1>6, <2>1, <3>1, <3>2
    <2>3. k \in 1..n /\ k - 1 \in 0..n /\ k \in Nat
      BY <1>1, <1>5, <2>1, <2>2
    <2>4. k - 1 \notin T
      BY <2>1, <2>3
    <2>5. Ascending(f[k - 1]) /\ ToSet(f[k - 1]) = Upto(k - 1)
      BY <1>6, <2>3, <2>4
    <2>6. \A y \in Upto(k - 1) : y < k
      BY <2>3
    <2>7. Upto(k) = IF list[k].id = id THEN Upto(k - 1) \cup {k} ELSE Upto(k - 1)
      <3>1. \A i : i \in 1..k <=> i \in 1..(k - 1) \/ i = k
        BY <2>3
      <3>2. k \notin 1..(k - 1)
        BY <2>3
      <3> QED BY <3>1, <3>2
    <2> HIDE DEF Upto
    <2>8. Ascending(f[k]) /\ ToSet(f[k]) = Upto(k)
      <3>1. f[k] = IF list[k].id = id THEN Append(f[k - 1], k) ELSE f[k - 1]
        BY <1>4, <2>3
      <3>2. CASE list[k].id = id
        <4>1. /\ Ascending(Append(f[k - 1], k))
              /\ ToSet(Append(f[k - 1], k)) = ToSet(f[k - 1]) \cup {k}
          BY <2>3, <2>5, <2>6, AppendAscending
        <4> QED BY <2>5, <2>7, <3>1, <3>2, <4>1
      <3>3. CASE list[k].id # id
        BY <2>5, <2>7, <3>1, <3>3
      <3> QED BY <3>2, <3>3
    <2> QED BY <1>5, <1>6, <2>1, <2>8
  <1>8. Ascending(f[n]) /\ ToSet(f[n]) = Upto(n)
    <2>1. n \in 0..n
      BY <1>1
    <2> QED BY <1>6, <1>7, <2>1
  <1> QED BY <1>1, <1>3, <1>8

\* A list of handlers has one with the greatest id.
LEMMA GreatestId ==
    ASSUME NEW list, NEW S, list \in Seq(S), list # <<>>,
           \A i \in DOMAIN list : list[i].id \in Nat
    PROVE  Max(Ids(list)) \in Ids(list) /\ \A y \in Ids(list) : y <= Max(Ids(list))
  <1> DEFINE n == Len(list)
             Top(k, j) == \A i \in 1..k : list[i].id <= list[j].id
             T == {k \in 1..n : ~ \E j \in 1..k : Top(k, j)}
  <1>1. n \in Nat \ {0} /\ DOMAIN list = 1..n
    OBVIOUS
  <1>2. T \subseteq Nat /\ T \subseteq 1..n
    BY <1>1
  <1> HIDE DEF n
  <1>3. \A k \in 1..n : k \notin T <=> \E j \in 1..k : Top(k, j)
    OBVIOUS
  <1> HIDE DEF T
  <1>4. T = {}
    <2> SUFFICES ASSUME T # {} PROVE FALSE
      OBVIOUS
    <2>1. PICK k \in T : \A m \in T : k <= m
      BY <1>2, LeastMember
    <2>2. k \in 1..n /\ k \in Nat
      BY <1>2, <2>1
    <2>3. CASE k = 1
      <3>1. Top(1, 1) /\ 1 \in 1..1
        BY <1>1
      <3> QED BY <1>3, <2>1, <2>2, <2>3, <3>1
    <2>4. CASE k # 1
      <3>1. k - 1 \in 1..n /\ k - 1 \notin T
        BY <1>1, <2>1, <2>2, <2>4
      <3>2. PICK j \in 1..(k - 1) : Top(k - 1, j)
        BY <1>3, <3>1
      <3>3. /\ j \in 1..k /\ j \in 1..n /\ k \in 1..k
            /\ \A i \in 1..k : i \in 1..(k - 1) \/ i = k
        BY <1>1, <2>2, <3>2
      <3>4. list[j].id \in Nat /\ list[k].id \in Nat
        BY <1>1, <2>2, <3>3
      <3>5. CASE list[k].id <= list[j].id
        <4>1. Top(k, j)
          BY <3>2, <3>3, <3>5
        <4> QED BY <1>3, <2>1, <2>2, <3>3, <4>1
      <3>6. CASE list[j].id <= list[k].id
        <4>1. Top(k, k)
          <5> SUFFICES ASSUME NEW i \in 1..k PROVE list[i].id <= list[k].id
            OBVIOUS
          <5>1. i \in 1..(k - 1) \/ i = k
            BY <3>3
          <5>2. i \in 1..n
            BY <1>1, <2>2
          <5>3. list[i].id \in Nat
            BY <1>1, <5>2
          <5>4. i \in 1..(k - 1) => list[i].id <= list[j].id
            BY <3>2
          <5> QED BY <3>4, <3>6, <5>1, <5>3, <5>4
        <4> QED BY <1>3, <2>1, <2>2, <3>3, <4>1
      <3> QED BY <3>4, <3>5, <3>6
    <2> QED BY <2>3, <2>4
  <1>5. PICK j \in 1..n : Top(n, j)
    <2>1. n \in 1..n
      BY <1>1
    <2> QED BY <1>3, <1>4, <2>1
  <1>6. list[j].id \in Ids(list) /\ \A y \in Ids(list) : list[j].id >= y
    <2>1. Ids(list) = {list[i].id : i \in 1..n}
      BY <1>1 DEF Ids
    <2> QED BY <1>1, <1>5, <2>1
  <1>7. Max(Ids(list)) \in Ids(list) /\ \A y \in Ids(list) : Max(Ids(list)) >= y
    BY <1>6 DEF Max
  <1>8. Ids(list) \subseteq Nat
    BY DEF Ids
  <1> QED BY <1>7, <1>8

-----------------------------------------------------------------------------
(* The device callback *)

\* What a signal or a callback without a buffer leaves is no parameter.
LEMMA NoParameter == \A x : [id |-> x] \notin Params
  <1> SUFFICES ASSUME NEW x, [id |-> x] \in Params PROVE FALSE
    OBVIOUS
  <1>1. DOMAIN [id |-> x] = {"id", "ep", "cluster", "attr"}
    BY DispatchAssumption
  <1>2. "ep" \notin DOMAIN [id |-> x]
    OBVIOUS
  <1> QED BY <1>1, <1>2

\* Of the handlers of the parameter's id, those that pass are concerned.
LEMMA PassesIsConcerns ==
    ASSUME NEW h, NEW p, h.id = p.id
    PROVE  Passes(h, p) <=> Concerns(h, p)
  BY DEF Passes, Concerns

\* The entry of an application that has a handler of id 0 is the right one.
LEMMA EntryOfId ==
    ASSUME NEW q \in Programs, q.callbacks # <<>>, StartsAtZero(q), NEW id \in Nat
    PROVE  LET list == q.callbacks
               table == organize_cb_into_lookup(list)
           IN  /\ Min(Ids(list)) = 0 /\ Max(Ids(list)) \in Nat
               /\ \A y \in Ids(list) : y <= Max(Ids(list))
               /\ id \in 0..Max(Ids(list)) => /\ id \in DOMAIN table
                                              /\ table[id] = filter_handlers_by_cb_id(list, id)
  <1> DEFINE list == q.callbacks
  <1>1. list \in Seq(ToSet(list)) /\ \A i \in DOMAIN list : list[i].id \in Nat
    BY DispatchAssumption DEF Program, CbHandler
  <1>2. 0 \in Ids(list) /\ Ids(list) \subseteq Nat
    BY <1>1 DEF StartsAtZero, Ids
  <1>3. Min(Ids(list)) = 0
    <2>1. 0 \in Ids(list) /\ \A y \in Ids(list) : 0 <= y
      BY <1>2
    <2>2. Min(Ids(list)) \in Ids(list) /\ \A y \in Ids(list) : Min(Ids(list)) <= y
      BY <2>1 DEF Min
    <2>3. Min(Ids(list)) <= 0 /\ Min(Ids(list)) \in Nat
      BY <1>2, <2>2
    <2> QED BY <2>3
  <1>4. /\ Max(Ids(list)) \in Nat
        /\ \A y \in Ids(list) : y <= Max(Ids(list))
    BY <1>1, <1>2, GreatestId
  <1> DEFINE top == Max(Ids(list))
             table == organize_cb_into_lookup(list)
  <1>5. table = [i \in 0..(top - 0) |-> filter_handlers_by_cb_id(list, i + 0)]
    BY <1>3 DEF organize_cb_into_lookup
  <1>6. top \in Nat /\ top - 0 = top
    BY <1>4
  <1> HIDE DEF top, table
  <1>7. id + 0 = id
    OBVIOUS
  <1>8. id \in 0..top => id \in DOMAIN table /\ table[id] = filter_handlers_by_cb_id(list, id)
    BY <1>5, <1>6, <1>7
  <1> QED BY <1>3, <1>4, <1>8 DEF top, table

\* Before the first handler is looked at.
LEMMA BeginsWithAll ==
    ASSUME CallbackInv, StartsAtZero(program), NEW p \in Params, DeviceCb(p)
    PROVE  CallbackInv'
  <1> DEFINE list == program.callbacks
             concerned == {i \in DOMAIN list : Concerns(list[i], p)}
  <1>1. program \in Programs /\ program' = program /\ input' = p /\ status' = "ok" /\ ran' = <<>>
    BY DEF CallbackInv, DeviceCb
  <1>2. p.id \in Nat
    BY DispatchAssumption
  <1>3. Ascending(<<>>) /\ ToSet(<<>>) = {}
    BY DEF Ascending, ToSet
  <1>4. Concerned(input)' = concerned
    BY <1>1 DEF Concerned
  <1>5. /\ frame' = "callback" /\ Ascending(todo')
        /\ \A j \in ToSet(todo') : j \in DOMAIN list /\ list[j].id = p.id
        /\ ToSet(todo') \cap concerned = concerned
    <2>1. CASE list = <<>>
      <3>1. frame' = "callback" /\ todo' = <<>>
        BY <2>1 DEF DeviceCb
      <3>2. DOMAIN list = {}
        BY <2>1
      <3> QED BY <1>3, <3>1, <3>2
    <2>2. CASE list # <<>>
      <3> DEFINE low == Min(Ids(list))
                 top == Max(Ids(list))
                 table == organize_cb_into_lookup(list)
      <3>1. /\ low = 0 /\ top \in Nat /\ \A y \in Ids(list) : y <= top
            /\ p.id \in 0..top => p.id \in DOMAIN table /\ table[p.id] = filter_handlers_by_cb_id(list, p.id)
        BY <1>1, <1>2, <2>2, EntryOfId
      <3>2. IF p.id \notin low..top THEN frame' = "callback" /\ todo' = <<>>
            ELSE IF p.id \in DOMAIN table THEN frame' = "callback" /\ todo' = table[p.id]
                 ELSE frame' = "undefined" /\ todo' = <<>>
        BY <2>2 DEF DeviceCb
      <3> HIDE DEF low, top, table
      <3>3. CASE p.id \notin 0..top
        <4>1. frame' = "callback" /\ todo' = <<>>
          BY <3>1, <3>2, <3>3
        <4>2. ASSUME NEW i \in DOMAIN list PROVE list[i].id # p.id
          <5>1. list[i].id \in Ids(list)
            BY DEF Ids
          <5> QED BY <1>2, <3>1, <3>3, <5>1
        <4>3. concerned = {}
          BY <4>2 DEF Concerns
        <4> QED BY <1>3, <4>1, <4>3
      <3>4. CASE p.id \in 0..top
        <4>1. frame' = "callback" /\ todo' = filter_handlers_by_cb_id(list, p.id)
          BY <3>1, <3>2, <3>4
        <4>2. list \in Seq(ToSet(list))
          BY <1>1, DispatchAssumption DEF Program
        <4>3. Ascending(todo') /\ ToSet(todo') = {i \in DOMAIN list : list[i].id = p.id}
          BY <4>1, <4>2, TableEntry
        <4>4. concerned \subseteq ToSet(todo')
          BY <4>3 DEF Concerns
        <4> QED BY <4>1, <4>3, <4>4
      <3> QED BY <3>3, <3>4
    <2> QED BY <2>1, <2>2
  <1> HIDE DEF concerned
  <1>6. Remaining'
    <2>1. Ascending(ran') /\ ToSet(ran') = {}
      BY <1>1, <1>3
    <2> QED BY <1>1, <1>4, <1>5, <2>1 DEF Remaining
  <1>7. RightHandlersRan'
    BY <1>5 DEF RightHandlersRan
  <1> QED BY <1>1, <1>5, <1>6, <1>7 DEF CallbackInv

\* A handler that passes has run after those before it.
LEMMA RunsNext ==
    ASSUME CallbackInv, CbHandlerRuns
    PROVE  CallbackInv'
  <1> DEFINE h == Head(todo)
             concerned == Concerned(input)
  <1>1. /\ Remaining /\ frame' = "callback" /\ todo # <<>> /\ todo' = Tail(todo)
        /\ ran' = Append(ran, h) /\ program' = program /\ input' = input
        /\ Passes(program.callbacks[h], input) /\ program \in Programs
    BY DEF CallbackInv, CbHandlerRuns
  <1>2. /\ Ascending(todo') /\ ToSet(todo') = ToSet(todo) \ {h}
        /\ h \in ToSet(todo) /\ h \in Nat
    BY <1>1, TailAscending DEF Remaining
  <1>3. \A y \in ToSet(todo') : h < y
    BY <1>1, TailAscending DEF Remaining
  <1>4. \A y \in ToSet(ran) : y < h
    BY <1>2, <1>1 DEF Remaining
  <1>5. Ascending(ran') /\ ToSet(ran') = ToSet(ran) \cup {h}
    BY <1>1, <1>2, <1>4, AppendAscending DEF Remaining
  <1>6. Concerned(input)' = concerned
    BY <1>1 DEF Concerned
  <1>7. h \in concerned
    <2>1. h \in DOMAIN program.callbacks /\ program.callbacks[h].id = input.id
      BY <1>1, <1>2 DEF Remaining
    <2>2. Concerns(program.callbacks[h], input)
      BY <1>1, <2>1, PassesIsConcerns
    <2> QED BY <2>1, <2>2 DEF Concerned
  <1>8. ToSet(ran) \cup (ToSet(todo) \cap concerned) = concerned
    BY <1>1 DEF Remaining
  <1> HIDE DEF h, concerned
  <1>9. ran' # <<>>
    BY <1>1, <1>2, <1>5 DEF ToSet
  <1>10. \A i \in ToSet(ran'), j \in ToSet(todo') : i < j
    BY <1>1, <1>2, <1>3, <1>5 DEF Remaining
  <1>11. \A j \in ToSet(todo') : j \in DOMAIN program'.callbacks /\ program'.callbacks[j].id = input'.id
    BY <1>1, <1>2 DEF Remaining
  <1>12. ToSet(ran') \cup (ToSet(todo') \cap concerned) = concerned
    BY <1>2, <1>5, <1>7, <1>8
  <1>13. input' \in Params
    BY <1>1 DEF Remaining
  <1>14. Remaining'
    BY <1>2, <1>5, <1>6, <1>9, <1>10, <1>11, <1>12, <1>13 DEF Remaining
  <1>15. RightHandlersRan'
    BY <1>1 DEF RightHandlersRan
  <1> QED BY <1>1, <1>14, <1>15 DEF CallbackInv

\* One that does not pass is not concerned.
LEMMA SkipsNext ==
    ASSUME CallbackInv, CbHandlerIsSkipped
    PROVE  CallbackInv'
  <1> DEFINE h == Head(todo)
             concerned == Concerned(input)
  <1>1. /\ Remaining /\ frame' = "callback" /\ todo # <<>> /\ todo' = Tail(todo)
        /\ ran' = ran /\ status' = status /\ program' = program /\ input' = input
        /\ ~ Passes(program.callbacks[h], input) /\ program \in Programs
    BY DEF CallbackInv, CbHandlerIsSkipped
  <1>2. /\ Ascending(todo') /\ ToSet(todo') = ToSet(todo) \ {h}
        /\ h \in ToSet(todo)
    BY <1>1, TailAscending DEF Remaining
  <1>3. Concerned(input)' = concerned
    BY <1>1 DEF Concerned
  <1>4. h \notin concerned
    <2>1. program.callbacks[h].id = input.id
      BY <1>1, <1>2 DEF Remaining
    <2>2. ~ Concerns(program.callbacks[h], input)
      BY <1>1, <2>1, PassesIsConcerns
    <2> QED BY <2>2 DEF Concerned
  <1>5. ToSet(ran) \cup (ToSet(todo) \cap concerned) = concerned
    BY <1>1 DEF Remaining
  <1> HIDE DEF h, concerned
  <1>6. \A j \in ToSet(todo') : j \in DOMAIN program'.callbacks /\ program'.callbacks[j].id = input'.id
    BY <1>1, <1>2 DEF Remaining
  <1>7. ToSet(ran') \cup (ToSet(todo') \cap concerned) = concerned
    BY <1>1, <1>2, <1>4, <1>5
  <1>8. Remaining'
    BY <1>1, <1>2, <1>3, <1>6, <1>7 DEF Remaining
  <1>9. RightHandlersRan'
    BY <1>1 DEF RightHandlersRan
  <1> QED BY <1>1, <1>8, <1>9 DEF CallbackInv

\* All have been looked at: those that ran are those concerned.
LEMMA EndsWithDefault ==
    ASSUME CallbackInv, DeviceCbEnds
    PROVE  CallbackInv'
  <1> DEFINE concerned == Concerned(input)
             handlers == 1..(IF program.default THEN Len(ran') - 1 ELSE Len(ran'))
  <1>1. /\ Remaining /\ frame' = "idle" /\ todo = <<>>
        /\ program' = program /\ input' = input /\ program \in Programs
        /\ \/ program.default /\ ran' = Append(ran, 0)
           \/ ~program.default /\ ran' = ran /\ status' = status
    BY DEF CallbackInv, DeviceCbEnds, DEFAULT
  <1>2. Concerned(input)' = concerned
    BY <1>1 DEF Concerned
  <1>3. ToSet(<<>>) = {}
    BY DEF ToSet
  <1>4. ran \in Seq(Nat) /\ ToSet(ran) = concerned
    BY <1>1, <1>3 DEF Remaining, Ascending
  <1>5. \A i, j \in 1..Len(ran) : i < j => ran[i] < ran[j]
    BY <1>1 DEF Remaining, Ascending
  <1>6. handlers = 1..Len(ran) /\ \A i \in 1..Len(ran) : ran'[i] = ran[i]
    BY <1>1, <1>4
  <1>7. program.default => ran' # <<>> /\ ran'[Len(ran')] = 0
    BY <1>1, <1>4
  <1>8. ran' = <<>> => status' = "ok"
    BY <1>1, <1>7 DEF Remaining
  <1>9. {ran[i] : i \in 1..Len(ran)} = ToSet(ran)
    BY <1>4 DEF ToSet
  <1> HIDE DEF handlers
  <1>10. {ran'[i] : i \in handlers} = concerned
    BY <1>4, <1>6, <1>9
  <1>11. \A i, j \in handlers : i < j => ran'[i] < ran'[j]
    BY <1>5, <1>6
  <1>12. RightHandlersRan'
    BY <1>1, <1>2, <1>7, <1>8, <1>10, <1>11 DEF RightHandlersRan, DEFAULT, handlers
  <1> QED BY <1>1, <1>12 DEF CallbackInv

LEMMA InitCallback == Init => CallbackInv
  BY NoParameter DEF Init, CallbackInv, Nothing, RightHandlersRan

\* The application does not change, so that its table starts at 0 or does not.
LEMMA StepCallback == CallbackInv /\ StartsAtZero(program) /\ [Next]_vars => CallbackInv'
  <1> SUFFICES ASSUME CallbackInv, StartsAtZero(program), [Next]_vars PROVE CallbackInv'
    OBVIOUS
  <1>1. ASSUME NEW p \in Params, DeviceCb(p) PROVE CallbackInv'
    BY <1>1, BeginsWithAll
  <1>2. CASE DeviceCbWithoutParam
    BY <1>2, NoParameter DEF DeviceCbWithoutParam, Nothing, CallbackInv, RightHandlersRan
  <1>3. CASE CbHandlerRuns
    BY <1>3, RunsNext
  <1>4. CASE CbHandlerIsSkipped
    BY <1>4, SkipsNext
  <1>5. CASE DeviceCbEnds
    BY <1>5, EndsWithDefault
  <1>6. ASSUME NEW s \in SignalIds, Signal(s) PROVE CallbackInv'
    BY <1>6, NoParameter DEF Signal, CallbackInv, RightHandlersRan
  <1>7. CASE InitEp \/ NoSignalHandler \/ DefaultSignalHandler \/ SignalReturns
    BY <1>7 DEF InitEp, NoSignalHandler, DefaultSignalHandler, SignalReturns,
                CallbackInv, RightHandlersRan
  <1>8. CASE SignalHandlerRuns
    <2>1. frame = "signal" /\ frame' \in {"default", "returning"} /\ UNCHANGED <<program, input>>
      BY <1>8 DEF SignalHandlerRuns, Answered
    <2> QED BY <2>1 DEF CallbackInv, RightHandlersRan
  <1>9. CASE UNCHANGED vars
    <2>1. Remaining => Remaining'
      BY <1>9 DEF vars, Remaining, Concerned
    <2>2. RightHandlersRan => RightHandlersRan'
      BY <1>9 DEF vars, RightHandlersRan, Concerned
    <2> QED BY <1>9, <2>1, <2>2 DEF vars, CallbackInv
  <1> QED BY <1>1, <1>2, <1>3, <1>4, <1>5, <1>6, <1>7, <1>8, <1>9 DEF Next

LEMMA ProgramIsFixed == [Next]_vars => program' = program
  BY DEF Next, vars, DeviceCb, DeviceCbWithoutParam, CbHandlerRuns, CbHandlerIsSkipped,
         DeviceCbEnds, Signal, InitEp, SignalHandlerRuns, NoSignalHandler,
         DefaultSignalHandler, SignalReturns

-----------------------------------------------------------------------------
LEMMA InitInv == Init => InitOnce /\ BufferInv
  <1> SUFFICES ASSUME Init PROVE InitOnce /\ BufferInv
    OBVIOUS
  <1>1. IsInjective(<<>>) /\ ToSet(<<>>) = {}
    BY DEF IsInjective, ToSet
  <1>2. BufferInv
    BY DEF Init, BufferInv
  <1>3. <<>> \in Seq(Nat) /\ DOMAIN fills = ToSet(program.eps)
    BY DEF Init
  <1>4. \A e \in DOMAIN fills : fills[e] = 0
    BY DEF Init
  <1>5. InitOnce
    BY <1>1, <1>3, <1>4 DEF Init, InitOnce
  <1> QED BY <1>2, <1>5

LEMMA StepInit == InitOnce /\ [Next]_vars => InitOnce'
  <1> SUFFICES ASSUME InitOnce, [Next]_vars PROVE InitOnce'
    OBVIOUS
  <1>0. IsInjective(<<>>) /\ ToSet(<<>>) = {} /\ <<>> \in Seq(Nat)
    BY DEF IsInjective, ToSet
  <1>1. ASSUME NEW p \in Params, DeviceCb(p) PROVE InitOnce'
    BY <1>1 DEF DeviceCb, InitOnce
  <1>2. CASE DeviceCbWithoutParam
    BY <1>2 DEF DeviceCbWithoutParam, InitOnce
  <1>3. CASE CbHandlerRuns
    BY <1>3 DEF CbHandlerRuns, InitOnce
  <1>4. CASE CbHandlerIsSkipped
    BY <1>4 DEF CbHandlerIsSkipped, InitOnce
  <1>5. CASE DeviceCbEnds
    BY <1>5 DEF DeviceCbEnds, InitOnce
  <1>6. ASSUME NEW s \in SignalIds, Signal(s) PROVE InitOnce'
    <2>1. program.eps \in Seq(Nat) /\ IsInjective(program.eps)
      BY DispatchAssumption DEF InitOnce, Program
    <2>2. CASE ctx_initialized
      BY <1>0, <1>6, <2>2 DEF Signal, Remembers, InitOnce
    <2>3. CASE ~ctx_initialized
      BY <1>6, <2>1, <2>3 DEF Signal, Remembers, InitOnce
    <2> QED BY <2>2, <2>3
  <1>7. CASE InitEp
    <2>1. /\ toInit \in Seq(Nat) /\ toInit # <<>> /\ IsInjective(toInit) /\ ctx_initialized
          /\ fills[Head(toInit)] = 0
      BY <1>7, TailOfInjective DEF InitEp, InitOnce
    <2>2. /\ Tail(toInit) \in Seq(Nat) /\ IsInjective(Tail(toInit))
          /\ ToSet(Tail(toInit)) = ToSet(toInit) \ {Head(toInit)}
      BY <2>1, TailOfInjective
    <2>3. fills' = [fills EXCEPT ![Head(toInit)] = 1]
      BY <1>7, <2>1 DEF InitEp
    <2> QED BY <1>7, <2>1, <2>2, <2>3 DEF InitEp, InitOnce
  <1>8. CASE SignalHandlerRuns
    BY <1>8 DEF SignalHandlerRuns, Answered, InitOnce
  <1>9. CASE NoSignalHandler
    BY <1>9 DEF NoSignalHandler, InitOnce
  <1>10. CASE DefaultSignalHandler
    BY <1>10 DEF DefaultSignalHandler, InitOnce
  <1>11. CASE SignalReturns
    BY <1>11 DEF SignalReturns, InitOnce
  <1>12. CASE UNCHANGED vars
    BY <1>12 DEF vars, InitOnce
  <1> QED BY <1>1, <1>2, <1>3, <1>4, <1>5, <1>6, <1>7, <1>8, <1>9, <1>10, <1>11, <1>12 DEF Next

LEMMA StepBuffer == BufferInv /\ [Next]_vars => BufferInv'
  <1> SUFFICES ASSUME BufferInv, [Next]_vars PROVE BufferInv'
    OBVIOUS
  <1>1. ASSUME NEW p \in Params, DeviceCb(p) PROVE BufferInv'
    BY <1>1 DEF DeviceCb, BufferInv
  <1>2. CASE DeviceCbWithoutParam \/ CbHandlerRuns \/ CbHandlerIsSkipped \/ InitEp
    BY <1>2 DEF DeviceCbWithoutParam, CbHandlerRuns, CbHandlerIsSkipped, InitEp, BufferInv
  <1>3. CASE DeviceCbEnds
    <2>1. frame = "callback" /\ frame' = "idle" /\ UNCHANGED <<mine, misused>>
      BY <1>3 DEF DeviceCbEnds
    <2> QED BY <2>1 DEF BufferInv
  <1>4. ASSUME NEW s \in SignalIds, Signal(s) PROVE BufferInv'
    BY <1>4 DEF Signal, BufferInv
  <1>5. CASE SignalHandlerRuns
    <2>1. frame = "signal" /\ frame' \in {"default", "returning"} /\ UNCHANGED <<mine, misused>>
      BY <1>5 DEF SignalHandlerRuns, Answered
    <2> QED BY <2>1 DEF BufferInv
  <1>6. CASE NoSignalHandler
    BY <1>6 DEF NoSignalHandler, BufferInv
  <1>7. CASE DefaultSignalHandler
    BY <1>7 DEF DefaultSignalHandler, BufferInv
  <1>8. CASE SignalReturns
    BY <1>8 DEF SignalReturns, BufferInv
  <1>9. CASE UNCHANGED vars
    BY <1>9 DEF vars, BufferInv
  <1> QED BY <1>1, <1>2, <1>3, <1>4, <1>5, <1>6, <1>7, <1>8, <1>9 DEF Next

-----------------------------------------------------------------------------
\* Every endpoint has been initialised, once, when a handler of a signal or of
\* a device callback, a default handler or the error handler runs.
THEOREM ApplicationIsReady == Spec => []ReadyForUserCode
  <1>1. InitOnce => ReadyForUserCode
    <2> SUFFICES ASSUME InitOnce, ran # <<>>, NEW e \in DOMAIN fills PROVE fills[e] = 1
      BY DEF ReadyForUserCode
    <2>1. ToSet(<<>>) = {}
      BY DEF ToSet
    <2> QED BY <2>1 DEF InitOnce
  <1> QED BY <1>1, InitInv, StepInit, PTL DEF Spec

\* The buffer of a signal is used only while it is the library's, and freed
\* exactly once, whether the default handler runs or not.
THEOREM SignalBufferIsFreed == Spec => []SignalBufferFreedOnce
  <1>1. BufferInv => SignalBufferFreedOnce
    BY DEF BufferInv, SignalBufferFreedOnce
  <1> QED BY <1>1, InitInv, StepBuffer, PTL DEF Spec

\* In an application whose table starts with the id 0, or is empty, a device
\* callback runs exactly the handlers declared for it, in their order, and then
\* the default handler.
THEOREM CallbacksReachTheirHandlers == Spec => [](StartsAtZero(program) => RightHandlersRan)
  <1> DEFINE Inv == StartsAtZero(program) => CallbackInv
  <1>1. Init => Inv
    BY InitCallback
  <1>2. Inv /\ [Next]_vars => Inv'
    <2> SUFFICES ASSUME Inv, [Next]_vars, StartsAtZero(program)' PROVE CallbackInv'
      OBVIOUS
    <2>1. StartsAtZero(program)
      BY ProgramIsFixed
    <2> QED BY <2>1, StepCallback
  <1>3. Inv => (StartsAtZero(program) => RightHandlersRan)
    BY DEF CallbackInv
  <1> HIDE DEF Inv
  <1> QED BY <1>1, <1>2, <1>3, PTL DEF Spec
=============================================================================
